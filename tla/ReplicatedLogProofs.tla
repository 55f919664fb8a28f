------------------------- MODULE ReplicatedLogProofs -------------------------
(***************************************************************************)
(* The promises of module ReplicatedLog, for any servers and commands: all *)
(* servers know prefixes of one log, and nobody unlearns or relearns what  *)
(* it once considered committed.                                           *)
(***************************************************************************)
EXTENDS ReplicatedLog, TLAPS

LogInv == /\ log \in Seq(Command)
          /\ known \in [Server -> Seq(Command)]
          /\ PrefixesOfOneLog

\* What precedes a cut of a sequence is a prefix of every longer cut.
LEMMA CutIsPrefix ==
    ASSUME NEW s \in Seq(Command), NEW m \in 0 .. Len(s), NEW n \in m .. Len(s)
    PROVE  /\ SubSeq(s, 1, n) \in Seq(Command) /\ Len(SubSeq(s, 1, n)) = n
           /\ IsPrefix(SubSeq(s, 1, m), SubSeq(s, 1, n))
           /\ IsPrefix(SubSeq(s, 1, n), s)
<1>1. /\ SubSeq(s, 1, n) \in Seq(Command) /\ Len(SubSeq(s, 1, n)) = n
      /\ SubSeq(s, 1, m) \in Seq(Command) /\ Len(SubSeq(s, 1, m)) = m
      /\ SubSeq(SubSeq(s, 1, n), 1, m) = SubSeq(s, 1, m)
      /\ SubSeq(SubSeq(s, 1, m), 1, m) = SubSeq(s, 1, m)
      /\ SubSeq(SubSeq(s, 1, n), 1, n) = SubSeq(s, 1, n)
  OBVIOUS
<1> QED
  BY <1>1 DEF IsPrefix

\* A prefix is a prefix of every extension.
LEMMA PrefixOfExtension ==
    ASSUME NEW s \in Seq(Command), NEW t \in Seq(Command), NEW u \in Seq(Command),
           IsPrefix(s, t)
    PROVE  IsPrefix(s, t \o u)
<1>1. /\ t \o u \in Seq(Command) /\ Len(t \o u) = Len(t) + Len(u)
      /\ Len(s) <= Len(t) /\ SubSeq(s, 1, Len(s)) = SubSeq(t, 1, Len(s))
  BY DEF IsPrefix
<1>2. SubSeq(t \o u, 1, Len(s)) = SubSeq(t, 1, Len(s))
  BY <1>1
<1> QED
  BY <1>1, <1>2 DEF IsPrefix

\* A cut to a prefix's own length is that prefix.
LEMMA PrefixIsCut ==
    ASSUME NEW s \in Seq(Command), NEW t \in Seq(Command), IsPrefix(s, t)
    PROVE  s = SubSeq(t, 1, Len(s)) /\ Len(s) \in 0 .. Len(t)
<1>1. s = SubSeq(s, 1, Len(s))
  OBVIOUS
<1> QED
  BY <1>1 DEF IsPrefix

LEMMA PrefixOfItself ==
    ASSUME NEW s \in Seq(Command)
    PROVE  IsPrefix(s, s)
  BY DEF IsPrefix

LEMMA LearnKeeps ==
    ASSUME LogInv, NEW i \in Server, NEW n, Learn(i, n)
    PROVE  LogInv' /\ \A j \in Server : IsPrefix(known[j], known'[j])
<1>1. /\ known[i] \in Seq(Command) /\ IsPrefix(known[i], log)
      /\ n \in Len(known[i]) + 1 .. Len(log) /\ log' = log
      /\ known' = [known EXCEPT ![i] = SubSeq(log, 1, n)]
  BY DEF Learn, LogInv, PrefixesOfOneLog
<1>2. known[i] = SubSeq(log, 1, Len(known[i])) /\ Len(known[i]) \in 0 .. Len(log)
  BY <1>1, PrefixIsCut DEF LogInv
<1>3. /\ SubSeq(log, 1, n) \in Seq(Command)
      /\ IsPrefix(known[i], SubSeq(log, 1, n))
      /\ IsPrefix(SubSeq(log, 1, n), log)
  <2>1. n \in Len(known[i]) .. Len(log)
    BY <1>1, <1>2
  <2> QED
    BY <1>2, <2>1, CutIsPrefix DEF LogInv
<1>4. \A j \in Server : j # i => known'[j] = known[j] /\ IsPrefix(known[j], known[j])
  BY <1>1, PrefixOfItself DEF LogInv
<1>5. known' \in [Server -> Seq(Command)] /\ known'[i] = SubSeq(log, 1, n)
  BY <1>1, <1>3 DEF LogInv
<1> QED
  BY <1>1, <1>3, <1>4, <1>5 DEF LogInv, PrefixesOfOneLog

LEMMA AgreeKeeps ==
    ASSUME LogInv, NEW i \in Server, NEW commands \in Seq(Command),
           Agree(i, commands)
    PROVE  LogInv' /\ \A j \in Server : IsPrefix(known[j], known'[j])
<1>1. /\ log' = log \o commands /\ log' \in Seq(Command)
      /\ known' = [known EXCEPT ![i] = log']
  BY DEF Agree, LogInv
<1>2. \A j \in Server : known[j] \in Seq(Command) /\ IsPrefix(known[j], log')
  BY <1>1, PrefixOfExtension DEF LogInv, PrefixesOfOneLog
<1>3. \A j \in Server : known'[j] = known[j] \/ known'[j] = log'
  BY <1>1 DEF LogInv
<1>4. \A j \in Server : IsPrefix(known[j], known[j]) /\ IsPrefix(log', log')
  BY <1>1, <1>2, PrefixOfItself
<1>5. known' \in [Server -> Seq(Command)]
  BY <1>1 DEF LogInv
<1> QED
  BY <1>1, <1>2, <1>3, <1>4, <1>5 DEF LogInv, PrefixesOfOneLog

LEMMA NextKeeps ==
    ASSUME LogInv, Next
    PROVE  LogInv' /\ \A j \in Server : IsPrefix(known[j], known'[j])
<1>1. CASE \E i \in Server, n \in 1 .. MaxLog : Learn(i, n)
  BY <1>1, LearnKeeps
<1>2. ASSUME NEW i \in Server, NEW k \in 1 .. MaxLog - Len(log),
             NEW commands \in [1 .. k -> Command], Agree(i, commands)
      PROVE  LogInv' /\ \A j \in Server : IsPrefix(known[j], known'[j])
  <2>1. commands \in Seq(Command)
    BY <1>2
  <2> QED
    BY <1>2, <2>1, AgreeKeeps
<1> QED
  BY <1>1, <1>2 DEF Next

LEMMA LogInvariant == Spec => []LogInv
<1>1. Init => LogInv
  BY DEF Init, LogInv, PrefixesOfOneLog, IsPrefix
<1>2. LogInv /\ [Next]_vars => LogInv'
  <2>1. CASE Next
    BY <2>1, NextKeeps
  <2>2. CASE UNCHANGED vars
    BY <2>2 DEF vars, LogInv, PrefixesOfOneLog
  <2> QED
    BY <2>1, <2>2
<1> QED
  BY <1>1, <1>2, PTL DEF Spec

\* All servers consider prefixes of one log committed, so any two agree on the
\* shorter one.
THEOREM OneLog == Spec => []PrefixesOfOneLog
<1>1. LogInv => PrefixesOfOneLog
  BY DEF LogInv
<1> QED
  BY <1>1, LogInvariant, PTL

\* What a server considers committed only grows at its end.
THEOREM KnowledgeGrows ==
    Spec => [][\A i \in Server : IsPrefix(known[i], known'[i])]_vars
<1>1. LogInv /\ [Next]_vars
        => [\A i \in Server : IsPrefix(known[i], known'[i])]_vars
  BY NextKeeps
<1> QED
  BY <1>1, LogInvariant, PTL DEF Spec
=============================================================================
