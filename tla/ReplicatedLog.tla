--------------------------- MODULE ReplicatedLog ---------------------------
(***************************************************************************)
(* What a cluster with one lasting leader promises about commands: one     *)
(* log of committed commands, which only grows, and of which every server  *)
(* knows a prefix that only grows.  Nothing here says how commands are     *)
(* replicated, who leads or who crashes.                                   *)
(***************************************************************************)
EXTENDS Integers, Sequences, SequencesExt

CONSTANTS
    Server,
    Command,
    MaxLog        \* bound: the length of the log

VARIABLES
    log,          \* the committed commands, in order
    known         \* known[i]: the commands that server i considers committed

vars == <<log, known>>

Init ==
    /\ log = <<>>
    /\ known = [i \in Server |-> <<>>]

\* A server commits further commands, beyond all that were committed so far.
Agree(i, commands) ==
    /\ log' = log \o commands
    /\ known' = [known EXCEPT ![i] = log']

\* A server learns more of what is committed.
Learn(i, n) ==
    /\ n \in Len(known[i]) + 1 .. Len(log)
    /\ known' = [known EXCEPT ![i] = SubSeq(log, 1, n)]
    /\ UNCHANGED log

Next ==
    \/ \E i \in Server, n \in 1 .. MaxLog : Learn(i, n)
    \/ \E i \in Server, k \in 1 .. MaxLog - Len(log) :
          \E commands \in [1 .. k -> Command] : Agree(i, commands)

Spec == Init /\ [][Next]_vars

\* Proved of this specification: everybody knows a prefix of one log.
PrefixesOfOneLog == \A i \in Server : IsPrefix(known[i], log)
=============================================================================
