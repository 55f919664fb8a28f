------------------------- MODULE FixedLeaderProofs -------------------------
(***************************************************************************)
(* What a cluster of any size does as long as nobody starts an election:   *)
(* the node that was started with --leader, if there is one, leads in the  *)
(* initial term, every node may die and be started again, and connections  *)
(* may break.  Everything the logs promise holds then, for one reason: the *)
(* leader has every entry that is anywhere, on disk, and loses none.       *)
(***************************************************************************)
EXTENDS Clients, LogProofs

\* Nobody's election timer runs out.
NoElection == [][\A i \in Server : ~StartElection(i)]_vars

FixedStep(i) == AnyStep(i) /\ ~StartElection(i)

\* The behaviours of the runs that set the bound of the terms to 0.
LEMMA NoTermNoElection ==
    ASSUME MaxTerm = 0
    PROVE  RestartSpec => NoElection
<1>1. TypeOK => [\A i \in Server : ~StartElection(i)]_vars
  <2> SUFFICES ASSUME TypeOK, NEW i \in Server, StartElection(i) PROVE FALSE
    OBVIOUS
  <2>1. currentTerm[i] \in 0 .. 0 /\ currentTerm[i] < 0
    BY DEF StartElection, TypeOK, Terms
  <2> QED
    BY <2>1
<1> QED
  BY TypeCorrect, <1>1, PTL DEF NoElection

-----------------------------------------------------------------------------
(* One leader *)

OneLeader ==
    /\ \A i \in Server : currentTerm[i] = 0 /\ call[i].op # "votes"
    /\ \A j \in Server : \A n \in 1 .. Len(backlog[j]) :
          backlog[j][n].request.type = "AppendEntries"
    /\ \A l \in leaders : l[1] = 0 /\ l[2] \in Flagged

LEMMA HeadOfBacklog ==
    ASSUME CoreInv, NEW j \in Server, backlog[j] # <<>>
    PROVE  /\ 1 \in 1 .. Len(backlog[j])
           /\ Head(backlog[j]) = backlog[j][1]
           /\ Request(j) = backlog[j][1].request
           /\ backlog[j][1] \in Connection
<1>1. backlog[j] \in Seq(Connection)
  BY DEF CoreInv, TypeOK
<1> QED
  BY <1>1, TailOfBacklog, ConnectionAt DEF Request

\* A request comes from the leader, and not from the node that gets it.
LEMMA RequestOfLeader ==
    ASSUME CoreInv, LeadershipInv, OneLeader,
           NEW j \in Server, NEW n \in 1 .. Len(backlog[j])
    PROVE  /\ backlog[j][n].request.type = "AppendEntries"
           /\ backlog[j][n].request.term = 0
           /\ backlog[j][n].request.leaderId \in Flagged
           /\ j \notin Flagged
<1> DEFINE m == backlog[j][n].request
<1>1. m.type = "AppendEntries"
  BY DEF OneLeader
<1>2. <<m.term, m.leaderId>> \in leaders /\ m.leaderId # j
  BY <1>1 DEF LeadershipInv, RequestsOfLeaders, IsOfLeader
<1> HIDE DEF m
<1>3. <<m.term, m.leaderId>>[1] = 0 /\ <<m.term, m.leaderId>>[2] \in Flagged
  BY <1>2 DEF OneLeader
<1>4. j \notin Flagged
  BY <1>2, <1>3, FlaggedAssumption
<1> QED
  BY <1>1, <1>3, <1>4 DEF m

LEMMA OnlyFlaggedLead ==
    ASSUME LeadershipInv, OneLeader, NEW i \in Server,
           state[i] = "Leader" \/ call[i].op \in Leading
    PROVE  i \in Flagged
<1>1. <<currentTerm[i], i>> \in leaders
  BY DEF LeadershipInv, LeadersInOffice
<1>2. <<currentTerm[i], i>>[2] \in Flagged
  BY <1>1 DEF OneLeader
<1> QED
  BY <1>2

LEMMA OneLeaderKept ==
    ASSUME CoreInv, LeadershipInv, OneLeader, NEW i \in Server, FixedStep(i)
    PROVE  OneLeader'
<1>1. AnyStep(i) /\ ~StartElection(i)
  BY DEF FixedStep
<1>2. ASSUME NEW p \in Server
      PROVE  currentTerm'[p] = 0 /\ call'[p].op # "votes"
  <2>1. OfficeEffect(i, p)
    BY <1>1, OfficesTraced
  <2>2. call'[p].op # "votes"
    BY <1>1, <2>1 DEF OfficeEffect, OneLeader
  <2>3. CASE currentTerm'[p] = currentTerm[p]
    BY <2>2, <2>3 DEF OneLeader
  <2>4. CASE backlog[i] # <<>> /\ currentTerm'[p] = Request(i).term
    BY <2>2, <2>4, HeadOfBacklog, RequestOfLeader
  <2> QED
    BY <1>1, <2>1, <2>3, <2>4 DEF OfficeEffect, Accepts
<1>3. ASSUME NEW m \in Server, NEW n \in 1 .. Len(backlog'[m])
      PROVE  backlog'[m][n].request.type = "AppendEntries"
  <2>1. CASE WasThere(backlog'[m][n], m)
    BY <2>1 DEF WasThere, IsLeftOf, OneLeader
  <2>2. CASE Opens(i, m, backlog'[m][n])
    <3>1. backlog'[m][n].request = RequestOf(i) /\ call[i].op \in Leading
      BY <2>2, RequestSent DEF Opens, OneLeader, Rounds, Leading
    <3>2. PICK entries : RequestOf(i) = AppendEntriesTo(i, Callee(i), entries)
      BY <2>2, <3>1, RequestSent DEF Opens, Leading
    <3> QED
      BY <3>1, <3>2 DEF AppendEntriesTo
  <2> QED
    BY <1>1, <2>1, <2>2, ConnectionsTraced
<1>4. ASSUME NEW l \in leaders'
      PROVE  l[1] = 0 /\ l[2] \in Flagged
  <2>1. CASE l \in leaders
    BY <2>1 DEF OneLeader
  <2>2. CASE l \notin leaders
    <3>1. l = <<currentTerm'[i], i>> /\ (i \in Flagged \/ call[i].op = "votes")
      BY <1>1, <2>2, OfficesTraced DEF LeadersEffect
    <3> QED
      BY <1>2, <3>1 DEF OneLeader
  <2> QED
    BY <2>1, <2>2
<1> QED
  BY <1>2, <1>3, <1>4 DEF OneLeader

-----------------------------------------------------------------------------
(* One log *)

\* The leader has the entry on disk.
LeaderHas(n, c) == \E l \in Flagged : HasEntry(store[l].disk, n, 0, c)

OneLog == \A n, t, c : Copied(n, t, c) => t = 0 /\ LeaderHas(n, c)

LEMMA LeaderWrites ==
    ASSUME CoreInv, LeadershipInv, OneLeader, NEW i \in Server, FixedStep(i),
           NEW l \in Flagged
    PROVE  \/ LogUndisturbed(l)
           \/ l = i /\ \E command \in Command : ClientAppend(i, command)
           \/ l = i /\ Commits(i)
<1>1. AnyStep(i) /\ l \in Server
  BY FlaggedAssumption DEF FixedStep
<1>2. l # i => LogUndisturbed(l)
  BY <1>1, StoresTraced DEF LogUndisturbed
<1>3. l = i => ~TakesEntries(i)
  <2>1. TakesEntries(i) => backlog[i] # <<>>
    BY DEF TakesEntries, Accepts
  <2> QED
    BY <2>1, HeadOfBacklog, RequestOfLeader
<1> QED
  BY <1>1, <1>2, <1>3, StoresTraced

LEMMA LeaderKeepsDisk ==
    ASSUME CoreInv, LeadershipInv, OneLeader, NEW i \in Server, FixedStep(i),
           NEW l \in Flagged, NEW n, NEW t, NEW c, HasEntry(store[l].disk, n, t, c)
    PROVE  HasEntry(store'[l].disk, n, t, c)
<1>1. CASE LogUndisturbed(l)
  BY <1>1 DEF LogUndisturbed
<1>2. CASE l = i /\ \E command \in Command : ClientAppend(i, command)
  BY <1>2, ClientAppendEffect
<1>3. CASE l = i /\ Commits(i)
  BY <1>3, CommitsEffect
<1> QED
  BY <1>1, <1>2, <1>3, LeaderWrites

LEMMA OneLogKept ==
    ASSUME CoreInv, LeadershipInv, OneLeader, OneLog, NEW i \in Server, FixedStep(i)
    PROVE  OneLog'
<1> SUFFICES ASSUME NEW n, NEW t, NEW c, Copied(n, t, c)'
             PROVE  t = 0 /\ \E l \in Flagged : HasEntry(store'[l].disk, n, 0, c)
  BY DEF OneLog, LeaderHas, HasEntry
<1>1. Copied(n, t, c) \/ NewCopy(i, n, t, c)
  BY CopiesTraced DEF FixedStep
<1>2. CASE Copied(n, t, c)
  BY <1>2, LeaderKeepsDisk DEF OneLog, LeaderHas
<1>3. CASE NewCopy(i, n, t, c)
  <2>1. i \in Flagged /\ t = currentTerm[i]
    BY <1>3, OnlyFlaggedLead DEF NewCopy, ClientAppend
  <2>2. t = 0
    BY <2>1 DEF OneLeader
  <2>3. HasEntry(store'[i].disk, n, t, c)
    BY <1>3, ClientAppendEffect DEF NewCopy
  <2> QED
    BY <2>1, <2>2, <2>3
<1> QED
  BY <1>1, <1>2, <1>3

\* Two copies of an entry at one index are the same.
LEMMA SameCopies ==
    ASSUME OneLog, NEW n, NEW t1, NEW c1, NEW t2, NEW c2,
           Copied(n, t1, c1), Copied(n, t2, c2)
    PROVE  t1 = t2 /\ c1 = c2
<1>1. /\ t1 = 0 /\ LeaderHas(n, c1)
      /\ t2 = 0 /\ LeaderHas(n, c2)
  BY DEF OneLog
<1> QED
  BY <1>1, FlaggedAssumption DEF LeaderHas, HasEntry

LEMMA StoredIsCopied ==
    ASSUME NEW p \in Server
    PROVE  /\ \A n \in DOMAIN store[p].entries :
                 Copied(n, store[p].entries[n].term, store[p].entries[n].command)
           /\ \A n \in DOMAIN store[p].disk :
                 Copied(n, store[p].disk[n].term, store[p].disk[n].command)
BY DEF Copied, InStore, HasEntry

LEMMA LogEnds ==
    ASSUME CoreInv, NEW p \in Server
    PROVE  /\ store[p].lastLogIndex \in Nat /\ store[p].commitIndex \in Nat
           /\ store[p].lastLogIndex \in Indices
           /\ DOMAIN store[p].entries = 1 .. store[p].lastLogIndex
           /\ DOMAIN store[p].disk = 1 .. store[p].lastLogIndex
BY BoundsAssumption DEF CoreInv, LogContiguous, TypeOK, Store, Indices

\* Nobody's log is longer than the log of the leader.
LEMMA LeaderIsAhead ==
    ASSUME CoreInv, OneLog, NEW p \in Server, NEW l \in Flagged
    PROVE  store[p].lastLogIndex <= store[l].lastLogIndex
<1> DEFINE n == store[p].lastLogIndex
<1>1. l \in Server
  BY FlaggedAssumption
<1>2. n \in Nat /\ store[l].lastLogIndex \in Nat
      /\ DOMAIN store[p].disk = 1 .. n
      /\ DOMAIN store[l].disk = 1 .. store[l].lastLogIndex
  BY <1>1, LogEnds
<1>3. CASE n = 0
  BY <1>2, <1>3
<1>4. CASE n # 0
  <2>1. n \in DOMAIN store[p].disk
    <3> HIDE DEF n
    <3>1. n \in 1 .. n
      BY <1>2, <1>4
    <3> QED
      BY <1>2, <3>1
  <2>2. LeaderHas(n, store[p].disk[n].command)
    BY <2>1, StoredIsCopied DEF OneLog
  <2>3. n \in DOMAIN store[l].disk
    BY <2>2, FlaggedAssumption DEF LeaderHas, HasEntry
  <2> HIDE DEF n
  <2>4. n <= store[l].lastLogIndex
    BY <1>2, <2>3
  <2> QED
    BY <2>4 DEF n
<1> QED
  BY <1>3, <1>4

-----------------------------------------------------------------------------
(* Logs and commit indices grow *)

CommitInLog == \A i \in Server : store[i].commitIndex <= store[i].lastLogIndex

\* A request never conflicts with the log it is accepted into, so nothing is
\* truncated.
LEMMA NothingConflicts ==
    ASSUME CoreInv, OneLog, NEW j \in Server, Accepts(j, "AppendEntries")
    PROVE  ~Conflicts(store[j], Request(j).entries)
<1> DEFINE entries == Request(j).entries
           first   == Min(DOMAIN entries)
<1> SUFFICES ASSUME Conflicts(store[j], entries) PROVE FALSE
  OBVIOUS
<1>1. /\ DOMAIN entries # {} /\ first \in DOMAIN store[j].entries
      /\ store[j].entries[first].term # entries[first].term
  BY DEF Conflicts
<1>2. PICK last \in Indices : DOMAIN entries = Request(j).prevLogIndex + 1 .. last
  BY AcceptedRequest
<1>3. /\ Request(j).prevLogIndex \in Nat /\ last \in Nat
      /\ 1 \in 1 .. Len(backlog[j]) /\ Request(j) = backlog[j][1].request
      /\ Request(j).type = "AppendEntries"
  BY AcceptedRequest, BoundsAssumption DEF Indices
<1>4. first \in DOMAIN entries
  <2> DEFINE from == Request(j).prevLogIndex + 1
  <2>1. from \in Int /\ last \in Int /\ DOMAIN entries = from .. last
    BY <1>2, <1>3
  <2> HIDE DEF from, entries
  <2>2. from <= last
    BY <1>1, <2>1
  <2>3. Min(from .. last) = from
    BY <2>1, <2>2, IntervalEnds
  <2>4. from \in from .. last
    BY <2>1, <2>2
  <2> QED
    BY <2>1, <2>3, <2>4
<1> HIDE DEF first
<1>5. Copied(first, entries[first].term, entries[first].command)
  BY <1>3, <1>4 DEF Copied, InRequest, HasEntry
<1>6. Copied(first, store[j].entries[first].term, store[j].entries[first].command)
  BY <1>1, StoredIsCopied
<1> HIDE DEF entries
<1> QED
  BY <1>1, <1>5, <1>6, SameCopies

LEMMA AcceptGrows ==
    ASSUME CoreInv, CoreInv', OneLog, NEW j \in Server, AcceptAppendEntries(j)
    PROVE  /\ store'[j].lastLogIndex >= store[j].lastLogIndex
           /\ \A n \in DOMAIN Request(j).entries : n <= store'[j].lastLogIndex
<1> DEFINE from == Request(j).prevLogIndex + 1
           ids  == DOMAIN Request(j).entries
           end  == store[j].lastLogIndex
<1>1. Accepts(j, "AppendEntries")
  BY DEF AcceptAppendEntries, ReceiveAppendEntries
<1>2. PICK last \in Indices : ids = from .. last
  BY <1>1, AcceptedRequest
<1>3. from \in Nat \ {0} /\ last \in Nat /\ end \in Nat
  BY <1>1, AcceptedRequest, LogEnds, BoundsAssumption DEF Indices
<1>4. store'[j].lastLogIndex = Max({end, Highest(ids)})
  BY <1>1, NothingConflicts, AcceptEffect
<1> HIDE DEF from, ids, end
<1>5. Highest(ids) = IF from <= last THEN last ELSE 0
  BY <1>2, <1>3, HighestOfInterval
<1>6. Highest(ids) \in Nat /\ \A n \in ids : n <= Highest(ids)
  BY <1>2, <1>3, <1>5
<1>7. store'[j].lastLogIndex = IF end >= Highest(ids) THEN end ELSE Highest(ids)
  BY <1>3, <1>4, <1>6, PairEnds
<1>8. store'[j].lastLogIndex >= end /\ \A n \in ids : n <= store'[j].lastLogIndex
  BY <1>2, <1>3, <1>6, <1>7
<1> QED
  BY <1>8 DEF ids, end

LEMMA LogsGrow ==
    ASSUME CoreInv, CoreInv', OneLog, CommitInLog,
           NEW i \in Server, FixedStep(i), NEW p \in Server
    PROVE  /\ store'[p].lastLogIndex >= store[p].lastLogIndex
           /\ store'[p].commitIndex >= store[p].commitIndex
           /\ store'[p].commitIndex <= store'[p].lastLogIndex
<1>1. /\ store[p].lastLogIndex \in Nat /\ store[p].commitIndex \in Nat
      /\ store[p].commitIndex <= store[p].lastLogIndex
  BY LogEnds DEF CommitInLog
<1>2. AnyStep(i)
  BY DEF FixedStep
<1>3. CASE LogUndisturbed(p)
  BY <1>1, <1>3 DEF LogUndisturbed
<1>4. CASE p # i
  BY <1>1, <1>2, <1>4, StoresTraced
<1>5. CASE p = i /\ TakesEntries(i)
  <2> DEFINE commit == Request(i).leaderCommit
  <2>1. Accepts(i, "AppendEntries") /\ commit \in Nat
    <3>1. Accepts(i, "AppendEntries")
      BY <1>5 DEF TakesEntries
    <3> QED
      BY <3>1, AcceptedRequest
  <2>2. store'[p].lastLogIndex >= store[p].lastLogIndex
    BY <1>5, <2>1, NothingConflicts, TakesEffect
  <2>3. store'[p].lastLogIndex \in Nat
    BY BoundsAssumption DEF CoreInv, TypeOK, Store, Indices
  <2>4. \/ store'[p].commitIndex = store[p].commitIndex
        \/ /\ commit > store[p].commitIndex
           /\ store'[p].commitIndex =
                 IF commit <= store'[p].lastLogIndex
                 THEN commit ELSE store'[p].lastLogIndex
    BY <1>5, TakesEffect
  <2> HIDE DEF commit
  <2> QED
    BY <1>1, <2>1, <2>2, <2>3, <2>4
<1>6. CASE p = i /\ \E command \in Command : ClientAppend(i, command)
  BY <1>1, <1>6, ClientAppendEffect
<1>7. CASE p = i /\ Commits(i)
  <2>1. /\ store'[i].lastLogIndex = store[i].lastLogIndex
        /\ store'[i].commitIndex \in Committable(i)
    BY <1>7, CommitsEffect
  <2>2. /\ store'[i].commitIndex <= store[i].lastLogIndex
        /\ store'[i].commitIndex \in Nat
        /\ \/ store'[i].commitIndex = store[i].lastLogIndex
           \/ store'[i].commitIndex > store[i].commitIndex
    BY <2>1, CommittableInLog, BoundsAssumption DEF Indices
  <2> QED
    BY <1>1, <1>7, <2>1, <2>2
<1> QED
  BY <1>2, <1>3, <1>4, <1>5, <1>6, <1>7, StoresTraced

-----------------------------------------------------------------------------
(* The effect of a step of i on the task of p, and on what it knows of peers *)

SameTask(p) == call'[p].op = call[p].op /\ call'[p].k = call[p].k

IsAnswered(i, p) ==
    /\ p # i /\ SameTask(p)
    /\ backlog[i] # <<>> /\ backlog[i][1].live /\ backlog[i][1].from = p
    /\ IsAwaited(backlog[i][1], i)
    /\ \/ HandleRequestVote(i)
       \/ /\ RejectAppendEntries(i)
          /\ call'[p].reply = AppendEntriesReply(i, Request(i), FALSE, 0)
       \/ /\ AcceptAppendEntries(i)
          /\ call'[p].reply =
                AppendEntriesReply(i, Request(i), TRUE, store'[i].lastLogIndex)

\* A task comes to another peer, sends, fails, is answered, or is left alone.
TaskEffect(i, p) ==
    \/ call'[p].reply = Unsent
    \/ /\ \/ call'[p].reply = Failed
          \/ p = i /\ Send(i) /\ call'[p].reply = Pending /\ SameTask(p)
          \/ IsAnswered(i, p)
          \/ call'[p] = call[p]
       /\ nextIndex'[p] = nextIndex[p]

LEMMA MovesOn ==
    ASSUME CoreInv, NEW i \in Server, NEW p \in Server, NEW c,
           call' = [call EXCEPT ![i] = c], c.reply = Unsent,
           p # i => nextIndex'[p] = nextIndex[p]
    PROVE  TaskEffect(i, p)
<1>1. call'[p] = IF p = i THEN c ELSE call[p]
  BY DEF CoreInv, TypeOK
<1> QED
  BY <1>1 DEF TaskEffect

LEMMA AnsweredTask ==
    ASSUME CoreInv, CoreInv', NEW i \in Server, NEW p \in Server,
           HandleRequestVote(i) \/ RejectAppendEntries(i) \/ AcceptAppendEntries(i)
    PROVE  TaskEffect(i, p)
<1>1. call[i].op = "idle" /\ backlog[i] # <<>> /\ nextIndex' = nextIndex
  BY DEF HandleRequestVote, RejectAppendEntries, AcceptAppendEntries,
     ReceiveAppendEntries, Accepts, leaderVars
<1>2. call[p] \in Call /\ call'[p] \in Call
  BY DEF CoreInv, TypeOK
<1>3. PICK reply :
         /\ Answer(i, reply)
         /\ \/ HandleRequestVote(i)
            \/ /\ RejectAppendEntries(i)
               /\ reply = AppendEntriesReply(i, Request(i), FALSE, 0)
            \/ /\ AcceptAppendEntries(i)
               /\ reply = AppendEntriesReply(i, Request(i), TRUE, store'[i].lastLogIndex)
  <2>1. CASE HandleRequestVote(i)
    BY <2>1 DEF HandleRequestVote
  <2>2. CASE RejectAppendEntries(i)
    BY <2>2 DEF RejectAppendEntries
  <2>3. CASE AcceptAppendEntries(i)
    <3> DEFINE s == WithCommit(WithNewEntries(StoreAfter(i, Request(i).term),
                                              Request(i).entries),
                               Request(i).leaderCommit)
    <3>1. /\ store' = [store EXCEPT ![i] = s]
          /\ Answer(i, AppendEntriesReply(i, Request(i), TRUE, s.lastLogIndex))
      BY <2>3 DEF AcceptAppendEntries
    <3>2. store'[i] = s
      BY <3>1 DEF CoreInv, TypeOK
    <3> HIDE DEF s
    <3> QED
      BY <2>3, <3>1, <3>2
  <2> QED
    BY <2>1, <2>2, <2>3
<1>4. SameTask(p)
  BY <1>1, <1>3, AnswerGiven DEF SameTask
<1>5. CASE call'[p].reply = call[p].reply
  <2>1. call'[p] = call[p]
    BY <1>2, <1>4, <1>5 DEF Call, SameTask
  <2> QED
    BY <1>1, <2>1 DEF TaskEffect
<1>6. CASE /\ call'[p].reply = reply /\ p # i
           /\ Head(backlog[i]).from = p /\ Head(backlog[i]).live
           /\ IsAwaited(Head(backlog[i]), i)
  <2>1. Head(backlog[i]) = backlog[i][1]
    BY <1>1, HeadOfBacklog
  <2>2. IsAnswered(i, p)
    BY <1>1, <1>3, <1>4, <1>6, <2>1 DEF IsAnswered
  <2> QED
    BY <1>1, <2>2 DEF TaskEffect
<1> QED
  BY <1>1, <1>3, <1>5, <1>6, AnswerGiven

LEMMA BootIndices ==
    ASSUME CoreInv, NEW i \in Server, Boot(i)
    PROVE  /\ \A j \in Server \ {i} : nextIndex'[j] = nextIndex[j]
           /\ \A j \in Server \ {i} : matchIndex'[j] = matchIndex[j]
           /\ matchIndex'[i] = [p \in Server |-> 0]
<1> DEFINE next == [p \in Server |-> IF i \in Flagged /\ p # i
                                     THEN Load(store[i]).lastLogIndex + 1 ELSE 1]
           none == [p \in Server |-> 0]
<1>1. /\ nextIndex' = [nextIndex EXCEPT ![i] = next]
      /\ matchIndex' = [matchIndex EXCEPT ![i] = none]
  BY DEF Boot
<1> HIDE DEF next, none
<1>2. /\ \A j \in Server \ {i} : nextIndex'[j] = nextIndex[j]
      /\ \A j \in Server \ {i} : matchIndex'[j] = matchIndex[j]
      /\ matchIndex'[i] = none
  BY <1>1 DEF CoreInv, TypeOK
<1> QED
  BY <1>2 DEF none

LEMMA TasksTraced ==
    ASSUME CoreInv, CoreInv', NEW i \in Server, AnyStep(i), NEW p \in Server
    PROVE  TaskEffect(i, p)
<1>1. Idle.reply = Unsent /\ Down("crashed").reply = Unsent
  BY DEF Idle, Down
<1>2. \A op, k : LoopAt(i, op, k).reply = Unsent
  BY DEF LoopAt, Idle
<1>3. CASE Launch(i) \/ Restart(i)
  <2> DEFINE c == IF i \in Flagged THEN LoopAt(i, "heartbeats", 1) ELSE Idle
  <2>1. Boot(i)
    BY <1>3 DEF Launch, Restart
  <2>2. call' = [call EXCEPT ![i] = c]
    BY <2>1 DEF Boot
  <2>3. c.reply = Unsent
    BY <1>1, <1>2
  <2>4. p # i => nextIndex'[p] = nextIndex[p]
    BY <2>1, BootIndices
  <2> HIDE DEF c
  <2> QED
    BY <2>2, <2>3, <2>4, MovesOn
<1>4. CASE Serve(i)
  <2>1. CASE DropConnection(i)
    BY <2>1 DEF DropConnection, leaderVars, TaskEffect
  <2> QED
    BY <1>4, <2>1, AnsweredTask DEF Serve
<1>5. CASE \/ NoVote(i) \/ HeartbeatAnswered(i) \/ SkipPeer(i)
           \/ ReplicationSucceeded(i) \/ ReplicationRejected(i)
           \/ ReplicationFailed(i) \/ CollectVote(i)
  <2>1. call' = [call EXCEPT ![i] = LoopAt(i, call[i].op, call[i].k + 1)]
    BY <1>5 DEF Proceed, NoVote, HeartbeatAnswered, SkipPeer, ReplicationSucceeded,
       ReplicationRejected, ReplicationFailed, CollectVote
  <2>2. p # i => nextIndex'[p] = nextIndex[p]
    BY <1>5 DEF NoVote, HeartbeatAnswered, SkipPeer, ReplicationSucceeded,
       ReplicationRejected, ReplicationFailed, CollectVote, leaderVars, CoreInv, TypeOK
  <2> QED
    BY <1>2, <2>1, <2>2, MovesOn
<1>6. CASE \/ StartHeartbeats(i) \/ FinishAppend(i) \/ StartElection(i)
           \/ WinElection(i) \/ \E command \in Command : ClientAppend(i, command)
  <2>1. PICK c \in {Idle, LoopAt(i, "heartbeats", 1), LoopAt(i, "votes", 1),
                    LoopAt(i, "replicate", 1)} :
           call' = [call EXCEPT ![i] = c]
    BY <1>6 DEF StartHeartbeats, FinishAppend, StartElection, WinElection, ClientAppend
  <2>2. nextIndex' = nextIndex
    BY <1>6 DEF StartHeartbeats, FinishAppend, StartElection, WinElection,
       ClientAppend, leaderVars
  <2> QED
    BY <1>1, <1>2, <2>1, <2>2, MovesOn
<1>7. CASE Send(i) \/ Break(i)
  <2>1. PICK reply \in {Pending, Failed} :
           /\ call' = [call EXCEPT ![i].reply = reply]
           /\ reply = Failed \/ Send(i)
    BY <1>7 DEF Send, Break
  <2>2. reply \in Response /\ call \in [Server -> Call]
    BY DEF Response, CoreInv, TypeOK
  <2>3. /\ call'[i].reply = reply /\ SameTask(p)
        /\ p # i => call'[p] = call[p]
    BY <2>1, <2>2, ReplyArrives DEF SameTask
  <2>4. nextIndex' = nextIndex
    BY <1>7 DEF Send, Break, leaderVars
  <2> QED
    BY <2>1, <2>3, <2>4 DEF TaskEffect
<1>8. CASE Crash(i)
  <2>1. nextIndex' = nextIndex /\ call[p] \in Call
    BY <1>8 DEF Crash, CrashBetween, CrashServing, CrashCommitting, leaderVars,
       CoreInv, TypeOK
  <2>2. Dies(i)
    BY <1>8, CrashKills
  <2>3. CASE p = i
    <3>1. call'[p] = Down("crashed")
      BY <2>3, <2>2 DEF Dies
    <3> QED
      BY <1>1, <3>1 DEF TaskEffect
  <2>4. CASE p # i
    <3>1. call'[p] \in {call[p], [call[p] EXCEPT !.reply = Failed]}
      BY <2>4, <2>2 DEF Dies
    <3>2. call'[p] = call[p] \/ call'[p].reply = Failed
      BY <2>1, <3>1 DEF Call
    <3> QED
      BY <2>1, <3>2 DEF TaskEffect
  <2> QED
    BY <2>3, <2>4
<1> QED
  BY <1>3, <1>4, <1>5, <1>6, <1>7, <1>8 DEF AnyStep, Step, NodeStep, Continue

\* match_index is emptied by a start and set by an answer.
LEMMA MatchesTraced ==
    ASSUME CoreInv, NEW i \in Server, AnyStep(i), NEW p \in Server, NEW q \in Server
    PROVE  \/ matchIndex'[p][q] = matchIndex[p][q]
           \/ matchIndex'[p][q] = 0
           \/ /\ p = i /\ ReplicationSucceeded(i) /\ q = Callee(i)
              /\ matchIndex'[p][q] = call[i].reply.matchIndex
<1>1. matchIndex \in [Server -> [Server -> Indices]]
  BY DEF CoreInv, TypeOK
<1>2. CASE Launch(i) \/ Restart(i)
  <2>1. matchIndex' = [matchIndex EXCEPT ![i] = [r \in Server |-> 0]]
    BY <1>2 DEF Launch, Restart, Boot
  <2> QED
    BY <1>1, <2>1
<1>3. CASE ReplicationSucceeded(i)
  <2>1. matchIndex' = [matchIndex EXCEPT ![i][Callee(i)] = call[i].reply.matchIndex]
    BY <1>3 DEF ReplicationSucceeded
  <2> QED
    BY <1>1, <1>3, <2>1
<1>4. CASE matchIndex' = matchIndex
  BY <1>4
<1>5. CASE Serve(i)
  BY <1>4, <1>5 DEF Serve, HandleRequestVote, RejectAppendEntries,
     AcceptAppendEntries, ReceiveAppendEntries, DropConnection, leaderVars
<1>6. CASE Continue(i) /\ ~ReplicationSucceeded(i)
  BY <1>4, <1>6 DEF Continue, Send, WinElection, CollectVote, NoVote,
     HeartbeatAnswered, SkipPeer, ReplicationRejected, ReplicationFailed,
     FinishAppend, leaderVars
<1>7. CASE \/ StartElection(i) \/ StartHeartbeats(i) \/ Break(i) \/ Crash(i)
           \/ \E command \in Command : ClientAppend(i, command)
  BY <1>4, <1>7 DEF StartElection, StartHeartbeats, Break, Crash, CrashBetween,
     CrashServing, CrashCommitting, ClientAppend, leaderVars
<1> QED
  BY <1>2, <1>3, <1>5, <1>6, <1>7 DEF AnyStep, Step, NodeStep

-----------------------------------------------------------------------------
(* What a round of replication asks and hears *)

\* A node that is not its own peer counts no match for itself.
Matches == \A i, p \in Server :
    /\ matchIndex[i][p] <= store[p].lastLogIndex
    /\ matchIndex[i][i] = 0

\* The request a round waits for holds the last entry of the leader.
RoundRequest(x, j) ==
    x.live /\ call[x.from].op = "replicate" =>
       /\ store[x.from].lastLogIndex \in DOMAIN x.request.entries
       /\ x.request.prevLogIndex = nextIndex[x.from][j] - 1

RoundRequests == \A j \in Server : \A n \in 1 .. Len(backlog[j]) :
    RoundRequest(backlog[j][n], j)

\* A peer that accepted has the log of the leader, and a peer that refused was
\* asked to continue a log that it does not have.
RoundAnswer(i) ==
    Got(i, "replicate", "AppendEntriesResponse") =>
       /\ call[i].reply.success =>
             /\ store[i].lastLogIndex <= store[Callee(i)].lastLogIndex
             /\ call[i].reply.matchIndex <= store[Callee(i)].lastLogIndex
       /\ ~call[i].reply.success => nextIndex[i][Callee(i)] > 1

RoundAnswers == \A i \in Server : RoundAnswer(i)

\* Who replicates appends nothing.
LEMMA ReplicatorWaits ==
    ASSUME CoreInv, LeadershipInv, OneLeader, NEW i \in Server, FixedStep(i),
           NEW p \in Server, call[p].op = "replicate"
    PROVE  store'[p].lastLogIndex = store[p].lastLogIndex
<1>1. p \in Flagged
  BY OnlyFlaggedLead DEF Leading
<1>2. CASE LogUndisturbed(p)
  BY <1>2 DEF LogUndisturbed
<1>3. CASE p = i /\ \E command \in Command : ClientAppend(i, command)
  BY <1>3 DEF ClientAppend
<1>4. CASE p = i /\ Commits(i)
  BY <1>4, CommitsEffect
<1> QED
  BY <1>1, <1>2, <1>3, <1>4, LeaderWrites

LEMMA NobodyAsksForVotes ==
    ASSUME CoreInv, LeadershipInv, OneLeader, NEW i \in Server
    PROVE  ~HandleRequestVote(i)
<1> SUFFICES ASSUME HandleRequestVote(i) PROVE FALSE
  OBVIOUS
<1>1. backlog[i] # <<>> /\ Request(i).type = "RequestVote"
  BY DEF HandleRequestVote, Accepts, Request
<1> QED
  BY <1>1, HeadOfBacklog, RequestOfLeader

\* A request for a round, when it is sent.
LEMMA RoundBegins ==
    ASSUME CoreInv, CoreInv', NEW i \in Server, NEW m \in Server, NEW x,
           Opens(i, m, x)
    PROVE  RoundRequest(x, m)'
<1> SUFFICES ASSUME call'[i].op = "replicate"
             PROVE  /\ store'[i].lastLogIndex \in DOMAIN x.request.entries
                    /\ x.request.prevLogIndex = nextIndex'[i][m] - 1
  BY DEF RoundRequest, Opens
<1>1. /\ Send(i) /\ Callee(i) = m /\ x.request = RequestOf(i)
      /\ UNCHANGED <<store, nextIndex>>
  BY DEF Opens, Send, leaderVars
<1>2. call[i].op = "replicate"
  <2>1. PICK reply \in {Pending, Failed} : call' = [call EXCEPT ![i].reply = reply]
    BY <1>1 DEF Send
  <2> QED
    BY <2>1, ReplyArrives DEF CoreInv, TypeOK, Response
<1>3. x.request = AppendEntriesTo(i, m, Unreplicated(i, m))
  BY <1>1, <1>2, RequestSent
<1>4. DOMAIN Unreplicated(i, m) # {}
  BY <1>1, <1>2 DEF Send, NothingToSend
<1> DEFINE end == store[i].lastLogIndex
<1>5. /\ end \in Nat /\ DOMAIN store[i].entries = 1 .. end
      /\ nextIndex[i][m] \in Nat
  <2>1. nextIndex[i][m] \in 1 .. MaxLog + 1
    BY DEF CoreInv, TypeOK
  <2> QED
    BY <2>1, LogEnds
<1>6. DOMAIN Unreplicated(i, m) = {n \in 1 .. end : n >= nextIndex[i][m]}
  <2>1. DOMAIN Unreplicated(i, m) = {n \in DOMAIN store[i].entries : n >= nextIndex[i][m]}
    BY <1>1 DEF Unreplicated, GetEntriesFrom
  <2> HIDE DEF end
  <2> QED
    BY <1>5, <2>1
<1> HIDE DEF end
<1>7. end \in DOMAIN Unreplicated(i, m)
  BY <1>4, <1>5, <1>6
<1> QED
  BY <1>1, <1>3, <1>7 DEF AppendEntriesTo, end

LEMMA RoundRequestsKept ==
    ASSUME CoreInv, CoreInv', LeadershipInv, OneLeader, RoundRequests,
           NEW i \in Server, FixedStep(i)
    PROVE  RoundRequests'
<1> SUFFICES ASSUME NEW m \in Server, NEW n \in 1 .. Len(backlog'[m])
             PROVE  RoundRequest(backlog[m][n], m)'
  BY DEF RoundRequests
<1>1. AnyStep(i)
  BY DEF FixedStep
<1>2. CASE Opens(i, m, backlog'[m][n])
  <2> DEFINE x == backlog'[m][n]
  <2>1. /\ x.from = i
        /\ call'[i].op = "replicate" =>
              /\ store'[i].lastLogIndex \in DOMAIN x.request.entries
              /\ x.request.prevLogIndex = nextIndex'[i][m] - 1
    <3> HIDE DEF x
    <3>1. Opens(i, m, x)
      BY <1>2 DEF x
    <3>2. x.from = i /\ x.live
      BY <3>1 DEF Opens
    <3> QED
      BY <3>1, <3>2, RoundBegins DEF RoundRequest
  <2> QED
    BY <2>1 DEF RoundRequest
<1>3. CASE WasThere(backlog'[m][n], m)
  <2> DEFINE x == backlog'[m][n]
             f == x.from
  <2> SUFFICES ASSUME x.live, call'[f].op = "replicate"
               PROVE  /\ store'[f].lastLogIndex \in DOMAIN x.request.entries
                      /\ x.request.prevLogIndex = nextIndex'[f][m] - 1
    BY DEF RoundRequest
  <2>1. PICK k \in 1 .. Len(backlog[m]) : IsLeftOf(x, backlog[m][k])
    BY <1>3 DEF WasThere
  <2>2. /\ backlog[m][k].live /\ backlog[m][k].from = f
        /\ backlog[m][k].request = x.request
    BY <2>1 DEF IsLeftOf
  <2>3. f \in Server
    <3>1. backlog[m] \in Seq(Connection)
      BY DEF CoreInv, TypeOK
    <3> QED
      BY <2>2, <3>1, ConnectionAt
  <2>4. call[f].reply = Pending
    BY <2>2 DEF CoreInv, LiveConnections, IsAwaited, AwaitsReplyFrom
  <2>5. call'[f].reply = Pending
    BY DEF CoreInv, LiveConnections, IsAwaited, AwaitsReplyFrom
  <2> HIDE DEF x, f
  <2>6. ~(f = i /\ Send(i)) /\ ~IsAnswered(i, f)
    <3>1. ~(f = i /\ Send(i))
      BY <2>4 DEF Send, AtPeer, Unsent, Pending
    <3>2. ~IsAnswered(i, f)
      BY <2>5, NobodyAsksForVotes DEF IsAnswered, AppendEntriesReply, Pending
    <3> QED
      BY <3>1, <3>2
  <2>7. call'[f] = call[f] /\ nextIndex'[f] = nextIndex[f]
    <3>1. Pending # Unsent /\ Pending # Failed
      BY DEF Pending, Unsent, Failed
    <3> QED
      BY <1>1, <2>3, <2>5, <2>6, <3>1, TasksTraced DEF TaskEffect
  <2>8. store'[f].lastLogIndex = store[f].lastLogIndex
    BY <2>3, <2>7, ReplicatorWaits
  <2>9. RoundRequest(backlog[m][k], m)
    BY DEF RoundRequests
  <2> QED
    BY <2>2, <2>7, <2>8, <2>9 DEF RoundRequest
<1> QED
  BY <1>1, <1>2, <1>3, ConnectionsTraced

LEMMA RoundAnswered ==
    ASSUME CoreInv, CoreInv', LeadershipInv, OneLeader, OneLog, RoundRequests,
           NEW i \in Server, FixedStep(i), NEW p \in Server,
           IsAnswered(i, p), call[p].op = "replicate"
    PROVE  /\ Callee(p) = i
           /\ call'[p].reply.success =>
                 /\ store[p].lastLogIndex <= store'[i].lastLogIndex
                 /\ call'[p].reply.matchIndex = store'[i].lastLogIndex
           /\ ~call'[p].reply.success => nextIndex[p][i] > 1
<1> DEFINE m == Request(i)
<1>1. /\ 1 \in 1 .. Len(backlog[i]) /\ m = backlog[i][1].request
      /\ backlog[i][1].from = p /\ backlog[i][1].live
      /\ Callee(p) = i
  BY HeadOfBacklog DEF IsAnswered, IsAwaited, AwaitsReplyFrom
<1>2. /\ store[p].lastLogIndex \in DOMAIN m.entries
      /\ m.prevLogIndex = nextIndex[p][i] - 1
  BY <1>1 DEF RoundRequests, RoundRequest
<1>3. CASE /\ RejectAppendEntries(i)
           /\ call'[p].reply = AppendEntriesReply(i, m, FALSE, 0)
  <2>1. ~LogMatches(store[i], m)
    <3>1. m.term = 0 /\ currentTerm[i] = 0
      BY <1>1, RequestOfLeader DEF OneLeader
    <3> QED
      BY <1>3, <3>1 DEF RejectAppendEntries
  <2>2. nextIndex[p][i] \in 1 .. MaxLog + 1 /\ MaxLog \in Nat
    BY BoundsAssumption DEF CoreInv, TypeOK
  <2>3. m.prevLogIndex # 0
    BY <2>1 DEF LogMatches
  <2> HIDE DEF m
  <2>4. nextIndex[p][i] > 1
    BY <1>2, <2>2, <2>3
  <2>5. call'[p].reply.success = FALSE
    BY <1>3 DEF AppendEntriesReply
  <2> QED
    BY <1>1, <2>4, <2>5
<1>4. CASE /\ AcceptAppendEntries(i)
           /\ call'[p].reply = AppendEntriesReply(i, m, TRUE, store'[i].lastLogIndex)
  <2>1. store[p].lastLogIndex <= store'[i].lastLogIndex
    BY <1>2, <1>4, AcceptGrows
  <2> HIDE DEF m
  <2>2. /\ call'[p].reply.success = TRUE
        /\ call'[p].reply.matchIndex = store'[i].lastLogIndex
    BY <1>4 DEF AppendEntriesReply
  <2> QED
    BY <1>1, <2>1, <2>2
<1> QED
  BY <1>3, <1>4, NobodyAsksForVotes DEF IsAnswered

LEMMA RoundAnswersKept ==
    ASSUME CoreInv, CoreInv', LeadershipInv, OneLeader, OneLog, CommitInLog,
           RoundRequests, RoundAnswers, NEW i \in Server, FixedStep(i)
    PROVE  RoundAnswers'
<1> SUFFICES ASSUME NEW p \in Server, Got(p, "replicate", "AppendEntriesResponse")'
             PROVE  /\ call'[p].reply.success =>
                          /\ store'[p].lastLogIndex <= store'[Callee(p)'].lastLogIndex
                          /\ call'[p].reply.matchIndex
                                <= store'[Callee(p)'].lastLogIndex
                    /\ ~call'[p].reply.success => nextIndex'[p][Callee(p)'] > 1
  BY DEF RoundAnswers, RoundAnswer
<1>1. /\ call'[p].op = "replicate"
      /\ call'[p].reply.type = "AppendEntriesResponse"
      /\ AnyStep(i)
  BY DEF Got, FixedStep
<1>2. call'[p].reply \notin {Unsent, Pending, Failed}
  BY <1>1 DEF Unsent, Pending, Failed
<1>3. CASE call'[p] = call[p] /\ nextIndex'[p] = nextIndex[p]
  <2> DEFINE q == Callee(p)
  <2>1. Got(p, "replicate", "AppendEntriesResponse") /\ Callee(p)' = q
    BY <1>1, <1>3 DEF Got, Callee
  <2>2. RoundAnswer(p)
    BY DEF RoundAnswers
  <2>3. store'[p].lastLogIndex = store[p].lastLogIndex
    BY <1>1, <1>3, ReplicatorWaits
  <2>4. q \in Server
    BY <2>1, AnswerInHand DEF Rounds
  <2>5. /\ store[p].lastLogIndex \in Nat /\ store[q].lastLogIndex \in Nat
        /\ store'[q].lastLogIndex \in Nat
        /\ store'[q].lastLogIndex >= store[q].lastLogIndex
    <3>1. store'[q].lastLogIndex \in Nat
      BY <2>4, BoundsAssumption DEF CoreInv, TypeOK, Store, Indices
    <3> QED
      BY <2>4, <3>1, LogEnds, LogsGrow
  <2>6. call[p].reply.success => call[p].reply.matchIndex \in Nat
    <3>1. call[p].reply \in Response
      BY DEF CoreInv, TypeOK, Call
    <3> QED
      BY <1>1, <1>3, <3>1, BoundsAssumption
      DEF Response, Unsent, Pending, Failed, Indices
  <2> HIDE DEF q
  <2> QED
    BY <1>3, <2>1, <2>2, <2>3, <2>5, <2>6 DEF RoundAnswer, q
<1>4. CASE IsAnswered(i, p) /\ nextIndex'[p] = nextIndex[p]
  <2>1. call[p].op = "replicate" /\ Callee(p)' = Callee(p)
    BY <1>1, <1>4 DEF IsAnswered, SameTask, Callee
  <2>2. store'[p].lastLogIndex = store[p].lastLogIndex
    BY <2>1, ReplicatorWaits
  <2>3. store'[i].lastLogIndex \in Nat
    BY BoundsAssumption DEF CoreInv, TypeOK, Store, Indices
  <2> QED
    BY <1>4, <2>1, <2>2, <2>3, RoundAnswered
<1> QED
  BY <1>1, <1>2, <1>3, <1>4, TasksTraced DEF TaskEffect

LEMMA MatchesKept ==
    ASSUME CoreInv, CoreInv', LeadershipInv, OneLeader, OneLog, CommitInLog,
           RoundAnswers, Matches, NEW i \in Server, FixedStep(i)
    PROVE  Matches'
<1>1. AnyStep(i)
  BY DEF FixedStep
<1> SUFFICES ASSUME NEW p \in Server, NEW q \in Server
             PROVE  /\ matchIndex'[p][q] <= store'[q].lastLogIndex
                    /\ q = p => matchIndex'[p][q] = 0
  BY DEF Matches
<1>2. /\ store[q].lastLogIndex \in Nat /\ store'[q].lastLogIndex \in Nat
      /\ store'[q].lastLogIndex >= store[q].lastLogIndex
      /\ matchIndex[p][q] \in Nat /\ matchIndex'[p][q] \in Nat
  <2>1. store'[q].lastLogIndex \in Nat
    BY BoundsAssumption DEF CoreInv, TypeOK, Store, Indices
  <2>2. matchIndex[p][q] \in Nat /\ matchIndex'[p][q] \in Nat
    BY BoundsAssumption DEF CoreInv, TypeOK, Indices
  <2> QED
    BY <2>1, <2>2, LogEnds, LogsGrow
<1>3. CASE matchIndex'[p][q] = matchIndex[p][q]
  BY <1>2, <1>3 DEF Matches
<1>4. CASE matchIndex'[p][q] = 0
  BY <1>2, <1>4
<1>5. CASE /\ p = i /\ ReplicationSucceeded(i) /\ q = Callee(i)
           /\ matchIndex'[p][q] = call[i].reply.matchIndex
  <2>1. Got(i, "replicate", "AppendEntriesResponse") /\ call[i].reply.success
    BY <1>5 DEF ReplicationSucceeded
  <2>2. matchIndex'[p][q] <= store[q].lastLogIndex
    BY <1>5, <2>1 DEF RoundAnswers, RoundAnswer
  <2>3. q # p
    <3>1. call[i].k \in 1 .. Len(Peers[i])
      BY <2>1 DEF Got, CoreInv, CallAtPeer, Unsent
    <3> QED
      BY <1>5, <3>1, PeerIsServer DEF Callee
  <2> QED
    BY <1>2, <2>2, <2>3
<1> QED
  BY <1>1, <1>3, <1>4, <1>5, MatchesTraced

-----------------------------------------------------------------------------
(* What is committed *)

\* Nobody commits before the leader did, and no request says otherwise.
CommitOfLeader == \A i \in Server : store[i].commitIndex > 0 =>
    \E l \in Flagged : store[i].commitIndex <= store[l].commitIndex

CommitsSent == \A j \in Server : \A n \in 1 .. Len(backlog[j]) :
    backlog[j][n].request.leaderCommit
      <= store[backlog[j][n].request.leaderId].commitIndex

Reaching(n) == {j \in Server : n <= store[j].lastLogIndex}

IsMajority(servers) == 2 * Cardinality(servers) > Cardinality(Server)

\* A majority has a log that reaches what the leader committed.
CommitReached == \A l \in Flagged : IsMajority(Reaching(store[l].commitIndex))

LEMMA LargerMajority ==
    ASSUME NEW S \in SUBSET Server, NEW T \in SUBSET Server,
           S \subseteq T, IsMajority(S)
    PROVE  IsMajority(T)
<1>1. /\ IsFiniteSet(T) /\ IsFiniteSet(S)
      /\ Cardinality(S) <= Cardinality(T)
  BY ServerAssumption, FS_Subset
<1>2. /\ Cardinality(S) \in Nat /\ Cardinality(T) \in Nat
      /\ Cardinality(Server) \in Nat
  BY <1>1, ServerAssumption, FS_CardinalityType
<1> QED
  BY <1>1, <1>2 DEF IsMajority

LEMMA ServerIsMajority ==
    ASSUME NEW l \in Server
    PROVE  IsMajority(Server)
<1>1. IsFiniteSet({l}) /\ Cardinality({l}) = 1
  BY FS_Singleton
<1>2. {l} \in SUBSET Server
  OBVIOUS
<1>3. 1 <= Cardinality(Server) /\ Cardinality(Server) \in Nat
  BY <1>1, <1>2, ServerAssumption, FS_Subset, FS_CardinalityType
<1> QED
  BY <1>3 DEF IsMajority

\* Who is counted by update_commit_index has the entry, and the leader has it.
LEMMA AcknowledgedReached ==
    ASSUME CoreInv, Matches, NEW i \in Server, NEW n \in Acknowledged(i)
    PROVE  IsMajority(Reaching(n))
<1> DEFINE acks == {p \in Server : matchIndex[i][p] >= n}
           size == Len(Peers[i]) + 1
<1>1. 1 + Cardinality(acks) >= size \div 2 + 1
  BY Zenon DEF Acknowledged
<1>2. n \in (store[i].commitIndex + 1) .. store[i].lastLogIndex
  BY Zenon DEF Acknowledged
<1>3. /\ n \in Nat /\ n > 0 /\ n <= store[i].lastLogIndex
  BY <1>2, LogEnds
<1>4. i \notin acks /\ acks \in SUBSET Server
  BY <1>3 DEF Matches
<1>5. acks \cup {i} \subseteq Reaching(n)
  <2> SUFFICES ASSUME NEW p \in acks PROVE p \in Reaching(n)
    BY <1>3 DEF Reaching
  <2>1. /\ p \in Server /\ matchIndex[i][p] >= n
        /\ matchIndex[i][p] <= store[p].lastLogIndex
    BY DEF Matches
  <2>2. matchIndex[i][p] \in Nat /\ store[p].lastLogIndex \in Nat
    <3>1. store[p].lastLogIndex \in Nat
      BY <2>1, LogEnds
    <3>2. matchIndex[i] \in [Server -> Indices]
      BY DEF CoreInv, TypeOK
    <3> HIDE DEF acks
    <3> QED
      BY <2>1, <3>1, <3>2, BoundsAssumption DEF Indices
  <2> HIDE DEF acks
  <2> QED
    BY <1>3, <2>1, <2>2 DEF Reaching
<1>6. /\ IsFiniteSet(acks) /\ IsFiniteSet(Reaching(n))
  BY <1>4, ServerAssumption, FS_Subset DEF Reaching
<1> HIDE DEF acks
<1>7. /\ Cardinality(acks \cup {i}) = Cardinality(acks) + 1
      /\ Cardinality(acks \cup {i}) <= Cardinality(Reaching(n))
  BY <1>4, <1>5, <1>6, FS_AddElement, FS_Subset
<1>8. /\ Cardinality(acks) \in Nat /\ Cardinality(Reaching(n)) \in Nat
      /\ size \in Nat /\ size = Cardinality(Server)
  BY <1>6, ServerAssumption, PeersAssumption, FS_CardinalityType
<1> HIDE DEF size
<1> QED
  BY <1>1, <1>7, <1>8 DEF IsMajority

LEMMA CommittableReached ==
    ASSUME CoreInv, Matches, NEW i \in Server, NEW n \in Committable(i)
    PROVE  IsMajority(Reaching(n))
<1>1. CASE Peers[i] = <<>>
  <2>1. n = store[i].lastLogIndex /\ n \in Nat
    BY <1>1, CommittableInLog, LogEnds
  <2>2. Server = {i}
    <3>1. Server \ {i} = {Peers[i][k] : k \in 1 .. Len(Peers[i])}
      BY PeersAssumption
    <3>2. 1 .. Len(Peers[i]) = {}
      BY <1>1
    <3> QED
      BY <3>1, <3>2
  <2>3. Reaching(n) = Server
    BY <2>1, <2>2 DEF Reaching
  <2> QED
    BY <2>3, ServerIsMajority
<1>2. CASE Peers[i] # <<>>
  BY <1>2, AcknowledgedReached DEF Committable
<1> QED
  BY <1>1, <1>2

LEMMA CommitOfLeaderKept ==
    ASSUME CoreInv, CoreInv', LeadershipInv, OneLeader, OneLog, CommitInLog,
           CommitOfLeader, CommitsSent, NEW i \in Server, FixedStep(i)
    PROVE  CommitOfLeader'
<1> SUFFICES ASSUME NEW p \in Server, store'[p].commitIndex > 0
             PROVE  \E l \in Flagged :
                       store'[p].commitIndex <= store'[l].commitIndex
  BY DEF CommitOfLeader
<1>1. AnyStep(i)
  BY DEF FixedStep
<1>2. \A q \in Server : /\ store[q].commitIndex \in Nat
                        /\ store'[q].commitIndex \in Nat
                        /\ store'[q].commitIndex >= store[q].commitIndex
  <2>1. \A q \in Server : store'[q].commitIndex \in Nat
    BY BoundsAssumption DEF CoreInv, TypeOK, Store, Indices
  <2> QED
    BY <2>1, LogEnds, LogsGrow
<1>3. Flagged \subseteq Server
  BY FlaggedAssumption
<1>4. CASE store'[p].commitIndex = store[p].commitIndex
  <2>1. PICK l \in Flagged : store[p].commitIndex <= store[l].commitIndex
    BY <1>4 DEF CommitOfLeader
  <2> QED
    BY <1>2, <1>3, <1>4, <2>1
<1>5. CASE p = i /\ TakesEntries(i)
  <2> DEFINE m == Request(i)
  <2>1. /\ 1 \in 1 .. Len(backlog[i]) /\ m = backlog[i][1].request
        /\ m.leaderCommit \in Nat
    BY <1>5, AcceptedRequest DEF TakesEntries
  <2>2. m.leaderId \in Flagged /\ m.leaderCommit <= store[m.leaderId].commitIndex
    BY <2>1, RequestOfLeader DEF CommitsSent
  <2>3. \/ store'[i].commitIndex = store[i].commitIndex
        \/ /\ m.leaderCommit > store[i].commitIndex
           /\ store'[i].commitIndex =
                 IF m.leaderCommit <= store'[i].lastLogIndex
                 THEN m.leaderCommit ELSE store'[i].lastLogIndex
    BY <1>5, TakesEffect
  <2>4. store'[i].lastLogIndex \in Nat
    BY BoundsAssumption DEF CoreInv, TypeOK, Store, Indices
  <2> HIDE DEF m
  <2>5. CASE store'[i].commitIndex # store[i].commitIndex
    <3>1. store'[i].commitIndex <= m.leaderCommit
      BY <2>1, <2>3, <2>4, <2>5
    <3> QED
      BY <1>2, <1>3, <1>5, <2>1, <2>2, <3>1
  <2> QED
    BY <1>4, <1>5, <2>5
<1>6. CASE p = i /\ \E command \in Command : ClientAppend(i, command)
  BY <1>4, <1>6, ClientAppendEffect
<1>7. CASE p = i /\ Commits(i)
  <2>1. i \in Flagged
    BY <1>7, OnlyFlaggedLead DEF Commits, Leading
  <2> QED
    BY <1>2, <1>7, <2>1
<1>8. CASE LogUndisturbed(p)
  BY <1>4, <1>8 DEF LogUndisturbed
<1>9. CASE p # i
  BY <1>1, <1>4, <1>9, StoresTraced
<1> QED
  BY <1>1, <1>5, <1>6, <1>7, <1>8, <1>9, StoresTraced

LEMMA CommitsSentKept ==
    ASSUME CoreInv, CoreInv', LeadershipInv, OneLeader, OneLog, CommitInLog,
           CommitsSent, NEW i \in Server, FixedStep(i)
    PROVE  CommitsSent'
<1>1. AnyStep(i)
  BY DEF FixedStep
<1>2. \A q \in Server : /\ store[q].commitIndex \in Nat
                        /\ store'[q].commitIndex \in Nat
                        /\ store'[q].commitIndex >= store[q].commitIndex
  <2>1. \A q \in Server : store'[q].commitIndex \in Nat
    BY BoundsAssumption DEF CoreInv, TypeOK, Store, Indices
  <2> QED
    BY <2>1, LogEnds, LogsGrow
<1> SUFFICES ASSUME NEW m \in Server, NEW n \in 1 .. Len(backlog'[m])
             PROVE  backlog'[m][n].request.leaderCommit
                      <= store'[backlog'[m][n].request.leaderId].commitIndex
  BY DEF CommitsSent
<1> DEFINE request == backlog'[m][n].request
<1>3. CASE WasThere(backlog'[m][n], m)
  <2>1. PICK k \in 1 .. Len(backlog[m]) : backlog[m][k].request = request
    BY <1>3 DEF WasThere, IsLeftOf
  <2>2. request.leaderId \in Flagged
    BY <2>1, RequestOfLeader
  <2>3. request.leaderCommit <= store[request.leaderId].commitIndex
    BY <2>1 DEF CommitsSent
  <2>4. request.leaderCommit \in Nat
    <3>1. backlog[m] \in Seq(Connection)
      BY DEF CoreInv, TypeOK
    <3>2. request \in AppendEntriesRequest \cup RequestVoteRequest
      BY <2>1, <3>1, ConnectionAt
    <3>3. request.type = "AppendEntries"
      BY <2>1, RequestOfLeader
    <3> HIDE DEF request
    <3> QED
      BY <3>2, <3>3, BoundsAssumption
      DEF AppendEntriesRequest, RequestVoteRequest, Indices
  <2>5. request.leaderId \in Server
    BY <2>2, FlaggedAssumption
  <2> HIDE DEF request
  <2>6. request.leaderCommit <= store'[request.leaderId].commitIndex
    BY <1>2, <2>3, <2>4, <2>5
  <2> QED
    BY <2>6 DEF request
<1>4. CASE Opens(i, m, backlog'[m][n])
  <2>1. request = RequestOf(i) /\ Send(i) /\ call[i].op \in Leading
    BY <1>4, RequestSent DEF Opens, OneLeader, Rounds, Leading
  <2>2. PICK entries : request = AppendEntriesTo(i, Callee(i), entries)
    BY <2>1, RequestSent DEF Leading
  <2>3. request.leaderId = i /\ request.leaderCommit = store[i].commitIndex
    BY <2>2 DEF AppendEntriesTo
  <2> QED
    BY <1>2, <2>3
<1> QED
  BY <1>1, <1>3, <1>4, ConnectionsTraced

\* What the leader commits is reached by a majority before it commits.
LEMMA CommitReachedFirst ==
    ASSUME CoreInv, LeadershipInv, OneLeader, Matches, CommitReached,
           NEW i \in Server, FixedStep(i), NEW l \in Flagged
    PROVE  IsMajority(Reaching(store'[l].commitIndex))
<1>1. CASE store'[l].commitIndex = store[l].commitIndex
  BY <1>1 DEF CommitReached
<1>2. CASE LogUndisturbed(l)
  BY <1>1, <1>2 DEF LogUndisturbed
<1>3. CASE l = i /\ \E command \in Command : ClientAppend(i, command)
  BY <1>1, <1>3, ClientAppendEffect
<1>4. CASE l = i /\ Commits(i)
  <2>1. store'[l].commitIndex \in Committable(i)
    BY <1>4, CommitsEffect
  <2> QED
    BY <2>1, CommittableReached
<1> QED
  BY <1>2, <1>3, <1>4, LeaderWrites

LEMMA CommitReachedKept ==
    ASSUME CoreInv, CoreInv', LeadershipInv, OneLeader, OneLog, CommitInLog,
           Matches, CommitReached, NEW i \in Server, FixedStep(i)
    PROVE  CommitReached'
<1> SUFFICES ASSUME NEW l \in Flagged
             PROVE  IsMajority(Reaching(store[l].commitIndex))'
  BY DEF CommitReached
<1> DEFINE n == store'[l].commitIndex
           reaching == {j \in Server : n <= store'[j].lastLogIndex}
<1>1. n \in Nat
  BY FlaggedAssumption, BoundsAssumption DEF CoreInv, TypeOK, Store, Indices
<1>2. IsMajority(Reaching(n))
  BY CommitReachedFirst
<1> HIDE DEF n
<1>3. Reaching(n) \subseteq reaching
  <2> SUFFICES ASSUME NEW j \in Server, n <= store[j].lastLogIndex
               PROVE  n <= store'[j].lastLogIndex
    BY DEF Reaching
  <2>1. /\ store[j].lastLogIndex \in Nat /\ store'[j].lastLogIndex \in Nat
        /\ store'[j].lastLogIndex >= store[j].lastLogIndex
    <3>1. store'[j].lastLogIndex \in Nat
      BY BoundsAssumption DEF CoreInv, TypeOK, Store, Indices
    <3> QED
      BY <3>1, LogEnds, LogsGrow
  <2> QED
    BY <1>1, <2>1
<1>4. IsMajority(reaching)
  <2>1. Reaching(n) \in SUBSET Server /\ reaching \in SUBSET Server
    BY DEF Reaching
  <2> HIDE DEF reaching
  <2> QED
    BY <1>2, <1>3, <2>1, LargerMajority
<1> QED
  BY <1>4 DEF IsMajority, Reaching, n

-----------------------------------------------------------------------------
(* The invariant of a cluster with one leader *)

FixedInv ==
    /\ OneLeader /\ OneLog
    /\ CommitInLog /\ CommitOfLeader /\ CommitsSent /\ CommitReached
    /\ Matches /\ RoundRequests /\ RoundAnswers

LEMMA InitFixed == Init => FixedInv
<1> SUFFICES ASSUME Init PROVE FixedInv
  OBVIOUS
<1>1. OneLeader /\ CommitsSent /\ RoundRequests /\ RoundAnswers
  BY DEF Init, OneLeader, CommitsSent, RoundRequests, RoundAnswers, RoundAnswer,
     Got, Down
<1>2. OneLog
  BY EmptyLogIsLog DEF Init, OneLog, Copied, InStore, HasEntry, EmptyStore
<1>3. \A i \in Server : /\ store[i].lastLogIndex = 0 /\ store[i].commitIndex = 0
                        /\ \A p \in Server : matchIndex[i][p] = 0
  BY DEF Init, EmptyStore
<1>4. CommitInLog /\ CommitOfLeader /\ Matches
  BY <1>3 DEF CommitInLog, CommitOfLeader, Matches
<1>5. CommitReached
  <2> SUFFICES ASSUME NEW l \in Flagged
               PROVE  IsMajority(Reaching(store[l].commitIndex))
    BY DEF CommitReached
  <2>1. l \in Server
    BY FlaggedAssumption
  <2>2. Reaching(store[l].commitIndex) = Server
    BY <1>3, <2>1 DEF Reaching
  <2> QED
    BY <2>1, <2>2, ServerIsMajority
<1> QED
  BY <1>1, <1>2, <1>4, <1>5 DEF FixedInv

FixedNext == NextWithRestarts /\ \A i \in Server : ~StartElection(i)

LEMMA StepsWithoutElection ==
    [NextWithRestarts]_vars /\ [\A i \in Server : ~StartElection(i)]_vars
    => [FixedNext]_vars
BY DEF FixedNext

LEMMA StepFixed ==
    ASSUME CoreInv, CoreInv', LeadershipInv, FixedInv, NEW i \in Server, FixedStep(i)
    PROVE  FixedInv'
<1>1. OneLeader' /\ OneLog'
  BY OneLeaderKept, OneLogKept DEF FixedInv
<1>2. CommitInLog'
  BY LogsGrow DEF FixedInv, CommitInLog
<1>3. CommitOfLeader' /\ CommitsSent' /\ CommitReached'
  BY CommitOfLeaderKept, CommitsSentKept, CommitReachedKept DEF FixedInv
<1>4. Matches' /\ RoundRequests' /\ RoundAnswers'
  BY MatchesKept, RoundRequestsKept, RoundAnswersKept DEF FixedInv
<1> QED
  BY <1>1, <1>2, <1>3, <1>4 DEF FixedInv

LEMMA StutterFixed ==
    ASSUME FixedInv, UNCHANGED vars
    PROVE  FixedInv'
<1>1. UNCHANGED <<currentTerm, nextIndex, matchIndex, store, call, backlog, leaders>>
  BY DEF vars, electionVars, leaderVars, historyVars
<1>2. OneLeader' /\ CommitInLog' /\ CommitOfLeader' /\ CommitsSent' /\ Matches'
  BY <1>1 DEF FixedInv, OneLeader, CommitInLog, CommitOfLeader, CommitsSent, Matches
<1>3. OneLog'
  <2>1. \A n, t, c : Copied(n, t, c)' => Copied(n, t, c)
    BY <1>1, CopiesStay
  <2>2. \A n, c : LeaderHas(n, c) => LeaderHas(n, c)'
    BY <1>1 DEF LeaderHas, HasEntry
  <2> QED
    BY <2>1, <2>2 DEF FixedInv, OneLog
<1>4. CommitReached'
  BY <1>1 DEF FixedInv, CommitReached, IsMajority, Reaching
<1>5. RoundRequests' /\ RoundAnswers'
  BY <1>1 DEF FixedInv, RoundRequests, RoundRequest, RoundAnswers, RoundAnswer, Got,
     Callee
<1> QED
  BY <1>2, <1>3, <1>4, <1>5 DEF FixedInv

LEMMA NextFixed ==
    ASSUME CoreInv, CoreInv', LeadershipInv, FixedInv, [FixedNext]_vars
    PROVE  FixedInv'
BY StepFixed, StutterFixed DEF FixedNext, FixedStep, AnyStep, NextWithRestarts

\* The leader has every entry, its commit index is reached by a majority, and
\* what it knows and hears of its peers is so, whoever dies and comes back.
THEOREM FixedInvariant == RestartSpec /\ NoElection => []FixedInv
<1>1. CoreInv /\ CoreInv' /\ LeadershipInv /\ FixedInv /\ [FixedNext]_vars => FixedInv'
  BY NextFixed
<1> QED
  BY CoreInvariant, LeadershipInvariant, InitFixed, <1>1, StepsWithoutElection, PTL
  DEF RestartSpec, NoElection

-----------------------------------------------------------------------------
(* What the logs promise *)

\* Whose log is long enough has the entry.
LEMMA ReachingHolds ==
    ASSUME CoreInv, OneLog, NEW i \in Server, NEW p \in Server,
           NEW n \in DOMAIN store[i].entries, n <= store[p].lastLogIndex
    PROVE  /\ Holds(p, n, store[i].entries[n])
           /\ n \in DOMAIN store[p].entries
           /\ SameEntry(store[i].entries[n], store[p].entries[n])
<1>1. n \in DOMAIN store[p].disk /\ n \in DOMAIN store[p].entries
  BY LogEnds
<1>2. /\ Copied(n, store[i].entries[n].term, store[i].entries[n].command)
      /\ Copied(n, store[p].entries[n].term, store[p].entries[n].command)
      /\ Copied(n, store[p].disk[n].term, store[p].disk[n].command)
  BY <1>1, StoredIsCopied
<1>3. /\ store[p].disk[n].term = store[i].entries[n].term
      /\ store[p].disk[n].command = store[i].entries[n].command
  BY <1>2, SameCopies
<1>4. /\ store[p].entries[n].term = store[i].entries[n].term
      /\ store[p].entries[n].command = store[i].entries[n].command
  BY <1>2, SameCopies
<1> QED
  BY <1>1, <1>3, <1>4 DEF Holds, SameEntry

LEMMA ReachingIsHolding ==
    ASSUME CoreInv, OneLog, NEW i \in Server, NEW n \in DOMAIN store[i].entries,
           NEW index \in Nat, n <= index, IsMajority(Reaching(index))
    PROVE  2 * Cardinality({j \in Server : Holds(j, n, store[i].entries[n])})
             > Cardinality(Server)
<1> DEFINE holding == {j \in Server : Holds(j, n, store[i].entries[n])}
<1>1. Reaching(index) \subseteq holding
  <2> SUFFICES ASSUME NEW j \in Server, index <= store[j].lastLogIndex
               PROVE  Holds(j, n, store[i].entries[n])
    BY DEF Reaching
  <2>1. n \in Nat /\ store[j].lastLogIndex \in Nat
    BY LogEnds
  <2> QED
    BY <2>1, ReachingHolds
<1>2. Reaching(index) \in SUBSET Server /\ holding \in SUBSET Server
  BY DEF Reaching
<1> HIDE DEF holding
<1>3. IsMajority(holding)
  BY <1>1, <1>2, LargerMajority
<1> QED
  BY <1>3 DEF IsMajority, holding

\* Committed entries are the same everywhere, in a cluster of any size, whoever
\* dies and comes back, as long as no election is started.
THEOREM CommittedLogsAgree == RestartSpec /\ NoElection => []StateMachineSafety
<1>1. CoreInv /\ FixedInv => StateMachineSafety
  <2> SUFFICES ASSUME CoreInv, FixedInv, NEW i \in Server, NEW j \in Server,
                      NEW n \in 1 .. Min({store[i].commitIndex, store[j].commitIndex})
               PROVE  /\ n \in DOMAIN store[i].entries
                      /\ n \in DOMAIN store[j].entries
                      /\ SameEntry(store[i].entries[n], store[j].entries[n])
    BY DEF StateMachineSafety
  <2> DEFINE ci == store[i].commitIndex
             cj == store[j].commitIndex
  <2>1. /\ ci \in Nat /\ cj \in Nat /\ ci \in Int /\ cj \in Int
        /\ store[i].lastLogIndex \in Nat /\ ci <= store[i].lastLogIndex
        /\ store[j].lastLogIndex \in Nat /\ cj <= store[j].lastLogIndex
    BY LogEnds DEF FixedInv, CommitInLog
  <2> HIDE DEF ci, cj
  <2>2. Min({ci, cj}) = IF ci =< cj THEN ci ELSE cj
    BY <2>1, PairEnds
  <2>3. n \in 1 .. Min({ci, cj})
    BY DEF ci, cj
  <2>4. /\ n \in 1 .. store[i].lastLogIndex
        /\ n \in 1 .. store[j].lastLogIndex /\ n <= store[j].lastLogIndex
    BY <2>1, <2>2, <2>3
  <2>5. n \in DOMAIN store[i].entries
    BY <2>4, LogEnds
  <2> QED
    BY <2>4, <2>5, ReachingHolds DEF FixedInv
<1> QED
  BY CoreInvariant, FixedInvariant, <1>1, PTL

\* What any node considers committed is in the log file of a majority.
THEOREM CommitsOnMajority == RestartSpec /\ NoElection => []CommittedOnMajority
<1>1. CoreInv /\ FixedInv => CommittedOnMajority
  <2> SUFFICES ASSUME CoreInv, FixedInv, NEW i \in Server,
                      NEW n \in 1 .. store[i].commitIndex
               PROVE  /\ n \in DOMAIN store[i].entries
                      /\ 2 * Cardinality({j \in Server : Holds(j, n, store[i].entries[n])})
                           > Cardinality(Server)
    BY DEF CommittedOnMajority
  <2>1. /\ store[i].commitIndex \in Nat /\ store[i].lastLogIndex \in Nat
        /\ store[i].commitIndex <= store[i].lastLogIndex
    BY LogEnds DEF FixedInv, CommitInLog
  <2>2. n \in DOMAIN store[i].entries
    BY <2>1, LogEnds
  <2>3. PICK l \in Flagged : store[i].commitIndex <= store[l].commitIndex
    BY <2>1 DEF FixedInv, CommitOfLeader
  <2>4. store[l].commitIndex \in Nat
    BY FlaggedAssumption, LogEnds
  <2>5. IsMajority(Reaching(store[l].commitIndex))
    BY DEF FixedInv, CommitReached
  <2>6. n <= store[l].commitIndex
    BY <2>1, <2>3, <2>4
  <2> QED
    BY <2>2, <2>4, <2>5, <2>6, ReachingIsHolding DEF FixedInv
<1> QED
  BY CoreInvariant, FixedInvariant, <1>1, PTL

\* A peer has what match_index says it has.
THEOREM MatchIndicesTruthful == RestartSpec /\ NoElection => []MatchIndexTruthful
<1>1. CoreInv /\ LeadershipInv /\ FixedInv => MatchIndexTruthful
  <2> SUFFICES ASSUME CoreInv, LeadershipInv, FixedInv, NEW i \in Server,
                      NEW p \in Server, state[i] = "Leader",
                      NEW n \in 1 .. matchIndex[i][p]
               PROVE  /\ n \in DOMAIN store[i].entries
                      /\ Holds(p, n, store[i].entries[n])
    BY DEF MatchIndexTruthful
  <2>1. i \in Flagged
    BY OnlyFlaggedLead DEF FixedInv
  <2>2. store[p].lastLogIndex <= store[i].lastLogIndex
    BY <2>1, LeaderIsAhead DEF FixedInv
  <2>3. matchIndex[i][p] <= store[p].lastLogIndex
    BY DEF FixedInv, Matches
  <2>4. /\ matchIndex[i][p] \in Nat
        /\ store[p].lastLogIndex \in Nat /\ store[i].lastLogIndex \in Nat
    <3>1. matchIndex[i] \in [Server -> Indices]
      BY DEF CoreInv, TypeOK
    <3> QED
      BY <3>1, LogEnds, BoundsAssumption DEF Indices
  <2>5. n <= store[p].lastLogIndex /\ n \in 1 .. store[i].lastLogIndex
    BY <2>2, <2>3, <2>4
  <2>6. n \in DOMAIN store[i].entries
    BY <2>5, LogEnds
  <2> QED
    BY <2>5, <2>6, ReachingHolds DEF FixedInv
<1> QED
  BY CoreInvariant, LeadershipInvariant, FixedInvariant, <1>1, PTL

\* No node takes a commit back.
THEOREM CommitsNeverFall == RestartSpec /\ NoElection => CommitNeverFalls
<1>1. CoreInv /\ CoreInv' /\ FixedInv /\ [FixedNext]_vars
      => [\A i \in Server : store'[i].commitIndex >= store[i].commitIndex]_vars
  BY LogsGrow DEF FixedNext, FixedStep, AnyStep, NextWithRestarts, FixedInv
<1> QED
  BY CoreInvariant, FixedInvariant, <1>1, StepsWithoutElection, PTL
  DEF RestartSpec, NoElection, CommitNeverFalls

\* A leader commits an entry only when a majority has it in its log file.
THEOREM LeadersCommitOnMajority ==
    RestartSpec /\ NoElection => LeaderCommitsOnMajority
<1> DEFINE A == \A i \in Server :
                  \A n \in store[i].commitIndex + 1 .. store'[i].commitIndex :
                     state[i] = "Leader" /\ state'[i] = "Leader" =>
                        2 * Cardinality({j \in Server :
                                            Holds(j, n, store[i].entries[n])})
                          > Cardinality(Server)
<1>1. CoreInv /\ CoreInv' /\ LeadershipInv /\ FixedInv /\ [FixedNext]_vars => [A]_vars
  <2> SUFFICES ASSUME CoreInv, CoreInv', LeadershipInv, FixedInv,
                      NEW j \in Server, FixedStep(j), NEW i \in Server,
                      NEW n \in store[i].commitIndex + 1 .. store'[i].commitIndex,
                      state[i] = "Leader"
               PROVE  2 * Cardinality({p \in Server : Holds(p, n, store[i].entries[n])})
                        > Cardinality(Server)
    BY DEF FixedNext, FixedStep, AnyStep, NextWithRestarts
  <2>1. i \in Flagged
    BY OnlyFlaggedLead DEF FixedInv
  <2>2. IsMajority(Reaching(store'[i].commitIndex))
    BY <2>1, CommitReachedFirst DEF FixedInv
  <2>3. /\ store[i].commitIndex \in Nat /\ store[i].lastLogIndex \in Nat
        /\ store'[i].commitIndex \in Nat
        /\ store'[i].commitIndex <= store'[i].lastLogIndex
    <3>1. store'[i].commitIndex \in Nat
      BY BoundsAssumption DEF CoreInv, TypeOK, Store, Indices
    <3> QED
      BY <3>1, LogEnds, LogsGrow DEF FixedInv
  <2>4. n \in Nat /\ n > 0 /\ n <= store'[i].commitIndex
        /\ store'[i].commitIndex # store[i].commitIndex
    BY <2>3
  <2>5. store'[i].lastLogIndex = store[i].lastLogIndex
    <3>1. CASE LogUndisturbed(i)
      BY <3>1 DEF LogUndisturbed
    <3>2. CASE i = j /\ \E command \in Command : ClientAppend(i, command)
      BY <2>4, <3>2, ClientAppendEffect
    <3>3. CASE i = j /\ Commits(j)
      BY <3>3, CommitsEffect
    <3> QED
      BY <2>1, <3>1, <3>2, <3>3, LeaderWrites DEF FixedInv
  <2>6. n \in 1 .. store[i].lastLogIndex
    BY <2>3, <2>4, <2>5
  <2>7. n \in DOMAIN store[i].entries
    BY <2>6, LogEnds
  <2> QED
    BY <2>2, <2>3, <2>4, <2>7, ReachingIsHolding DEF FixedInv
<1> QED
  BY CoreInvariant, LeadershipInvariant, FixedInvariant, <1>1, StepsWithoutElection, PTL
  DEF RestartSpec, NoElection, LeaderCommitsOnMajority

\* An answer to a round of replication is dealt with in one of two ways.
LEMMA AnswerTaken ==
    ASSUME CoreInv, NEW j \in Server, AnyStep(j), NEW i \in Server,
           Got(i, "replicate", "AppendEntriesResponse"), call'[i].k > call[i].k
    PROVE  ReplicationSucceeded(i) \/ ReplicationRejected(i)
<1>1. /\ call[i].op = "replicate" /\ call[i].reply.type = "AppendEntriesResponse"
      /\ call[i].k \in 1 .. Len(Peers[i]) /\ call[i].k \in Nat
      /\ call[i].reply \notin {Unsent, Pending, Failed}
  BY DEF Got, CoreInv, CallAtPeer, Unsent, Pending, Failed
<1>2. call'[i].k # call[i].k
  BY <1>1
<1>3. CASE j # i
  <2>1. CASE HandleRequestVote(j) \/ RejectAppendEntries(j) \/ AcceptAppendEntries(j)
    <3>1. /\ call[j].op = "idle" /\ backlog[j] # <<>> /\ \E reply : Answer(j, reply)
      BY <2>1 DEF HandleRequestVote, RejectAppendEntries, AcceptAppendEntries,
         ReceiveAppendEntries, Accepts
    <3> QED
      BY <1>2, <3>1, AnswerGiven
  <2>2. CASE Send(j) \/ Break(j)
    <3>1. PICK reply \in {Pending, Failed} : call' = [call EXCEPT ![j].reply = reply]
      BY <2>2 DEF Send, Break
    <3> QED
      BY <1>2, <3>1, ReplyArrives DEF CoreInv, TypeOK, Response
  <2>3. CASE Crash(j)
    <3>1. call'[i] = call[i]
      BY <1>1, <1>3, <2>3, CrashKills DEF Dies, AwaitsReplyFrom
    <3> QED
      BY <1>2, <3>1
  <2>4. CASE Launch(j) \/ Restart(j)
    <3>1. call' = [call EXCEPT ![j] = IF j \in Flagged THEN LoopAt(j, "heartbeats", 1)
                                                      ELSE Idle]
      BY <2>4 DEF Launch, Restart, Boot
    <3> QED
      BY <1>2, <1>3, <3>1 DEF CoreInv, TypeOK
  <2>5. CASE \E c : call' = [call EXCEPT ![j] = c]
    BY <1>2, <1>3, <2>5 DEF CoreInv, TypeOK
  <2>6. CASE DropConnection(j)
    BY <1>2, <2>6 DEF DropConnection
  <2>7. CASE Continue(j) /\ ~Send(j)
    BY <2>5, <2>7 DEF Continue, WinElection, CollectVote, NoVote, HeartbeatAnswered,
       SkipPeer, ReplicationSucceeded, ReplicationRejected, ReplicationFailed,
       FinishAppend, Proceed
  <2>8. CASE \/ StartElection(j) \/ StartHeartbeats(j)
             \/ \E command \in Command : ClientAppend(j, command)
    BY <2>5, <2>8 DEF StartElection, StartHeartbeats, ClientAppend
  <2> QED
    BY <2>1, <2>2, <2>3, <2>4, <2>6, <2>7, <2>8 DEF AnyStep, Step, NodeStep, Serve
<1>4. CASE j = i
  <2>1. CASE Launch(i) \/ Restart(i)
    BY <1>1, <2>1 DEF Launch, Restart
  <2>2. CASE \/ Serve(i) \/ StartElection(i) \/ StartHeartbeats(i)
             \/ \E command \in Command : ClientAppend(i, command)
    BY <1>1, <2>2 DEF Serve, HandleRequestVote, RejectAppendEntries,
       AcceptAppendEntries, ReceiveAppendEntries, Accepts, DropConnection,
       StartElection, StartHeartbeats, ClientAppend
  <2>3. CASE Break(i)
    BY <1>1, <2>3 DEF Break
  <2>4. CASE Crash(i)
    <3>1. call'[i] = Down("crashed")
      BY <2>4, CrashKills DEF Dies
    <3> QED
      BY <1>1, <3>1 DEF Down
  <2>5. CASE Continue(i)
    BY <1>1, <2>5 DEF Continue, Send, AtPeer, WinElection, CollectVote, Granted, NoVote,
       HeartbeatAnswered, SkipPeer, ReplicationFailed, FinishAppend, Got
  <2> QED
    BY <1>4, <2>1, <2>2, <2>3, <2>4, <2>5 DEF AnyStep, Step, NodeStep
<1> QED
  BY <1>3, <1>4

\* Every answered attempt brings the peer up to date or goes one entry back.
THEOREM CatchUpProgresses == RestartSpec /\ NoElection => CatchUpProgress
<1> DEFINE A == \A i \in Server : ReplicateAnswered(i) =>
                  LET p == Callee(i)
                  IN  HasLogOf(p, i) \/ nextIndex'[i][p] < nextIndex[i][p]
<1>1. CoreInv /\ FixedInv /\ [FixedNext]_vars => [A]_vars
  <2> SUFFICES ASSUME CoreInv, FixedInv, NEW j \in Server, AnyStep(j),
                      NEW i \in Server, ReplicateAnswered(i)
               PROVE  \/ HasLogOf(Callee(i), i)
                      \/ nextIndex'[i][Callee(i)] < nextIndex[i][Callee(i)]
    BY DEF FixedNext, AnyStep, NextWithRestarts
  <2> DEFINE p == Callee(i)
             next == nextIndex[i][p]
  <2>1. Got(i, "replicate", "AppendEntriesResponse") /\ call'[i].k > call[i].k
    BY DEF ReplicateAnswered
  <2>2. ReplicationSucceeded(i) \/ ReplicationRejected(i)
    BY <2>1, AnswerTaken
  <2>3. p \in Server
    BY <2>1, AnswerInHand DEF Rounds
  <2>4. RoundAnswer(i)
    BY DEF FixedInv, RoundAnswers
  <2>5. CASE ReplicationSucceeded(i)
    <3>1. store[i].lastLogIndex <= store[p].lastLogIndex
      BY <2>1, <2>4, <2>5 DEF ReplicationSucceeded, RoundAnswer
    <3> HIDE DEF p
    <3>2. ASSUME NEW n \in DOMAIN store[i].entries
          PROVE  Holds(p, n, store[i].entries[n])
      <4>1. n \in 1 .. store[i].lastLogIndex
        BY LogEnds
      <4>2. store[i].lastLogIndex \in Nat /\ store[p].lastLogIndex \in Nat
        BY <2>3, LogEnds
      <4>3. n <= store[p].lastLogIndex
        BY <3>1, <4>1, <4>2
      <4> QED
        BY <2>3, <4>3, ReachingHolds DEF FixedInv
    <3>3. HasLogOf(p, i)
      BY <3>2 DEF HasLogOf
    <3> QED
      BY <3>3 DEF p
  <2>6. CASE ReplicationRejected(i)
    <3>1. next > 1
      BY <2>1, <2>4, <2>6 DEF ReplicationRejected, RoundAnswer
    <3>2. /\ nextIndex' = [nextIndex EXCEPT ![i][p] = OneBack(next)]
      BY <2>6 DEF ReplicationRejected
    <3>3. nextIndex \in [Server -> [Server -> 1 .. MaxLog + 1]]
      BY DEF CoreInv, TypeOK
    <3>4. next \in Nat
      BY <2>3, <3>3
    <3> HIDE DEF p, next
    <3>5. nextIndex'[i][p] = OneBack(next)
      BY <2>3, <3>2, <3>3
    <3>6. nextIndex'[i][p] < next
      BY <3>1, <3>4, <3>5 DEF OneBack
    <3> QED
      BY <3>6 DEF p, next
  <2> QED
    BY <2>2, <2>5, <2>6
<1> QED
  BY CoreInvariant, FixedInvariant, <1>1, StepsWithoutElection, PTL
  DEF RestartSpec, NoElection, CatchUpProgress

-----------------------------------------------------------------------------
(* What is marked committed *)

\* Wherever an entry is marked committed, in memory, on disk or in a request,
\* the leader has committed as far.
LeaderFlags == \A l \in Flagged :
    /\ \A p \in Server : /\ FlagsUpTo(store[p].entries, store[l].commitIndex)
                         /\ FlagsUpTo(store[p].disk, store[l].commitIndex)
    /\ \A j \in Server : \A n \in 1 .. Len(backlog[j]) :
          FlagsUpTo(backlog[j][n].request.entries, store[l].commitIndex)

LEMMA FlagsWiden ==
    ASSUME NEW log \in Log, NEW low \in Nat, NEW high \in Nat, low <= high,
           FlagsUpTo(log, low)
    PROVE  FlagsUpTo(log, high)
<1>1. \A n \in DOMAIN log : n \in Nat
  BY LogMembership
<1> QED
  BY <1>1 DEF FlagsUpTo

\* The marks that the leader's new commit index may add lie within it.
LEMMA StoredFlagsKept ==
    ASSUME CoreInv, CoreInv', LeadershipInv, FixedInv, LeaderFlags,
           NEW i \in Server, FixedStep(i), NEW l \in Flagged, NEW p \in Server
    PROVE  /\ FlagsUpTo(store'[p].entries, store'[l].commitIndex)
           /\ FlagsUpTo(store'[p].disk, store'[l].commitIndex)
<1> DEFINE old == store[l].commitIndex
           new == store'[l].commitIndex
<1>1. AnyStep(i) /\ l \in Server
  BY FlaggedAssumption DEF FixedStep
<1>2. old \in Nat /\ new \in Nat /\ old <= new
  <2>1. new \in Nat
    BY <1>1, BoundsAssumption DEF CoreInv, TypeOK, Store, Indices
  <2> QED
    BY <1>1, <2>1, LogEnds, LogsGrow DEF FixedInv
<1>3. store'[p].entries \in Log /\ store'[p].disk \in Log
  BY DEF CoreInv, TypeOK, Store
<1>4. FlagsUpTo(store[p].entries, old) /\ FlagsUpTo(store[p].disk, old)
  BY DEF LeaderFlags
<1>5. SUFFICES ASSUME ~(p = i /\ Commits(i))
               PROVE  /\ FlagsUpTo(store'[p].entries, old)
                      /\ FlagsUpTo(store'[p].disk, old)
  <2>1. CASE ~(p = i /\ Commits(i))
    <3>1. FlagsUpTo(store'[p].entries, old) /\ FlagsUpTo(store'[p].disk, old)
      BY <1>5, <2>1
    <3> HIDE DEF old, new
    <3> QED
      BY <1>2, <1>3, <3>1, FlagsWiden DEF new
  <2>2. CASE p = i /\ Commits(i)
    <3>1. i = l
      BY <2>2, OnlyFlaggedLead, FlaggedAssumption DEF Commits, Leading, FixedInv
    <3>2. /\ store'[i].disk = store[i].disk
          /\ \A n \in DOMAIN store'[i].entries :
                /\ n \in DOMAIN store[i].entries
                /\ store'[i].entries[n].committed =>
                      store[i].entries[n].committed \/ n <= store'[i].commitIndex
      BY <2>2, CommitsEffect
    <3>3. \A n \in DOMAIN store'[i].entries : n \in Nat
      BY <1>3, <2>2, LogMembership
    <3>4. FlagsUpTo(store'[p].entries, new)
      BY <1>2, <1>4, <2>2, <3>1, <3>2, <3>3 DEF FlagsUpTo
    <3>5. FlagsUpTo(store'[p].disk, new)
      <4>1. FlagsUpTo(store'[p].disk, old)
        BY <1>4, <2>2, <3>2
      <4> HIDE DEF old, new
      <4> QED
        BY <1>2, <1>3, <4>1, FlagsWiden
    <3> QED
      BY <3>4, <3>5
  <2> QED
    BY <2>1, <2>2
<1>6. CASE LogUndisturbed(p)
  BY <1>4, <1>6 DEF LogUndisturbed
<1>7. CASE p # i
  BY <1>1, <1>4, <1>7, StoresTraced
<1>8. CASE p = i /\ TakesEntries(i)
  <2> DEFINE m == Request(i)
  <2>1. /\ 1 \in 1 .. Len(backlog[i]) /\ m = backlog[i][1].request
        /\ m.leaderCommit \in Nat
    BY <1>8, AcceptedRequest DEF TakesEntries
  <2>2. m.leaderId \in Flagged /\ m.leaderCommit <= store[m.leaderId].commitIndex
    BY <2>1, RequestOfLeader DEF FixedInv, CommitsSent
  <2>3. m.leaderCommit <= old
    BY <2>2, FlaggedAssumption
  <2>4. FlagsUpTo(m.entries, old)
    BY <2>1 DEF LeaderFlags
  <2> HIDE DEF old
  <2> QED
    BY <1>2, <1>4, <1>8, <2>3, <2>4, TakesEffect
<1>9. CASE p = i /\ \E command \in Command : ClientAppend(i, command)
  BY <1>4, <1>9, ClientAppendEffect
<1> QED
  BY <1>1, <1>5, <1>6, <1>7, <1>8, <1>9, StoresTraced

\* Requests carry the marks of the node that sends them.
LEMMA SentFlagsKept ==
    ASSUME CoreInv, CoreInv', LeadershipInv, FixedInv, LeaderFlags,
           NEW i \in Server, FixedStep(i), NEW l \in Flagged,
           NEW m \in Server, NEW n \in 1 .. Len(backlog'[m])
    PROVE  FlagsUpTo(backlog'[m][n].request.entries, store'[l].commitIndex)
<1> DEFINE old == store[l].commitIndex
           new == store'[l].commitIndex
           request == backlog'[m][n].request
<1>1. AnyStep(i) /\ l \in Server
  BY FlaggedAssumption DEF FixedStep
<1>2. old \in Nat /\ new \in Nat /\ old <= new
  <2>1. new \in Nat
    BY <1>1, BoundsAssumption DEF CoreInv, TypeOK, Store, Indices
  <2> QED
    BY <1>1, <2>1, LogEnds, LogsGrow DEF FixedInv
<1>3. request.entries \in Log
  <2>1. backlog'[m] \in Seq(Connection)
    BY DEF CoreInv, TypeOK
  <2>2. request \in AppendEntriesRequest \cup RequestVoteRequest
    BY <2>1, ConnectionAt
  <2>3. request.type = "AppendEntries"
    BY OneLeaderKept DEF FixedInv, OneLeader
  <2> HIDE DEF request
  <2> QED
    BY <2>2, <2>3 DEF AppendEntriesRequest, RequestVoteRequest
<1>4. FlagsUpTo(request.entries, old)
  <2>1. CASE WasThere(backlog'[m][n], m)
    BY <2>1 DEF WasThere, IsLeftOf, LeaderFlags
  <2>2. CASE Opens(i, m, backlog'[m][n])
    <3>1. /\ request = RequestOf(i)
          /\ \E entries \in {EmptyLog, Unreplicated(i, Callee(i))} :
                RequestOf(i) = AppendEntriesTo(i, Callee(i), entries)
      <4>1. Send(i) /\ request = RequestOf(i)
        BY <2>2 DEF Opens
      <4>2. call[i].op \in {"heartbeats", "replicate"}
        BY <4>1, RequestSent DEF Rounds, FixedInv, OneLeader
      <4> HIDE DEF request
      <4>3. RequestOf(i) \in {AppendEntriesTo(i, Callee(i), EmptyLog),
                              AppendEntriesTo(i, Callee(i), Unreplicated(i, Callee(i)))}
        BY <4>1, <4>2, RequestSent
      <4> QED
        BY <4>1, <4>3
    <3>2. PICK entries \in {EmptyLog, Unreplicated(i, Callee(i))} :
             request = AppendEntriesTo(i, Callee(i), entries)
      BY <3>1
    <3>3. request.entries = entries
      BY <3>2 DEF AppendEntriesTo
    <3>4. FlagsUpTo(EmptyLog, old)
      BY EmptyLogIsLog DEF FlagsUpTo
    <3>5. FlagsUpTo(store[i].entries, old)
      BY DEF LeaderFlags
    <3>6. FlagsUpTo(Unreplicated(i, Callee(i)), old)
      BY <3>5 DEF Unreplicated, GetEntriesFrom, FlagsUpTo
    <3> HIDE DEF old, request
    <3> QED
      BY <3>2, <3>3, <3>4, <3>6
  <2> QED
    BY <1>1, <2>1, <2>2, ConnectionsTraced
<1> HIDE DEF old, new, request
<1>5. FlagsUpTo(request.entries, new)
  BY <1>2, <1>3, <1>4, FlagsWiden
<1> QED
  BY <1>5 DEF new, request

LEMMA NextLeaderFlags ==
    ASSUME CoreInv, CoreInv', LeadershipInv, FixedInv, LeaderFlags, [FixedNext]_vars
    PROVE  LeaderFlags'
<1>1. ASSUME NEW i \in Server, FixedStep(i)
      PROVE  LeaderFlags'
  BY <1>1, StoredFlagsKept, SentFlagsKept DEF LeaderFlags, FlagsUpTo
<1>2. CASE UNCHANGED vars
  BY <1>2 DEF vars, LeaderFlags, FlagsUpTo
<1> QED
  BY <1>1, <1>2 DEF FixedNext, FixedStep, AnyStep, NextWithRestarts

\* An entry that is marked committed is committed at the leader and in its log
\* file, although the node with the mark may have been killed before its own
\* commit index moved.
THEOREM FlagsAreCommitted == RestartSpec /\ NoElection => []FlagIsCommitted
<1>1. Init => LeaderFlags
  BY EmptyLogIsLog DEF Init, LeaderFlags, FlagsUpTo, EmptyStore
<1>2. CoreInv /\ CoreInv' /\ LeadershipInv /\ FixedInv /\ LeaderFlags /\ [FixedNext]_vars
      => LeaderFlags'
  BY NextLeaderFlags
<1>3. CoreInv /\ FixedInv /\ LeaderFlags => FlagIsCommitted
  <2> SUFFICES ASSUME CoreInv, FixedInv, LeaderFlags, NEW i \in Server,
                      NEW n \in DOMAIN store[i].entries, store[i].entries[n].committed
               PROVE  \E l \in Server : /\ n <= store[l].commitIndex
                                        /\ Holds(l, n, store[i].entries[n])
    BY DEF FlagIsCommitted
  <2>1. PICK l \in Flagged :
           HasEntry(store[l].disk, n, 0, store[i].entries[n].command)
    BY StoredIsCopied DEF FixedInv, OneLog, LeaderHas
  <2>2. l \in Server
    BY FlaggedAssumption
  <2>3. n <= store[l].commitIndex
    BY DEF LeaderFlags, FlagsUpTo
  <2>4. n <= store[l].lastLogIndex
    <3>1. n \in 1 .. store[i].lastLogIndex
      BY LogEnds
    <3>2. /\ n \in Int /\ store[l].commitIndex \in Nat /\ store[l].lastLogIndex \in Nat
          /\ store[l].commitIndex <= store[l].lastLogIndex
      BY <2>2, <3>1, LogEnds DEF FixedInv, CommitInLog
    <3> QED
      BY <2>3, <3>2
  <2> QED
    BY <2>2, <2>3, <2>4, ReachingHolds DEF FixedInv
<1> QED
  BY CoreInvariant, LeadershipInvariant, FixedInvariant, StepsWithoutElection,
     <1>1, <1>2, <1>3, PTL DEF RestartSpec, NoElection

-----------------------------------------------------------------------------
(* One growing log of committed commands *)

\* The two variables of module ReplicatedLog.
Agreement == CommittedCommands(Furthest)
Known == [i \in Server |-> CommittedCommands(i)]

\* Whatever is committed anywhere is a beginning of one log.
OneAgreement ==
    /\ Agreement \in Seq(Command) /\ Len(Agreement) \in 0 .. MaxLog
    /\ \A p \in Server : /\ Known[p] \in Seq(Command)
                         /\ Len(Known[p]) = store[p].commitIndex
                         /\ Len(Known[p]) <= Len(Agreement)
                         /\ \A n \in 1 .. Len(Known[p]) : Known[p][n] = Agreement[n]
    /\ \E p \in Server : Agreement = Known[p]

\* There is a node that committed as much as any other: the leader, or any
\* node as long as nothing is committed.
LEMMA SomeoneIsFurthest ==
    ASSUME CoreInv, FixedInv, Server # {}
    PROVE  /\ Furthest \in Server
           /\ \A j \in Server : store[j].commitIndex <= store[Furthest].commitIndex
<1>1. \A j \in Server : store[j].commitIndex \in Nat
  BY LogEnds
<1>2. \E i \in Server : \A j \in Server : store[j].commitIndex <= store[i].commitIndex
  <2>1. CASE \A j \in Server : store[j].commitIndex = 0
    <3>1. PICK i : i \in Server
      OBVIOUS
    <3>2. \A j \in Server : store[j].commitIndex <= store[i].commitIndex
      BY <2>1, <3>1
    <3> QED
      BY <3>1, <3>2
  <2>2. ASSUME NEW i \in Server, store[i].commitIndex # 0
        PROVE  \E l \in Server :
                  \A j \in Server : store[j].commitIndex <= store[l].commitIndex
    <3>1. PICK l \in Flagged : store[i].commitIndex <= store[l].commitIndex
      BY <1>1, <2>2 DEF FixedInv, CommitOfLeader
    <3>2. l \in Server
      BY FlaggedAssumption
    <3>3. ASSUME NEW j \in Server
          PROVE  store[j].commitIndex <= store[l].commitIndex
      <4>1. CASE store[j].commitIndex = 0
        BY <1>1, <3>2, <4>1
      <4>2. CASE store[j].commitIndex > 0
        <5>1. PICK k \in Flagged : store[j].commitIndex <= store[k].commitIndex
          BY <4>2 DEF FixedInv, CommitOfLeader
        <5>2. k = l
          BY FlaggedAssumption
        <5> QED
          BY <5>1, <5>2
      <4> QED
        BY <1>1, <4>1, <4>2
    <3> QED
      BY <3>2, <3>3
  <2> QED
    BY <2>1, <2>2
<1> QED
  BY <1>2 DEF Furthest

\* Two logs agree as far as both reach.
LEMMA DisksAgree ==
    ASSUME CoreInv, FixedInv, NEW p \in Server, NEW q \in Server,
           NEW n \in 1 .. store[p].commitIndex, n <= store[q].commitIndex
    PROVE  /\ store[p].disk[n].command \in Command
           /\ store[p].disk[n].command = store[q].disk[n].command
<1>1. n \in DOMAIN store[p].disk /\ n \in DOMAIN store[q].disk
  <2>1. /\ store[p].commitIndex \in Nat /\ store[p].lastLogIndex \in Nat
        /\ store[q].commitIndex \in Nat /\ store[q].lastLogIndex \in Nat
        /\ store[p].commitIndex <= store[p].lastLogIndex
        /\ store[q].commitIndex <= store[q].lastLogIndex
    BY LogEnds DEF FixedInv, CommitInLog
  <2>2. n \in 1 .. store[p].lastLogIndex /\ n \in 1 .. store[q].lastLogIndex
    BY <2>1
  <2> QED
    BY <2>2, LogEnds
<1>2. store[p].disk \in Log
  BY DEF CoreInv, TypeOK, Store
<1>3. store[p].disk[n] \in Entry
  BY <1>1, <1>2, LogMembership
<1> QED
  BY <1>1, <1>3, StoredIsCopied, SameCopies DEF Entry, FixedInv

LEMMA CommittedAgree ==
    CoreInv /\ FixedInv /\ Server # {} => OneAgreement
<1> SUFFICES ASSUME CoreInv, FixedInv, Server # {} PROVE OneAgreement
  OBVIOUS
<1>1. ASSUME NEW p \in Server
      PROVE  /\ CommittedCommands(p) \in Seq(Command)
             /\ Len(CommittedCommands(p)) = store[p].commitIndex
             /\ \A n \in 1 .. store[p].commitIndex :
                   CommittedCommands(p)[n] = store[p].disk[n].command
  <2>1. store[p].commitIndex \in Nat
    BY LogEnds
  <2>2. \A n \in 1 .. store[p].commitIndex : store[p].disk[n].command \in Command
    BY <2>1, DisksAgree
  <2>3. CommittedCommands(p) \in [1 .. store[p].commitIndex -> Command]
    BY <2>2 DEF CommittedCommands
  <2>4. \A n \in 1 .. store[p].commitIndex :
           CommittedCommands(p)[n] = store[p].disk[n].command
    BY DEF CommittedCommands
  <2> QED
    BY <2>1, <2>3, <2>4
<1>2. /\ Furthest \in Server
      /\ \A j \in Server : store[j].commitIndex <= store[Furthest].commitIndex
  BY SomeoneIsFurthest
<1>3. \A p \in Server : Known[p] = CommittedCommands(p)
  BY DEF Known
<1>4. Agreement = CommittedCommands(Furthest)
  BY DEF Agreement
<1>5. store[Furthest].commitIndex \in 0 .. MaxLog
  BY <1>2 DEF CoreInv, TypeOK, Store, Indices
<1>6. ASSUME NEW p \in Server, NEW n \in 1 .. store[p].commitIndex
      PROVE  store[p].disk[n].command = store[Furthest].disk[n].command
  <2>1. n <= store[Furthest].commitIndex
    BY <1>2, <1>5, LogEnds
  <2> QED
    BY <1>2, <2>1, DisksAgree
<1>7. ASSUME NEW p \in Server, NEW n \in 1 .. store[p].commitIndex
      PROVE  n \in 1 .. store[Furthest].commitIndex
  BY <1>2, <1>5, LogEnds
<1> QED
  BY <1>1, <1>2, <1>3, <1>4, <1>5, <1>6, <1>7 DEF OneAgreement

\* No step changes what is on disk at a committed index.
LEMMA CommittedKept ==
    ASSUME CoreInv, CoreInv', LeadershipInv, FixedInv, FixedInv',
           NEW i \in Server, FixedStep(i), NEW p \in Server,
           NEW n \in 1 .. store[p].commitIndex
    PROVE  store'[p].disk[n].command = store[p].disk[n].command
<1> DEFINE c == store[p].disk[n].command
           d == store'[p].disk[n].command
<1>1. n \in 1 .. store[p].lastLogIndex /\ n \in 1 .. store'[p].lastLogIndex
  <2>1. /\ store[p].commitIndex \in Nat /\ store[p].lastLogIndex \in Nat
        /\ store[p].commitIndex <= store[p].lastLogIndex
    BY LogEnds DEF FixedInv, CommitInLog
  <2>2. store'[p].lastLogIndex \in Nat
    BY BoundsAssumption DEF CoreInv, TypeOK, Store, Indices
  <2>3. store'[p].lastLogIndex >= store[p].lastLogIndex
    BY LogsGrow DEF FixedInv
  <2> QED
    BY <2>1, <2>2, <2>3
<1>2. n \in DOMAIN store[p].disk /\ n \in DOMAIN store'[p].disk
  BY <1>1, LogEnds DEF CoreInv, LogContiguous
<1>3. PICK l \in Flagged : HasEntry(store[l].disk, n, 0, c)
  <2>1. Copied(n, store[p].disk[n].term, c)
    BY <1>2, StoredIsCopied
  <2> QED
    BY <2>1 DEF FixedInv, OneLog, LeaderHas
<1>4. HasEntry(store'[l].disk, n, 0, c)
  BY <1>3, LeaderKeepsDisk DEF FixedInv
<1>5. PICK k \in Flagged : HasEntry(store'[k].disk, n, 0, d)
  <2>1. PICK t, e : t = store'[p].disk[n].term /\ e = d
    OBVIOUS
  <2>2. Copied(n, t, e)'
    BY <1>2, <2>1 DEF Copied, InStore, HasEntry
  <2>3. \E k \in Flagged : HasEntry(store'[k].disk, n, 0, e)
    BY <2>2 DEF FixedInv, OneLog, LeaderHas, HasEntry
  <2> QED
    BY <2>1, <2>3
<1>6. k = l
  BY FlaggedAssumption
<1> QED
  BY <1>4, <1>5, <1>6 DEF HasEntry

\* Sequences with the same elements, as far as the shorter one goes.
LEMMA CutByElements ==
    ASSUME NEW s \in Seq(Command), NEW t \in Seq(Command), Len(s) <= Len(t),
           \A n \in 1 .. Len(s) : s[n] = t[n]
    PROVE  s = SubSeq(t, 1, Len(s))
<1> DEFINE u == SubSeq(t, 1, Len(s))
<1>1. Len(s) \in 0 .. Len(t) /\ Len(s) \in Nat
  OBVIOUS
<1>2. u \in Seq(Command) /\ Len(u) = Len(s) /\ \A n \in 1 .. Len(s) : u[n] = t[n]
  BY <1>1
<1> HIDE DEF u
<1>3. s = u
  BY <1>2, SeqEqual
<1> QED
  BY <1>3 DEF u

\* The rest of a sequence after a beginning of it.
LEMMA RestByElements ==
    ASSUME NEW s \in Seq(Command), NEW t \in Seq(Command), Len(s) < Len(t),
           \A n \in 1 .. Len(s) : s[n] = t[n]
    PROVE  \E u \in [1 .. Len(t) - Len(s) -> Command] : t = s \o u
<1> DEFINE m == Len(t) - Len(s)
           u == [k \in 1 .. m |-> t[Len(s) + k]]
<1>1. m \in Nat /\ Len(s) \in Nat /\ Len(t) \in Nat /\ Len(s) + m = Len(t)
  OBVIOUS
<1>2. \A k \in 1 .. m : t[Len(s) + k] \in Command
  BY <1>1
<1>3. u \in [1 .. m -> Command]
  BY <1>2
<1>4. \A k \in 1 .. m : u[k] = t[Len(s) + k]
  OBVIOUS
<1> HIDE DEF m, u
<1>5. u \in Seq(Command) /\ Len(u) = m
  BY <1>1, <1>3
<1>6. /\ s \o u \in Seq(Command) /\ Len(s \o u) = Len(t)
      /\ \A n \in 1 .. Len(t) : (s \o u)[n] = IF n <= Len(s) THEN s[n] ELSE u[n - Len(s)]
  BY <1>1, <1>5
<1>7. \A n \in 1 .. Len(t) : (s \o u)[n] = t[n]
  <2> SUFFICES ASSUME NEW n \in 1 .. Len(t) PROVE (s \o u)[n] = t[n]
    OBVIOUS
  <2>1. CASE n <= Len(s)
    BY <1>1, <1>6, <2>1
  <2>2. CASE n > Len(s)
    <3>1. n - Len(s) \in 1 .. m /\ Len(s) + (n - Len(s)) = n /\ ~(n <= Len(s))
      BY <1>1, <2>2
    <3>2. u[n - Len(s)] = t[n]
      BY <1>4, <3>1
    <3> QED
      BY <1>6, <3>1, <3>2
  <2>3. n <= Len(s) \/ n > Len(s)
    BY <1>1
  <2> QED
    BY <2>1, <2>2, <2>3
<1>8. t = s \o u
  BY <1>6, <1>7, SeqEqual
<1> QED
  BY <1>3, <1>8 DEF m

\* A step of a node lets that node learn, or agree on, more, or nothing.
LEMMA KnownTraced ==
    ASSUME CoreInv, CoreInv', LeadershipInv, FixedInv, FixedInv',
           OneAgreement, OneAgreement', NEW i \in Server, FixedStep(i)
    PROVE  /\ \A p \in Server : /\ Len(Known'[p]) >= Len(Known[p])
                                /\ \A n \in 1 .. Len(Known[p]) : Known'[p][n] = Known[p][n]
           /\ \A p \in Server \ {i} : Known'[p] = Known[p]
<1>1. \A p \in Server : /\ Known[p] \in Seq(Command) /\ Known'[p] \in Seq(Command)
                        /\ Len(Known[p]) = store[p].commitIndex
                        /\ Len(Known'[p]) = store'[p].commitIndex
  BY DEF OneAgreement
<1>2. \A p \in Server : store'[p].commitIndex >= store[p].commitIndex
  BY LogsGrow DEF FixedInv
<1>3. ASSUME NEW p \in Server, NEW n \in 1 .. Len(Known[p])
      PROVE  Known'[p][n] = Known[p][n]
  <2>1. n \in 1 .. store[p].commitIndex /\ n \in 1 .. store'[p].commitIndex
    BY <1>1, <1>2
  <2>2. Known[p][n] = store[p].disk[n].command
    BY <2>1 DEF Known, CommittedCommands
  <2>3. Known'[p][n] = store'[p].disk[n].command
    BY <2>1 DEF Known, CommittedCommands
  <2> QED
    BY <2>1, <2>2, <2>3, CommittedKept
<1>4. ASSUME NEW p \in Server \ {i}
      PROVE  Known'[p] = Known[p]
  <2>1. store'[p] = store[p]
    BY StoresTraced DEF FixedStep
  <2>2. Len(Known'[p]) = Len(Known[p])
    BY <1>1, <2>1
  <2> QED
    BY <1>1, <1>3, <2>2, SeqEqual
<1> QED
  BY <1>1, <1>2, <1>3, <1>4

LEMMA StepOfLog ==
    ASSUME CoreInv, CoreInv', LeadershipInv, FixedInv, FixedInv',
           OneAgreement, OneAgreement', NEW i \in Server, FixedStep(i)
    PROVE  [Committed!Next]_Committed!vars
<1> DEFINE old == Agreement
           new == Agreement'
           n   == Len(Known'[i])
<1>1. /\ old \in Seq(Command) /\ new \in Seq(Command)
      /\ Len(old) \in 0 .. MaxLog /\ Len(new) \in 0 .. MaxLog
  BY DEF OneAgreement
<1>2. \A p \in Server :
         /\ Known[p] \in Seq(Command) /\ Len(Known[p]) <= Len(old)
         /\ Known'[p] \in Seq(Command) /\ Len(Known'[p]) <= Len(new)
         /\ \A m \in 1 .. Len(Known[p]) : Known[p][m] = old[m]
         /\ \A m \in 1 .. Len(Known'[p]) : Known'[p][m] = new[m]
  BY DEF OneAgreement
<1>3. PICK p \in Server : old = Known[p]
  BY DEF OneAgreement
<1>4. PICK q \in Server : new = Known'[q]
  BY DEF OneAgreement
<1>5. /\ \A s \in Server : /\ Len(Known'[s]) >= Len(Known[s])
                           /\ \A m \in 1 .. Len(Known[s]) : Known'[s][m] = Known[s][m]
      /\ \A s \in Server \ {i} : Known'[s] = Known[s]
  BY KnownTraced
<1> HIDE DEF old, new, n
<1>6. /\ Len(old) <= Len(new)
      /\ \A m \in 1 .. Len(old) : new[m] = old[m]
  <2>1. Len(old) <= Len(Known'[p]) /\ Len(Known'[p]) <= Len(new)
    BY <1>2, <1>3, <1>5
  <2>2. Len(old) \in Nat /\ Len(Known'[p]) \in Nat /\ Len(new) \in Nat
    BY <1>1, <1>2
  <2>3. ASSUME NEW m \in 1 .. Len(old)
        PROVE  new[m] = old[m]
    <3>1. m \in 1 .. Len(Known'[p])
      BY <2>1, <2>2
    <3>2. Known'[p][m] = new[m]
      BY <1>2, <3>1
    <3>3. Known'[p][m] = old[m]
      BY <1>3, <1>5
    <3> QED
      BY <3>2, <3>3
  <2> QED
    BY <2>1, <2>2, <2>3
<1>7. Known' = [Known EXCEPT ![i] = Known'[i]]
  BY <1>5 DEF Known
<1>8. n \in Nat /\ Len(Known[i]) \in Nat /\ n >= Len(Known[i]) /\ n <= Len(new)
      /\ n = Len(Known'[i])
  BY <1>2, <1>5 DEF n
<1>9. CASE n <= Len(old)
  <2>1. new = old
    <3>1. Len(new) <= Len(old)
      BY <1>1, <1>2, <1>4, <1>5, <1>8, <1>9
    <3> QED
      BY <1>1, <1>6, <3>1, SeqEqual
  <2>2. CASE n = Len(Known[i])
    <3>1. Known'[i] = Known[i]
      <4>1. \A m \in 1 .. Len(Known[i]) : Known'[i][m] = Known[i][m]
        BY <1>5
      <4>2. /\ Known[i] \in Seq(Command) /\ Known'[i] \in Seq(Command)
            /\ Len(Known'[i]) = Len(Known[i])
        BY <1>2, <1>8, <2>2
      <4> QED
        BY <4>1, <4>2, SeqEqual
    <3>2. Known' = Known
      BY <1>7, <3>1 DEF Known
    <3> QED
      BY <2>1, <3>2 DEF Committed!vars, Known, Agreement, old, new
  <2>3. CASE n > Len(Known[i])
    <3>1. n \in Len(Known[i]) + 1 .. Len(old) /\ n \in 1 .. MaxLog
      <4>1. Len(old) \in Nat /\ Len(old) <= MaxLog /\ MaxLog \in Nat
        BY <1>1, BoundsAssumption
      <4> QED
        BY <1>8, <1>9, <2>3, <4>1
    <3>2. Known'[i] = SubSeq(old, 1, n)
      BY <1>1, <1>2, <1>8, <1>9, <2>1, CutByElements
    <3>3. Known' = [Known EXCEPT ![i] = SubSeq(old, 1, n)]
      BY <1>7, <3>2
    <3>4. Committed!Learn(i, n)
      BY <2>1, <3>1, <3>3 DEF Committed!Learn, Known, Agreement, old, new
    <3> QED
      BY <3>1, <3>4 DEF Committed!Next
  <2> QED
    BY <1>8, <2>2, <2>3
<1>10. CASE n > Len(old)
  <2>1. new = Known'[i]
    <3>1. q = i
      BY <1>1, <1>2, <1>4, <1>5, <1>8, <1>10
    <3> QED
      BY <1>4, <3>1
  <2>2. Len(old) < Len(new)
    BY <1>1, <1>8, <1>10
  <2>3. PICK commands \in [1 .. Len(new) - Len(old) -> Command] : new = old \o commands
    <3>1. \A m \in 1 .. Len(old) : old[m] = new[m]
      BY <1>6
    <3> QED
      BY <1>1, <2>2, <3>1, RestByElements
  <2>4. Len(new) - Len(old) \in 1 .. MaxLog - Len(old)
    <3>1. Len(new) <= MaxLog /\ Len(old) \in Nat /\ Len(new) \in Nat /\ MaxLog \in Nat
      BY <1>1, BoundsAssumption
    <3> QED
      BY <2>2, <3>1
  <2>5. Known' = [Known EXCEPT ![i] = new]
    BY <1>7, <2>1
  <2>6. Committed!Agree(i, commands)
    BY <2>3, <2>5 DEF Committed!Agree, Known, Agreement, old, new
  <2> QED
    BY <2>3, <2>4, <2>6 DEF Committed!Next, Agreement, old
<1> QED
  BY <1>1, <1>8, <1>9, <1>10

\* The committed commands of a cluster of any size form one log that only
\* grows, and every node knows a beginning of it that only grows.
THEOREM ReplicatedLogImplemented ==
    ASSUME Server # {}
    PROVE  RestartSpec /\ NoElection => ImplementsReplicatedLog
<1>1. Init /\ CoreInv /\ FixedInv => Committed!Init
  <2> SUFFICES ASSUME Init, CoreInv, FixedInv PROVE Committed!Init
    OBVIOUS
  <2>1. OneAgreement
    BY CommittedAgree
  <2>2. \A p \in Server : Known[p] = <<>>
    BY <2>1 DEF OneAgreement, Init, EmptyStore
  <2>3. Agreement = <<>>
    BY <2>1, <2>2 DEF OneAgreement
  <2>4. Known = [i \in Server |-> <<>>]
    BY <2>2 DEF Known
  <2> QED
    BY <2>3, <2>4 DEF Committed!Init, Agreement, Known
<1>2. CoreInv /\ FixedInv => OneAgreement
  BY CommittedAgree
<1>3. CoreInv /\ CoreInv' /\ LeadershipInv /\ FixedInv /\ FixedInv'
         /\ OneAgreement /\ OneAgreement' /\ [FixedNext]_vars
      => [Committed!Next]_Committed!vars
  <2> SUFFICES ASSUME CoreInv, CoreInv', LeadershipInv, FixedInv, FixedInv',
                      OneAgreement, OneAgreement', [FixedNext]_vars
               PROVE  [Committed!Next]_Committed!vars
    OBVIOUS
  <2>1. CASE UNCHANGED vars
    BY <2>1 DEF vars, Committed!vars, CommittedCommands, Furthest
  <2>2. CASE FixedNext
    BY <2>2, StepOfLog DEF FixedNext, FixedStep, AnyStep, NextWithRestarts
  <2> QED
    BY <2>1, <2>2
<1> QED
  BY CoreInvariant, LeadershipInvariant, FixedInvariant, StepsWithoutElection,
     <1>1, <1>2, <1>3, PTL
  DEF RestartSpec, NoElection, ImplementsReplicatedLog, Committed!Spec

-----------------------------------------------------------------------------
(* What clients are told *)

ClientTyped == client \in [Command -> [progress : Progress, node : Server \cup {None}]]

IsPlaced(command, l) == l \in Flagged /\ \E n : HasEntry(store[l].disk, n, 0, command)

Absent(command) == \A n, t : ~Copied(n, t, command)

\* A command that was accepted is on the disk of the leader, and one that was
\* not is nowhere, on no disk and in no request.
AnswersBacked == \A command \in Command :
    /\ client[command].progress \in {"served", "succeeded"} =>
          IsPlaced(command, client[command].node)
    /\ client[command].progress \in {"new", "refused"} => Absent(command)

AnswersInv == ClientTyped /\ AnswersBacked

LEMMA ClientStepsAreSteps ==
    [ClientNext]_clientVars => [NextWithRestarts]_vars
<1>1. CASE ClientNext
  <2>1. CASE \E command \in Command, i \in Server :
                Unreachable(command, i) \/ RefusedByFollower(command, i)
    BY <2>1 DEF Unreachable, RefusedByFollower
  <2>2. CASE \E command \in Command, i \in Server : AcceptedByLeader(command, i)
    BY <2>2 DEF AcceptedByLeader, NextWithRestarts, Step
  <2>3. CASE \E i \in Server : NodeStep(i) \/ Crash(i) \/ Restart(i)
    BY <2>3 DEF NextWithRestarts, Step
  <2> QED
    BY <1>1, <2>1, <2>2, <2>3 DEF ClientNext
<1>2. CASE UNCHANGED clientVars
  BY <1>2 DEF clientVars
<1> QED
  BY <1>1, <1>2

\* The clients are those of a cluster that RestartSpec describes.
LEMMA ClientSpecIsRestartSpec == ClientSpec => RestartSpec
<1>1. ClientInit => Init
  BY DEF ClientInit
<1> QED
  BY <1>1, ClientStepsAreSteps, PTL DEF ClientSpec, RestartSpec

\* Nothing but a client makes a node append.
LEMMA OnlyClientsAppend ==
    ASSUME CoreInv, NEW i \in Server, NodeStep(i) \/ Crash(i) \/ Restart(i),
           NEW command \in Command
    PROVE  ~ClientAppend(i, command)
<1> SUFFICES ASSUME ClientAppend(i, command) PROVE FALSE
  OBVIOUS
<1>1. /\ call[i].op = "idle" /\ state[i] = "Leader"
      /\ call' = [call EXCEPT ![i] = LoopAt(i, "replicate", 1)]
      /\ state' = state
  BY DEF ClientAppend, electionVars
<1>2. call'[i].op = "replicate"
  BY <1>1 DEF LoopAt, CoreInv, TypeOK
<1>3. store' # store
  <2>1. store'[i].lastLogIndex = store[i].lastLogIndex + 1
    BY ClientAppendEffect
  <2>2. store[i].lastLogIndex \in Nat
    BY LogEnds
  <2> QED
    BY <2>1, <2>2
<1>4. CASE HandleRequestVote(i) \/ RejectAppendEntries(i) \/ AcceptAppendEntries(i)
  <2>1. backlog[i] # <<>> /\ \E reply : Answer(i, reply)
    BY <1>4 DEF HandleRequestVote, RejectAppendEntries, AcceptAppendEntries,
       ReceiveAppendEntries, Accepts
  <2>2. call'[i].op = call[i].op
    BY <1>1, <2>1, AnswerGiven
  <2> QED
    BY <1>1, <1>2, <2>2
<1>5. CASE Launch(i) \/ Restart(i)
  BY <1>1, <1>5 DEF Launch, Restart
<1>6. CASE Continue(i)
  BY <1>1, <1>6 DEF Continue, Send, AtPeer, WinElection, CollectVote, Granted, NoVote,
     HeartbeatAnswered, SkipPeer, ReplicationSucceeded, ReplicationRejected,
     ReplicationFailed, FinishAppend, Got, Rounds
<1>7. CASE StartElection(i)
  BY <1>1, <1>7 DEF StartElection
<1>8. CASE DropConnection(i) \/ StartHeartbeats(i) \/ Break(i)
  BY <1>3, <1>8 DEF DropConnection, StartHeartbeats, Break
<1>9. CASE Crash(i)
  BY <1>2, <1>9, CrashKills, TasksAfterDeath
<1> QED
  BY <1>4, <1>5, <1>6, <1>7, <1>8, <1>9 DEF NodeStep, Serve

\* A step appends one command at most.
LEMMA AppendsOne ==
    ASSUME CoreInv, NEW i \in Server, NEW c1 \in Command, NEW c2 \in Command,
           ClientAppend(i, c1), ClientAppend(i, c2)
    PROVE  c1 = c2
<1> DEFINE n == store[i].lastLogIndex + 1
<1>1. HasEntry(store'[i].disk, n, currentTerm[i], c1)
  BY ClientAppendEffect
<1>2. HasEntry(store'[i].disk, n, currentTerm[i], c2)
  BY ClientAppendEffect
<1> QED
  BY <1>1, <1>2 DEF HasEntry

LEMMA PlacedKept ==
    ASSUME CoreInv, LeadershipInv, FixedInv, [FixedNext]_vars,
           NEW command, NEW l, IsPlaced(command, l)
    PROVE  IsPlaced(command, l)'
<1>1. PICK n : l \in Flagged /\ HasEntry(store[l].disk, n, 0, command)
  BY DEF IsPlaced
<1>2. CASE FixedNext
  <2>1. PICK i \in Server : FixedStep(i)
    BY <1>2 DEF FixedNext, FixedStep, AnyStep, NextWithRestarts
  <2>2. HasEntry(store'[l].disk, n, 0, command)
    BY <1>1, <2>1, LeaderKeepsDisk DEF FixedInv
  <2> QED
    BY <1>1, <2>2 DEF IsPlaced, HasEntry
<1>3. CASE UNCHANGED vars
  BY <1>3 DEF vars, IsPlaced, HasEntry
<1> QED
  BY <1>2, <1>3

LEMMA AbsentKept ==
    ASSUME CoreInv, [ClientNext]_clientVars, NEW command \in Command,
           \A i \in Server : ~AcceptedByLeader(command, i), Absent(command)
    PROVE  Absent(command)'
<1> SUFFICES ASSUME NEW n, NEW t, Copied(n, t, command)' PROVE FALSE
  BY DEF Absent
<1>1. ~Copied(n, t, command)
  BY DEF Absent
<1>2. CASE UNCHANGED vars
  BY <1>1, <1>2, CopiesStay DEF vars
<1>3. ASSUME NEW i \in Server, AnyStep(i), ~ClientAppend(i, command)
      PROVE  FALSE
  BY <1>1, <1>3, CopiesTraced DEF NewCopy
<1>4. CASE \E c \in Command, i \in Server : AcceptedByLeader(c, i)
  <2>1. PICK c \in Command, i \in Server : AcceptedByLeader(c, i)
    BY <1>4
  <2>2. ClientAppend(i, c) /\ c # command
    BY <2>1 DEF AcceptedByLeader
  <2>3. AnyStep(i) /\ ~ClientAppend(i, command)
    BY <2>2, AppendsOne DEF AnyStep, Step
  <2> QED
    BY <1>3, <2>3
<1>5. CASE \E i \in Server : NodeStep(i) \/ Crash(i) \/ Restart(i)
  BY <1>3, <1>5, OnlyClientsAppend DEF AnyStep, Step
<1> QED
  BY <1>2, <1>4, <1>5
  DEF ClientNext, clientVars, Unreachable, RefusedByFollower

\* What Client(..) holds.
LEMMA ClientFields ==
    ASSUME NEW progress \in Progress, NEW i \in Server \cup {None}
    PROVE  /\ Client(progress, i).progress = progress
           /\ Client(progress, i).node = i
           /\ Client(progress, i) \in [progress : Progress, node : Server \cup {None}]
BY DEF Client

\* A report changes what one client knows.
LEMMA ReportEffect ==
    ASSUME ClientTyped, NEW c \in Command, NEW progress \in Progress,
           NEW i \in Server, Report(c, progress, i)
    PROVE  /\ ClientTyped'
           /\ client'[c].progress = progress
           /\ client'[c].node = i
           /\ \A d \in Command : d # c => client'[d] = client[d]
<1> DEFINE r == Client(progress, i)
<1>1. client' = [client EXCEPT ![c] = r]
  BY DEF Report
<1>2. /\ r.progress = progress
      /\ r.node = i
      /\ r \in [progress : Progress, node : Server \cup {None}]
  BY ClientFields
<1> HIDE DEF r
<1> QED
  BY <1>1, <1>2 DEF ClientTyped

LEMMA AcceptedIsServed ==
    ASSUME ClientTyped, NEW c \in Command, NEW i \in Server, AcceptedByLeader(c, i)
    PROVE  /\ client[c].progress = "new"
           /\ ClientTyped'
           /\ client'[c].progress = "served"
           /\ client'[c].node = i
           /\ \A d \in Command : d # c => client'[d] = client[d]
<1>1. client[c].progress = "new" /\ Report(c, "served", i)
  BY DEF AcceptedByLeader, IsNew
<1>2. "served" \in Progress
  BY DEF Progress
<1> QED
  BY <1>1, <1>2, ReportEffect

\* What a client notices.
LEMMA NoticedEffect ==
    ASSUME ClientTyped, Notice, NEW c \in Command
    PROVE  /\ \/ client'[c] = client[c]
              \/ /\ client[c].progress = "served"
                 /\ client'[c].progress \in {"succeeded", "failed"}
                 /\ client'[c].node = client[c].node
           /\ client'[c] \in [progress : Progress, node : Server \cup {None}]
<1>1. client'[c] = Noticed(client[c])
  BY DEF Notice
<1>2. client[c] \in [progress : Progress, node : Server \cup {None}]
  BY DEF ClientTyped
<1>3. \/ client'[c] = client[c]
      \/ /\ client[c].progress = "served"
         /\ client'[c] = Client("succeeded", client[c].node)
      \/ /\ client[c].progress = "served"
         /\ client'[c] = Client("failed", client[c].node)
  BY <1>1 DEF Noticed
<1>4. client[c].node \in Server \cup {None}
  BY <1>2
<1>5. CASE client'[c] = client[c]
  BY <1>2, <1>5
<1>6. CASE /\ client[c].progress = "served"
           /\ client'[c] = Client("succeeded", client[c].node)
  <2>1. "succeeded" \in Progress
    BY DEF Progress
  <2> QED
    BY <1>4, <1>6, <2>1, ClientFields
<1>7. CASE /\ client[c].progress = "served"
           /\ client'[c] = Client("failed", client[c].node)
  <2>1. "failed" \in Progress
    BY DEF Progress
  <2> QED
    BY <1>4, <1>7, <2>1, ClientFields
<1> QED
  BY <1>3, <1>5, <1>6, <1>7

\* A step keeps the clients' records typed.
LEMMA ClientsTyped ==
    ASSUME ClientTyped, [ClientNext]_clientVars PROVE ClientTyped'
<1>1. ASSUME NEW c \in Command, NEW i \in Server,
             Unreachable(c, i) \/ RefusedByFollower(c, i)
      PROVE  ClientTyped'
  <2>1. PICK progress \in {"failed", "refused"} : Report(c, progress, i)
    BY <1>1 DEF Unreachable, RefusedByFollower
  <2>2. progress \in Progress
    BY DEF Progress
  <2> QED
    BY <2>1, <2>2, ReportEffect
<1>2. ASSUME Notice PROVE ClientTyped'
  <2>1. client' = [c \in Command |-> Noticed(client[c])]
    BY <1>2 DEF Notice
  <2>2. \A c \in Command :
           client'[c] \in [progress : Progress, node : Server \cup {None}]
    BY <1>2, NoticedEffect
  <2> QED
    BY <2>1, <2>2 DEF ClientTyped
<1>3. \/ \E c \in Command, i \in Server : AcceptedByLeader(c, i)
      \/ \E c \in Command, i \in Server : Unreachable(c, i) \/ RefusedByFollower(c, i)
      \/ Notice
      \/ client' = client
  BY DEF ClientNext, clientVars
<1>4. ASSUME client' = client PROVE ClientTyped'
  BY <1>4 DEF ClientTyped
<1> QED
  BY <1>1, <1>2, <1>3, <1>4, AcceptedIsServed

\* How far a client is follows from how far it was.
LEMMA ClientTraced ==
    ASSUME ClientTyped, [ClientNext]_clientVars, NEW command \in Command
    PROVE  /\ client'[command].progress \in {"served", "succeeded"} =>
                 \/ /\ client[command].progress \in {"served", "succeeded"}
                    /\ client'[command].node = client[command].node
                 \/ /\ client'[command].node \in Server
                    /\ AcceptedByLeader(command, client'[command].node)
           /\ client'[command].progress \in {"new", "refused"} =>
                 /\ client[command].progress \in {"new", "refused"}
                 /\ \A i \in Server : ~AcceptedByLeader(command, i)
<1>1. ASSUME NEW i \in Server, AcceptedByLeader(command, i)
      PROVE  client'[command].progress = "served"
  BY <1>1, AcceptedIsServed
<1>2. ASSUME NEW c \in Command, NEW i \in Server, AcceptedByLeader(c, i)
      PROVE  \/ client'[command] = client[command]
             \/ /\ client'[command].node \in Server
                /\ AcceptedByLeader(command, client'[command].node)
  <2>1. CASE c = command
    BY <1>2, <2>1, AcceptedIsServed
  <2>2. CASE c # command
    BY <1>2, <2>2, AcceptedIsServed
  <2> QED
    BY <2>1, <2>2
<1>3. ASSUME NEW c \in Command, NEW i \in Server,
             Unreachable(c, i) \/ RefusedByFollower(c, i)
      PROVE  \/ client'[command] = client[command]
             \/ /\ client[command].progress = "new"
                /\ client'[command].progress \in {"failed", "refused"}
  <2>1. PICK progress \in {"failed", "refused"} :
           client[c].progress = "new" /\ Report(c, progress, i)
    BY <1>3 DEF Unreachable, RefusedByFollower, IsNew
  <2>2. progress \in Progress
    BY <2>1 DEF Progress
  <2>3. /\ client'[c].progress = progress
        /\ \A d \in Command : d # c => client'[d] = client[d]
    BY <2>1, <2>2, ReportEffect
  <2> QED
    BY <2>1, <2>3
<1>4. ASSUME Notice
      PROVE  \/ client'[command] = client[command]
             \/ /\ client[command].progress = "served"
                /\ client'[command].progress \in {"succeeded", "failed"}
                /\ client'[command].node = client[command].node
  BY <1>4, NoticedEffect
<1>5. \/ \E c \in Command, i \in Server : AcceptedByLeader(c, i)
      \/ \E c \in Command, i \in Server : Unreachable(c, i) \/ RefusedByFollower(c, i)
      \/ Notice
      \/ client' = client
  BY DEF ClientNext, clientVars
<1>6. \/ client'[command] = client[command]
      \/ /\ client'[command].node \in Server
         /\ AcceptedByLeader(command, client'[command].node)
      \/ /\ client[command].progress = "new"
         /\ client'[command].progress \in {"failed", "refused"}
      \/ /\ client[command].progress = "served"
         /\ client'[command].progress \in {"succeeded", "failed"}
         /\ client'[command].node = client[command].node
  BY <1>2, <1>3, <1>4, <1>5
<1> QED
  BY <1>1, <1>6

LEMMA NextAnswers ==
    ASSUME CoreInv, LeadershipInv, FixedInv, AnswersInv,
           [ClientNext]_clientVars, [FixedNext]_vars
    PROVE  AnswersInv'
<1>1. ClientTyped
  BY DEF AnswersInv
<1>2. ClientTyped'
  BY <1>1, ClientsTyped
<1> SUFFICES ASSUME NEW command \in Command
             PROVE  /\ client'[command].progress \in {"served", "succeeded"} =>
                         IsPlaced(command, client[command].node)'
                    /\ client'[command].progress \in {"new", "refused"} =>
                         Absent(command)'
  BY <1>2 DEF AnswersInv, AnswersBacked
<1> DEFINE l == client'[command].node
<1>3. ASSUME client'[command].progress \in {"served", "succeeded"}
      PROVE  IsPlaced(command, client[command].node)'
  <2>1. CASE /\ client[command].progress \in {"served", "succeeded"}
             /\ client'[command].node = client[command].node
    <3>1. IsPlaced(command, client[command].node)
      BY <2>1 DEF AnswersInv, AnswersBacked
    <3>2. PICK n : client[command].node \in Flagged
                   /\ HasEntry(store[client[command].node].disk, n, 0, command)
      BY <3>1 DEF IsPlaced
    <3> QED
      BY <2>1, <3>1, PlacedKept DEF IsPlaced
  <2>2. CASE l \in Server /\ AcceptedByLeader(command, l)
    <3> HIDE DEF l
    <3>1. ClientAppend(l, command)
      BY <2>2 DEF AcceptedByLeader
    <3>2. l \in Flagged
      BY <2>2, <3>1, OnlyFlaggedLead DEF ClientAppend, FixedInv
    <3>3. HasEntry(store'[l].disk, store[l].lastLogIndex + 1, 0, command)
      <4>1. currentTerm[l] = 0
        BY <2>2 DEF FixedInv, OneLeader
      <4> QED
        BY <2>2, <3>1, <4>1, ClientAppendEffect
    <3> QED
      BY <3>2, <3>3 DEF IsPlaced, HasEntry, l
  <2> QED
    BY <1>1, <1>3, <2>1, <2>2, ClientTraced
<1>4. ASSUME client'[command].progress \in {"new", "refused"}
      PROVE  Absent(command)'
  <2>1. /\ client[command].progress \in {"new", "refused"}
        /\ \A i \in Server : ~AcceptedByLeader(command, i)
    BY <1>1, <1>4, ClientTraced
  <2> QED
    BY <2>1, AbsentKept DEF AnswersInv, AnswersBacked
<1> QED
  BY <1>1, <1>3, <1>4, ClientTraced

\* What a client is told of its command stays so, in a cluster of any size and
\* with any number of clients, as long as no election is started.
THEOREM AnswersAreTruthful == ClientSpec /\ NoElection => []AnswersTruthful
<1>1. ClientInit => AnswersInv
  <2> SUFFICES ASSUME ClientInit PROVE AnswersInv
    OBVIOUS
  <2>1. \A n, t, c : ~Copied(n, t, c)
    BY EmptyLogIsLog DEF ClientInit, Init, Copied, InStore, HasEntry, EmptyStore
  <2>2. \A command \in Command : client[command] = Client("new", None)
    BY DEF ClientInit
  <2>3. ClientTyped
    BY DEF ClientInit, ClientTyped, Client, Progress
  <2> QED
    BY <2>1, <2>2, <2>3 DEF AnswersInv, AnswersBacked, Absent, Client
<1>2. CoreInv /\ LeadershipInv /\ FixedInv /\ AnswersInv
         /\ [ClientNext]_clientVars /\ [FixedNext]_vars => AnswersInv'
  BY NextAnswers
<1>3. AnswersInv => AnswersTruthful
  <2> SUFFICES ASSUME AnswersInv, NEW command \in Command
               PROVE  /\ client[command].progress = "succeeded" =>
                            Places(command, client[command].node) # {}
                      /\ client[command].progress \in {"new", "refused"} =>
                            \A j \in Server : Places(command, j) = {}
    BY DEF AnswersTruthful
  <2>1. ASSUME client[command].progress = "succeeded"
        PROVE  Places(command, client[command].node) # {}
    BY <2>1 DEF AnswersInv, AnswersBacked, IsPlaced, HasEntry, Places
  <2>2. ASSUME client[command].progress \in {"new", "refused"}, NEW j \in Server
        PROVE  Places(command, j) = {}
    <3>1. Absent(command)
      BY <2>2 DEF AnswersInv, AnswersBacked
    <3> QED
      BY <3>1, StoredIsCopied DEF Absent, Places
  <2> QED
    BY <2>1, <2>2
<1> QED
  BY ClientSpecIsRestartSpec, CoreInvariant, LeadershipInvariant, FixedInvariant,
     StepsWithoutElection, ClientStepsAreSteps, <1>1, <1>2, <1>3, PTL
  DEF ClientSpec, NoElection
=============================================================================
