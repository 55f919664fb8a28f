----------------------------- MODULE LogProofs -----------------------------
(***************************************************************************)
(* What is in the logs: who leads whom, what is marked committed, and      *)
(* where an entry comes from.  First what any step does to the connections *)
(* and to the stores, then three invariants that rest on it.               *)
(***************************************************************************)
EXTENDS ElectionProofs

AnyStep(i) == Step(i) \/ Crash(i) \/ Restart(i)

-----------------------------------------------------------------------------
(* The effect of a step on the connections *)

\* A connection that was there before; it may have been abandoned since.
IsLeftOf(now, before) ==
    /\ now.from = before.from
    /\ now.request = before.request
    /\ now.live => before.live

WasThere(connection, j) ==
    \E k \in 1 .. Len(backlog[j]) : IsLeftOf(connection, backlog[j][k])

LEMMA HeadGoesTraced ==
    ASSUME CoreInv, NEW j \in Server, backlog[j] # <<>>,
           backlog' = [backlog EXCEPT ![j] = Tail(@)],
           NEW m \in Server, NEW n \in 1 .. Len(backlog'[m])
    PROVE  WasThere(backlog'[m][n], m)
<1>1. /\ PlaceBefore(m, n, j) \in 1 .. Len(backlog[m])
      /\ backlog'[m][n] = backlog[m][PlaceBefore(m, n, j)]
  BY HeadGoes, CoreParts
<1> QED
  BY <1>1 DEF WasThere, IsLeftOf

LEMMA AbandonedTraced ==
    ASSUME CoreInv, NEW i \in Server, NEW m \in Server,
           NEW n \in 1 .. Len(backlog'[m]),
           backlog'[m] \in {backlog[m], Abandoned(backlog[m], i)}
    PROVE  WasThere(backlog'[m][n], m)
<1>1. backlog[m] \in Seq(Connection)
  BY DEF CoreInv, TypeOK
<1>2. n \in 1 .. Len(backlog[m])
  BY <1>1, AbandonedBacklog
<1>3. IsLeftOf(backlog'[m][n], backlog[m][n])
  BY <1>1, <1>2, AbandonedBacklog DEF IsLeftOf
<1> QED
  BY <1>2, <1>3 DEF WasThere

\* Only a node that begins a call opens a connection, with the request that its
\* loop has for this peer.
Opens(i, j, connection) ==
    /\ Send(i)
    /\ Callee(i) = j
    /\ connection = [from |-> i, request |-> RequestOf(i), live |-> TRUE]

LEMMA SendTraced ==
    ASSUME CoreInv, NEW i \in Server, Send(i),
           NEW m \in Server, NEW n \in 1 .. Len(backlog'[m])
    PROVE  WasThere(backlog'[m][n], m) \/ Opens(i, m, backlog'[m][n])
<1> DEFINE new == [from |-> i, request |-> RequestOf(i), live |-> TRUE]
           peer == Callee(i)
<1>1. backlog[m] \in Seq(Connection) /\ DOMAIN backlog = Server
  BY DEF CoreInv, TypeOK
<1>2. \/ backlog' = backlog
      \/ backlog' = [backlog EXCEPT ![peer] = Append(@, new)]
  BY DEF Send
<1> HIDE DEF new, peer
<1>3. CASE backlog'[m] = backlog[m]
  BY <1>3 DEF WasThere, IsLeftOf
<1>4. CASE m = peer /\ backlog'[m] = Append(backlog[m], new)
  <2>1. \/ n \in 1 .. Len(backlog[m]) /\ backlog'[m][n] = backlog[m][n]
        \/ backlog'[m][n] = new
    BY <1>1, <1>4
  <2> QED
    BY <1>4, <2>1 DEF WasThere, IsLeftOf, Opens, new, peer
<1> QED
  BY <1>1, <1>2, <1>3, <1>4

LEMMA CrashKills == ASSUME NEW i \in Server, Crash(i) PROVE Dies(i)
BY DEF Crash, CrashBetween, CrashServing, CrashCommitting

LEMMA ConnectionsTraced ==
    ASSUME CoreInv, NEW i \in Server, AnyStep(i),
           NEW m \in Server, NEW n \in 1 .. Len(backlog'[m])
    PROVE  WasThere(backlog'[m][n], m) \/ Opens(i, m, backlog'[m][n])
<1>1. CASE backlog' = backlog
  BY <1>1 DEF WasThere, IsLeftOf
<1>2. CASE Launch(i) \/ Restart(i)
  BY <1>1, <1>2 DEF Launch, Restart, Boot
<1>3. CASE Serve(i)
  <2>1. backlog[i] # <<>> /\ backlog' = [backlog EXCEPT ![i] = Tail(@)]
    BY <1>3 DEF Serve, HandleRequestVote, RejectAppendEntries, AcceptAppendEntries,
       ReceiveAppendEntries, Accepts, Answer, DropConnection
  <2> QED
    BY <2>1, HeadGoesTraced
<1>4. CASE Send(i)
  BY <1>4, SendTraced
<1>5. CASE Continue(i) /\ ~Send(i)
  BY <1>1, <1>5 DEF Continue, WinElection, CollectVote, NoVote, HeartbeatAnswered,
     SkipPeer, ReplicationSucceeded, ReplicationRejected, ReplicationFailed,
     FinishAppend
<1>6. CASE StartElection(i) \/ StartHeartbeats(i)
           \/ \E command \in Command : ClientAppend(i, command)
  BY <1>1, <1>6 DEF StartElection, StartHeartbeats, ClientAppend
<1>7. CASE Break(i)
  <2>1. backlog'[m] \in {backlog[m], Abandoned(backlog[m], i)}
    BY <1>7 DEF Break, CoreInv, TypeOK
  <2> QED
    BY <2>1, AbandonedTraced
<1>8. CASE Crash(i)
  <2>1. m # i /\ backlog'[m] = Abandoned(backlog[m], i)
    <3>1. m = i => backlog'[m] = <<>>
      BY <1>8, CrashKills DEF Dies
    <3> QED
      BY <1>8, <3>1, CrashKills DEF Dies
  <2> QED
    BY <2>1, AbandonedTraced
<1> QED
  BY <1>2, <1>3, <1>4, <1>5, <1>6, <1>7, <1>8 DEF AnyStep, Step, NodeStep

\* What a node sends in a round of AppendEntries.
LEMMA RequestSent ==
    ASSUME CoreInv, NEW i \in Server, Send(i)
    PROVE  /\ UNCHANGED <<electionVars, leaderVars, historyVars, store>>
           /\ call[i].op \in Rounds /\ call[i].k \in 1 .. Len(Peers[i])
           /\ Callee(i) \in Server /\ Callee(i) # i
           /\ call[i].op = "votes" => RequestOf(i) = RequestVote(i)
           /\ call[i].op = "heartbeats" =>
                 RequestOf(i) = AppendEntriesTo(i, Callee(i), EmptyLog)
           /\ call[i].op = "replicate" =>
                 RequestOf(i) = AppendEntriesTo(i, Callee(i), Unreplicated(i, Callee(i)))
<1>1. call[i].op \in Rounds /\ call[i].k \in 1 .. Len(Peers[i])
  BY DEF Send, AtPeer
<1>2. Callee(i) \in Server /\ Callee(i) # i
  BY <1>1, PeerIsServer DEF Callee
<1> QED
  BY <1>1, <1>2 DEF Send, RequestOf, Rounds

-----------------------------------------------------------------------------
(* The effect of a step on the stores *)

\* The log file, the ends and the commit index of a node stay what they are; its
\* entries in memory are at most read back from disk.
LogUndisturbed(p) ==
    /\ store'[p].disk = store[p].disk
    /\ store'[p].lastLogIndex = store[p].lastLogIndex
    /\ store'[p].commitIndex = store[p].commitIndex
    /\ store'[p].entries \in {store[p].entries, store[p].disk}
    /\ IsUp(p) => store'[p].entries = store[p].entries

LEMMA StoreTermSet ==
    ASSUME CoreInv, NEW i \in Server, NEW term,
           store' = [store EXCEPT ![i] = SetCurrentTerm(@, term)],
           NEW p \in Server
    PROVE  LogUndisturbed(p)
<1>1. store[i] \in Store
  BY DEF CoreInv, TypeOK
<1>2. store'[p] = IF p = i THEN SetCurrentTerm(store[i], term) ELSE store[p]
  BY DEF CoreInv, TypeOK
<1> QED
  BY <1>1, <1>2 DEF LogUndisturbed, SetCurrentTerm, Store

LEMMA StoreLoaded ==
    ASSUME CoreInv, NEW i \in Server, ~IsUp(i), Boot(i), NEW p \in Server
    PROVE  LogUndisturbed(p)
<1>1. store[i] \in Store
  BY DEF CoreInv, TypeOK
<1>2. store'[p] = IF p = i THEN Load(store[i]) ELSE store[p]
  BY DEF CoreInv, TypeOK, Boot
<1> QED
  BY <1>1, <1>2 DEF LogUndisturbed, Load, Store

\* A follower takes over something of the request it serves: all of it, or what
\* it comes to before it is killed.
TakesEntries(j) ==
    /\ Accepts(j, "AppendEntries")
    /\ Request(j).term >= currentTerm[j]
    /\ LogMatches(store[j], Request(j))
    /\ AdoptTerm(j, Request(j).term)
    /\ \E s \in OnTheWay(j, Request(j)) : store' = [store EXCEPT ![j] = s]
    /\ AcceptAppendEntries(j) \/ Dies(j)

\* A leader commits, at the end of append_command.
Commits(i) ==
    /\ call[i].op = "replicate"
    /\ \E n \in Committable(i) : store' = [store EXCEPT ![i] = CommitUpTo(@, n)]
    /\ FinishAppend(i) \/ Dies(i)

\* Three kinds of steps write logs; whatever else happens leaves them alone.
LEMMA StoresTraced ==
    ASSUME CoreInv, NEW i \in Server, AnyStep(i)
    PROVE  /\ \/ \A p \in Server : LogUndisturbed(p)
              \/ TakesEntries(i)
              \/ \E command \in Command : ClientAppend(i, command)
              \/ Commits(i)
           /\ \A p \in Server \ {i} : store'[p] = store[p]
<1>1. CASE store' = store
  BY <1>1 DEF LogUndisturbed
<1>2. CASE Launch(i) \/ Restart(i)
  <2>1. ~IsUp(i) /\ Boot(i)
    BY <1>2 DEF Launch, Restart, IsUp
  <2>2. \A p \in Server \ {i} : store'[p] = store[p]
    BY <2>1 DEF Boot, CoreInv, TypeOK
  <2> QED
    BY <2>1, <2>2, StoreLoaded
<1>3. CASE HandleRequestVote(i) \/ RejectAppendEntries(i)
  <2>1. store' = [store EXCEPT ![i] = StoreAfter(i, Request(i).term)]
    BY <1>3 DEF HandleRequestVote, RejectAppendEntries
  <2>2. \/ store' = [store EXCEPT ![i] = SetCurrentTerm(@, Request(i).term)]
        \/ store' = store
    BY <2>1 DEF StoreAfter, CoreInv, TypeOK
  <2>3. \A p \in Server \ {i} : store'[p] = store[p]
    BY <2>1 DEF CoreInv, TypeOK
  <2> QED
    BY <1>1, <2>2, <2>3, StoreTermSet
<1>4. CASE StartElection(i)
  <2>1. store' = [store EXCEPT ![i] = SetCurrentTerm(@, currentTerm[i] + 1)]
    BY <1>4 DEF StartElection
  <2>2. \A p \in Server \ {i} : store'[p] = store[p]
    BY <2>1 DEF CoreInv, TypeOK
  <2> QED
    BY <2>1, <2>2, StoreTermSet
<1>5. CASE \/ AcceptAppendEntries(i) \/ FinishAppend(i)
           \/ \E command \in Command : ClientAppend(i, command)
  <2>1. \A p \in Server \ {i} : store'[p] = store[p]
    BY <1>5 DEF AcceptAppendEntries, FinishAppend, ClientAppend, CoreInv, TypeOK
  <2>2. AcceptAppendEntries(i) => TakesEntries(i)
    BY DEF AcceptAppendEntries, ReceiveAppendEntries, TakesEntries, OnTheWay,
       WithNewEntries
  <2>3. FinishAppend(i) => store' = store \/ Commits(i)
    BY DEF FinishAppend, Commits
  <2> QED
    BY <1>1, <1>5, <2>1, <2>2, <2>3
<1>6. CASE DropConnection(i) \/ StartHeartbeats(i) \/ Break(i) \/ CrashBetween(i)
  BY <1>1, <1>6 DEF DropConnection, StartHeartbeats, Break, CrashBetween
<1>7. CASE CrashServing(i)
  <2>1. \A p \in Server \ {i} : store'[p] = store[p]
    BY <1>7 DEF CrashServing, CoreInv, TypeOK
  <2>2. CASE store' = [store EXCEPT ![i] = StoreAfter(i, Request(i).term)]
    <3>1. \/ store' = [store EXCEPT ![i] = SetCurrentTerm(@, Request(i).term)]
          \/ store' = store
      BY <2>2 DEF StoreAfter, CoreInv, TypeOK
    <3> QED
      BY <1>1, <2>1, <3>1, StoreTermSet
  <2>3. CASE store' # [store EXCEPT ![i] = StoreAfter(i, Request(i).term)]
    <3>1. TakesEntries(i)
      BY <1>7, <2>3 DEF CrashServing, TakesEntries, Accepts, Request
    <3> QED
      BY <2>1, <3>1
  <2> QED
    BY <2>2, <2>3
<1>8. CASE CrashCommitting(i)
  <2>1. \A p \in Server \ {i} : store'[p] = store[p]
    BY <1>8 DEF CrashCommitting, CoreInv, TypeOK
  <2>2. Commits(i)
    BY <1>8 DEF CrashCommitting, Commits
  <2> QED
    BY <2>1, <2>2
<1>9. CASE Continue(i) /\ ~FinishAppend(i)
  BY <1>1, <1>9 DEF Continue, Send, WinElection, CollectVote, NoVote,
     HeartbeatAnswered, SkipPeer, ReplicationSucceeded, ReplicationRejected,
     ReplicationFailed
<1> QED
  BY <1>2, <1>3, <1>4, <1>5, <1>6, <1>9, <1>7, <1>8
  DEF AnyStep, Step, NodeStep, Serve, Crash

\* append_command adds one entry of the leader's term at the end of its log.
LEMMA ClientAppendEffect ==
    ASSUME CoreInv, NEW i \in Server, NEW command \in Command,
           ClientAppend(i, command)
    PROVE  /\ \A n, t, c : InStore(store'[i], n, t, c) =>
                 \/ InStore(store[i], n, t, c)
                 \/ n = store[i].lastLogIndex + 1 /\ t = currentTerm[i] /\ c = command
           /\ \A n, t, c : HasEntry(store[i].entries, n, t, c) =>
                 HasEntry(store'[i].entries, n, t, c)
           /\ \A n, t, c : HasEntry(store[i].disk, n, t, c) =>
                 HasEntry(store'[i].disk, n, t, c)
           /\ HasEntry(store'[i].entries, store[i].lastLogIndex + 1,
                       currentTerm[i], command)
           /\ HasEntry(store'[i].disk, store[i].lastLogIndex + 1,
                       currentTerm[i], command)
           /\ store'[i].commitIndex = store[i].commitIndex
           /\ store'[i].lastLogIndex = store[i].lastLogIndex + 1
           /\ \A index : FlagsUpTo(store[i].entries, index) =>
                 FlagsUpTo(store'[i].entries, index)
           /\ \A index : FlagsUpTo(store[i].disk, index) =>
                 FlagsUpTo(store'[i].disk, index)
<1> DEFINE id    == store[i].lastLogIndex + 1
           entry == [term |-> currentTerm[i], command |-> command,
                     committed |-> FALSE]
           batch == [n \in {id} |-> entry]
           s     == store[i]
           t     == AppendBatch(s, batch)
<1>1. /\ s \in Store /\ id \in Nat /\ s.lastLogIndex \in Nat
      /\ DOMAIN s.entries = 1 .. s.lastLogIndex /\ DOMAIN s.disk = 1 .. s.lastLogIndex
  BY BoundsAssumption DEF CoreInv, TypeOK, LogContiguous, Store, Indices
<1>2. store'[i] = t
  BY DEF ClientAppend, CoreInv, TypeOK
<1>3. DOMAIN batch = {id} /\ \A n, tt, c : HasEntry(batch, n, tt, c) <=>
         n = id /\ tt = currentTerm[i] /\ c = command
  BY DEF HasEntry
<1>4. \A index : FlagsUpTo(batch, index)
  BY DEF FlagsUpTo
<1>5. Highest(DOMAIN batch) = id
  <2>1. id .. id = {id} /\ id \in Nat \ {0} /\ id \in Nat
    BY <1>1
  <2> HIDE DEF batch, id
  <2>2. Highest(id .. id) = IF id <= id THEN id ELSE 0
    BY <2>1, HighestOfInterval
  <2> QED
    BY <1>1, <1>3, <2>1, <2>2
<1> HIDE DEF batch
<1>6. /\ t.entries = Overlay(s.entries, batch)
      /\ t.disk = Overlay(s.disk, batch)
      /\ t.commitIndex = s.commitIndex
      /\ t.lastLogIndex = Max({s.lastLogIndex, Highest(DOMAIN batch)})
  BY <1>1, AppendBatchFields
<1>7. Max({s.lastLogIndex, Highest(DOMAIN batch)}) = id
  <2>1. Max({s.lastLogIndex, id}) = id
    BY <1>1, PairEnds
  <2> HIDE DEF id
  <2> QED
    BY <1>5, <2>1
<1>8. \A n, tt, c : InStore(t, n, tt, c) => InStore(s, n, tt, c) \/ HasEntry(batch, n, tt, c)
  BY <1>1, AppendBatchEntries
<1> HIDE DEF t
<1>9. \A n, tt, c : HasEntry(s.entries, n, tt, c) => HasEntry(t.entries, n, tt, c)
  <2>1. \A n, tt, c : HasEntry(s.entries, n, tt, c) => n \notin DOMAIN batch
    BY <1>1, <1>3 DEF HasEntry
  <2> QED
    BY <1>6, <2>1, OverlayEntry
<1>10. \A n, tt, c : HasEntry(s.disk, n, tt, c) => HasEntry(t.disk, n, tt, c)
  <2>1. \A n, tt, c : HasEntry(s.disk, n, tt, c) => n \notin DOMAIN batch
    BY <1>1, <1>3 DEF HasEntry
  <2> QED
    BY <1>6, <2>1, OverlayEntry
<1>11. /\ HasEntry(t.entries, id, currentTerm[i], command)
       /\ HasEntry(t.disk, id, currentTerm[i], command)
  BY <1>3, <1>6, OverlayEntry
<1>12. /\ \A index : FlagsUpTo(s.entries, index) => FlagsUpTo(t.entries, index)
       /\ \A index : FlagsUpTo(s.disk, index) => FlagsUpTo(t.disk, index)
  BY <1>4, <1>6, OverlayFlags
<1> QED
  BY <1>2, <1>3, <1>6, <1>7, <1>8, <1>9, <1>10, <1>11, <1>12

\* The indices a leader may commit are indices of its log.
LEMMA CommittableInLog ==
    ASSUME CoreInv, NEW i \in Server, NEW n \in Committable(i)
    PROVE  /\ n \in Indices
           /\ n <= store[i].lastLogIndex
           /\ Peers[i] # <<>> => n > store[i].commitIndex
           /\ Peers[i] = <<>> => n = store[i].lastLogIndex
<1>1. /\ store[i].lastLogIndex \in Indices /\ store[i].lastLogIndex \in Nat
      /\ store[i].commitIndex \in Nat
  BY BoundsAssumption DEF CoreInv, TypeOK, Store, Indices
<1>2. CASE Peers[i] = <<>>
  BY <1>1, <1>2 DEF Committable
<1>3. CASE Peers[i] # <<>>
  <2>1. Committable(i) = Acknowledged(i)
    BY <1>3 DEF Committable
  <2>2. n \in (store[i].commitIndex + 1) .. store[i].lastLogIndex
    BY <2>1, Zenon DEF Acknowledged
  <2> QED
    BY <1>1, <1>3, <2>2, BoundsAssumption DEF Indices
<1> QED
  BY <1>2, <1>3

\* The commit at the end of append_command moves the commit index and marks
\* entries within it.
LEMMA CommitsEffect ==
    ASSUME CoreInv, NEW i \in Server, Commits(i)
    PROVE  /\ store'[i].disk = store[i].disk
           /\ store'[i].lastLogIndex = store[i].lastLogIndex
           /\ \A n, t, c : HasEntry(store'[i].entries, n, t, c)
                              <=> HasEntry(store[i].entries, n, t, c)
           /\ \A n, t, c : InStore(store'[i], n, t, c) <=> InStore(store[i], n, t, c)
           /\ store'[i].commitIndex \in Committable(i)
           /\ \A n \in DOMAIN store'[i].entries :
                 /\ n \in DOMAIN store[i].entries
                 /\ store'[i].entries[n].committed =>
                       store[i].entries[n].committed \/ n <= store'[i].commitIndex
           /\ FlagsUpTo(store[i].entries, store[i].commitIndex) =>
                 FlagsUpTo(store'[i].entries, store'[i].commitIndex)
           /\ FlagsUpTo(store[i].disk, store[i].commitIndex) =>
                 FlagsUpTo(store'[i].disk, store'[i].commitIndex)
<1>1. PICK index \in Committable(i) :
         store' = [store EXCEPT ![i] = CommitUpTo(@, index)]
  BY DEF Commits
<1> DEFINE s == store[i]
           t == CommitUpTo(s, index)
<1>2. index \in Indices /\ Sound(s) /\ s \in Store
  BY CommittableInLog, SoundStores DEF CoreInv, TypeOK
<1>3. store'[i] = t
  BY <1>1 DEF CoreInv, TypeOK
<1>4. /\ t.disk = s.disk /\ t.commitIndex = index
      /\ t.lastLogIndex = s.lastLogIndex
      /\ DOMAIN t.entries = DOMAIN s.entries
  BY <1>2, CommitUpToFields
<1>5. /\ \A n, tt, c : HasEntry(t.entries, n, tt, c) <=> HasEntry(s.entries, n, tt, c)
      /\ \A n, tt, c : InStore(t, n, tt, c) <=> InStore(s, n, tt, c)
      /\ \A n \in DOMAIN s.entries : t.entries[n].committed =>
            s.entries[n].committed \/ n <= index
  BY <1>2, CommitUpToEntries
<1> HIDE DEF t
\* Without peers the new commit index is the end of the log.
<1>6. \A n \in 1 .. s.lastLogIndex : n <= s.commitIndex => n <= index
  <2>1. /\ s.lastLogIndex \in Nat /\ s.commitIndex \in Nat
        /\ index \in Nat
    BY <1>2, BoundsAssumption DEF Store, Indices
  <2>2. index = s.lastLogIndex \/ index > s.commitIndex
    BY CommittableInLog
  <2> QED
    BY <2>1, <2>2
<1>7. DOMAIN s.entries = 1 .. s.lastLogIndex /\ DOMAIN s.disk = 1 .. s.lastLogIndex
  BY <1>2 DEF Sound, Contiguous
<1>8. FlagsUpTo(s.entries, s.commitIndex) => FlagsUpTo(t.entries, index)
  BY <1>4, <1>5, <1>6, <1>7 DEF FlagsUpTo
<1>9. FlagsUpTo(s.disk, s.commitIndex) => FlagsUpTo(t.disk, index)
  BY <1>4, <1>6, <1>7 DEF FlagsUpTo
<1> QED
  BY <1>3, <1>4, <1>5, <1>8, <1>9

\* The request a node accepts is the one at the head of its backlog.
LEMMA AcceptedRequest ==
    ASSUME CoreInv, NEW j \in Server, Accepts(j, "AppendEntries")
    PROVE  /\ call[j].op = "idle" /\ backlog[j] # <<>>
           /\ 1 \in 1 .. Len(backlog[j])
           /\ Request(j) = backlog[j][1].request
           /\ Request(j).type = "AppendEntries"
           /\ Request(j) \in AppendEntriesRequest
           /\ Request(j).term \in Terms /\ Request(j).term \in Nat
           /\ Request(j).leaderId \in Server
           /\ Request(j).entries \in Log
           /\ Request(j).leaderCommit \in Indices /\ Request(j).leaderCommit \in Nat
           /\ Request(j).prevLogIndex \in Nat
           /\ \E last \in Indices :
                 DOMAIN Request(j).entries = Request(j).prevLogIndex + 1 .. last
<1>1. /\ call[j].op = "idle" /\ backlog[j] # <<>>
      /\ Request(j).type = "AppendEntries"
  BY DEF Accepts, Request
<1>2. /\ Request(j) \in AppendEntriesRequest
      /\ \E last \in Indices :
            DOMAIN Request(j).entries = Request(j).prevLogIndex + 1 .. last
  BY RequestTyped
<1>3. backlog[j] \in Seq(Connection)
  BY DEF CoreInv, TypeOK
<1>4. 1 \in 1 .. Len(backlog[j]) /\ Request(j) = backlog[j][1].request
  BY <1>1, <1>3, TailOfBacklog DEF Request
<1> HIDE DEF Request
<1> QED
  BY <1>1, <1>2, <1>4, BoundsAssumption DEF AppendEntriesRequest, Terms, Indices

\* Entries of a request, all or some, from the first one on.
PartOf(batch, m) ==
    /\ batch \in Log
    /\ \E end \in Indices : DOMAIN batch = m.prevLogIndex + 1 .. end
    /\ \A n \in DOMAIN batch : n \in DOMAIN m.entries /\ batch[n] = m.entries[n]

WithPart(j, m, batch) ==
    AppendBatch(WithoutConflict(StoreAfter(j, m.term), m.entries), batch)

LEMMA FirstEntriesArePart ==
    ASSUME NEW m, m.prevLogIndex \in Indices, PartOf(m.entries, m),
           NEW end \in {m.prevLogIndex} \cup DOMAIN m.entries
    PROVE  PartOf(EntriesUpTo(m.entries, end), m)
<1> DEFINE entries == m.entries
           prev == m.prevLogIndex
           batch == EntriesUpTo(entries, end)
<1>1. PICK last \in Indices : DOMAIN entries = prev + 1 .. last
  BY DEF PartOf
<1>2. /\ entries \in Log /\ prev \in Indices
      /\ DOMAIN entries = prev + 1 .. last
      /\ end \in {prev} \cup DOMAIN entries
  BY <1>1 DEF PartOf
<1> HIDE DEF entries, prev
<1>3. /\ EntriesUpTo(entries, end) \in Log /\ end \in Indices
      /\ DOMAIN EntriesUpTo(entries, end) = prev + 1 .. end
  <2> HIDE DEF batch
  <2>1. \A x \in Log, p \in Indices, l \in Indices :
           DOMAIN x = p + 1 .. l =>
              \A e \in {p} \cup DOMAIN x :
                 /\ EntriesUpTo(x, e) \in Log /\ e \in Indices
                 /\ DOMAIN EntriesUpTo(x, e) = p + 1 .. e
    BY EntriesUpToFit
  <2> QED
    BY <1>2, <2>1
<1>4. \A n \in DOMAIN batch : n \in DOMAIN entries /\ batch[n] = entries[n]
  BY DEF EntriesUpTo
<1> HIDE DEF batch
<1> QED
  BY <1>3, <1>4 DEF PartOf, entries, prev, batch

\* What a follower has after it appended entries of a request.
LEMMA PartTaken ==
    ASSUME CoreInv, NEW j \in Server, NEW m \in AppendEntriesRequest,
           LogMatches(store[j], m), PartOf(m.entries, m),
           NEW batch, PartOf(batch, m)
    PROVE  /\ Sound(WithPart(j, m, batch))
           /\ \A n, t, c : InStore(WithPart(j, m, batch), n, t, c) =>
                 InStore(store[j], n, t, c) \/ HasEntry(m.entries, n, t, c)
           /\ \A index : (/\ FlagsUpTo(store[j].entries, index)
                          /\ FlagsUpTo(store[j].disk, index)
                          /\ FlagsUpTo(m.entries, index))
                 => /\ FlagsUpTo(WithPart(j, m, batch).entries, index)
                    /\ FlagsUpTo(WithPart(j, m, batch).disk, index)
           /\ WithPart(j, m, batch).commitIndex = store[j].commitIndex
           /\ ~Conflicts(store[j], m.entries) =>
                 WithPart(j, m, batch).lastLogIndex
                   = Max({store[j].lastLogIndex, Highest(DOMAIN batch)})
<1> DEFINE s0 == StoreAfter(j, m.term)
           entries == m.entries
           prev == m.prevLogIndex
           s == AppendBatch(WithoutConflict(s0, entries), batch)
<1>1. m.term \in Terms
  BY DEF AppendEntriesRequest
<1>2. Sound(store[j]) /\ store[j] \in Store
  BY SoundStores DEF CoreInv, TypeOK
<1>3. /\ Sound(s0)
      /\ s0.entries = store[j].entries
      /\ s0.disk = store[j].disk
      /\ s0.commitIndex = store[j].commitIndex
      /\ s0.lastLogIndex = store[j].lastLogIndex
  <2>1. Sound(s0)
    BY <1>1, TermAdopted
  <2> QED
    BY <1>2, <2>1 DEF StoreAfter, SetCurrentTerm, Store
<1>4. prev \in 0 .. s0.lastLogIndex
  BY <1>2, <1>3, MatchIsInLog
<1>5. Conflicts(s0, entries) <=> Conflicts(store[j], entries)
  BY <1>3 DEF Conflicts
<1>6. \A n, t, c : InStore(s0, n, t, c) <=> InStore(store[j], n, t, c)
  BY <1>3 DEF InStore
<1>7. /\ \A n, t, c : HasEntry(batch, n, t, c) => HasEntry(entries, n, t, c)
      /\ \A index : FlagsUpTo(entries, index) => FlagsUpTo(batch, index)
  BY DEF HasEntry, FlagsUpTo, PartOf
<1>8. PICK last \in Indices : DOMAIN entries = prev + 1 .. last
  BY DEF PartOf
<1>9. PICK end \in Indices : DOMAIN batch = prev + 1 .. end
  BY DEF PartOf
<1>10. batch \in Log
  BY DEF PartOf
<1> HIDE DEF s0, entries, prev
<1>11. Sound(s)
  BY <1>3, <1>4, <1>8, <1>9, <1>10, NewEntriesSound
<1>12. TookOver(s0, entries, batch, s)
  BY <1>3, NewEntriesEffect
<1>13. WithPart(j, m, batch) = s
  BY DEF WithPart, s0, entries
<1> HIDE DEF s
<1>14. \A n, t, c : InStore(s, n, t, c) =>
          InStore(store[j], n, t, c) \/ HasEntry(entries, n, t, c)
  BY <1>6, <1>7, <1>12 DEF TookOver
<1>15. \A index : (/\ FlagsUpTo(store[j].entries, index)
                   /\ FlagsUpTo(store[j].disk, index)
                   /\ FlagsUpTo(entries, index))
          => FlagsUpTo(s.entries, index) /\ FlagsUpTo(s.disk, index)
  BY <1>3, <1>7, <1>12 DEF TookOver
<1>16. /\ s.commitIndex = store[j].commitIndex
       /\ ~Conflicts(store[j], entries) =>
             s.lastLogIndex = Max({store[j].lastLogIndex, Highest(DOMAIN batch)})
  BY <1>3, <1>5, <1>12 DEF TookOver
<1>17. /\ Sound(s)
       /\ \A n, t, c : InStore(s, n, t, c) =>
             InStore(store[j], n, t, c) \/ HasEntry(m.entries, n, t, c)
       /\ \A index : (/\ FlagsUpTo(store[j].entries, index)
                      /\ FlagsUpTo(store[j].disk, index)
                      /\ FlagsUpTo(m.entries, index))
             => FlagsUpTo(s.entries, index) /\ FlagsUpTo(s.disk, index)
       /\ s.commitIndex = store[j].commitIndex
       /\ ~Conflicts(store[j], m.entries) =>
             s.lastLogIndex = Max({store[j].lastLogIndex, Highest(DOMAIN batch)})
  BY <1>11, <1>14, <1>15, <1>16 DEF entries
<1> QED
  BY <1>13, <1>17

\* The end of a log does not fall when it is the greater of two ends.
LEMMA PartEnds ==
    ASSUME CoreInv, NEW j \in Server, NEW m, m.prevLogIndex \in Nat,
           NEW batch, PartOf(batch, m)
    PROVE  Max({store[j].lastLogIndex, Highest(DOMAIN batch)}) >= store[j].lastLogIndex
<1> DEFINE from == m.prevLogIndex + 1
           ids  == DOMAIN batch
           old  == store[j].lastLogIndex
<1>1. PICK end \in Nat : ids = from .. end
  BY BoundsAssumption DEF PartOf, Indices
<1>2. from \in Nat \ {0} /\ old \in Nat
  BY BoundsAssumption DEF CoreInv, TypeOK, Store, Indices
<1> HIDE DEF from, ids, old
<1>3. Highest(ids) \in Int
  BY <1>1, <1>2, HighestOfInterval
<1>4. Max({old, Highest(ids)}) >= old
  BY <1>2, <1>3, PairEnds
<1> QED
  BY <1>4 DEF ids, old

LEMMA AcceptedIsPart ==
    ASSUME CoreInv, NEW j \in Server, Accepts(j, "AppendEntries")
    PROVE  PartOf(Request(j).entries, Request(j))
BY AcceptedRequest DEF PartOf

\* What a follower has that took over something of a request.
LEMMA TakesEffect ==
    ASSUME CoreInv, NEW j \in Server, TakesEntries(j)
    PROVE  /\ \A n, t, c : InStore(store'[j], n, t, c) =>
                 InStore(store[j], n, t, c) \/ HasEntry(Request(j).entries, n, t, c)
           /\ \A index \in Nat :
                 (/\ FlagsUpTo(store[j].entries, index)
                  /\ FlagsUpTo(store[j].disk, index)
                  /\ FlagsUpTo(Request(j).entries, index)
                  /\ Request(j).leaderCommit <= index)
                 => /\ FlagsUpTo(store'[j].entries, index)
                    /\ FlagsUpTo(store'[j].disk, index)
           /\ ~Conflicts(store[j], Request(j).entries) =>
                 store'[j].lastLogIndex >= store[j].lastLogIndex
           /\ \/ store'[j].commitIndex = store[j].commitIndex
              \/ /\ Request(j).leaderCommit > store[j].commitIndex
                 /\ store'[j].commitIndex =
                       IF Request(j).leaderCommit <= store'[j].lastLogIndex
                       THEN Request(j).leaderCommit ELSE store'[j].lastLogIndex
<1> DEFINE m == Request(j)
<1>1. LogMatches(store[j], m) /\ PartOf(m.entries, m)
  BY AcceptedIsPart DEF TakesEntries
<1>2. /\ m \in AppendEntriesRequest
      /\ m.leaderCommit \in Indices /\ m.leaderCommit \in Nat
      /\ m.prevLogIndex \in Indices /\ m.prevLogIndex \in Nat
  BY AcceptedRequest DEF AppendEntriesRequest, TakesEntries
<1>3. PICK s \in OnTheWay(j, m) : store'[j] = s
  BY DEF TakesEntries, CoreInv, TypeOK
<1>4. \/ \E end \in {m.prevLogIndex} \cup DOMAIN m.entries :
            s = WithPart(j, m, EntriesUpTo(m.entries, end))
      \/ s = WithCommit(WithPart(j, m, m.entries), m.leaderCommit)
  BY <1>3 DEF OnTheWay, WithPart
<1> HIDE DEF m
<1>5. CASE \E end \in {m.prevLogIndex} \cup DOMAIN m.entries :
              s = WithPart(j, m, EntriesUpTo(m.entries, end))
  <2>1. PICK end \in {m.prevLogIndex} \cup DOMAIN m.entries :
           s = WithPart(j, m, EntriesUpTo(m.entries, end))
    BY <1>5
  <2> DEFINE batch == EntriesUpTo(m.entries, end)
  <2>2. PartOf(batch, m)
    BY <1>1, <1>2, FirstEntriesArePart
  <2>3. s = WithPart(j, m, batch)
    BY <2>1
  <2> HIDE DEF batch
  <2>4. /\ \A n, t, c : InStore(s, n, t, c) =>
              InStore(store[j], n, t, c) \/ HasEntry(m.entries, n, t, c)
        /\ \A index : (/\ FlagsUpTo(store[j].entries, index)
                       /\ FlagsUpTo(store[j].disk, index)
                       /\ FlagsUpTo(m.entries, index))
              => FlagsUpTo(s.entries, index) /\ FlagsUpTo(s.disk, index)
        /\ s.commitIndex = store[j].commitIndex
        /\ ~Conflicts(store[j], m.entries) =>
              s.lastLogIndex = Max({store[j].lastLogIndex, Highest(DOMAIN batch)})
    BY <1>1, <1>2, <2>2, <2>3, PartTaken
  <2>5. Max({store[j].lastLogIndex, Highest(DOMAIN batch)}) >= store[j].lastLogIndex
    BY <1>2, <2>2, PartEnds
  <2> QED
    BY <1>3, <2>4, <2>5 DEF m, InStore
<1>6. CASE s = WithCommit(WithPart(j, m, m.entries), m.leaderCommit)
  <2> DEFINE t1 == WithPart(j, m, m.entries)
  <2>1. /\ Sound(t1)
        /\ \A n, t, c : InStore(t1, n, t, c) =>
              InStore(store[j], n, t, c) \/ HasEntry(m.entries, n, t, c)
        /\ \A index : (/\ FlagsUpTo(store[j].entries, index)
                       /\ FlagsUpTo(store[j].disk, index)
                       /\ FlagsUpTo(m.entries, index))
              => FlagsUpTo(t1.entries, index) /\ FlagsUpTo(t1.disk, index)
        /\ t1.commitIndex = store[j].commitIndex
        /\ ~Conflicts(store[j], m.entries) =>
              t1.lastLogIndex = Max({store[j].lastLogIndex, Highest(DOMAIN m.entries)})
    BY <1>1, <1>2, PartTaken
  <2>2. Max({store[j].lastLogIndex, Highest(DOMAIN m.entries)}) >= store[j].lastLogIndex
    BY <1>1, <1>2, PartEnds
  <2>3. s = WithCommit(t1, m.leaderCommit)
    BY <1>6
  <2> HIDE DEF t1
  <2>4. /\ \A n, t, c : InStore(s, n, t, c) <=> InStore(t1, n, t, c)
        /\ s.lastLogIndex = t1.lastLogIndex
        /\ s.commitIndex = IF m.leaderCommit > t1.commitIndex
                           THEN IF m.leaderCommit <= t1.lastLogIndex
                                THEN m.leaderCommit ELSE t1.lastLogIndex
                           ELSE t1.commitIndex
        /\ \A index \in Nat :
              (/\ FlagsUpTo(t1.entries, index) /\ FlagsUpTo(t1.disk, index)
               /\ m.leaderCommit <= index)
              => FlagsUpTo(s.entries, index) /\ FlagsUpTo(s.disk, index)
    BY <1>2, <2>1, <2>3, WithCommitEffect
  <2> QED
    BY <1>3, <2>1, <2>2, <2>4 DEF m, InStore
<1> QED
  BY <1>4, <1>5, <1>6

\* What a follower has after it accepted a request.
LEMMA AcceptEffect ==
    ASSUME CoreInv, NEW j \in Server, AcceptAppendEntries(j)
    PROVE  /\ (/\ FlagsUpTo(store[j].entries, store[j].commitIndex)
               /\ FlagsUpTo(store[j].disk, store[j].commitIndex)
               /\ FlagsUpTo(Request(j).entries, Request(j).leaderCommit))
              => /\ FlagsUpTo(store'[j].entries, store'[j].commitIndex)
                 /\ FlagsUpTo(store'[j].disk, store'[j].commitIndex)
           /\ ~Conflicts(store[j], Request(j).entries) =>
                 store'[j].lastLogIndex =
                    Max({store[j].lastLogIndex, Highest(DOMAIN Request(j).entries)})
           /\ store'[j].commitIndex =
                 IF Request(j).leaderCommit > store[j].commitIndex
                 THEN IF Request(j).leaderCommit <= store'[j].lastLogIndex
                      THEN Request(j).leaderCommit ELSE store'[j].lastLogIndex
                 ELSE store[j].commitIndex
<1> DEFINE m == Request(j)
           s1 == WithPart(j, m, m.entries)
           s2 == WithCommit(s1, m.leaderCommit)
<1>1. /\ Accepts(j, "AppendEntries") /\ LogMatches(store[j], m)
      /\ PartOf(m.entries, m)
  BY AcceptedIsPart DEF AcceptAppendEntries, ReceiveAppendEntries
<1>2. /\ m \in AppendEntriesRequest /\ m.entries \in Log
      /\ m.leaderCommit \in Indices /\ m.leaderCommit \in Nat
  BY <1>1, AcceptedRequest
<1>3. store'[j] = s2
  BY DEF AcceptAppendEntries, WithNewEntries, WithPart, CoreInv, TypeOK
<1> HIDE DEF m
<1>4. Sound(store[j])
  BY SoundStores DEF CoreInv
<1>5. /\ Sound(s1)
      /\ \A index : (/\ FlagsUpTo(store[j].entries, index)
                     /\ FlagsUpTo(store[j].disk, index)
                     /\ FlagsUpTo(m.entries, index))
            => FlagsUpTo(s1.entries, index) /\ FlagsUpTo(s1.disk, index)
      /\ s1.commitIndex = store[j].commitIndex
      /\ ~Conflicts(store[j], m.entries) =>
            s1.lastLogIndex = Max({store[j].lastLogIndex, Highest(DOMAIN m.entries)})
  BY <1>1, <1>2, PartTaken
<1> HIDE DEF s1
<1>6. /\ s2.lastLogIndex = s1.lastLogIndex
      /\ s2.commitIndex = IF m.leaderCommit > s1.commitIndex
                          THEN IF m.leaderCommit <= s1.lastLogIndex
                               THEN m.leaderCommit ELSE s1.lastLogIndex
                          ELSE s1.commitIndex
      /\ (\A index : /\ index \in {m.leaderCommit, s1.commitIndex}
                     /\ index >= m.leaderCommit /\ index >= s1.commitIndex
             => FlagsUpTo(s1.entries, index) /\ FlagsUpTo(s1.disk, index))
         => FlagsUpTo(s2.entries, s2.commitIndex) /\ FlagsUpTo(s2.disk, s2.commitIndex)
  BY <1>2, <1>5, WithCommitEffect
<1> HIDE DEF s2
<1>7. ASSUME FlagsUpTo(store[j].entries, store[j].commitIndex),
             FlagsUpTo(store[j].disk, store[j].commitIndex),
             FlagsUpTo(m.entries, m.leaderCommit)
      PROVE  FlagsUpTo(s2.entries, s2.commitIndex) /\ FlagsUpTo(s2.disk, s2.commitIndex)
  <2>1. store[j].commitIndex \in Nat
    BY <1>4, BoundsAssumption DEF Sound, Store, Indices
  <2> SUFFICES ASSUME NEW index \in {m.leaderCommit, s1.commitIndex},
                      index >= m.leaderCommit, index >= s1.commitIndex
               PROVE  FlagsUpTo(s1.entries, index) /\ FlagsUpTo(s1.disk, index)
    BY <1>6
  <2>2. \A n \in 1 .. MaxLog :
           n <= store[j].commitIndex \/ n <= m.leaderCommit => n <= index
    BY <1>2, <1>5, <2>1
  <2>3. /\ DOMAIN store[j].entries \subseteq 1 .. MaxLog
        /\ DOMAIN store[j].disk \subseteq 1 .. MaxLog
        /\ DOMAIN m.entries \subseteq 1 .. MaxLog
    BY <1>2, <1>4, LogMembership DEF Sound, Store
  <2>4. /\ FlagsUpTo(store[j].entries, index) /\ FlagsUpTo(store[j].disk, index)
        /\ FlagsUpTo(m.entries, index)
    BY <1>7, <2>2, <2>3 DEF FlagsUpTo
  <2> QED
    BY <1>5, <2>4
<1> QED
  BY <1>3, <1>5, <1>6, <1>7 DEF m

-----------------------------------------------------------------------------
(* The effect of a step of i on the offices *)

Leading == {"heartbeats", "replicate"}

\* A node becomes leader by an election or by being started as one, which is
\* written down in leaders; it stays leader of its term unless it is started
\* again; it replicates and sends heartbeats as leader only; the leader it knows
\* is itself or the sender of an AppendEntries; and its term is a new one by an
\* election or by a request.  Other nodes go on with what they do.
OfficeEffect(i, p) ==
    /\ state'[p] = "Leader" =>
          \/ state[p] = "Leader" /\ currentTerm'[p] = currentTerm[p]
          \/ <<currentTerm'[p], p>> \in leaders'
    /\ state[p] = "Leader" /\ currentTerm'[p] = currentTerm[p] =>
          state'[p] = "Leader" \/ (p = i /\ Boot(i) /\ ~IsUp(i))
    /\ call'[p].op \in Leading =>
          \/ call'[p].op = call[p].op /\ state'[p] = state[p]
          \/ state'[p] = "Leader"
    /\ call'[p].op = "off" => call[p].op = "off" /\ state'[p] = state[p]
    /\ call'[p].op = "votes" => call[p].op = "votes" \/ StartElection(i)
    /\ p # i => call'[p].op = call[p].op
    /\ \/ leaderId'[p] \in {leaderId[p], None}
       \/ <<currentTerm'[p], leaderId'[p]>> \in leaders'
       \/ p = i /\ ReceiveAppendEntries(i)
    /\ \/ currentTerm'[p] = currentTerm[p]
       \/ StartElection(i)
       \/ /\ \E type \in {"AppendEntries", "RequestVote"} : Accepts(i, type)
          /\ currentTerm'[p] = Request(i).term

LeadersEffect(i) ==
    /\ leaders \subseteq leaders'
    /\ \A l \in leaders' \ leaders :
          /\ l = <<currentTerm'[i], i>> /\ state'[i] = "Leader"
          /\ i \in Flagged \/ call[i].op = "votes"

LEMMA BootOffices ==
    ASSUME CoreInv, NEW i \in Server, ~IsUp(i), Boot(i), NEW p \in Server
    PROVE  OfficeEffect(i, p) /\ LeadersEffect(i)
<1>1. \A q \in Server : currentTerm'[q] = currentTerm[q]
  BY BootTerm
<1>2. /\ state' = [state EXCEPT ![i] = IF i \in Flagged THEN "Leader" ELSE "Follower"]
      /\ leaderId' = [leaderId EXCEPT ![i] = IF i \in Flagged THEN i ELSE None]
      /\ leaders' = IF i \in Flagged THEN leaders \cup {<<currentTerm'[i], i>>}
                                     ELSE leaders
      /\ call' = [call EXCEPT ![i] = IF i \in Flagged THEN LoopAt(i, "heartbeats", 1)
                                                      ELSE Idle]
  BY DEF Boot, CoreInv, TypeOK
<1>3. /\ p # i => state'[p] = state[p] /\ leaderId'[p] = leaderId[p] /\ call'[p] = call[p]
      /\ state'[i] = IF i \in Flagged THEN "Leader" ELSE "Follower"
      /\ leaderId'[i] = IF i \in Flagged THEN i ELSE None
      /\ call'[i] = IF i \in Flagged THEN LoopAt(i, "heartbeats", 1) ELSE Idle
  BY <1>2 DEF CoreInv, TypeOK
<1>4. /\ Idle.op \notin Leading \cup {"off", "votes"}
      /\ LoopAt(i, "heartbeats", 1).op \notin {"off", "votes"}
  BY LoopAtIsCall DEF Idle, Leading, Rounds, LoopAt
<1>5. CASE i \in Flagged
  BY <1>1, <1>2, <1>3, <1>4, <1>5 DEF OfficeEffect, LeadersEffect
<1>6. CASE i \notin Flagged
  BY <1>1, <1>2, <1>3, <1>4, <1>6 DEF OfficeEffect, LeadersEffect
<1> QED
  BY <1>5, <1>6

\* The loop of a task that goes on is the same one, or it is over.
LEMMA TaskOffices ==
    ASSUME CoreInv, NEW i \in Server, NEW c \in Call, NEW p \in Server,
           call' = [call EXCEPT ![i] = c], c.op # "off",
           c.op \in Leading => c.op = call[i].op \/ state[i] = "Leader",
           c.op = "votes" => c.op = call[i].op,
           UNCHANGED <<electionVars, leaders>>
    PROVE  OfficeEffect(i, p) /\ LeadersEffect(i)
<1>1. /\ UNCHANGED <<state, currentTerm, leaderId, leaders>>
  BY DEF electionVars
<1>2. call'[p] = IF p = i THEN c ELSE call[p]
  BY DEF CoreInv, TypeOK
<1> QED
  BY <1>1, <1>2 DEF OfficeEffect, LeadersEffect

LEMMA ProceedOffices ==
    ASSUME CoreInv, NEW i \in Server, NEW p \in Server,
           \/ NoVote(i) \/ HeartbeatAnswered(i) \/ SkipPeer(i)
           \/ ReplicationSucceeded(i) \/ ReplicationRejected(i) \/ ReplicationFailed(i)
           \/ CollectVote(i)
    PROVE  OfficeEffect(i, p) /\ LeadersEffect(i)
<1> DEFINE c == LoopAt(i, call[i].op, call[i].k + 1)
<1>1. /\ call' = [call EXCEPT ![i] = c]
      /\ UNCHANGED <<state, currentTerm, leaderId, leaders>>
      /\ call[i].op \in Rounds
  BY DEF Proceed, NoVote, HeartbeatAnswered, SkipPeer, ReplicationSucceeded,
     ReplicationRejected, ReplicationFailed, CollectVote, Granted, Got, AtPeer,
     Rounds, electionVars, historyVars
<1>2. call'[p] = IF p = i THEN c ELSE call[p]
  BY <1>1 DEF CoreInv, TypeOK
<1>3. c.op \in {"idle", call[i].op} /\ c.op # "off" /\ "idle" \notin Leading
  BY <1>1 DEF LoopAt, Idle, Rounds, Leading
<1> QED
  BY <1>1, <1>2, <1>3 DEF OfficeEffect, LeadersEffect

\* Requests of a newer term end the office of who gets them.
LEMMA HandlerOffices ==
    ASSUME CoreInv, NEW i \in Server, NEW p \in Server,
           \/ HandleRequestVote(i) \/ RejectAppendEntries(i) \/ AcceptAppendEntries(i)
           \/ CrashServing(i)
    PROVE  OfficeEffect(i, p) /\ LeadersEffect(i)
<1> DEFINE term == Request(i).term
<1>1. /\ \E type \in {"AppendEntries", "RequestVote"} : Accepts(i, type)
      /\ call[i].op = "idle" /\ backlog[i] # <<>> /\ term \in Terms
  <2>1. \E type \in {"AppendEntries", "RequestVote"} : Accepts(i, type)
    BY DeathInHandler DEF HandleRequestVote, RejectAppendEntries,
       AcceptAppendEntries, ReceiveAppendEntries
  <2>2. term \in Terms
    BY <2>1, RequestTyped DEF RequestVoteRequest, AppendEntriesRequest
  <2> QED
    BY <2>1, <2>2 DEF Accepts
<1>2. /\ AdoptTerm(i, term) /\ leaders' = leaders
      /\ leaderId' = leaderId \/ ReceiveAppendEntries(i)
      /\ p # i => leaderId'[p] = leaderId[p]
  BY DEF HandleRequestVote, RejectAppendEntries, AcceptAppendEntries,
     ReceiveAppendEntries, CrashServing, historyVars, CoreInv, TypeOK
<1>3. (\E reply : Answer(i, reply)) \/ Dies(i)
  BY DEF HandleRequestVote, RejectAppendEntries, AcceptAppendEntries, CrashServing
<1>4. /\ p # i => call'[p].op = call[p].op
      /\ call'[p].op = call[p].op \/ call'[p].op = "crashed"
  BY <1>1, <1>3, AnswerGiven, TasksAfterDeath
<1>5. /\ currentTerm'[p] = IF p = i THEN TermAfter(i, term) ELSE currentTerm[p]
      /\ state'[p] = IF p = i /\ IsNewer(i, term) THEN "Follower" ELSE state[p]
  BY <1>2 DEF AdoptTerm, CoreInv, TypeOK
<1>6. /\ IsNewer(i, term) => TermAfter(i, term) # currentTerm[i]
      /\ ~IsNewer(i, term) => TermAfter(i, term) = currentTerm[i]
  <2>1. term \in Nat /\ currentTerm[i] \in Nat
    BY <1>1, TermIsNat, BoundsAssumption DEF Terms
  <2> QED
    BY <2>1 DEF IsNewer, TermAfter
<1>7. p = i => call'[p].op \notin Leading \cup {"off"}
  BY <1>1, <1>4 DEF Leading
<1>8. currentTerm'[p] = currentTerm[p] \/ currentTerm'[p] = term
  BY <1>5, <1>6 DEF TermAfter
<1> HIDE DEF term
<1>9. \/ currentTerm'[p] = currentTerm[p]
       \/ /\ \E type \in {"AppendEntries", "RequestVote"} : Accepts(i, type)
          /\ currentTerm'[p] = Request(i).term
  BY <1>1, <1>8 DEF term
<1>10. call'[p].op = "votes" => call[p].op = "votes"
  BY <1>4
<1>11. call'[p].op \in Leading \cup {"off"} =>
          /\ p # i /\ call'[p].op = call[p].op /\ state'[p] = state[p]
  BY <1>4, <1>5, <1>7
<1> QED
  BY <1>2, <1>4, <1>5, <1>6, <1>9, <1>10, <1>11 DEF OfficeEffect, LeadersEffect

LEMMA ElectionOffices ==
    ASSUME CoreInv, NEW i \in Server, NEW p \in Server,
           StartElection(i) \/ WinElection(i)
    PROVE  OfficeEffect(i, p) /\ LeadersEffect(i)
<1>1. CASE StartElection(i)
  <2>1. /\ state' = [state EXCEPT ![i] = "Candidate"] /\ state[i] = "Follower"
        /\ currentTerm' = [currentTerm EXCEPT ![i] = currentTerm[i] + 1]
        /\ call' = [call EXCEPT ![i] = LoopAt(i, "votes", 1)]
        /\ UNCHANGED <<leaderId, leaders>>
    BY <1>1 DEF StartElection
  <2>2. LoopAt(i, "votes", 1).op \notin Leading \cup {"off"}
    BY LoopAtIsCall DEF Rounds, Leading
  <2>3. /\ p = i => call'[p].op \notin Leading \cup {"off"} /\ state'[p] = "Candidate"
        /\ p # i => /\ call'[p] = call[p] /\ state'[p] = state[p]
                    /\ currentTerm'[p] = currentTerm[p]
    BY <2>1, <2>2 DEF CoreInv, TypeOK
  <2> QED
    BY <1>1, <2>1, <2>3 DEF OfficeEffect, LeadersEffect
<1>2. CASE WinElection(i)
  <2>1. /\ state' = [state EXCEPT ![i] = "Leader"]
        /\ leaderId' = [leaderId EXCEPT ![i] = i]
        /\ leaders' = leaders \cup {<<currentTerm[i], i>>}
        /\ call' = [call EXCEPT ![i] = Idle]
        /\ currentTerm' = currentTerm /\ call[i].op = "votes"
    BY <1>2 DEF WinElection, Granted, Got
  <2>2. Idle.op \notin Leading \cup {"off", "votes"}
    BY DEF Idle, Leading
  <2>3. /\ p = i => /\ call'[p].op \notin Leading \cup {"off", "votes"}
                    /\ state'[p] = "Leader" /\ leaderId'[p] = i
        /\ p # i => /\ call'[p] = call[p] /\ state'[p] = state[p]
                    /\ leaderId'[p] = leaderId[p]
        /\ state'[i] = "Leader"
    BY <2>1, <2>2 DEF CoreInv, TypeOK
  <2> QED
    BY <2>1, <2>3 DEF OfficeEffect, LeadersEffect
<1> QED
  BY <1>1, <1>2

LEMMA TransportOffices ==
    ASSUME CoreInv, NEW i \in Server, NEW p \in Server,
           \/ Send(i) \/ Break(i) \/ DropConnection(i)
           \/ CrashBetween(i) \/ CrashCommitting(i)
    PROVE  OfficeEffect(i, p) /\ LeadersEffect(i)
<1>1. UNCHANGED <<state, currentTerm, leaderId, leaders>>
  BY DEF Send, Break, DropConnection, CrashBetween, CrashCommitting, electionVars,
     historyVars
<1>2. /\ p # i => call'[p].op = call[p].op
      /\ call'[p].op = call[p].op \/ call'[p].op = "crashed"
  <2>1. CASE Send(i) \/ Break(i)
    <3>1. PICK reply \in {Pending, Failed} : call' = [call EXCEPT ![i].reply = reply]
      BY <2>1 DEF Send, Break
    <3> QED
      BY <3>1, ReplyArrives DEF CoreInv, TypeOK, Response
  <2>2. CASE DropConnection(i)
    BY <2>2 DEF DropConnection
  <2>3. CASE CrashBetween(i) \/ CrashCommitting(i)
    BY <2>3, TasksAfterDeath DEF CrashBetween, CrashCommitting
  <2> QED
    BY <2>1, <2>2, <2>3
<1>3. "crashed" \notin Leading \cup {"off"}
  BY DEF Leading
<1> QED
  BY <1>1, <1>2, <1>3 DEF OfficeEffect, LeadersEffect

LEMMA OfficesTraced ==
    ASSUME CoreInv, NEW i \in Server, AnyStep(i), NEW p \in Server
    PROVE  OfficeEffect(i, p) /\ LeadersEffect(i)
<1>1. CASE Launch(i) \/ Restart(i)
  BY <1>1, BootOffices DEF Launch, Restart, IsUp
<1>2. CASE Serve(i)
  BY <1>2, HandlerOffices, TransportOffices DEF Serve
<1>3. CASE StartHeartbeats(i) \/ FinishAppend(i)
           \/ \E command \in Command : ClientAppend(i, command)
  <2>1. PICK c \in {Idle, LoopAt(i, "heartbeats", 1), LoopAt(i, "replicate", 1)} :
           /\ call' = [call EXCEPT ![i] = c]
           /\ c # Idle => state[i] = "Leader"
    BY <1>3 DEF StartHeartbeats, FinishAppend, ClientAppend
  <2>2. UNCHANGED <<electionVars, leaders>>
    BY <1>3 DEF StartHeartbeats, FinishAppend, ClientAppend, historyVars
  <2>3. c \in Call /\ c.op \notin {"off", "votes"}
    <3>1. Idle \in Call /\ Idle.op \notin {"off", "votes"}
      BY DEF Idle, Call, Response
    <3>2. \A op \in Leading : /\ LoopAt(i, op, 1) \in Call
                              /\ LoopAt(i, op, 1).op \notin {"off", "votes"}
      BY LoopAtIsCall DEF Leading, Rounds, LoopAt, Idle
    <3> QED
      BY <3>1, <3>2 DEF Leading
  <2>4. c.op \in Leading => c # Idle
    BY DEF Idle, Leading
  <2> QED
    BY <2>1, <2>2, <2>3, <2>4, TaskOffices
<1>4. CASE Continue(i) /\ ~FinishAppend(i)
  BY <1>4, ProceedOffices, ElectionOffices, TransportOffices DEF Continue
<1>5. CASE StartElection(i) \/ Break(i) \/ Crash(i)
  BY <1>5, ElectionOffices, TransportOffices, HandlerOffices DEF Crash
<1> QED
  BY <1>1, <1>2, <1>3, <1>4, <1>5 DEF AnyStep, Step, NodeStep

-----------------------------------------------------------------------------
(* Who is known as leader *)

LeadersInOffice == \A i \in Server :
    /\ state[i] = "Leader" => <<currentTerm[i], i>> \in leaders
    /\ call[i].op \in Leading => state[i] = "Leader"

IsOfLeader(m, j) ==
    m.type = "AppendEntries" => <<m.term, m.leaderId>> \in leaders /\ m.leaderId # j

RequestsOfLeaders ==
    \A j \in Server : \A n \in 1 .. Len(backlog[j]) :
        IsOfLeader(backlog[j][n].request, j)

KnownLeaders == \A i \in Server : leaderId[i] # None =>
    \E t \in 0 .. currentTerm[i] : <<t, leaderId[i]>> \in leaders

LeadershipInv == LeadersInOffice /\ RequestsOfLeaders /\ KnownLeaders

LEMMA LeadersInOfficeKept ==
    ASSUME CoreInv, LeadershipInv, NEW i \in Server, AnyStep(i)
    PROVE  LeadersInOffice'
<1> SUFFICES ASSUME NEW p \in Server
             PROVE  /\ state'[p] = "Leader" => <<currentTerm'[p], p>> \in leaders'
                    /\ call'[p].op \in Leading => state'[p] = "Leader"
  BY DEF LeadersInOffice, Leading
<1>1. OfficeEffect(i, p) /\ LeadersEffect(i)
  BY OfficesTraced
<1> QED
  BY <1>1 DEF LeadershipInv, LeadersInOffice, OfficeEffect, LeadersEffect

LEMMA RequestsOfLeadersKept ==
    ASSUME CoreInv, LeadershipInv, NEW i \in Server, AnyStep(i)
    PROVE  RequestsOfLeaders'
<1> SUFFICES ASSUME NEW m \in Server, NEW n \in 1 .. Len(backlog'[m])
             PROVE  IsOfLeader(backlog[m][n].request, m)'
  BY DEF RequestsOfLeaders
<1> DEFINE request == backlog'[m][n].request
<1>1. leaders \subseteq leaders'
  BY OfficesTraced DEF LeadersEffect
<1>2. IsOfLeader(request, m)
  <2>1. CASE WasThere(backlog'[m][n], m)
    BY <2>1 DEF WasThere, IsLeftOf, LeadershipInv, RequestsOfLeaders
  <2>2. CASE Opens(i, m, backlog'[m][n])
    <3>1. /\ request = RequestOf(i) /\ m # i
          /\ call[i].op \in Rounds
          /\ call[i].op = "votes" => RequestOf(i) = RequestVote(i)
          /\ call[i].op # "votes" => \E entries :
                RequestOf(i) = AppendEntriesTo(i, Callee(i), entries)
      BY <2>2, RequestSent DEF Opens, Rounds
    <3>2. CASE call[i].op = "votes"
      BY <3>1, <3>2 DEF RequestVote, IsOfLeader
    <3>3. CASE call[i].op # "votes"
      <4>1. <<currentTerm[i], i>> \in leaders
        BY <3>1, <3>3 DEF LeadershipInv, LeadersInOffice, Rounds, Leading
      <4> QED
        BY <3>1, <3>3, <4>1 DEF AppendEntriesTo, IsOfLeader
    <3> QED
      BY <3>2, <3>3
  <2> QED
    BY <2>1, <2>2, ConnectionsTraced
<1> HIDE DEF request
<1>3. request.type = "AppendEntries" =>
         <<request.term, request.leaderId>> \in leaders' /\ request.leaderId # m
  BY <1>1, <1>2 DEF IsOfLeader
<1> QED
  BY <1>3 DEF IsOfLeader, request

LEMMA KnownLeadersKept ==
    ASSUME CoreInv, CoreInv', LeadershipInv, NEW i \in Server, AnyStep(i)
    PROVE  KnownLeaders'
<1> SUFFICES ASSUME NEW p \in Server, leaderId'[p] # None
             PROVE  \E t \in 0 .. currentTerm'[p] : <<t, leaderId'[p]>> \in leaders'
  BY DEF KnownLeaders
<1>1. /\ OfficeEffect(i, p) /\ leaders \subseteq leaders'
      /\ currentTerm[p] \in Nat /\ currentTerm'[p] \in Nat
      /\ currentTerm'[p] >= currentTerm[p]
  <2>1. currentTerm'[p] \in Nat
    BY BoundsAssumption DEF CoreInv, TypeOK, Terms
  <2> QED
    BY <2>1, OfficesTraced, StepTerm, TermIsNat DEF LeadersEffect, AnyStep
<1>2. CASE leaderId'[p] = leaderId[p]
  <2>1. PICK t \in 0 .. currentTerm[p] : <<t, leaderId[p]>> \in leaders
    BY <1>2 DEF LeadershipInv, KnownLeaders
  <2>2. t \in 0 .. currentTerm'[p]
    BY <1>1
  <2> QED
    BY <1>1, <1>2, <2>1, <2>2
<1>3. CASE <<currentTerm'[p], leaderId'[p]>> \in leaders'
  <2>1. currentTerm'[p] \in 0 .. currentTerm'[p]
    BY <1>1
  <2> QED
    BY <1>3, <2>1
<1>4. CASE p = i /\ ReceiveAppendEntries(i)
  <2> DEFINE m == Request(i)
  <2>1. /\ m.term \in Nat /\ m.type = "AppendEntries"
        /\ 1 \in 1 .. Len(backlog[i]) /\ m = backlog[i][1].request
    BY <1>4, AcceptedRequest DEF ReceiveAppendEntries
  <2>2. <<m.term, m.leaderId>> \in leaders
    BY <2>1 DEF LeadershipInv, RequestsOfLeaders, IsOfLeader
  <2>3. leaderId'[i] = m.leaderId /\ currentTerm'[i] = TermAfter(i, m.term)
    BY <1>4 DEF ReceiveAppendEntries, AdoptTerm, CoreInv, TypeOK
  <2> HIDE DEF m
  <2>4. m.term \in 0 .. currentTerm'[i]
    BY <1>1, <1>4, <2>1, <2>3 DEF TermAfter, IsNewer
  <2> QED
    BY <1>1, <1>4, <2>2, <2>3, <2>4
<1> QED
  BY <1>1, <1>2, <1>3, <1>4 DEF OfficeEffect

LEMMA NextLeadership ==
    ASSUME CoreInv, CoreInv', LeadershipInv, [NextWithRestarts]_vars
    PROVE  LeadershipInv'
<1>1. CASE NextWithRestarts
  BY <1>1, LeadersInOfficeKept, RequestsOfLeadersKept, KnownLeadersKept
  DEF NextWithRestarts, AnyStep, LeadershipInv
<1>2. CASE UNCHANGED vars
  BY <1>2 DEF vars, electionVars, leaderVars, historyVars, LeadershipInv,
     LeadersInOffice, RequestsOfLeaders, IsOfLeader, KnownLeaders
<1> QED
  BY <1>1, <1>2

\* Requests and hints name true leaders in every cluster, whoever is restarted.
THEOREM LeadershipInvariant == RestartSpec => []LeadershipInv
<1>1. Init => LeadershipInv
  BY DEF Init, LeadershipInv, LeadersInOffice, RequestsOfLeaders, KnownLeaders,
     Down, Leading
<1>2. CoreInv /\ CoreInv' /\ LeadershipInv /\ [NextWithRestarts]_vars => LeadershipInv'
  BY NextLeadership
<1> QED
  BY CoreInvariant, <1>1, <1>2, PTL DEF RestartSpec

\* The leader that a node names to its clients did lead, in a term that the node
\* knows, in a cluster of any size and whatever is restarted or lost.
THEOREM HintsAreTrue == RestartSpec => []LeaderHint
<1>1. LeadershipInv => LeaderHint
  BY DEF LeadershipInv, KnownLeaders, LeaderHint
<1> QED
  BY LeadershipInvariant, <1>1, PTL

\* What does not run acts only by being started.
LEMMA ActsWhenUp ==
    ASSUME CoreInv, NEW i \in Server, Step(i) \/ Crash(i)
    PROVE  IsUp(i) \/ Launch(i)
<1>1. call[i].op \in {"idle"} \cup Rounds => IsUp(i)
  BY DEF IsUp, Rounds
<1>2. CASE Serve(i) \/ StartElection(i) \/ StartHeartbeats(i)
           \/ \E command \in Command : ClientAppend(i, command)
  BY <1>1, <1>2 DEF Serve, HandleRequestVote, RejectAppendEntries,
     AcceptAppendEntries, ReceiveAppendEntries, Accepts, DropConnection,
     StartElection, StartHeartbeats, ClientAppend
<1>3. CASE Continue(i)
  BY <1>1, <1>3 DEF Continue, Send, AtPeer, WinElection, CollectVote, Granted, NoVote,
     HeartbeatAnswered, SkipPeer, ReplicationSucceeded, ReplicationRejected,
     ReplicationFailed, FinishAppend, Got, Rounds
<1>4. CASE Break(i)
  <2>1. InRound(i)
    BY <1>4 DEF Break, CoreInv, CallAtPeer, Pending, Unsent
  <2> QED
    BY <1>1, <2>1 DEF InRound
<1> QED
  BY <1>1, <1>2, <1>3, <1>4
  DEF Step, NodeStep, Crash, CrashBetween, CrashServing, CrashCommitting, Rounds

-----------------------------------------------------------------------------
(* What is marked committed *)

\* Nodes that have not died: after a kill between the append of marked entries
\* and the commit the marks may be ahead.
FlagsInLogs == \A i \in Server : call[i].op # "crashed" =>
    /\ FlagsUpTo(store[i].entries, store[i].commitIndex)
    /\ FlagsUpTo(store[i].disk, store[i].commitIndex)

FlagsOfSender(m) ==
    m.type = "AppendEntries" => FlagsUpTo(m.entries, m.leaderCommit)

\* A leader sends the marks of its own entries along; they lie within the
\* commit index that it sends with them.
FlagsInRequests ==
    \A j \in Server : \A n \in 1 .. Len(backlog[j]) :
        FlagsOfSender(backlog[j][n].request)

FlagInv == FlagsInLogs /\ FlagsInRequests

LEMMA FlagsInLogsKept ==
    ASSUME CoreInv, FlagInv, NEW i \in Server, Step(i) \/ Crash(i)
    PROVE  FlagsInLogs'
<1> SUFFICES ASSUME NEW p \in Server, call'[p].op # "crashed"
             PROVE  /\ FlagsUpTo(store'[p].entries, store'[p].commitIndex)
                    /\ FlagsUpTo(store'[p].disk, store'[p].commitIndex)
  BY DEF FlagsInLogs, FlagsUpTo
<1>1. AnyStep(i)
  BY DEF AnyStep
<1>2. call[p].op # "crashed"
  <2>1. p # i => call'[p].op = call[p].op
    BY <1>1, OfficesTraced DEF OfficeEffect
  <2>2. call[i].op # "crashed"
    BY ActsWhenUp DEF IsUp, Launch
  <2> QED
    BY <2>1, <2>2
<1>3. /\ FlagsUpTo(store[p].entries, store[p].commitIndex)
      /\ FlagsUpTo(store[p].disk, store[p].commitIndex)
  BY <1>2 DEF FlagInv, FlagsInLogs
<1>4. p = i => ~Dies(i)
  BY TasksAfterDeath
<1>5. CASE LogUndisturbed(p)
  BY <1>3, <1>5 DEF LogUndisturbed
<1>6. CASE p # i
  BY <1>1, <1>3, <1>6, StoresTraced
<1>7. CASE p = i /\ TakesEntries(i)
  <2>1. AcceptAppendEntries(i) /\ Accepts(i, "AppendEntries")
    BY <1>4, <1>7 DEF TakesEntries
  <2>2. FlagsUpTo(Request(i).entries, Request(i).leaderCommit)
    BY <2>1, AcceptedRequest DEF FlagInv, FlagsInRequests, FlagsOfSender
  <2> QED
    BY <1>3, <1>7, <2>1, <2>2, AcceptEffect
<1>8. CASE p = i /\ \E command \in Command : ClientAppend(i, command)
  BY <1>3, <1>8, ClientAppendEffect
<1>9. CASE p = i /\ Commits(i)
  BY <1>3, <1>9, CommitsEffect
<1> QED
  BY <1>1, <1>5, <1>6, <1>7, <1>8, <1>9, StoresTraced

LEMMA FlagsInRequestsKept ==
    ASSUME CoreInv, FlagInv, NEW i \in Server, Step(i) \/ Crash(i)
    PROVE  FlagsInRequests'
<1> SUFFICES ASSUME NEW m \in Server, NEW n \in 1 .. Len(backlog'[m])
             PROVE  FlagsOfSender(backlog[m][n].request)'
  BY DEF FlagsInRequests
<1> DEFINE request == backlog'[m][n].request
<1>1. CASE WasThere(backlog'[m][n], m)
  <2>1. FlagsOfSender(request)
    BY <1>1 DEF WasThere, IsLeftOf, FlagInv, FlagsInRequests
  <2> QED
    BY <2>1 DEF FlagsOfSender, FlagsUpTo
<1>2. CASE Opens(i, m, backlog'[m][n])
  <2>1. /\ request = RequestOf(i)
        /\ call[i].op \in Rounds
        /\ call[i].op = "votes" => RequestOf(i) = RequestVote(i)
        /\ call[i].op # "votes" => \E entries \in {EmptyLog, Unreplicated(i, Callee(i))} :
              RequestOf(i) = AppendEntriesTo(i, Callee(i), entries)
    BY <1>2, RequestSent DEF Opens, Rounds
  <2> HIDE DEF request
  <2>2. CASE call[i].op = "votes"
    BY <2>1, <2>2 DEF RequestVote, FlagsOfSender, request
  <2>3. CASE call[i].op # "votes"
    <3>1. PICK entries \in {EmptyLog, Unreplicated(i, Callee(i))} :
             request = AppendEntriesTo(i, Callee(i), entries)
      BY <2>1, <2>3
    <3>2. request.entries = entries /\ request.leaderCommit = store[i].commitIndex
      BY <3>1 DEF AppendEntriesTo
    <3>3. FlagsUpTo(EmptyLog, store[i].commitIndex)
      BY EmptyLogIsLog DEF FlagsUpTo
    <3>4. FlagsUpTo(Unreplicated(i, Callee(i)), store[i].commitIndex)
      <4>1. call[i].op # "crashed"
        BY <2>1 DEF Rounds
      <4> QED
        BY <4>1 DEF Unreplicated, GetEntriesFrom, FlagsUpTo, FlagInv, FlagsInLogs
    <3>5. FlagsUpTo(request.entries, request.leaderCommit)
      BY <3>2, <3>3, <3>4
    <3> QED
      BY <3>5 DEF FlagsOfSender, FlagsUpTo, request
  <2> QED
    BY <2>2, <2>3
<1> QED
  BY <1>1, <1>2, ConnectionsTraced DEF AnyStep

LEMMA NextFlags ==
    ASSUME CoreInv, FlagInv, [NextWithCrashes]_vars
    PROVE  FlagInv'
<1>1. CASE NextWithCrashes
  BY <1>1, FlagsInLogsKept, FlagsInRequestsKept DEF NextWithCrashes, FlagInv
<1>2. CASE UNCHANGED vars
  BY <1>2 DEF vars, FlagInv, FlagsInLogs, FlagsInRequests, FlagsOfSender, FlagsUpTo
<1> QED
  BY <1>1, <1>2

THEOREM FlagInvariant == CrashSpec => []FlagInv
<1>1. Init => FlagInv
  BY EmptyLogIsLog
  DEF Init, FlagInv, FlagsInLogs, FlagsInRequests, FlagsUpTo, EmptyStore
<1>2. CoreInv /\ FlagInv /\ [NextWithCrashes]_vars => FlagInv'
  BY NextFlags
<1> QED
  BY CrashCoreInvariant, <1>1, <1>2, PTL DEF CrashSpec

\* At a node that runs since its first start no mark is ahead of the commit
\* index, for every cluster, with marks copied between nodes and logs truncated,
\* whoever else is killed, at its select!, in a call or within a handler.
THEOREM FlagsWithinCommit == CrashSpec => []FlagWithinCommit
<1>1. FlagInv => FlagWithinCommit
  BY DEF FlagInv, FlagsInLogs, FlagsUpTo, FlagWithinCommit, IsUp
<1> QED
  BY FlagInvariant, <1>1, PTL

-----------------------------------------------------------------------------
(* Where an entry comes from *)

InRequest(m, n, t, c) == m.type = "AppendEntries" /\ HasEntry(m.entries, n, t, c)

\* An entry with this index, term and command is somewhere in the cluster: in
\* memory, on a disk or on its way.
Copied(n, t, c) ==
    \/ \E i \in Server : InStore(store[i], n, t, c)
    \/ \E j \in Server : \E k \in 1 .. Len(backlog[j]) :
          InRequest(backlog[j][k].request, n, t, c)

NewCopy(i, n, t, c) ==
    /\ c \in Command /\ ClientAppend(i, c)
    /\ n = store[i].lastLogIndex + 1 /\ t = currentTerm[i]

LEMMA StoresCopied ==
    ASSUME CoreInv, NEW i \in Server, AnyStep(i), NEW p \in Server,
           NEW n, NEW t, NEW c, InStore(store'[p], n, t, c)
    PROVE  Copied(n, t, c) \/ NewCopy(i, n, t, c)
<1>1. InStore(store[p], n, t, c) => Copied(n, t, c)
  BY DEF Copied
<1>2. CASE LogUndisturbed(p)
  BY <1>1, <1>2 DEF LogUndisturbed, InStore
<1>3. CASE p # i
  BY <1>1, <1>3, StoresTraced
<1>4. CASE p = i /\ TakesEntries(i)
  <2>1. InStore(store[i], n, t, c) \/ HasEntry(Request(i).entries, n, t, c)
    BY <1>4, TakesEffect
  <2>2. /\ 1 \in 1 .. Len(backlog[i]) /\ Request(i) = backlog[i][1].request
        /\ Request(i).type = "AppendEntries"
    BY <1>4, AcceptedRequest DEF TakesEntries
  <2>3. HasEntry(Request(i).entries, n, t, c) => InRequest(backlog[i][1].request, n, t, c)
    BY <2>2 DEF InRequest
  <2> QED
    BY <1>1, <1>4, <2>1, <2>2, <2>3 DEF Copied
<1>5. CASE p = i /\ \E command \in Command : ClientAppend(i, command)
  <2>1. PICK command \in Command : ClientAppend(i, command)
    BY <1>5
  <2>2. \/ InStore(store[i], n, t, c)
        \/ n = store[i].lastLogIndex + 1 /\ t = currentTerm[i] /\ c = command
    BY <1>5, <2>1, ClientAppendEffect
  <2> QED
    BY <1>1, <1>5, <2>1, <2>2 DEF NewCopy
<1>6. CASE p = i /\ Commits(i)
  <2>1. InStore(store'[i], n, t, c) <=> InStore(store[i], n, t, c)
    BY <1>6, CommitsEffect
  <2> QED
    BY <1>1, <1>6, <2>1
<1> QED
  BY <1>2, <1>3, <1>4, <1>5, <1>6, StoresTraced

LEMMA RequestsCopied ==
    ASSUME CoreInv, NEW i \in Server, AnyStep(i), NEW m \in Server,
           NEW k \in 1 .. Len(backlog'[m]), NEW n, NEW t, NEW c,
           InRequest(backlog'[m][k].request, n, t, c)
    PROVE  Copied(n, t, c)
<1> DEFINE request == backlog'[m][k].request
<1>1. CASE WasThere(backlog'[m][k], m)
  BY <1>1 DEF WasThere, IsLeftOf, Copied
<1>2. CASE Opens(i, m, backlog'[m][k])
  <2>1. /\ request = RequestOf(i) /\ call[i].op \in Rounds
        /\ call[i].op = "votes" => RequestOf(i) = RequestVote(i)
        /\ call[i].op # "votes" => \E entries \in {EmptyLog, Unreplicated(i, Callee(i))} :
              RequestOf(i) = AppendEntriesTo(i, Callee(i), entries)
    BY <1>2, RequestSent DEF Opens, Rounds
  <2>2. request.type = "AppendEntries" /\ HasEntry(request.entries, n, t, c)
    BY DEF InRequest
  <2> HIDE DEF request
  <2>3. call[i].op # "votes"
    BY <2>1, <2>2 DEF RequestVote
  <2>4. PICK entries \in {EmptyLog, Unreplicated(i, Callee(i))} :
           request = AppendEntriesTo(i, Callee(i), entries)
    BY <2>1, <2>3
  <2>5. HasEntry(entries, n, t, c)
    BY <2>2, <2>4 DEF AppendEntriesTo
  <2>6. entries = Unreplicated(i, Callee(i))
    BY <2>4, <2>5, EmptyLogIsLog DEF HasEntry
  <2>7. HasEntry(store[i].entries, n, t, c)
    BY <2>5, <2>6 DEF Unreplicated, GetEntriesFrom, HasEntry
  <2> QED
    BY <2>7 DEF Copied, InStore
<1> QED
  BY <1>1, <1>2, ConnectionsTraced

\* Entries are created by append_command alone.
LEMMA CopiesTraced ==
    ASSUME CoreInv, NEW i \in Server, AnyStep(i),
           NEW n, NEW t, NEW c, Copied(n, t, c)'
    PROVE  Copied(n, t, c) \/ NewCopy(i, n, t, c)
<1>1. \/ \E p \in Server : InStore(store'[p], n, t, c)
      \/ \E m \in Server : \E k \in 1 .. Len(backlog'[m]) :
            InRequest(backlog'[m][k].request, n, t, c)
  BY DEF Copied, InStore, InRequest, HasEntry
<1> QED
  BY <1>1, StoresCopied, RequestsCopied

LEMMA CopiesStay ==
    ASSUME UNCHANGED <<store, backlog>>, NEW n, NEW t, NEW c, Copied(n, t, c)'
    PROVE  Copied(n, t, c)
<1>1. CASE \E p \in Server : InStore(store[p], n, t, c)'
  BY <1>1 DEF Copied, InStore, HasEntry
<1>2. CASE \E m \in Server : \E k \in 1 .. Len(backlog'[m]) :
              InRequest(backlog[m][k].request, n, t, c)'
  BY <1>2 DEF Copied, InRequest, HasEntry
<1> QED
  BY <1>1, <1>2 DEF Copied

\* Whoever led a term is in a later one now, or still in office.
Offices ==
    /\ \A l \in leaders :
          /\ l[1] <= currentTerm[l[2]]
          /\ l[1] = currentTerm[l[2]] => state[l[2]] = "Leader"
    /\ \A i \in Server : call[i].op = "off" => state[i] # "Leader"

\* The leader of the term of an entry has the entry as long as it is in office.
HasOrigin(n, t, c) ==
    \E l \in Server : /\ <<t, l>> \in leaders
                      /\ currentTerm[l] = t => HasEntry(store[l].entries, n, t, c)

Origins == \A n, t, c : Copied(n, t, c) => HasOrigin(n, t, c)

OneCommand == \A n, t, c1, c2 : Copied(n, t, c1) /\ Copied(n, t, c2) => c1 = c2

OriginInv == Offices /\ Origins /\ OneCommand

\* A leader in office accepts no AppendEntries of its own term: the sender would
\* be itself, and nobody sends to itself.
LEMMA LeaderAcceptsNone ==
    ASSUME CoreInv, LeadershipInv, ElectionSafety, NEW i \in Server,
           state[i] = "Leader", currentTerm'[i] = currentTerm[i]
    PROVE  ~TakesEntries(i)
<1> SUFFICES ASSUME TakesEntries(i) PROVE FALSE
  OBVIOUS
<1> DEFINE m == Request(i)
<1>1. /\ Accepts(i, "AppendEntries") /\ m.term >= currentTerm[i]
      /\ AdoptTerm(i, m.term)
  BY DEF TakesEntries
<1>2. /\ m.term \in Nat /\ m.type = "AppendEntries"
      /\ 1 \in 1 .. Len(backlog[i]) /\ m = backlog[i][1].request
      /\ currentTerm[i] \in Nat
  BY <1>1, AcceptedRequest, TermIsNat
<1>3. <<m.term, m.leaderId>> \in leaders /\ m.leaderId # i
  BY <1>2 DEF LeadershipInv, RequestsOfLeaders, IsOfLeader
<1>4. currentTerm'[i] = TermAfter(i, m.term)
  BY <1>1 DEF AdoptTerm, CoreInv, TypeOK
<1> HIDE DEF m
<1>5. m.term = currentTerm[i]
  BY <1>1, <1>2, <1>4 DEF TermAfter, IsNewer
<1>6. <<currentTerm[i], i>> \in leaders
  BY DEF LeadershipInv, LeadersInOffice
<1>7. <<m.term, m.leaderId>>[2] = <<currentTerm[i], i>>[2]
  BY <1>3, <1>5, <1>6 DEF ElectionSafety
<1> QED
  BY <1>3, <1>7

\* A leader keeps its entries while it is in office.
LEMMA LeaderKeeps ==
    ASSUME CoreInv, LeadershipInv, ElectionSafety, Offices,
           NEW i \in Server, Step(i) \/ Crash(i), NEW l \in Server,
           state[l] = "Leader", currentTerm'[l] = currentTerm[l],
           NEW n, NEW t, NEW c, HasEntry(store[l].entries, n, t, c)
    PROVE  HasEntry(store'[l].entries, n, t, c)
<1>1. AnyStep(i)
  BY DEF AnyStep
<1>2. CASE l # i
  BY <1>1, <1>2, StoresTraced
<1>3. CASE l = i /\ LogUndisturbed(i)
  <2>1. IsUp(i)
    BY <1>3, ActsWhenUp DEF Offices, Launch
  <2> QED
    BY <1>3, <2>1 DEF LogUndisturbed
<1>4. CASE l = i /\ TakesEntries(i)
  BY <1>4, LeaderAcceptsNone
<1>5. CASE l = i /\ \E command \in Command : ClientAppend(i, command)
  BY <1>5, ClientAppendEffect
<1>6. CASE l = i /\ Commits(i)
  BY <1>6, CommitsEffect
<1> QED
  BY <1>1, <1>2, <1>3, <1>4, <1>5, <1>6, StoresTraced

LEMMA LeaderParts ==
    ASSUME CoreInv, NEW l \in leaders
    PROVE  /\ l = <<l[1], l[2]>>
           /\ l[1] \in Terms /\ l[1] \in Nat /\ l[2] \in Server
<1>1. l \in Terms \X Server
  BY DEF CoreInv, TypeOK
<1> QED
  BY <1>1, BoundsAssumption DEF Terms

LEMMA OfficesKept ==
    ASSUME CoreInv, CoreInv', Offices, NEW i \in Server, Step(i) \/ Crash(i)
    PROVE  Offices'
<1>1. AnyStep(i)
  BY DEF AnyStep
<1>2. ASSUME NEW l \in leaders'
      PROVE  /\ l[1] <= currentTerm'[l[2]]
             /\ l[1] = currentTerm'[l[2]] => state'[l[2]] = "Leader"
  <2>1. CASE l \in leaders
    <3> DEFINE p == l[2]
    <3>1. /\ p \in Server /\ l[1] \in Nat
          /\ currentTerm[p] \in Nat /\ currentTerm'[p] \in Nat
          /\ currentTerm'[p] >= currentTerm[p]
      <4>1. p \in Server /\ l[1] \in Nat
        BY <2>1, LeaderParts
      <4> HIDE DEF p
      <4>2. currentTerm'[p] \in Nat
        BY <4>1, BoundsAssumption DEF CoreInv, TypeOK, Terms
      <4> QED
        BY <4>1, <4>2, TermIsNat, StepTerm
    <3>2. l[1] <= currentTerm[p] /\ (l[1] = currentTerm[p] => state[p] = "Leader")
      BY <2>1 DEF Offices
    <3>3. OfficeEffect(i, p)
      BY <1>1, <3>1, OfficesTraced
    <3> HIDE DEF p
    <3>4. l[1] <= currentTerm'[p]
      BY <3>1, <3>2
    <3>5. ASSUME l[1] = currentTerm'[p] PROVE state'[p] = "Leader"
      <4>1. currentTerm'[p] = currentTerm[p] /\ state[p] = "Leader"
        BY <3>1, <3>2, <3>5
      <4>2. ~(p = i /\ Boot(i) /\ ~IsUp(i))
        BY <4>1, ActsWhenUp DEF Offices, Launch
      <4> QED
        BY <3>3, <4>1, <4>2 DEF OfficeEffect
    <3> QED
      BY <3>4, <3>5 DEF p
  <2>2. CASE l \notin leaders
    <3>1. l = <<currentTerm'[i], i>> /\ state'[i] = "Leader"
      BY <1>1, <2>2, OfficesTraced DEF LeadersEffect
    <3>2. currentTerm'[i] \in Nat
      BY BoundsAssumption DEF CoreInv, TypeOK, Terms
    <3> QED
      BY <3>1, <3>2
  <2> QED
    BY <2>1, <2>2
<1>3. ASSUME NEW p \in Server, call'[p].op = "off"
      PROVE  state'[p] # "Leader"
  <2>1. OfficeEffect(i, p)
    BY <1>1, OfficesTraced
  <2> QED
    BY <1>3, <2>1 DEF OfficeEffect, Offices
<1> QED
  BY <1>2, <1>3 DEF Offices

LEMMA OriginsKept ==
    ASSUME CoreInv, CoreInv', LeadershipInv, ElectionSafety, OriginInv,
           NEW i \in Server, Step(i) \/ Crash(i)
    PROVE  Origins'
<1>1. AnyStep(i)
  BY DEF AnyStep
<1> SUFFICES ASSUME NEW n, NEW t, NEW c, Copied(n, t, c)'
             PROVE  \E l \in Server :
                       /\ <<t, l>> \in leaders'
                       /\ currentTerm'[l] = t => HasEntry(store'[l].entries, n, t, c)
  BY DEF Origins, HasOrigin, HasEntry
<1>2. leaders \subseteq leaders'
  BY <1>1, OfficesTraced DEF LeadersEffect
<1>3. CASE Copied(n, t, c)
  <2>1. PICK l \in Server :
           /\ <<t, l>> \in leaders
           /\ currentTerm[l] = t => HasEntry(store[l].entries, n, t, c)
    BY <1>3 DEF OriginInv, Origins, HasOrigin
  <2>2. ASSUME currentTerm'[l] = t
        PROVE  HasEntry(store'[l].entries, n, t, c)
    <3>1. /\ t <= currentTerm[l]
          /\ t = currentTerm[l] => state[l] = "Leader"
      BY <2>1 DEF OriginInv, Offices
    <3>2. currentTerm'[l] >= currentTerm[l] /\ currentTerm[l] \in Nat
      BY StepTerm, TermIsNat
    <3>3. t \in Nat
      BY <2>1, LeaderParts
    <3>4. t = currentTerm[l] /\ state[l] = "Leader"
      BY <2>2, <3>1, <3>2, <3>3
    <3> QED
      BY <2>1, <2>2, <3>4, LeaderKeeps DEF OriginInv
  <2> QED
    BY <1>2, <2>1, <2>2
<1>4. CASE NewCopy(i, n, t, c)
  <2>1. state[i] = "Leader" /\ t = currentTerm[i]
    BY <1>4 DEF NewCopy, ClientAppend
  <2>2. <<t, i>> \in leaders
    BY <2>1 DEF LeadershipInv, LeadersInOffice
  <2>3. HasEntry(store'[i].entries, n, t, c)
    BY <1>4, ClientAppendEffect DEF NewCopy
  <2> QED
    BY <1>2, <2>2, <2>3
<1> QED
  BY <1>1, <1>3, <1>4, CopiesTraced

\* A new entry is the first of its index and term: its leader has none there.
LEMMA NewCopyIsFirst ==
    ASSUME CoreInv, LeadershipInv, ElectionSafety, OriginInv, NEW i \in Server,
           NEW n, NEW t, NEW c, NewCopy(i, n, t, c), NEW c1
    PROVE  ~Copied(n, t, c1)
<1> SUFFICES ASSUME Copied(n, t, c1) PROVE FALSE
  OBVIOUS
<1>1. /\ state[i] = "Leader" /\ t = currentTerm[i]
      /\ n = store[i].lastLogIndex + 1
  BY DEF NewCopy, ClientAppend
<1>2. PICK l \in Server :
         /\ <<t, l>> \in leaders
         /\ currentTerm[l] = t => HasEntry(store[l].entries, n, t, c1)
  BY DEF OriginInv, Origins, HasOrigin
<1>3. <<t, i>> \in leaders
  BY <1>1 DEF LeadershipInv, LeadersInOffice
<1>4. l = i
  <2>1. <<t, l>>[2] = <<t, i>>[2]
    BY <1>2, <1>3 DEF ElectionSafety
  <2> QED
    BY <2>1
<1>5. n \in DOMAIN store[i].entries
  BY <1>1, <1>2, <1>4 DEF HasEntry
<1>6. /\ DOMAIN store[i].entries = 1 .. store[i].lastLogIndex
      /\ store[i].lastLogIndex \in Nat
  BY BoundsAssumption DEF CoreInv, LogContiguous, TypeOK, Store, Indices
<1> QED
  BY <1>1, <1>5, <1>6

LEMMA OneCommandKept ==
    ASSUME CoreInv, LeadershipInv, ElectionSafety, OriginInv,
           NEW i \in Server, Step(i) \/ Crash(i)
    PROVE  OneCommand'
<1>1. AnyStep(i)
  BY DEF AnyStep
<1> SUFFICES ASSUME NEW n, NEW t, NEW c1, NEW c2, Copied(n, t, c1)', Copied(n, t, c2)'
             PROVE  c1 = c2
  BY DEF OneCommand
<1>2. /\ Copied(n, t, c1) \/ NewCopy(i, n, t, c1)
      /\ Copied(n, t, c2) \/ NewCopy(i, n, t, c2)
  BY <1>1, CopiesTraced
<1>3. CASE Copied(n, t, c1) /\ Copied(n, t, c2)
  BY <1>3 DEF OriginInv, OneCommand
<1>4. CASE NewCopy(i, n, t, c1) /\ NewCopy(i, n, t, c2)
  <2>1. /\ HasEntry(store'[i].entries, n, t, c1)
        /\ HasEntry(store'[i].entries, n, t, c2)
    BY <1>4, ClientAppendEffect DEF NewCopy
  <2> QED
    BY <2>1 DEF HasEntry
<1> QED
  BY <1>2, <1>3, <1>4, NewCopyIsFirst

LEMMA NextOrigin ==
    ASSUME CoreInv, CoreInv', LeadershipInv, ElectionSafety, OriginInv,
           [NextWithCrashes]_vars
    PROVE  OriginInv'
<1>1. CASE NextWithCrashes
  <2>1. PICK i \in Server : Step(i) \/ Crash(i)
    BY <1>1 DEF NextWithCrashes
  <2>2. Offices'
    BY <2>1, OfficesKept DEF OriginInv
  <2> QED
    BY <2>1, <2>2, OriginsKept, OneCommandKept DEF OriginInv
<1>2. CASE UNCHANGED vars
  <2>1. UNCHANGED <<store, backlog, leaders, currentTerm, state, call>>
    BY <1>2 DEF vars, electionVars, leaderVars, historyVars
  <2>2. \A n, t, c : Copied(n, t, c)' => Copied(n, t, c)
    BY <2>1, CopiesStay
  <2>3. \A n, t, c : HasOrigin(n, t, c) => HasOrigin(n, t, c)'
    BY <2>1 DEF HasOrigin, HasEntry
  <2>4. Offices'
    BY <2>1 DEF OriginInv, Offices
  <2>5. Origins' /\ OneCommand'
    BY <2>2, <2>3 DEF OriginInv, Origins, OneCommand
  <2> QED
    BY <2>4, <2>5 DEF OriginInv
<1> QED
  BY <1>1, <1>2

\* Crashes without restarts are among the behaviours LeadershipInv is about.
LEMMA CrashLeadershipInvariant == CrashSpec => []LeadershipInv
<1>1. [NextWithCrashes]_vars => [NextWithRestarts]_vars
  BY DEF NextWithCrashes, NextWithRestarts
<1>2. CrashSpec => RestartSpec
  BY <1>1, PTL DEF CrashSpec, RestartSpec
<1> QED
  BY <1>2, LeadershipInvariant, PTL

LEMMA InitOrigin == Init => OriginInv
<1> SUFFICES ASSUME Init PROVE OriginInv
  OBVIOUS
<1>1. \A n, t, c : ~Copied(n, t, c)
  BY EmptyLogIsLog DEF Init, Copied, InStore, HasEntry, EmptyStore
<1> QED
  BY <1>1 DEF Init, OriginInv, Offices, Origins, OneCommand

\* Every entry in the cluster was created by the leader of its term, which has
\* it while it leads, and there is one for each index and term.
THEOREM OriginInvariant == CrashSpec => []OriginInv
<1>1. CoreInv /\ CoreInv' /\ LeadershipInv /\ ElectionSafety /\ OriginInv
         /\ [NextWithCrashes]_vars => OriginInv'
  BY NextOrigin
<1> QED
  BY CrashCoreInvariant, CrashLeadershipInvariant, ElectionsAreSafe, InitOrigin,
     <1>1, PTL DEF CrashSpec

\* Index and term identify an entry, for clusters of any size, as long as nobody
\* that crashed is started again.
THEOREM EntriesIdentified == CrashSpec => []EntryIdentity
<1>1. CoreInv /\ OriginInv => EntryIdentity
  BY DEF OriginInv, OneCommand, Copied, InStore, HasEntry, EntryIdentity
<1> QED
  BY CrashCoreInvariant, OriginInvariant, <1>1, PTL

\* A leader never drops or replaces an entry in its term, whatever requests of
\* other leaders reach it, as long as nobody that crashed is started again.
THEOREM LeadersOnlyAppend == CrashSpec => LeaderAppendOnly
<1>1. CoreInv /\ LeadershipInv /\ ElectionSafety /\ OriginInv /\ [NextWithCrashes]_vars
      => [\A i \in Server :
            (/\ state[i] = "Leader" /\ state'[i] = "Leader"
             /\ currentTerm'[i] = currentTerm[i])
            => \A n \in DOMAIN store[i].entries :
                  /\ n \in DOMAIN store'[i].entries
                  /\ SameEntry(store[i].entries[n], store'[i].entries[n])]_vars
  <2> SUFFICES ASSUME CoreInv, LeadershipInv, ElectionSafety, OriginInv,
                      NextWithCrashes,
                      NEW i \in Server, state[i] = "Leader",
                      currentTerm'[i] = currentTerm[i],
                      NEW n \in DOMAIN store[i].entries
               PROVE  /\ n \in DOMAIN store'[i].entries
                      /\ SameEntry(store[i].entries[n], store'[i].entries[n])
    OBVIOUS
  <2> DEFINE t == store[i].entries[n].term
             c == store[i].entries[n].command
  <2>1. HasEntry(store[i].entries, n, t, c)
    BY DEF HasEntry
  <2> HIDE DEF t, c
  <2>2. HasEntry(store'[i].entries, n, t, c)
    BY <2>1, LeaderKeeps DEF NextWithCrashes, OriginInv
  <2> QED
    BY <2>2 DEF HasEntry, SameEntry, t, c
<1> QED
  BY CrashCoreInvariant, CrashLeadershipInvariant, ElectionsAreSafe, OriginInvariant,
     <1>1, PTL DEF CrashSpec, LeaderAppendOnly
=============================================================================
