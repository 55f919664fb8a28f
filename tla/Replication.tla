---------------------------- MODULE Replication ----------------------------
(***************************************************************************)
(* The cluster: one ReplicationManager per server (src/src/replication.rs) *)
(* driven by the event loop of its Node (src/src/node.rs), the Storage of  *)
(* each (module LogStore) and the TCP connections between them             *)
(* (src/src/network.rs).                                                   *)
(*                                                                         *)
(* A node is ONE task.  While a handler awaits the reply of a peer the     *)
(* node accepts no connection and serves no timer, so an activity of a     *)
(* node is a loop over its peers with one outstanding call, and incoming   *)
(* connections wait in the backlog of its listener in arrival order.       *)
(* A handler that calls nobody runs between two awaits and is one action,  *)
(* which a kill may cut short after any of its Storage operations.         *)
(*                                                                         *)
(* Time is abstracted: the election timer of a follower may have run out   *)
(* at any moment it is looked at, and the heartbeat tick may fire whenever *)
(* the leader is at its select!.                                           *)
(*                                                                         *)
(* A definition marked "Variant" is a faulty form of the one that follows  *)
(* it, used by no action: replacing the definition by it must break a      *)
(* property (PROJECT.json, "mutants").                                     *)
(***************************************************************************)
EXTENDS LogStore, FiniteSets, Sequences

CONSTANTS
    Server,       \* the nodes of the cluster
    Peers,        \* Peers[i]: the --peers list of i, in the order of its Vec
    Flagged,      \* the nodes that are started with --leader
    Command,      \* the commands clients append
    None,         \* Option::None
    MaxTerm,      \* bound: no election is started in this term or a later one
    MaxLog,       \* bound: no entry is appended beyond this index
    MaxBacklog,   \* bound: connections waiting at one listener
    Lossy         \* whether a connection between running nodes may break

ASSUME ServerAssumption == IsFiniteSet(Server) /\ None \notin Server

\* Every node is given every other node once (README, "Running a Cluster").
ASSUME PeersAssumption ==
    /\ Peers \in [Server -> Seq(Server)]
    /\ \A i \in Server :
          /\ {Peers[i][k] : k \in 1 .. Len(Peers[i])} = Server \ {i}
          /\ Len(Peers[i]) + 1 = Cardinality(Server)

\* At most one node is started with --leader.
ASSUME FlaggedAssumption ==
    Flagged \subseteq Server /\ \A i, j \in Flagged : i = j

ASSUME BoundsAssumption ==
    /\ MaxTerm \in Nat /\ MaxLog \in Nat /\ MaxBacklog \in Nat
    /\ Lossy \in BOOLEAN

VARIABLES
    \* fields of ReplicationManager
    state, currentTerm, votedFor, leaderId,
    nextIndex,      \* a missing key reads as 1 everywhere, so 1 is "missing"
    matchIndex,     \* a missing key counts for no index, so 0 is "missing"
    votesReceived,  \* own id, and the peer behind each "peer_<addr>"
    \* its Storage
    store,
    \* what the node's task is doing, and the peer it is doing it with
    call,
    \* connections established to the node and not yet accepted
    backlog,
    \* history: the votes cast (<<term, voter, candidate>>) and the nodes that
    \* were leader (<<term, server>>)
    ballots, leaders

electionVars == <<state, currentTerm, votedFor, leaderId, votesReceived>>
leaderVars   == <<nextIndex, matchIndex>>
historyVars  == <<ballots, leaders>>
vars == <<electionVars, leaderVars, historyVars, store, call, backlog>>

-----------------------------------------------------------------------------
(* The task of a node *)

Unsent  == [type |-> "unsent"]      \* send_message not yet called
Pending == [type |-> "pending"]     \* send_message awaits the response
Failed  == [type |-> "failed"]      \* send_message returned Err

Down(op) == [op |-> op, k |-> 0, reply |-> Unsent]
Idle     == [op |-> "idle", k |-> 0, reply |-> Unsent]

IsUp(i) == call[i].op \notin {"off", "crashed"}

\* The peer whose turn it is in the loop over self.peers.
Callee(i) == Peers[i][call[i].k]

AwaitsReplyFrom(i, j) == call[i].reply = Pending /\ Callee(i) = j

\* The loop arrives at its k-th peer.  After the last one the task is back at
\* its select!, except that append_command still has the commit to do.
LoopAt(i, op, k) ==
    IF k > Len(Peers[i]) /\ op # "replicate"
    THEN Idle
    ELSE [op |-> op, k |-> k, reply |-> Unsent]

Proceed(i) == call' = [call EXCEPT ![i] = LoopAt(i, call[i].op, call[i].k + 1)]

Got(i, op, type) == call[i].op = op /\ call[i].reply.type = type

-----------------------------------------------------------------------------
Init ==
    /\ state = [i \in Server |-> "Follower"]
    /\ currentTerm = [i \in Server |-> 0]
    /\ votedFor = [i \in Server |-> None]
    /\ leaderId = [i \in Server |-> None]
    /\ votesReceived = [i \in Server |-> {}]
    /\ nextIndex = [i \in Server |-> [p \in Server |-> 1]]
    /\ matchIndex = [i \in Server |-> [p \in Server |-> 0]]
    /\ store = [i \in Server |-> EmptyStore]
    /\ call = [i \in Server |-> Down("off")]
    /\ backlog = [i \in Server |-> <<>>]
    /\ ballots = {}
    /\ leaders = {}

(* main: Node::new loads the data directory and builds a fresh manager;    *)
(* with --leader become_leader makes it the leader of the term it found on *)
(* disk and begins a round of heartbeats before the event loop runs.       *)
Boot(i) ==
    LET s == Load(store[i])
        flagged == i \in Flagged
    IN  /\ store' = [store EXCEPT ![i] = s]
        /\ currentTerm' = [currentTerm EXCEPT ![i] = s.currentTerm]
        /\ votedFor' = [votedFor EXCEPT ![i] = None]
        /\ votesReceived' = [votesReceived EXCEPT ![i] = {}]
        /\ state' = [state EXCEPT ![i] = IF flagged THEN "Leader" ELSE "Follower"]
        /\ leaderId' = [leaderId EXCEPT ![i] = IF flagged THEN i ELSE None]
        /\ nextIndex' = [nextIndex EXCEPT ![i] =
                           [p \in Server |-> IF flagged /\ p # i
                                             THEN s.lastLogIndex + 1 ELSE 1]]
        /\ matchIndex' = [matchIndex EXCEPT ![i] = [p \in Server |-> 0]]
        /\ leaders' = IF flagged THEN leaders \cup {<<s.currentTerm, i>>}
                                 ELSE leaders
        /\ call' = [call EXCEPT ![i] = IF flagged THEN LoopAt(i, "heartbeats", 1)
                                                  ELSE Idle]
        /\ UNCHANGED <<ballots, backlog>>

Launch(i)  == call[i].op = "off" /\ Boot(i)
Restart(i) == call[i].op = "crashed" /\ Boot(i)

\* What a process sent that has died stays in the backlog of the peer, with
\* nobody to take the response.
Abandoned(queue, i) ==
    [n \in DOMAIN queue |-> IF queue[n].from = i
                            THEN [queue[n] EXCEPT !.live = FALSE]
                            ELSE queue[n]]

\* The process dies.  Peers that wait for its answer get an error, and the
\* connections in its backlog are gone.
Dies(i) ==
    /\ call' = [j \in Server |->
                  IF j = i THEN Down("crashed")
                  ELSE IF AwaitsReplyFrom(j, i)
                       THEN [call[j] EXCEPT !.reply = Failed]
                       ELSE call[j]]
    /\ backlog' = [j \in Server |-> IF j = i THEN <<>>
                                    ELSE Abandoned(backlog[j], i)]

\* It dies at its select! or while it waits for a peer.
CrashBetween(i) ==
    /\ IsUp(i)
    /\ Dies(i)
    /\ UNCHANGED <<electionVars, leaderVars, historyVars, store>>

-----------------------------------------------------------------------------
(* send_message *)

AppendEntriesTo(i, peer, entries) ==
    LET prev == nextIndex[i][peer] - 1
    IN  [type         |-> "AppendEntries",
         term         |-> currentTerm[i],
         leaderId     |-> i,
         prevLogIndex |-> prev,
         prevLogTerm  |-> TermAt(store[i], prev),
         entries      |-> entries,
         leaderCommit |-> store[i].commitIndex]

RequestVote(i) ==
    [type         |-> "RequestVote",
     term         |-> currentTerm[i],
     candidateId  |-> i,
     lastLogIndex |-> store[i].lastLogIndex,
     lastLogTerm  |-> GetLastLogTerm(store[i])]

Unreplicated(i, peer) == GetEntriesFrom(store[i], nextIndex[i][peer])

RequestOf(i) ==
    CASE call[i].op = "heartbeats" -> AppendEntriesTo(i, Callee(i), EmptyLog)
      [] call[i].op = "votes"      -> RequestVote(i)
      [] call[i].op = "replicate"  ->
            AppendEntriesTo(i, Callee(i), Unreplicated(i, Callee(i)))

\* The loops over self.peers that a task can be in.
Rounds == {"heartbeats", "votes", "replicate"}

AtPeer(i) == /\ call[i].op \in Rounds
             /\ call[i].k \in 1 .. Len(Peers[i])
             /\ call[i].reply = Unsent

NothingToSend(i) == call[i].op = "replicate"
                    /\ DOMAIN Unreplicated(i, Callee(i)) = {}

Send(i) ==
    /\ AtPeer(i) /\ ~NothingToSend(i)
    /\ LET peer == Callee(i)
       IN  IF IsUp(peer)
           THEN /\ Len(backlog[peer]) < MaxBacklog
                /\ backlog' = [backlog EXCEPT ![peer] =
                     Append(@, [from |-> i, request |-> RequestOf(i), live |-> TRUE])]
                /\ call' = [call EXCEPT ![i].reply = Pending]
           ELSE \* connection refused
                /\ call' = [call EXCEPT ![i].reply = Failed]
                /\ UNCHANGED backlog
    /\ UNCHANGED <<electionVars, leaderVars, historyVars, store>>

(* An established connection breaks.  The caller gets an error; the        *)
(* request may or may not have reached the peer.                           *)
Break(i) ==
    /\ Lossy
    /\ call[i].reply = Pending
    /\ backlog' = [backlog EXCEPT ![Callee(i)] = Abandoned(@, i)]
    /\ call' = [call EXCEPT ![i].reply = Failed]
    /\ UNCHANGED <<electionVars, leaderVars, historyVars, store>>

-----------------------------------------------------------------------------
(* handle_connection *)

\* The node is at its select! and accepts the oldest waiting connection.
Accepts(j, type) ==
    /\ call[j].op = "idle"
    /\ backlog[j] # <<>>
    /\ Head(backlog[j]).request.type = type

Request(j) == Head(backlog[j]).request

\* Variant: no response is sent.
AnswerLost(j, reply) ==
    /\ backlog' = [backlog EXCEPT ![j] = Tail(@)]
    /\ call' = call

\* send_response: the caller, if it is still there, has its answer.
Answer(j, reply) ==
    /\ backlog' = [backlog EXCEPT ![j] = Tail(@)]
    /\ call' = IF Head(backlog[j]).live
               THEN [call EXCEPT ![Head(backlog[j]).from].reply = reply]
               ELSE call

\* read_message fails on a connection that broke before the request came.
DropConnection(j) ==
    /\ call[j].op = "idle"
    /\ backlog[j] # <<>>
    /\ ~Head(backlog[j]).live
    /\ backlog' = [backlog EXCEPT ![j] = Tail(@)]
    /\ UNCHANGED <<electionVars, leaderVars, historyVars, store, call>>

\* Both handlers first adopt a term that is newer than their own.
IsNewer(j, term) == term > currentTerm[j]
TermAfter(j, term) == IF IsNewer(j, term) THEN term ELSE currentTerm[j]
\* Variant: voted_for is reset by every request.
VoteForgotten(j, term) == None
VoteAfter(j, term) == IF IsNewer(j, term) THEN None ELSE votedFor[j]
StoreAfter(j, term) ==
    IF IsNewer(j, term) THEN SetCurrentTerm(store[j], term) ELSE store[j]
\* Variant: the node stays leader or candidate in the newer term.
AdoptTermInOffice(j, term) ==
    /\ currentTerm' = [currentTerm EXCEPT ![j] = TermAfter(j, term)]
    /\ UNCHANGED state
AdoptTerm(j, term) ==
    /\ currentTerm' = [currentTerm EXCEPT ![j] = TermAfter(j, term)]
    /\ state' = [state EXCEPT ![j] = IF IsNewer(j, term) THEN "Follower" ELSE @]

IsLogUpToDate(j, m) ==
    \/ m.lastLogTerm > GetLastLogTerm(store[j])
    \/ /\ m.lastLogTerm = GetLastLogTerm(store[j])
       /\ m.lastLogIndex >= store[j].lastLogIndex

\* Variant: voted_for is not looked at.
GrantsEveryVote(j, m) ==
    m.term >= TermAfter(j, m.term) /\ IsLogUpToDate(j, m)
GrantsVote(j, m) ==
    /\ m.term >= TermAfter(j, m.term)
    /\ VoteAfter(j, m.term) \in {None, m.candidateId}
    /\ IsLogUpToDate(j, m)

HandleRequestVote(j) ==
    /\ Accepts(j, "RequestVote")
    /\ LET m       == Request(j)
           granted == GrantsVote(j, m)
       IN  /\ AdoptTerm(j, m.term)
           /\ store' = [store EXCEPT ![j] = StoreAfter(j, m.term)]
           /\ votedFor' = [votedFor EXCEPT ![j] =
                             IF granted THEN m.candidateId ELSE VoteAfter(j, m.term)]
           /\ ballots' = IF granted
                         THEN ballots \cup {<<m.term, j, m.candidateId>>}
                         ELSE ballots
           /\ Answer(j, [type        |-> "RequestVoteResponse",
                         term        |-> TermAfter(j, m.term),
                         voteGranted |-> granted])
    /\ UNCHANGED <<leaderId, votesReceived, leaderVars, leaders>>

\* Variant: a missing previous entry passes the check.
LogMatchesIfPresent(s, m) ==
    m.prevLogIndex \in DOMAIN s.entries =>
        s.entries[m.prevLogIndex].term = m.prevLogTerm

\* The consistency check of the entry before the new ones.
LogMatches(s, m) ==
    \/ m.prevLogIndex = 0
    \/ /\ m.prevLogIndex \in DOMAIN s.entries
       /\ s.entries[m.prevLogIndex].term = m.prevLogTerm

\* Only the FIRST new entry is compared with what the log already holds.
Conflicts(s, entries) ==
    /\ DOMAIN entries # {}
    /\ LET first == Min(DOMAIN entries)
       IN  /\ first \in DOMAIN s.entries
           /\ s.entries[first].term # entries[first].term

WithoutConflict(s, entries) ==
    IF Conflicts(s, entries) THEN TruncateFrom(s, Min(DOMAIN entries)) ELSE s

WithNewEntries(s, entries) == AppendBatch(WithoutConflict(s, entries), entries)

\* Variant: leader_commit is not cut down to the end of the log.
WithLeaderCommit(s, leaderCommit) ==
    IF leaderCommit > s.commitIndex THEN CommitUpTo(s, leaderCommit) ELSE s

\* Variant: a commit of the last entry is not taken over.
WithCommitBelowLast(s, leaderCommit) ==
    IF leaderCommit > s.commitIndex /\ leaderCommit < s.lastLogIndex
    THEN CommitUpTo(s, leaderCommit)
    ELSE s

WithCommit(s, leaderCommit) ==
    IF leaderCommit > s.commitIndex
    THEN CommitUpTo(s, Min({leaderCommit, s.lastLogIndex}))
    ELSE s

AppendEntriesReply(j, m, success, match) ==
    [type       |-> "AppendEntriesResponse",
     term       |-> TermAfter(j, m.term),
     success    |-> success,
     matchIndex |-> match]

\* handle_append_entries up to the term check; the sender becomes the known
\* leader before its term is compared.
ReceiveAppendEntries(j) ==
    /\ Accepts(j, "AppendEntries")
    /\ AdoptTerm(j, Request(j).term)
    /\ votedFor' = [votedFor EXCEPT ![j] = VoteAfter(j, Request(j).term)]
    /\ leaderId' = [leaderId EXCEPT ![j] = Request(j).leaderId]
    /\ UNCHANGED <<votesReceived, leaderVars, historyVars>>

RejectAppendEntries(j) ==
    /\ ReceiveAppendEntries(j)
    /\ LET m == Request(j)
       IN  /\ \/ m.term < currentTerm[j]
              \/ ~LogMatches(store[j], m)
           /\ store' = [store EXCEPT ![j] = StoreAfter(j, m.term)]
           /\ Answer(j, AppendEntriesReply(j, m, FALSE, 0))

AcceptAppendEntries(j) ==
    /\ ReceiveAppendEntries(j)
    /\ LET m == Request(j)
           s == WithCommit(WithNewEntries(StoreAfter(j, m.term), m.entries),
                           m.leaderCommit)
       IN  /\ m.term >= currentTerm[j]
           /\ LogMatches(store[j], m)
           /\ store' = [store EXCEPT ![j] = s]
           /\ Answer(j, AppendEntriesReply(j, m, TRUE, s.lastLogIndex))

EntriesUpTo(entries, last) == [n \in {e \in DOMAIN entries : e <= last} |-> entries[n]]

\* The Storage on the way through an accepted request, after the term has been
\* stored: a conflict truncated, the entries up to one of them appended (none of
\* them, up to the previous one), and at last the commit index moved.
OnTheWay(j, m) ==
    LET s == WithoutConflict(StoreAfter(j, m.term), m.entries)
    IN  {AppendBatch(s, EntriesUpTo(m.entries, last)) :
            last \in {m.prevLogIndex} \cup DOMAIN m.entries}
        \cup {WithCommit(AppendBatch(s, m.entries), m.leaderCommit)}

\* The process dies in the handler of a request, between two operations of the
\* Storage or between the last one and the response.
CrashServing(j) ==
    /\ call[j].op = "idle"
    /\ backlog[j] # <<>>
    /\ AdoptTerm(j, Request(j).term)
    /\ votedFor' = [votedFor EXCEPT ![j] = VoteAfter(j, Request(j).term)]
    /\ \/ store' = [store EXCEPT ![j] = StoreAfter(j, Request(j).term)]
       \/ /\ Request(j).type = "AppendEntries"
          /\ Request(j).term >= currentTerm[j]
          /\ LogMatches(store[j], Request(j))
          /\ \E s \in OnTheWay(j, Request(j)) : store' = [store EXCEPT ![j] = s]
    /\ Dies(j)
    /\ UNCHANGED <<leaderId, votesReceived, leaderVars, historyVars>>

-----------------------------------------------------------------------------
(* Elections *)

\* start_election, by a follower whose election timer has run out.
StartElection(i) ==
    /\ call[i].op = "idle"
    /\ state[i] = "Follower"
    /\ currentTerm[i] < MaxTerm
    /\ LET term == currentTerm[i] + 1
       IN  /\ currentTerm' = [currentTerm EXCEPT ![i] = term]
           /\ store' = [store EXCEPT ![i] = SetCurrentTerm(@, term)]
           /\ ballots' = ballots \cup {<<term, i, i>>}
    /\ state' = [state EXCEPT ![i] = "Candidate"]
    /\ votedFor' = [votedFor EXCEPT ![i] = i]
    /\ votesReceived' = [votesReceived EXCEPT ![i] = {i}]
    /\ call' = [call EXCEPT ![i] = LoopAt(i, "votes", 1)]
    /\ UNCHANGED <<leaderId, leaderVars, leaders, backlog>>

\* Variant: half of the cluster is enough.
HalfIsMajority(i, votes) == Cardinality(votes) >= (Len(Peers[i]) + 1) \div 2

Majority(i, votes) == Cardinality(votes) > (Len(Peers[i]) + 1) \div 2

Granted(i) == Got(i, "votes", "RequestVoteResponse") /\ call[i].reply.voteGranted

\* A granted vote that makes the majority: the rest of the peers is not asked.
\* nextIndex and matchIndex stay what they were.
WinElection(i) ==
    /\ Granted(i)
    /\ Majority(i, votesReceived[i] \cup {Callee(i)})
    /\ votesReceived' = [votesReceived EXCEPT ![i] = @ \cup {Callee(i)}]
    /\ state' = [state EXCEPT ![i] = "Leader"]
    /\ leaderId' = [leaderId EXCEPT ![i] = i]
    /\ leaders' = leaders \cup {<<currentTerm[i], i>>}
    /\ call' = [call EXCEPT ![i] = Idle]
    /\ UNCHANGED <<currentTerm, votedFor, leaderVars, ballots, store, backlog>>

CollectVote(i) ==
    /\ Granted(i)
    /\ ~Majority(i, votesReceived[i] \cup {Callee(i)})
    /\ votesReceived' = [votesReceived EXCEPT ![i] = @ \cup {Callee(i)}]
    /\ Proceed(i)
    /\ UNCHANGED <<state, currentTerm, votedFor, leaderId, leaderVars,
                   historyVars, store, backlog>>

\* The term of a refusal is not looked at.
NoVote(i) ==
    /\ \/ Got(i, "votes", "failed")
       \/ Got(i, "votes", "RequestVoteResponse") /\ ~call[i].reply.voteGranted
    /\ Proceed(i)
    /\ UNCHANGED <<electionVars, leaderVars, historyVars, store, backlog>>

-----------------------------------------------------------------------------
(* Replication *)

\* Variant: the state is not looked at.
StartHeartbeatsInAnyState(i) ==
    /\ call[i].op = "idle"
    /\ Peers[i] # <<>>
    /\ call' = [call EXCEPT ![i] = LoopAt(i, "heartbeats", 1)]
    /\ UNCHANGED <<electionVars, leaderVars, historyVars, store, backlog>>

\* Variant: only become_leader turns the heartbeats on.
StartHeartbeatsIfFlagged(i) ==
    /\ call[i].op = "idle"
    /\ state[i] = "Leader" /\ i \in Flagged
    /\ Peers[i] # <<>>
    /\ call' = [call EXCEPT ![i] = LoopAt(i, "heartbeats", 1)]
    /\ UNCHANGED <<electionVars, leaderVars, historyVars, store, backlog>>

\* The heartbeat tick of a leader.
StartHeartbeats(i) ==
    /\ call[i].op = "idle"
    /\ state[i] = "Leader"
    /\ Peers[i] # <<>>
    /\ call' = [call EXCEPT ![i] = LoopAt(i, "heartbeats", 1)]
    /\ UNCHANGED <<electionVars, leaderVars, historyVars, store, backlog>>

\* Whatever the response to a heartbeat says, it is not looked at.
HeartbeatAnswered(i) ==
    /\ \/ Got(i, "heartbeats", "AppendEntriesResponse")
       \/ Got(i, "heartbeats", "failed")
    /\ Proceed(i)
    /\ UNCHANGED <<electionVars, leaderVars, historyVars, store, backlog>>

\* append_command, up to the first await of replicate_to_followers.
ClientAppend(i, command) ==
    /\ call[i].op = "idle"
    /\ state[i] = "Leader"
    /\ store[i].lastLogIndex < MaxLog
    /\ LET id    == store[i].lastLogIndex + 1
           entry == [term      |-> currentTerm[i],
                     command   |-> command,
                     committed |-> FALSE]
       IN  store' = [store EXCEPT ![i] = AppendBatch(@, [n \in {id} |-> entry])]
    /\ call' = [call EXCEPT ![i] = LoopAt(i, "replicate", 1)]
    /\ UNCHANGED <<electionVars, leaderVars, historyVars, backlog>>

SkipPeer(i) ==
    /\ AtPeer(i) /\ NothingToSend(i)
    /\ Proceed(i)
    /\ UNCHANGED <<electionVars, leaderVars, historyVars, store, backlog>>

ReplicationSucceeded(i) ==
    /\ Got(i, "replicate", "AppendEntriesResponse")
    /\ call[i].reply.success
    /\ LET match == call[i].reply.matchIndex
       IN  /\ nextIndex' = [nextIndex EXCEPT ![i][Callee(i)] = match + 1]
           /\ matchIndex' = [matchIndex EXCEPT ![i][Callee(i)] = match]
    /\ Proceed(i)
    /\ UNCHANGED <<electionVars, historyVars, store, backlog>>

\* Variant: next_index is left alone.
NoneBack(next) == next
\* Variant: next_index may fall below 1.
OneBackUnchecked(next) == next - 1
OneBack(next) == IF next > 1 THEN next - 1 ELSE next

ReplicationRejected(i) ==
    /\ Got(i, "replicate", "AppendEntriesResponse")
    /\ ~call[i].reply.success
    /\ nextIndex' = [nextIndex EXCEPT ![i][Callee(i)] = OneBack(@)]
    /\ Proceed(i)
    /\ UNCHANGED <<electionVars, matchIndex, historyVars, store, backlog>>

ReplicationFailed(i) ==
    /\ Got(i, "replicate", "failed")
    /\ Proceed(i)
    /\ UNCHANGED <<electionVars, leaderVars, historyVars, store, backlog>>

\* Variant: majority is half, and the term is not looked at.
AcknowledgedByFewer(i) ==
    {n \in (store[i].commitIndex + 1) .. store[i].lastLogIndex :
        1 + Cardinality({p \in Server : matchIndex[i][p] >= n})
           >= (Len(Peers[i]) + 1) \div 2}

\* update_commit_index: the indices beyond the commit index that a majority
\* has acknowledged and that hold an entry of the current term.
Acknowledged(i) ==
    {n \in (store[i].commitIndex + 1) .. store[i].lastLogIndex :
        /\ 1 + Cardinality({p \in Server : matchIndex[i][p] >= n})
              >= (Len(Peers[i]) + 1) \div 2 + 1
        /\ n \in DOMAIN store[i].entries
        /\ store[i].entries[n].term = currentTerm[i]}

\* A node without peers commits its new entry at once.
Committable(i) ==
    IF Peers[i] = <<>> THEN {store[i].lastLogIndex} ELSE Acknowledged(i)

\* The rest of append_command; the client is told success in any case.
FinishAppend(i) ==
    /\ call[i].op = "replicate"
    /\ call[i].k = Len(Peers[i]) + 1
    /\ \/ Committable(i) = {} /\ UNCHANGED store
       \/ \E n \in Committable(i) :
             /\ \A m \in Committable(i) : m <= n
             /\ store' = [store EXCEPT ![i] = CommitUpTo(@, n)]
    /\ call' = [call EXCEPT ![i] = Idle]
    /\ UNCHANGED <<electionVars, leaderVars, historyVars, backlog>>

\* The process dies between two commits of update_commit_index, or between the
\* last one and the answer to the client.
CrashCommitting(i) ==
    /\ call[i].op = "replicate"
    /\ call[i].k = Len(Peers[i]) + 1
    /\ \E n \in Committable(i) : store' = [store EXCEPT ![i] = CommitUpTo(@, n)]
    /\ Dies(i)
    /\ UNCHANGED <<electionVars, leaderVars, historyVars>>

-----------------------------------------------------------------------------
Serve(i) == \/ HandleRequestVote(i)
            \/ RejectAppendEntries(i)
            \/ AcceptAppendEntries(i)
            \/ DropConnection(i)

Continue(i) == \/ Send(i)
               \/ WinElection(i)
               \/ CollectVote(i)
               \/ NoVote(i)
               \/ HeartbeatAnswered(i)
               \/ SkipPeer(i)
               \/ ReplicationSucceeded(i)
               \/ ReplicationRejected(i)
               \/ ReplicationFailed(i)
               \/ FinishAppend(i)

Crash(i) == CrashBetween(i) \/ CrashServing(i) \/ CrashCommitting(i)

\* What happens at a node without a client.
NodeStep(i) == \/ Launch(i)
               \/ Serve(i)
               \/ Continue(i)
               \/ StartElection(i)
               \/ StartHeartbeats(i)
               \/ Break(i)

Step(i) == NodeStep(i) \/ \E command \in Command : ClientAppend(i, command)

Next == \E i \in Server : Step(i)

\* Processes die and stay dead.
NextWithCrashes == \E i \in Server : Step(i) \/ Crash(i)

\* Processes die and are started again from their data directory.
NextWithRestarts == \E i \in Server : Step(i) \/ Crash(i) \/ Restart(i)

(* Fairness.  A handler that has been started is polled to its end, a node *)
(* that is up is polled, and select! chooses among its ready branches at   *)
(* random, so a branch that is ready again and again is taken: strong      *)
(* fairness for the connections and the heartbeat tick.  Nothing makes a   *)
(* client call, a connection break or a process die.                       *)
Fairness == \A i \in Server :
    /\ WF_vars(Launch(i))
    /\ WF_vars(Continue(i))
    /\ SF_vars(Serve(i))
    /\ SF_vars(StartHeartbeats(i))

\* The election timer of a node that stays a follower runs out.
TimerFairness == \A i \in Server : WF_vars(StartElection(i))

Spec          == Init /\ [][Next]_vars
CrashSpec     == Init /\ [][NextWithCrashes]_vars
RestartSpec   == Init /\ [][NextWithRestarts]_vars
FairSpec      == Spec /\ Fairness
FairCrashSpec == CrashSpec /\ Fairness
TimedSpec     == Spec /\ Fairness /\ TimerFairness
=============================================================================
