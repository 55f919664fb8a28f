----------------------- MODULE ReplicationProperties -----------------------
(***************************************************************************)
(* What the cluster of module Replication promises.                        *)
(***************************************************************************)
EXTENDS Replication

-----------------------------------------------------------------------------
(* Types *)

Terms   == 0 .. MaxTerm
Indices == 0 .. MaxLog

Entry == [term : Terms, command : Command, committed : BOOLEAN]

Log == UNION {[ids -> Entry] : ids \in SUBSET (1 .. MaxLog)}

Store == [entries : Log, disk : Log, currentTerm : Terms,
          lastLogIndex : Indices, commitIndex : Indices]

AppendEntriesRequest ==
    [type : {"AppendEntries"}, term : Terms, leaderId : Server,
     prevLogIndex : Indices, prevLogTerm : Terms, entries : Log,
     leaderCommit : Indices]

RequestVoteRequest ==
    [type : {"RequestVote"}, term : Terms, candidateId : Server,
     lastLogIndex : Indices, lastLogTerm : Terms]

Connection == [from : Server, live : BOOLEAN,
               request : AppendEntriesRequest \cup RequestVoteRequest]

Response ==
    {Unsent, Pending, Failed}
    \cup [type : {"AppendEntriesResponse"}, term : Terms,
          success : BOOLEAN, matchIndex : Indices]
    \cup [type : {"RequestVoteResponse"}, term : Terms, voteGranted : BOOLEAN]

Call == [op : {"off", "crashed", "idle"} \cup Rounds,
         k : Nat, reply : Response]

\* Every variable holds values of the fields it stands for, and a term, an
\* index or an entry beyond the bounds never appears anywhere: not in a log,
\* a message or a response.
TypeOK ==
    /\ state \in [Server -> {"Follower", "Candidate", "Leader"}]
    /\ currentTerm \in [Server -> Terms]
    /\ votedFor \in [Server -> Server \cup {None}]
    /\ leaderId \in [Server -> Server \cup {None}]
    /\ votesReceived \in [Server -> SUBSET Server]
    /\ nextIndex \in [Server -> [Server -> 1 .. MaxLog + 1]]
    /\ matchIndex \in [Server -> [Server -> Indices]]
    /\ store \in [Server -> Store]
    /\ call \in [Server -> Call]
    /\ backlog \in [Server -> Seq(Connection)]
    /\ ballots \subseteq Terms \X Server \X Server
    /\ leaders \subseteq Terms \X Server

-----------------------------------------------------------------------------
(* Elections *)

\* Two nodes are never leaders of the same term, however far apart in time:
\* "split-brain prevention through term-based leadership" (README).
ElectionSafety ==
    \A l1, l2 \in leaders : l1[1] = l2[1] => l1[2] = l2[2]

\* A node that answers a candidate has given its vote of that term to that
\* candidate alone, whatever it hears between two requests of the term.
OneVotePerTerm ==
    \A b1, b2 \in ballots :
        b1[1] = b2[1] /\ b1[2] = b2[2] => b1[3] = b2[3]

\* The term of a node never falls, across a crash and a restart included: the
\* new term is on disk before anything is answered or asked in it.
TermNeverFalls == [][\A i \in Server : currentTerm'[i] >= currentTerm[i]]_vars

\* Whom a node names to its clients as the leader (leader_id) did lead, in the
\* node's term or an earlier one; it is never a mere candidate, although the
\* name is taken from a request before the term of the request is compared.
LeaderHint ==
    \A i \in Server : IsUp(i) /\ leaderId[i] # None =>
        \E t \in 0 .. currentTerm[i] : <<t, leaderId[i]>> \in leaders

\* The promise of module Voting: terms grow, a server votes once in a term, and
\* only a majority of its term makes a leader.
Elections == INSTANCE Voting WITH term <- currentTerm, Term <- Terms

ImplementsVoting == Elections!Spec

-----------------------------------------------------------------------------
(* Logs *)

\* The log of a node has no holes and last_log_index is its end, through
\* appends of batches, truncations and restarts.
LogContiguous ==
    \A i \in Server :
        /\ DOMAIN store[i].entries = 1 .. store[i].lastLogIndex
        /\ DOMAIN store[i].disk = 1 .. store[i].lastLogIndex

SameEntry(e1, e2) == e1.term = e2.term /\ e1.command = e2.command

\* Two logs that hold an entry of the same index and the same term hold the
\* same command there: the term an entry carries identifies who created it.
EntryIdentity ==
    \A i, j \in Server :
        \A n \in DOMAIN store[i].entries \cap DOMAIN store[j].entries :
            store[i].entries[n].term = store[j].entries[n].term =>
                store[i].entries[n].command = store[j].entries[n].command

\* While a node leads a term it never drops or replaces an entry of its log.
LeaderAppendOnly ==
    [][\A i \in Server :
          (/\ state[i] = "Leader" /\ state'[i] = "Leader"
           /\ currentTerm'[i] = currentTerm[i])
          => \A n \in DOMAIN store[i].entries :
                /\ n \in DOMAIN store'[i].entries
                /\ SameEntry(store[i].entries[n], store'[i].entries[n])]_vars

\* As long as a node runs since its first start, no entry it holds is marked
\* committed beyond its commit index, whoever marked it: the marks come with the
\* entries of a batch, which are appended before the commit index moves.  (A kill
\* in between leaves such a mark for the restart: FlagIsCommitted.)
FlagWithinCommit ==
    \A i \in Server : IsUp(i) =>
        \A n \in DOMAIN store[i].entries :
            store[i].entries[n].committed => n <= store[i].commitIndex

\* The commit index of a node never falls, across restarts included.
CommitNeverFalls ==
    [][\A i \in Server : store'[i].commitIndex >= store[i].commitIndex]_vars

\* Any two nodes agree on the entries that both consider committed.
StateMachineSafety ==
    \A i, j \in Server :
        \A n \in 1 .. Min({store[i].commitIndex, store[j].commitIndex}) :
            /\ n \in DOMAIN store[i].entries
            /\ n \in DOMAIN store[j].entries
            /\ SameEntry(store[i].entries[n], store[j].entries[n])

Holds(j, n, entry) == /\ n \in DOMAIN store[j].disk
                      /\ SameEntry(store[j].disk[n], entry)

\* Every entry a node considers committed is in the log file of a majority.
CommittedOnMajority ==
    \A i \in Server :
        \A n \in 1 .. store[i].commitIndex :
            /\ n \in DOMAIN store[i].entries
            /\ 2 * Cardinality({j \in Server : Holds(j, n, store[i].entries[n])})
                 > Cardinality(Server)

\* An entry that is marked committed was committed: some node considers this
\* very entry committed and has it in its log file, although a kill between the
\* append of a marked entry and the commit leaves the mark at a node whose own
\* commit index does not reach it.
FlagIsCommitted ==
    \A i \in Server : \A n \in DOMAIN store[i].entries :
        store[i].entries[n].committed =>
            \E j \in Server : /\ n <= store[j].commitIndex
                              /\ Holds(j, n, store[i].entries[n])

\* When a leader moves its commit index, a majority has every entry it commits:
\* "only commits entries when majority of nodes acknowledge them" (README).
LeaderCommitsOnMajority ==
    [][\A i \in Server :
          \A n \in store[i].commitIndex + 1 .. store'[i].commitIndex :
             state[i] = "Leader" /\ state'[i] = "Leader" =>
                2 * Cardinality({j \in Server : Holds(j, n, store[i].entries[n])})
                  > Cardinality(Server)]_vars

\* What match_index says of a peer is so: the peer has all the entries of the
\* leader up to there.
MatchIndexTruthful ==
    \A i, p \in Server :
        IsUp(i) /\ state[i] = "Leader" =>
            \A n \in 1 .. matchIndex[i][p] :
                /\ n \in DOMAIN store[i].entries
                /\ Holds(p, n, store[i].entries[n])

\* A round of replication makes progress with every peer that answers: either
\* the peer has the whole log of the leader now, or the next attempt starts one
\* entry earlier.  (Attempts come with client commands only.)
ReplicateAnswered(i) ==
    /\ Got(i, "replicate", "AppendEntriesResponse")
    /\ IsUp(i)' /\ call'[i].k > call[i].k

HasLogOf(p, i) == \A n \in DOMAIN store[i].entries : Holds(p, n, store[i].entries[n])

CatchUpProgress ==
    [][\A i \in Server : ReplicateAnswered(i) =>
          LET p == Callee(i)
          IN  HasLogOf(p, i) \/ nextIndex'[i][p] < nextIndex[i][p]]_vars

\* The promise of module ReplicatedLog: one growing log of committed commands,
\* of which every node's committed entries on disk are a growing prefix.
CommittedCommands(i) ==
    [n \in 1 .. store[i].commitIndex |-> store[i].disk[n].command]

Furthest == CHOOSE i \in Server :
                \A j \in Server : store[j].commitIndex <= store[i].commitIndex

Committed == INSTANCE ReplicatedLog WITH
                 log   <- CommittedCommands(Furthest),
                 known <- [i \in Server |-> CommittedCommands(i)]

ImplementsReplicatedLog == Committed!Spec

-----------------------------------------------------------------------------
(* Progress *)

\* A node that begins a round of calls to its peers comes back to its select!
\* and can be talked to again: nothing it waits for waits for it.
InRound(i) == call[i].op \in Rounds

RoundsEnd == \A i \in Server : InRound(i) ~> ~InRound(i)

CommittedByLeader(n) ==
    \E l \in Server : IsUp(l) /\ state[l] = "Leader" /\ store[l].commitIndex >= n

\* A follower that has an entry the leader has committed learns so, if both
\* stay alive.
CommitReachesFollowers ==
    \A j \in Server : \A n \in 1 .. MaxLog :
        CommittedByLeader(n) /\ n \in DOMAIN store[j].entries
        ~> (store[j].commitIndex >= n \/ ~IsUp(j) \/ ~CommittedByLeader(n))

\* With every node started, nothing failing and nobody hanging in a call, the
\* nodes elect a leader or try again in ever higher terms (up to the bound):
\* "automatic leader election when nodes start or leaders fail" (README).
LeaderEmerges ==
    (\A i \in Server : []<>(call[i].op = "idle"))
    => <>(\E i \in Server : state[i] = "Leader" \/ currentTerm[i] = MaxTerm)

\* A leader that is up while a leader of a newer term is up too.
Outranked(i) ==
    /\ IsUp(i) /\ state[i] = "Leader"
    /\ \E j \in Server : /\ IsUp(j) /\ state[j] = "Leader"
                         /\ currentTerm[j] > currentTerm[i]

\* A leader that was deposed by an election leaves office (no answer tells it,
\* only a request of the newer term does), if no node hangs in a call for ever.
StaleLeaderStepsDown ==
    (\A i \in Server : []<>(call[i].op = "idle"))
    => \A i \in Server : Outranked(i) ~> ~Outranked(i)

-----------------------------------------------------------------------------
(* Two inductive invariants: CoreInv holds of every cluster, whatever       *)
(* crashes and comes back, and with it ElectionInv, the reason for          *)
(* ElectionSafety, as long as nobody that crashed is started again.         *)

\* A task that waits for a response, or has one, is at a peer of its loop.
CallAtPeer == \A i \in Server :
    call[i].reply # Unsent => InRound(i) /\ call[i].k \in 1 .. Len(Peers[i])

\* The caller of a connection to j is waiting for the answer of j, and the
\* vote it asks for is the one it is running for.
IsAwaited(c, j) ==
    /\ AwaitsReplyFrom(c.from, j)
    /\ c.request.type = "RequestVote" =>
          /\ call[c.from].op = "votes"
          /\ c.request.candidateId = c.from
          /\ c.request.term = currentTerm[c.from]

\* A live connection is the one its caller waits on, and there is only one.
LiveConnections ==
    \A j \in Server : \A n \in 1 .. Len(backlog[j]) :
        backlog[j][n].live =>
            /\ IsAwaited(backlog[j][n], j)
            /\ \A m \in 1 .. Len(backlog[j]) :
                  (backlog[j][m].live /\ backlog[j][m].from = backlog[j][n].from)
                  => m = n

\* The entries of a request are the ones that follow its previous index.
BatchesFit ==
    \A j \in Server : \A n \in 1 .. Len(backlog[j]) :
        LET m == backlog[j][n].request
        IN  m.type = "AppendEntries" =>
                \E last \in Indices : DOMAIN m.entries = m.prevLogIndex + 1 .. last

\* The term in the manager and the one in its Storage are the same, and a node
\* that was never started is in the initial term.
TermOnDisk == \A i \in Server :
    /\ store[i].currentTerm = currentTerm[i]
    /\ call[i].op = "off" => currentTerm[i] = 0

CoreInv == /\ TypeOK
           /\ CallAtPeer
           /\ LiveConnections
           /\ BatchesFit
           /\ LogContiguous
           /\ TermOnDisk

\* Votes are asked for and cast in elected terms, never in the initial one.
RequestsInElectedTerms ==
    \A j \in Server : \A n \in 1 .. Len(backlog[j]) :
        backlog[j][n].request.type = "RequestVote" =>
            backlog[j][n].request.term > 0

VotesInElectedTerms == \A b \in ballots : b[1] > 0

\* voted_for remembers the vote cast in the current term.
VoteRemembered == \A b \in ballots :
    /\ b[1] <= currentTerm[b[2]]
    /\ b[1] = currentTerm[b[2]] => votedFor[b[2]] = b[3]

\* Every vote a candidate has counted, or is about to count, was cast for it
\* in its term.
VotesBacked == \A i \in Server :
    /\ call[i].op = "votes" => state[i] = "Candidate"
    /\ state[i] = "Candidate" => i \in votesReceived[i]
    /\ state[i] = "Candidate" =>
          \A v \in votesReceived[i] : <<currentTerm[i], v, i>> \in ballots
    /\ Granted(i) => <<currentTerm[i], Callee(i), i>> \in ballots

\* A leader was started as one in the initial term, or a majority voted for it.
LeadersElected == \A l \in leaders :
    \/ l[1] = 0 /\ l[2] \in Flagged
    \/ /\ l[1] > 0
       /\ \E votes \in SUBSET Server :
             /\ 2 * Cardinality(votes) > Cardinality(Server)
             /\ \A v \in votes : <<l[1], v, l[2]>> \in ballots

ElectionInv == /\ RequestsInElectedTerms
               /\ VotesInElectedTerms
               /\ VoteRemembered
               /\ OneVotePerTerm
               /\ VotesBacked
               /\ LeadersElected
=============================================================================
