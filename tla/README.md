# Verification of log-replication-system

TLA+ models of the replicated log in `src/src/`, the TLC configurations that
check them, and proofs checked by TLAPS. The program is a Rust/tokio key-value
log in the style of Raft: a node started with `--leader`, or one that wins an
election, appends client commands to its log, copies them to the other nodes
and commits them when a majority has acknowledged them.

Paths such as `replication.rs:313` are under `src/src/`; `README.md:50` is the
repository's README.

## 1. The system

| Component | State | Operations | Talks to |
|---|---|---|---|
| **Log entries** (`log_entry.rs`) | id, term, timestamp, command, committed flag | `LogEntry::new` | stored by Storage, sent in AppendEntries |
| **Storage** (`storage.rs`) | `entries` (HashMap), `current_term`, `last_log_index`, `commit_index`; files `log.jsonl` and `metadata.json` | `new`/load, `append`, `get_entries_from`, `get_last_log_term`, `commit_up_to`, `set_current_term`, `truncate_from`, `save_metadata` | called by the ReplicationManager, under its mutex |
| **Elections** (`replication.rs`) | `state`, `current_term`, `voted_for`, `leader_id`, `votes_received`, `last_heartbeat` | `should_start_election`, `start_election`, `request_votes`, `handle_request_vote`, `is_log_up_to_date`, `become_leader` | peers through NetworkHandler; Storage |
| **Replication** (`replication.rs`) | `next_index`, `match_index` | `append_command`, `replicate_to_followers`, `update_commit_index`, `send_heartbeats`, `handle_append_entries` | peers; Storage |
| **Heartbeat message** (`replication.rs`) | none of its own | `handle_heartbeat` | nobody: no code sends `Message::Heartbeat` |
| **Node** (`node.rs`, `main.rs`) | the listener, two timers, the manager | start-up with or without `--leader`; `select!` over accept, heartbeat tick and election tick; `handle_connection` | everything above |
| **NetworkHandler** (`network.rs`) | none; TCP connections | `send_message`, `read_message`, `send_response` | one connection per message |
| **Client / CLI** (`network.rs`, `main.rs`) | none | `append`, `query`, `status` | a node |
| **Encoding** (`network.rs`) | none | bincode behind a length prefix | |
| **Tests, demo** (`src/tests/`, `src/demo.sh`) | | drive the program | |

### What each part must get right, and what makes it hard

* **Storage.** The log has no holes, `last_log_index` is its end, memory and
  file hold the same entries, what was acknowledged and the term that was told
  survive a kill. Hard because entries arrive in overlapping batches and are
  truncated, because memory changes before the files do, and because an
  operation is up to four file operations and a kill or an error may fall on
  any of them.
* **Elections.** One leader per term, one vote per node and term, terms that
  never fall, and some leader eventually. Hard because requests of several
  candidates interleave with the counting of votes, which goes on after each
  await; because `voted_for` is in memory only; and because a candidate has no
  way back but a newer term.
* **Replication.** Committed entries are on a majority and are the same
  everywhere; what the leader believes of a follower is so; a leader never
  rewrites its own log; a follower that refuses is brought up to date. Hard
  because only the first entry of a batch is compared, the follower answers
  with the end of its *whole* log, `next_index`/`match_index` outlive a term of
  office, and heartbeats move the commit index.
* **Node and network.** A call ends, a response goes to the call it belongs
  to, nobody waits for somebody who waits for him. Hard because every handler
  runs inside a branch of one `select!` and no call has a timeout.
* **Client.** What a success means. `append_command` reports it whatever became
  of the entry.

The list of hazards, each at its line and with the properties that would
notice it, is `hazards` in `PROJECT.json`.

## 2. Modules

      Voting    ReplicatedLog                       abstract specifications
         \         /
      (INSTANCE ... WITH)
           \     /
    LogStore <- Replication <- ReplicationProperties <- Clients      the cluster
        ^
        '----- StorageFiles                                 files of one node

(an arrow points to the module that is extended)

| Module | Contents |
|---|---|
| `LogStore` | the operations of `Storage` as operators on one record |
| `StorageFiles` | one node's `Storage` file operation by file operation, under the handlers that call it, with kills and errors at each of them |
| `Replication` | the cluster: one manager, store and task per node, the connections between them; `Init`, one action per handler or step, `Next` and its variants with crashes and restarts, fairness |
| `Clients` | the cluster composed with the processes of the `append` command |
| `Voting` | abstract: terms, votes and leaders, without messages, logs and crashes |
| `ReplicatedLog` | abstract: one growing log of committed commands, of which every node knows a growing prefix |
| `ReplicationProperties` | types, properties, refinement mappings, two of the inductive invariants |
| `MCCluster`, `MCReplication`, `MCClients` | clusters of two, three and four nodes with their `--peers` lists, for TLC |
| `StoreProofs` | lemmas: what the store operators keep of a log without holes |
| `CoreProofs` | the invariant `CoreInv` and what follows from it |
| `ElectionProofs` | the invariant `ElectionInv`, election safety, and that `Replication` implements `Voting` |
| `LogProofs` | under elections: who led whom, what is marked committed, where entries come from |
| `FixedLeaderProofs` | without elections: what is committed, what clients are told, and that `Replication` implements `ReplicatedLog` |
| `VotingProofs` | the promises of `Voting` |
| `ReplicatedLogProofs` | the promises of `ReplicatedLog` |
| `StorageFilesProofs` | operations are atomic, acknowledged entries and told terms survive, what a restart finds and what damages it |

The proof modules of the cluster extend one another: `StoreProofs`,
`CoreProofs`, `ElectionProofs`, `LogProofs`, `FixedLeaderProofs`.

### How the state corresponds to the code

In `Replication`:

* `state`, `currentTerm`, `votedFor`, `leaderId`, `nextIndex`, `matchIndex` and
  `votesReceived` are the fields of `ReplicationManager`. `next_index` is read
  with `unwrap_or(&1)` and a `match_index` that is missing counts for no
  index, so a missing key is 1 in one and 0 in the other. Vote ids such as
  `"peer_<addr>"` are the peer behind the address.
* `store[i]` is its `Storage`. `entries` is the map in memory and `disk` is
  what a replay of `log.jsonl` gives; each of the other three fields stands
  for the field and for its copy in `metadata.json`, since every operation
  that assigns one ends in `save_metadata`.
* `call[i]` is what the one task of a node is doing: not started, dead, at its
  `select!` (`idle`), or in one of the three loops over `self.peers` with the
  peer `k` of the loop and what became of `send_message` to it.
* `backlog[j]` are the connections to `j` that it has not accepted yet. A
  connection is `live` as long as its caller still waits on it.
* `ballots` and `leaders` are history: they record votes cast and terms of
  office and no action reads them.

In `StorageFiles`, `store` is the same record; `todo` are the operations the
running handler still asks for, `steps` the file operations left to the first of
them. `cut`, `broken` and `metadata` are the state of the two files beyond their
readable content: a last line without its newline, a line that does not parse, a
metadata file that is missing, torn or whole. `before`, `acked`, `announced`,
`mishaps` and `failed` are history.

In `Clients`, `client[command]` is how far the process of that command is, and
at which node.

### How actions correspond to the code

A node is **one** task: `Node::run` awaits its handlers inside the branches
of its `select!`, so while it is in a loop over its peers it accepts no
connection and looks at no timer. What runs between two awaits on the network
is one action, with all the calls it makes to `Storage`. A kill may end it
after any of these calls: the `Crash` actions below.

| Code | Actions |
|---|---|
| `main`, `Node::new`, `become_leader` | `Launch`, `Restart` (both `Boot`) |
| the process dies | `Crash`: at its `select!` or while it waits for a peer (`CrashBetween`), between the calls a request's handler makes to `Storage` or before its response (`CrashServing`), between two commits of `update_commit_index` (`CrashCommitting`) |
| `send_message` | `Send`; its errors are a refused connection (in `Send`), the death of the peer (`Crash`) and `Break` |
| `handle_connection`, `read_message` failing | `DropConnection` |
| `handle_request_vote` | `HandleRequestVote` |
| `handle_append_entries` | `RejectAppendEntries`, `AcceptAppendEntries` |
| `start_election`, `request_votes` | `StartElection`, then `WinElection`, `CollectVote` or `NoVote` per peer |
| `send_heartbeats` | `StartHeartbeats`, then `HeartbeatAnswered` per peer |
| `append_command`, `replicate_to_followers`, `update_commit_index` | `ClientAppend`, then `SkipPeer`, `ReplicationSucceeded`, `ReplicationRejected` or `ReplicationFailed` per peer, then `FinishAppend` |
| `Client::append_command` (`main.rs`) | `AcceptedByLeader`, `RefusedByFollower`, `Unreachable`; the answer and the end of the connection are noticed with the node's own step (`Notice`) |
| `write_entry_to_disk`, `rewrite_log_file`, `save_metadata` | `BeginOperation`, then `WriteLine`, `WriteNewline`, `RenameLog`, `EmptyMetadata`, `FillMetadata` |
| `?` on a file operation | `FileError` |
| `Storage::new`, `load` | `Start` |

A definition commented `Variant` is a faulty form of the one after it. No
action uses it; `PROJECT.json` (`mutants`) names the property that notices when
the definition is replaced by it.

### Abstractions

* **Time.** `last_heartbeat` and the durations are not state. The election
  timer of a follower may have run out whenever it is looked at and the
  heartbeat tick may come whenever a leader is at its `select!`: every timing
  is among the behaviours, and some that real clocks make unlikely.
* **Storage operations are single steps** in `Replication`: a kill falls between
  two of them and never inside one. `StorageFiles` takes them apart, and
  `OperationsAtomic`, which is proved, says what the single step stands for: an
  operation that returns Ok. What kills and errors inside an operation can do is
  said there (`RestartFinds`, `DamageHasCause`).
* **Roles are not in `StorageFiles`.** Newer terms and timeouts change a role
  between any two handlers, so any handler may run next.
* **Kills, not loss of power.** What the kernel has taken is not lost when the
  process dies, so flushes and syncs are no steps.
* **Messages.** A request is a record of its fields. A message that arrives in
  part is a broken connection.
* **Commands** are model values and timestamps are left out. `NoOp` and the
  system commands are created by no code.
* **Clients.** A client's connection and its acceptance are one step: until then
  nothing depends on it. In `Replication` alone, an append at a node that is
  not the leader changes nothing and is not an action. Reads change nothing.

## 3. Runs

| Run | Instance | Shows |
|---|---|---|
| `elections` | 3 nodes, one `--leader`, terms to 2, 1 entry, 2 commands, crashes for good | `TypeOK`, `ElectionSafety`, `ElectionInv`, `EntryIdentity`, `LeaderHint`, and that the cluster implements `Voting` (`ImplementsVoting`) |
| `even_cluster` | 4 nodes, terms to 1, crashes for good | `ElectionSafety` when half of the nodes is no majority |
| `logs` | 3 nodes, one `--leader`, terms to 2, 3 entries, no crash | `LogContiguous`, `FlagWithinCommit`, `LeaderAppendOnly` through truncations, overlapping batches and late heartbeats |
| `fixed_leader` | 3 nodes, one `--leader`, no election, 2 entries, 2 clients, crashes and restarts of any node | that cluster and clients implement `ReplicatedLog` (`ImplementsReplicatedLog`); `AnswersTruthful`, `CatchUpProgress`, `LogContiguous`, `StateMachineSafety`, `CommittedOnMajority`, `FlagIsCommitted`, `MatchIndexTruthful`, `LeaderCommitsOnMajority`, `CommitNeverFalls` |
| `restarts` | 2 nodes, terms to 2, 1 entry, crashes, restarts and broken connections | `CoreInv` (among it: at most one live connection per call, towards the peer that is waited for), `TermNeverFalls` |
| `live_leader` | 3 nodes, one `--leader`, no election, 3 entries, crashes for good | `RoundsEnd`, `CommitReachesFollowers` |
| `deposed` | 3 nodes, one `--leader`, one election, 2 entries, no failure | `StaleLeaderStepsDown`: no reply deposes a leader, but a later request does, unless nodes hang in calls |
| `storage_files` | one node, terms to 1, 2 entries, of which a batch may mark the first as committed, one kind of mishap, any number of times | `AckedSurvive`, `TermSurvives`, `RestartFinds`, `DamageHasCause`, `OperationsAtomic`, `FilesTypeOK` |
| `restart_split_brain` | 3 followers, term 1, restarts | `ElectionSafety` is **violated** |
| `divergence` | 3 nodes, terms to 1, 2 entries, no failure | `StateMachineSafety` is **violated** |
| `blocked_calls` | 3 nodes, terms to 1, no failure | `RoundsEnd` is **violated** |
| `no_leader` | 3 followers, terms to 2, no failure | `LeaderEmerges` is **violated** |

Deadlock is not checked: nodes die for good, wait for each other
(`blocked_calls`), cannot start on a damaged file (`storage_files`) or reach a
bound, and all of these stop the system.

### Refinement mappings

* `Elections` takes `Voting`'s terms to `currentTerm`; `ballots` and `leaders`
  are the history of the same names. Adopting a term from any request is
  `Advance`, a granted vote and the vote for oneself are `Cast`, `WinElection` is
  `Win`, a start with `--leader` is `Found`; all other steps stutter.
* `Committed` takes `known[i]` to the commands of node `i` up to its commit index,
  read from its log **file**, and `log` to that of the node that is furthest. A
  leader's `FinishAppend` is `Agree`, a follower's `AcceptAppendEntries` may be
  `Learn`, and a kill in one of these handlers is the step of it if it comes
  after the commit. All other crashes, and all restarts, stutter, which says that
  a restart loses nothing that is committed. It holds under one lasting leader
  only (`divergence`).

### Bounds, and why they are enough

Every bound is a constant of `Replication` or `StorageFiles`: `MaxTerm` (no
election is started in it or later), `MaxLog` (no entry is appended beyond it),
`MaxBacklog`, `MaxMishaps`, `MaxMarked` (a batch marks no entry beyond it). A node
has at most one live connection, so three places in a backlog hold one of each
other node and one left behind. Two are enough in `restarts`, with two nodes, and
in `fixed_leader`, where only the one leader sends: its live request and one left
behind.

* Three nodes are the least where a majority is not everybody, and where two
  majorities meet in one node, which may be the one that fails. Four are the
  least where half is no majority and where a candidate counts a vote that
  does not decide.
* Terms 0, 1 and 2 give the leader of the initial term, an elected one, and
  one elected while both are about: a stale leader, a stale candidate, and a
  leader that comes back to office with the `match_index` of its first time.
* Two entries give a truncation that leaves something, a batch that overlaps
  what is there, and a tail behind a conflict. With three, as in `logs`, a
  leader may believe a follower's log to be longer than its own and have
  nothing to send to it. Two commands let two entries of one index and term
  differ; where terms tell entries apart one is enough.
* Restarts are cheap where the state is small: `fixed_leader` has them with
  three nodes and no elections, `restarts` has them with elections and two
  nodes, where the voter and the candidate are all there is.
* `MaxMishaps = 1` in `storage_files`: one kind of kill or error per behaviour,
  repeated at will, shows which kind alone does which damage. What must hold
  under every mixture is proved (section 5).

* `MaxMarked = 1` there lets a marked entry be appended and be replaced, lie
  before or behind an entry that is not marked, and be left by a kill.

Nodes are never symmetric: the order of a `--peers` list and the `--leader` flag
tell them apart. In `fixed_leader`, where no liveness is checked, the commands
and with them the clients are (`MCCommands`).

### Fairness

`Fairness` says that a node that was started by `main` gets there (`Launch`),
that a handler that has begun is polled to its end (`Continue`, weak), and that
`select!`, which chooses among ready branches at random, does not forever pass
over a connection or a heartbeat tick that is ready again and again (`Serve`
and `StartHeartbeats`, strong). `TimerFairness`, which only `no_leader`
assumes, adds that the election timer of a node that stays a follower runs out.
Nothing makes a client append, a connection break, a process die or a dead
process come back. `LeaderEmerges` and `StaleLeaderStepsDown` assume besides that
every node is at its `select!` again and again, so that they say something
that `blocked_calls` does not.

## 4. What the runs found

Each of these is a disagreement between the code and what the repository says
of it, with the run that shows it:

* **Split brain after a restart** (`restart_split_brain`). `README.md:169`
  promises "Split-brain prevention through term-based leadership".
  `voted_for` is not saved: a node that granted its vote, died and came back
  grants it again in the same term, and the term has two leaders.
* **Committed entries differ** (`divergence`). `README.md:164` promises that all
  nodes apply committed entries in the same order. A heartbeat commits up to
  `min(leader_commit, own last index)` although only the entry at
  `prev_log_index` was compared: what follows may be another leader's tail.
* **Calls that wait for each other** (`blocked_calls`). `README.md:167`: "System
  continues operating with majority of nodes available". A leader that sends
  heartbeats and a candidate that asks for votes may call each other; neither
  answers while it waits and neither has a timeout.
* **No second try** (`no_leader`). `README.md:48`: "Automatic leader election when
  nodes start or leaders fail". After a split vote all nodes stay candidates;
  only a follower starts an election.

Other behaviour a reader of the code should know, which the properties are
stated around:

* A follower answers with the end of its whole log, which the leader takes for
  an acknowledgement of its own entries. With two elected terms and three
  entries `LeaderCommitsOnMajority` fails; it is checked under one leader.
* `commit_up_to` changes flags in memory only: a restarted node shows
  committed entries as uncommitted. The other direction is subtler. The leader's
  marks come with the entries of a batch and reach the file when these are
  appended (`replication.rs:323`), the commit index moves after the last of them
  (`:330`). So `FlagWithinCommit`, that no mark lies beyond the commit index, holds
  of a node that runs since its first start, and is checked and proved where
  nodes die for good. After a kill between the two lines a restarted node has a
  mark beyond its commit index, which `fixed_leader` reaches. What is true there
  is `FlagIsCommitted`: under one leader a marked entry is one that was committed,
  by some node that has it on disk.
* A node restarted with `--leader` leads the term on its disk without an
  election (`Boot`). In an elected term it shares that term with the elected
  leader, a second way to two leaders besides the one `restart_split_brain`
  finds. `ElectionSafety` is not checked where this could happen.
* Some doubtful lines do no harm under one leader, because no two logs conflict
  there: `match_index` kept from an earlier time in office
  (`replication.rs:418`), an answer that names the end of the whole log (`:336`), a
  commit index that `truncate_from` leaves alone (`storage.rs:165`) and that the
  cut at `:329` may then let fall. The properties that hold in `fixed_leader` say
  nothing about them; the hazards say which have no property.
* `leader_id` is overwritten before the term of a request is compared, so a
  late request of a deposed leader changes whom a node names to its clients, the
  new leader included. `LeaderHint` says that it never names one that never led.
* A refused follower is retried when the next command arrives and one index
  earlier per command (`CatchUpProgress`): without commands it never catches
  up.
* A success tells a client that the node that answered has the entry in its
  log file (`AnswersTruthful`), and nothing more.
* `DamageHasCause` names the mishaps that leave more than a restart repairs. A
  kill between emptying and filling `metadata.json` leaves a node that does not
  start; a kill between a line and its newline, followed by an append, leaves
  a log that does not parse; a kill between the log file and the metadata leaves
  `last_log_index` beside the end of the log.
* After a save that failed the manager keeps the new term and answers in it, and
  a restart takes it back (the exception in `TermSurvives`).

## 5. What is proved

### The cluster

Each theorem holds for every set of nodes, every order of the `--peers` lists,
every set of commands and all bounds. The assumptions are those of
`Replication`: the nodes are a finite set (`ServerAssumption`), each is given
every other one once (`PeersAssumption`), at most one is started with `--leader`
(`FlaggedAssumption`), and the bounds are natural numbers (`BoundsAssumption`). TLC
evaluates them in every run.

| Theorem | States |
|---|---|
| `CoreInvariant` | `RestartSpec => []CoreInv` |
| `TypeCorrect` | `RestartSpec => []TypeOK` |
| `LogsContiguous` | `RestartSpec => []LogContiguous` |
| `TermsNeverFall` | `RestartSpec => TermNeverFalls` |
| `ElectionInvariant` | `CrashSpec => []ElectionInv` |
| `ElectionsAreSafe` | `CrashSpec => []ElectionSafety` |
| `VotingImplemented` | `CrashSpec => ImplementsVoting` |
| `HintsAreTrue` | `RestartSpec => []LeaderHint` |
| `FlagsWithinCommit` | `CrashSpec => []FlagWithinCommit` |
| `OriginInvariant` | `CrashSpec => []OriginInv` |
| `EntriesIdentified` | `CrashSpec => []EntryIdentity` |
| `LeadersOnlyAppend` | `CrashSpec => LeaderAppendOnly` |
| `FixedInvariant` | `RestartSpec /\ NoElection => []FixedInv` |
| `CommittedLogsAgree` | `RestartSpec /\ NoElection => []StateMachineSafety` |
| `CommitsOnMajority` | `RestartSpec /\ NoElection => []CommittedOnMajority` |
| `FlagsAreCommitted` | `RestartSpec /\ NoElection => []FlagIsCommitted` |
| `MatchIndicesTruthful` | `RestartSpec /\ NoElection => []MatchIndexTruthful` |
| `LeadersCommitOnMajority` | `RestartSpec /\ NoElection => LeaderCommitsOnMajority` |
| `CommitsNeverFall` | `RestartSpec /\ NoElection => CommitNeverFalls` |
| `CatchUpProgresses` | `RestartSpec /\ NoElection => CatchUpProgress` |
| `ReplicatedLogImplemented` | `RestartSpec /\ NoElection => ImplementsReplicatedLog` |
| `AnswersAreTruthful` | `ClientSpec /\ NoElection => []AnswersTruthful` |

`NoElection` says that no step of the behaviour starts an election: every node
may die, come back and lose connections, but no election timer runs out. It is
how the run `fixed_leader` is set up, whose bound on the terms is 0
(`NoTermNoElection`), without tying the theorems to that bound.
`ReplicatedLogImplemented` needs a node to begin with (`Server # {}`), since the
log of no node is not a log. Each inductive invariant below was first an
invariant of TLC's runs at the bounds of `fixed_leader`, `elections`, `logs`,
`restarts` or `storage_files`.

**Core invariant.** `TypeOK` is not inductive by itself: that an index stays
within `MaxLog` when a batch is appended needs the batch to fit the log
(`BatchesFit`: its ids follow its `prev_log_index`) and the log to have no holes
(`LogContiguous`); that `Callee(i)` is a node needs `CallAtPeer`; and that an
answer reaches a task that is still at that peer, asking that question, needs
`LiveConnections`. `TermOnDisk` is what makes terms survive a restart. Their
conjunction `CoreInv` is inductive for `RestartSpec`: crashes, restarts, broken
connections and orphaned requests are all in it. The specifications without
restarts or crashes allow fewer steps, so it holds of them too
(`CrashCoreInvariant` carries it over to `CrashSpec`).

**Election safety.** With `CoreInv`, `ElectionInv` is inductive for `CrashSpec`.
A granted vote is in `ballots` from the moment the voter answers; a vote that a
candidate has counted, or is about to count, was cast for it in the term it
still runs for (`VotesBacked`), for while it waits it serves nobody and its term
cannot move; `VoteRemembered` makes each node vote once per term
(`OneVotePerTerm`). So a leader of an elected term has a majority of the ballots
of its term behind it (`LeadersElected`), two majorities have a node in common,
and that node voted once. In the initial term only the `--leader` node leads.

`CrashSpec` rather than `RestartSpec`: with restarts the statement is false
(`restart_split_brain`), since `VoteRemembered` is lost with the process.

**Implementing `Voting`.** Action by action: a handler that adopts a term and
answers no is `Advance` or a stutter; a vote that is granted is `Cast`, whose
guard, that no other ballot of the term and voter exists, is `VoteRemembered`
seen from the voter; a candidate that wins has, by `VotesBacked`, a majority of
ballots of its term. `VotingProofs` proves the promises of the abstract module
for themselves (`VotesOnce`, `LeadsAlone`).

**Who leads, and whose entries these are.** `LeadershipInv` says that who is in
office, or sends an AppendEntries, or is named as the leader, did come to office
in that term; requests are in it because `leader_id` is taken from them. It is
inductive for `RestartSpec`. `FlagInv` is so for `CrashSpec`: a leader's marks
travel in a request next to a commit index that covers them, and a handler that
is not killed appends the one and moves to the other. Where terms tell leaders
apart, that is with election safety and so for `CrashSpec`, `OriginInv` follows: every copy of an
entry, in memory, on disk or in a request that may never be served, was created
by the one leader of its term, and that leader has it as long as it is in office
(a leader that comes back to office does so in a later term). So no two copies
differ in the command (`EntryIdentity`), and a leader, who would have to be sent
an entry of its own term by somebody else, rewrites nothing (`LeaderAppendOnly`).

**One leader.** Without elections at most the `--leader` node leads, in the
initial term. The heart of `FixedInv` is `OneLog`: every copy of an entry
anywhere is also on that node's disk, at its index. Memory is not enough,
because the leader may die and be started again. Then no request conflicts with
the log it meets, nothing is truncated, logs and commit indices only grow, and
two logs agree as far as both reach; the rest of `FixedInv` is about how far that
is. `CommitOfLeader` and `CommitsSent` keep every commit index, and each that is
still in a message, within the leader's; `CommitReached` puts a majority at the
leader's. `Matches`, `RoundRequests` and `RoundAnswers` follow one round of
replication: the request it waits for ends in the last entry of the leader, who
appends nothing meanwhile, so the answer, which names the end of the follower's
*whole* log, is the truth about it. Under elections this is the step that fails
(section 4).

`FlagsAreCommitted` adds to `FixedInv` that no mark, in a store, in a log file or
in a request, lies beyond the commit index of the one node that may lead. That
index never falls, so this survives the kill that `FlagInv` does not, and by
`OneLog` the entry the leader has there is the marked one.

**Implementing `ReplicatedLog`.** `FinishAppend` of the leader is `Agree`, an
`AcceptAppendEntries` that moves a commit index is `Learn`, so are these handlers
when a kill ends them after the commit, and every other step leaves the
committed prefixes as they are; that one of them, `Furthest`, is as
long as the longest and that they are prefixes of each other is
`CommittedLogsAgree`. The theorems `OneLog` and `KnowledgeGrows` of
`ReplicatedLogProofs` say what the implementation of that module is worth:
everybody knows a prefix of one log, and what a server knows only grows.

**Clients.** `AnswersInv` adds to `FixedInv` that a command that was taken is on
the leader's disk and that one that was not is nowhere, in no request either.

The lemmas of `StoreProofs` say that appending a batch that fits, truncating at
an index within the log, committing and loading leave a log without holes,
within its bounds, and the term alone.

### The files of a node

The theorems of `StorageFilesProofs` hold for all bounds on terms and indices and
for any number and mixture of kills and errors (`FilesBounds` says only that the
bounds are natural numbers).

| Theorem | States |
|---|---|
| `FilesTypeCorrect` | `Spec => []FilesTypeOK` |
| `OperationsAreAtomic` | `Spec => OperationsAtomic` |
| `TermsSurvive` | `Spec => []TermSurvives` |
| `AcknowledgedSurvives` | `Spec => []AckedSurvive` |
| `RestartsFind` | `Spec => []RestartFinds` |
| `DamagesHaveCauses` | `Spec => []DamageHasCause` |

`FilesInv` says how far the operation in progress has come: memory is what the
operation makes of `before`, and the log file is either untouched or, once its
own steps are done and unless a line ran into another one, as the operation asks.
When the metadata is filled as the last step the two meet, which is
`OperationsAtomic`: whatever was killed or failed before, an operation that does
not itself end in an error, on a log file without a line of two objects, does
what it does in `LogStore`. For terms, `TermInv` tells two situations apart: the manager
has a term the Storage is still to be told, which is then the first thing to do
and nobody has been told (`TermPending`), or manager, Storage and a whole
metadata file agree (`TermKept`). For entries, `AckInv` keeps an acknowledged
entry in memory, in a readable log and below both ends of it; memory is needed
because `truncate_from` rewrites the file from it, and that the id being appended
is none of the acknowledged ones because the line is written over it.

For a restart, `MatchInv` follows file and memory through an operation: the log
file has the entries of `before`, but for marks set in memory only, until its own
step replaces a line, and those of `store` from then on, and the metadata is that
of `before` until it is emptied.
For the damage, `CauseInv` remembers which mishap is behind an unfinished line, a
line of two objects and an empty metadata file. `GapInv` is about what nobody
checks when an entry is appended: as long as nothing failed and no kill came
between log file and metadata, the log has no gap before an operation of a
handler, the operations still to do make none, and what a restart would read has
none. For that the plan of a handler is described whole (`PlanFits`): a
truncation lies within the log, the first entry after it has its index, and each
entry follows the one before. `MaxMishaps` is any number, so the mixtures of
kills and errors that the run leaves out are covered here.

## 6. What is only model-checked

* Liveness (`RoundsEnd`, `CommitReachesFollowers`, `StaleLeaderStepsDown`) and
  anything with `ENABLED` is beyond TLAPS. So are induction over data, whose
  library theorems take an operator as a parameter, and recursive operators; the
  modules use none.
* All other properties of the passing runs are proved. What is proved under one
  leader is not claimed under elections: `StateMachineSafety`, and with it
  `CommittedOnMajority`, fails at the bounds of `divergence`, and
  `LeaderCommitsOnMajority`, and with it `MatchIndexTruthful`, with two elected
  terms and three entries (section 4). `CommitNeverFalls` has no
  counterexample at small bounds, but the code does not rule one out:
  `handle_append_entries` assigns `min(leader_commit, last index)`, and after a
  truncation below the commit index the last index may be the smaller.
  `EntryIdentity` and `LeaderAppendOnly` rest on election safety and are proved
  where it is, without restarts.

## 7. What is not modelled

* Time: `last_heartbeat` and the timeouts as state. A follower may start an election
  at any moment, so that a deposed leader's late requests reset election timers
  is not seen.
* Loss of power: what the kernel has not written is kept.
* A client that is killed while it waits, and `query` and `status`, which only read.
* A peer that stops for good in the middle of a message: to the model a peer is
  dead, gone from the connection, or will answer when it gets to it.
* `handle_heartbeat`: nothing sends that message.
* Encoding and logging: conversions of trusted libraries and output.
* Timestamps and the commands no code creates.

## 8. Plan

1. **Files under the cluster** – that `LogStore`, of which `OperationsAtomic` makes
   each operation one step, with `AckedSurvive` and `RestartFinds` is all that
   `Restart` of `Replication` needs: a refinement of one node's part.
2. **Elections without restarts** – what of the commit properties holds as long as
   no leader of a later term overwrites anything: one term of office at a time.
3. **Timers** – `last_heartbeat` and the election timeout as state: who may start an
   election when, and how long a stale leader keeps others from it.

## 9. Running it

    tlc -config elections.cfg MCReplication.tla
    tlc -config fixed_leader.cfg MCClients.tla
    tlc -config storage_files.cfg StorageFiles.tla
    tlapm CoreProofs.tla

`storage_files` has 2.3 million distinct states, `elections` 0.9 million,
`restarts` 0.6 million, `logs` 0.5 million, `fixed_leader` 0.4 million,
`even_cluster` 0.1 million, `deposed` 22 thousand and `live_leader` 18 thousand. The proof modules
take between some seconds and a few minutes each.
