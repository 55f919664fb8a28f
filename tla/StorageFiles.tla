---------------------------- MODULE StorageFiles ----------------------------
(***************************************************************************)
(* The Storage of one node (src/src/storage.rs) at the granularity of its  *)
(* file operations, under the handlers of the ReplicationManager that call *)
(* it (src/src/replication.rs).  The process may be killed between any two *)
(* file operations and is started again from the files it left; each file  *)
(* operation may also fail, which ends the handler with the error but not  *)
(* the process.                                                            *)
(*                                                                         *)
(* store is the record of module LogStore: in memory all of it but disk,   *)
(* which is what the readable lines of log.jsonl yield.  Replication takes *)
(* each operation of LogStore as one step; here that is a property         *)
(* (OperationsAtomic), and so is what remains when it is not one step.     *)
(*                                                                         *)
(* A role is not modelled: requests of newer terms and election timeouts   *)
(* change it between any two handlers, so every handler may run next.      *)
(* Data the kernel has taken and not yet written is not lost when a        *)
(* process dies; the loss of power is not modelled.                        *)
(***************************************************************************)
EXTENDS LogStore, FiniteSets, Sequences

CONSTANTS
    MaxTerm,      \* bound: no term beyond this one is heard of or started
    MaxLog,       \* bound: no entry is appended beyond this index
    MaxMarked,    \* bound: no entry of a batch beyond this index is marked committed
    MaxMishaps    \* bound: distinct kinds of kills and errors in one behaviour

ASSUME FilesBounds == MaxTerm \in Nat /\ MaxLog \in Nat /\ MaxMarked \in Nat
                      /\ MaxMishaps \in Nat

VARIABLES
    up,           \* the process runs
    term,         \* ReplicationManager::current_term
    store,        \* its Storage
    todo,         \* operations left to the running handler, Head in progress
    steps,        \* file operations left to the one in progress
    cut,          \* log.jsonl ends in a line without its newline
    broken,       \* log.jsonl has a line that does not parse
    metadata,     \* metadata.json: Missing, Torn or what it holds
    \* history: store when the operation in progress began, the entries whose
    \* append returned Ok and that were not truncated or replaced since, the
    \* highest term the node told anybody, the file operations at which the
    \* process was killed or got an error, and whether this process got one
    before, acked, announced, mishaps, failed

memoryVars  == <<up, term, todo, steps>>
fileVars    == <<cut, broken, metadata>>
historyVars == <<acked, announced, mishaps, failed>>
vars == <<memoryVars, store, fileVars, before, historyVars>>

-----------------------------------------------------------------------------
(* Operations of Storage and their file operations *)

Append1(id, entry) == [op |-> "append", id |-> id, entry |-> entry]
Commit(index)      == [op |-> "commit", id |-> index]
Truncate(index)    == [op |-> "truncate", id |-> index]
SetTerm(t)         == [op |-> "setTerm", id |-> t]

\* What the operation does to Storage and log as a whole.
Effect(s, o) ==
    CASE o.op = "append"   -> AppendBatch(s, [n \in {o.id} |-> o.entry])
      [] o.op = "commit"   -> CommitUpTo(s, o.id)
      [] o.op = "truncate" -> TruncateFrom(s, o.id)
      [] o.op = "setTerm"  -> SetCurrentTerm(s, o.id)

\* save_metadata: fs::write empties the file and then writes it.
SaveMetadata == <<"empty", "fill">>

\* Variant: truncate_from does not rewrite the log file.
StepsWithoutRewrite(o) ==
    IF o.op = "append" THEN <<"line", "newline">> \o SaveMetadata ELSE SaveMetadata

\* Variant: append saves the metadata first.
StepsMetadataFirst(o) ==
    CASE o.op = "append"   -> SaveMetadata \o <<"line", "newline">>
      [] o.op = "truncate" -> <<"rename">> \o SaveMetadata
      [] o.op \in {"commit", "setTerm"} -> SaveMetadata

\* writeln! writes the JSON and the newline one after the other; a rewritten
\* log takes effect with the rename of the temporary file.
FileSteps(o) ==
    CASE o.op = "append"   -> <<"line", "newline">> \o SaveMetadata
      [] o.op = "truncate" -> <<"rename">> \o SaveMetadata
      [] o.op \in {"commit", "setTerm"} -> SaveMetadata

Missing == [state |-> "missing"]
Torn    == [state |-> "torn"]

\* Variant: the index of the next entry is saved.
MetadataWithNext(s) == [state        |-> "whole",
                        currentTerm  |-> s.currentTerm,
                        lastLogIndex |-> s.lastLogIndex + 1,
                        commitIndex  |-> s.commitIndex]

Metadata(s) == [state        |-> "whole",
                currentTerm  |-> s.currentTerm,
                lastLogIndex |-> s.lastLogIndex,
                commitIndex  |-> s.commitIndex]

\* Storage::load on the two files; a file that does not parse ends Node::new.
Loadable == ~broken /\ metadata # Torn

Recovered ==
    [entries      |-> store.disk,
     disk         |-> store.disk,
     currentTerm  |-> IF metadata = Missing THEN 0 ELSE metadata.currentTerm,
     lastLogIndex |-> IF metadata = Missing THEN 0 ELSE metadata.lastLogIndex,
     commitIndex  |-> IF metadata = Missing THEN 0 ELSE metadata.commitIndex]

-----------------------------------------------------------------------------
\* A first start, on a data directory that is not there yet.
Init ==
    /\ up = TRUE
    /\ term = 0
    /\ store = EmptyStore
    /\ todo = <<>>
    /\ steps = <<>>
    /\ cut = FALSE
    /\ broken = FALSE
    /\ metadata = Missing
    /\ before = EmptyStore
    /\ acked = EmptyLog
    /\ announced = 0
    /\ mishaps = {}
    /\ failed = FALSE

(* Handlers of the ReplicationManager: what each asks of its Storage.      *)

IdleNode == up /\ todo = <<>>

Handle(newTerm, operations) ==
    /\ term' = newTerm
    /\ todo' = operations
    /\ UNCHANGED <<up, steps, store, fileVars, before, historyVars>>

AdoptTerm(t) == IF t > term THEN <<SetTerm(t)>> ELSE <<>>

\* start_election.
StartElection ==
    /\ IdleNode
    /\ term < MaxTerm
    /\ Handle(term + 1, <<SetTerm(term + 1)>>)

\* A vote request, or an AppendEntries that is refused: of these the Storage
\* sees a newer term at most.
HearOfTerm(t) ==
    /\ IdleNode
    /\ t > term
    /\ Handle(t, AdoptTerm(t))

Appends(batch) ==
    [k \in 1 .. Cardinality(DOMAIN batch) |->
        LET n == Min(DOMAIN batch) + k - 1 IN Append1(n, batch[n])]

ConflictAt(batch) ==
    LET first == Min(DOMAIN batch)
    IN  IF /\ DOMAIN batch # {}
           /\ first \in DOMAIN store.entries
           /\ store.entries[first].term # batch[first].term
        THEN <<Truncate(first)>>
        ELSE <<>>

\* get_last_log_index once the batch is in.
LastAfter(batch) ==
    LET top == Highest(DOMAIN batch)
    IN  IF ConflictAt(batch) # <<>> THEN top ELSE Max({store.lastLogIndex, top})

CommitTo(batch, leaderCommit) ==
    IF leaderCommit > store.commitIndex
    THEN <<Commit(Min({leaderCommit, LastAfter(batch)}))>>
    ELSE <<>>

\* handle_append_entries of a request that passes the term and log checks.
AppendEntries(t, batch, leaderCommit) ==
    /\ IdleNode
    /\ t >= term
    /\ DOMAIN batch # {} =>
          \/ Min(DOMAIN batch) = 1
          \/ Min(DOMAIN batch) - 1 \in DOMAIN store.entries
    /\ Handle(t, AdoptTerm(t) \o ConflictAt(batch) \o Appends(batch)
                 \o CommitTo(batch, leaderCommit))

\* append_command of a leader whose peers have acknowledged the log up to
\* match: update_commit_index commits one index after the other.
ClientAppend(match) ==
    LET id      == store.lastLogIndex + 1
        entry   == [term |-> term, committed |-> FALSE]
        ownTerm == {n \in store.commitIndex + 1 .. match :
                       n = id \/ (n \in DOMAIN store.entries
                                  /\ store.entries[n].term = term)}
    IN  /\ IdleNode
        /\ id <= MaxLog
        /\ match <= id
        /\ \E order \in [1 .. Cardinality(ownTerm) -> ownTerm] :
              /\ \A k, l \in DOMAIN order : k < l => order[k] < order[l]
              /\ Handle(term, <<Append1(id, entry)>>
                                \o [k \in DOMAIN order |-> Commit(order[k])])

\* The node tells its term, in a response or in a request of its own.
Announce ==
    /\ IdleNode
    /\ term > announced
    /\ announced' = term
    /\ UNCHANGED <<memoryVars, store, fileVars, before, acked, mishaps, failed>>

-----------------------------------------------------------------------------
(* The operation in progress *)

\* The fields change in memory before anything is written.
BeginOperation ==
    LET o == Head(todo)
    IN  /\ up /\ todo # <<>> /\ steps = <<>>
        /\ before' = store
        /\ store' = [Effect(store, o) EXCEPT !.disk = store.disk]
        /\ steps' = FileSteps(o)
        /\ acked' = [n \in {m \in DOMAIN acked :
                              CASE o.op = "append"   -> m # o.id
                                [] o.op = "truncate" -> m < o.id
                                [] OTHER             -> TRUE} |-> acked[n]]
        /\ UNCHANGED <<up, term, todo, fileVars, announced, mishaps, failed>>

At(step) == up /\ steps # <<>> /\ Head(steps) = step

\* The file operation returned Ok; after the last one the operation does.
Advance ==
    /\ steps' = Tail(steps)
    /\ IF Tail(steps) = <<>>
       THEN /\ todo' = Tail(todo)
            /\ before' = store'
            /\ acked' = IF Head(todo).op = "append"
                        THEN Overlay(acked, [n \in {Head(todo).id} |-> Head(todo).entry])
                        ELSE acked
       ELSE UNCHANGED <<todo, before, acked>>
    /\ UNCHANGED <<up, term, announced, mishaps, failed>>

\* Variant: the log file is opened without append, which empties it.
WrittenLineAlone(s, o) == [s EXCEPT !.disk = [n \in {o.id} |-> o.entry]]
WrittenLine(s, o) == [s EXCEPT !.disk = Overlay(@, [n \in {o.id} |-> o.entry])]

\* write_entry_to_disk, its first write.  After a line without a newline it
\* makes one line of two objects.
WriteLine ==
    /\ At("line")
    /\ store' = IF cut THEN store ELSE WrittenLine(store, Head(todo))
    /\ broken' = (broken \/ cut)
    /\ cut' = TRUE
    /\ UNCHANGED metadata
    /\ Advance

WriteNewline ==
    /\ At("newline")
    /\ cut' = FALSE
    /\ UNCHANGED <<store, broken, metadata>>
    /\ Advance

\* rewrite_log_file: the temporary file takes the place of the log.
RenameLog ==
    /\ At("rename")
    /\ store' = [store EXCEPT !.disk = store.entries]
    /\ cut' = FALSE
    /\ broken' = FALSE
    /\ UNCHANGED metadata
    /\ Advance

EmptyMetadata ==
    /\ At("empty")
    /\ metadata' = Torn
    /\ UNCHANGED <<store, cut, broken>>
    /\ Advance

FillMetadata ==
    /\ At("fill")
    /\ metadata' = Metadata(store)
    /\ UNCHANGED <<store, cut, broken>>
    /\ Advance

-----------------------------------------------------------------------------
(* Mishaps *)

Mishap(how) ==
    /\ mishaps' = mishaps \cup {<<how, Head(steps)>>}
    /\ Cardinality(mishaps') <= MaxMishaps

\* A file operation returns Err.  A failed write may have written a part of
\* its data, a failed sync comes after the newline, and a file that cannot be
\* opened or a temporary file that cannot be written changes nothing.
FileError ==
    /\ up /\ steps # <<>>
    /\ Mishap("error")
    /\ CASE Head(steps) = "line" ->
              \/ UNCHANGED fileVars
              \/ cut' = TRUE /\ broken' = TRUE /\ UNCHANGED metadata
         [] Head(steps) = "newline" ->
              \/ UNCHANGED fileVars
              \/ cut' = FALSE /\ UNCHANGED <<broken, metadata>>
         [] OTHER -> UNCHANGED fileVars
    /\ todo' = <<>>
    /\ steps' = <<>>
    /\ before' = store
    /\ failed' = TRUE
    /\ UNCHANGED <<up, term, store, acked, announced>>

\* The process is killed, inside an operation or not.
Kill ==
    /\ up
    /\ IF steps = <<>> THEN UNCHANGED mishaps ELSE Mishap("kill")
    /\ up' = FALSE
    /\ todo' = <<>>
    /\ steps' = <<>>
    /\ term' = 0
    /\ store' = [EmptyStore EXCEPT !.disk = store.disk]
    /\ before' = store'
    /\ failed' = FALSE
    /\ UNCHANGED <<fileVars, acked, announced>>

\* Storage::new and ReplicationManager::new.
Start ==
    /\ ~up
    /\ Loadable
    /\ up' = TRUE
    /\ store' = Recovered
    /\ term' = Recovered.currentTerm
    /\ before' = store'
    /\ UNCHANGED <<todo, steps, fileVars, historyVars>>

-----------------------------------------------------------------------------
\* Batches: consecutive entries of any terms up to that of the request, with
\* the committed flags of the sender, which need not agree with the commit index
\* it sends: a restart may have left it with flags beyond its own.
Spans == UNION {{first .. last : last \in 0 .. MaxLog} : first \in 1 .. MaxLog}

Batches(t) ==
    {batch \in UNION {[span -> [term : 0 .. t, committed : BOOLEAN]] : span \in Spans} :
        \A n \in DOMAIN batch : batch[n].committed => n <= MaxMarked}

Handler ==
    \/ StartElection
    \/ \E t \in 1 .. MaxTerm : HearOfTerm(t)
    \/ \E t \in 0 .. MaxTerm : \E batch \in Batches(t) :
          \E leaderCommit \in 0 .. MaxLog : AppendEntries(t, batch, leaderCommit)
    \/ \E match \in 0 .. MaxLog : ClientAppend(match)
    \/ Announce

FileStep == WriteLine \/ WriteNewline \/ RenameLog \/ EmptyMetadata \/ FillMetadata

Next == Handler \/ BeginOperation \/ FileStep \/ FileError \/ Kill \/ Start

Spec == Init /\ [][Next]_vars

-----------------------------------------------------------------------------
(* Properties *)

FileEntry == [term : 0 .. MaxTerm, committed : BOOLEAN]
FileLog   == UNION {[ids -> FileEntry] : ids \in SUBSET (1 .. MaxLog)}
StoreType == [entries : FileLog, disk : FileLog, currentTerm : 0 .. MaxTerm,
              lastLogIndex : 0 .. MaxLog, commitIndex : 0 .. MaxLog]

\* Fields, files and the operations under way hold what they stand for, and a
\* commit index never leaves the range of the indices.
FilesTypeOK ==
    /\ up \in BOOLEAN /\ cut \in BOOLEAN /\ broken \in BOOLEAN
    /\ failed \in BOOLEAN
    /\ term \in 0 .. MaxTerm /\ announced \in 0 .. MaxTerm
    /\ store \in StoreType /\ before \in StoreType
    /\ acked \in FileLog
    /\ \A k \in 1 .. Len(todo) : todo[k].op \in {"append", "commit", "truncate", "setTerm"}
    /\ \A k \in 1 .. Len(steps) : steps[k] \in {"line", "newline", "rename", "empty", "fill"}
    /\ metadata \in {Missing, Torn} \cup
          [state : {"whole"}, currentTerm : 0 .. MaxTerm,
           lastLogIndex : 0 .. MaxLog, commitIndex : 0 .. MaxLog]

\* An append that returned Ok is in the log file and below the saved
\* last_log_index, whatever is killed or fails afterwards, unless the log was
\* made unreadable as a whole: "Log entries are stored on disk with crash
\* recovery" (src/README.md:47).
AckedSurvive ==
    \A n \in DOMAIN acked :
        /\ ~broken => n \in DOMAIN store.disk /\ store.disk[n].term = acked[n].term
        /\ metadata.state = "whole" => n <= metadata.lastLogIndex

\* What a node told others of its term is in its metadata: no kill takes it
\* back, as long as no save of the metadata failed.  (After a failed save the
\* manager keeps the term and answers in it.)
TermSurvives ==
    mishaps \cap {<<"error", "empty">>, <<"error", "fill">>} = {} =>
        /\ metadata.state = "whole" => announced <= metadata.currentTerm
        /\ metadata = Missing => announced = 0

\* The file yields the entries of memory, with no mark that memory has not: a
\* commit marks entries in memory only, an append and a rewrite write the marks.
SameEntries(file, memory) ==
    /\ DOMAIN file = DOMAIN memory
    /\ \A n \in DOMAIN file :
          /\ file[n].term = memory[n].term
          /\ file[n].committed => memory[n].committed

Saved(s) == IF metadata = Missing
            THEN s.currentTerm = 0 /\ s.lastLogIndex = 0 /\ s.commitIndex = 0
            ELSE metadata = Metadata(s)

\* A process that is killed and started again finds the log from before or
\* from after the operation it died in, and so the metadata, though not always
\* of the same side; between two operations it finds what it had in memory,
\* and of the committed flags none that was not set.
RestartFinds ==
    up /\ ~failed /\ Loadable =>
        /\ SameEntries(Recovered.entries, before.entries)
           \/ SameEntries(Recovered.entries, store.entries)
        /\ Saved(before) \/ Saved(store)

\* An operation that returns Ok, which it does when its last write, the metadata,
\* went through, did file operation by file operation what LogStore makes of it
\* in one step, on which module Replication relies.  This holds on a readable
\* log whatever was killed or failed before, also in the same process.
OperationsAtomic ==
    [][(up' /\ ~broken' /\ metadata' # Torn /\ Len(steps) = 1 /\ steps' = <<>>)
       => /\ store' = Effect(before, Head(todo))
          /\ metadata' = Metadata(store')]_vars

Killed(at) == {<<"kill", step>> : step \in at}
Errors     == {m \in mishaps : m[1] = "error"}

\* The only mishaps that do damage a restart cannot repair: the log becomes
\* unreadable after a line without its newline, the metadata after a save
\* between emptying and filling the file, and entries and last_log_index
\* disagree after a death between the log file and the metadata.
DamageHasCause ==
    /\ broken => mishaps \cap {<<"kill", "newline">>, <<"error", "newline">>,
                               <<"error", "line">>} # {}
    /\ metadata = Torn /\ ~At("fill") =>
          mishaps \cap {<<"kill", "fill">>, <<"error", "fill">>} # {}
    /\ IdleNode /\ DOMAIN store.entries # 1 .. store.lastLogIndex =>
          Errors # {} \/ mishaps \cap Killed({"newline", "empty"}) # {}
=============================================================================
