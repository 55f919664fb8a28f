------------------------------ MODULE LogStore ------------------------------
(***************************************************************************)
(* The operations of struct Storage (src/src/storage.rs) as operators on   *)
(* a record, one record per node:                                          *)
(*   entries       the in-memory HashMap from entry id to LogEntry         *)
(*   disk          what replaying log.jsonl yields (last line of an id     *)
(*                 wins)                                                   *)
(*   currentTerm, lastLogIndex, commitIndex                                *)
(*                 the fields that save_metadata writes; every operation   *)
(*                 that assigns one of them ends in save_metadata, so at   *)
(*                 the granularity of whole operations the file and the    *)
(*                 field agree and one field stands for both.              *)
(* An entry is its term, its command and its committed flag; the id is the *)
(* key and the timestamp is left out.  A batch of entries is a function    *)
(* from ids to entries, so appending a Vec sorted by id is one overlay.    *)
(* "Variant" marks faulty forms that no operator uses (see Replication).   *)
(***************************************************************************)
EXTENDS Integers, FiniteSetsExt

EmptyLog == [n \in {} |-> 0]

EmptyStore == [entries      |-> EmptyLog,
               disk         |-> EmptyLog,
               currentTerm  |-> 0,
               lastLogIndex |-> 0,
               commitIndex  |-> 0]

\* HashMap::insert of every entry of a batch.
Overlay(log, batch) ==
    [n \in DOMAIN log \cup DOMAIN batch |->
        IF n \in DOMAIN batch THEN batch[n] ELSE log[n]]

Highest(ids) == IF ids = {} THEN 0 ELSE Max(ids)

\* Variant: the entries are not written to the log file.
AppendInMemory(s, batch) ==
    [s EXCEPT !.entries      = Overlay(@, batch),
              !.lastLogIndex = Max({@, Highest(DOMAIN batch)})]

\* Storage::append of each entry of the batch, in memory and on disk.
AppendBatch(s, batch) ==
    [s EXCEPT !.entries      = Overlay(@, batch),
              !.disk         = Overlay(@, batch),
              !.lastLogIndex = Max({@, Highest(DOMAIN batch)})]

\* Variant: the filter is > instead of >=.
GetEntriesAfter(s, start) ==
    [n \in {m \in DOMAIN s.entries : m > start} |-> s.entries[n]]

GetEntriesFrom(s, start) ==
    [n \in {m \in DOMAIN s.entries : m >= start} |-> s.entries[n]]

\* Storage::get(n) with the term mapped out and 0 for a missing entry, which
\* is how the leader computes prev_log_term.
TermAt(s, n) == IF n \in DOMAIN s.entries THEN s.entries[n].term ELSE 0

GetLastLogTerm(s) == TermAt(s, s.lastLogIndex)

\* Variant: the range of commit_up_to ends one too late.
CommitBeyond(s, index) ==
    [s EXCEPT !.entries = [n \in DOMAIN @ |->
                             [@[n] EXCEPT !.committed = n <= index + 1]],
              !.commitIndex = index]

\* The flags change in memory only: the log file is not rewritten.
CommitUpTo(s, index) ==
    [s EXCEPT !.entries = [n \in DOMAIN @ |->
                             IF n \in (s.commitIndex + 1) .. index
                             THEN [@[n] EXCEPT !.committed = TRUE]
                             ELSE @[n]],
              !.commitIndex = index]

\* Variant: the new term is not stored.
SetTermInMemory(s, term) == s

SetCurrentTerm(s, term) == [s EXCEPT !.currentTerm = term]

\* Variant: the log file is not rewritten.
TruncateMemory(s, index) ==
    LET kept == [n \in {m \in DOMAIN s.entries : m < index} |-> s.entries[n]]
    IN  [s EXCEPT !.entries = kept, !.lastLogIndex = Highest(DOMAIN kept)]

\* commitIndex is left alone, and the log file is rewritten from memory.
TruncateFrom(s, index) ==
    LET kept == [n \in {m \in DOMAIN s.entries : m < index} |-> s.entries[n]]
    IN  [s EXCEPT !.entries      = kept,
                  !.disk         = kept,
                  !.lastLogIndex = Highest(DOMAIN kept)]

\* Variant: the commit index was not saved.
LoadUncommitted(s) == [s EXCEPT !.entries = s.disk, !.commitIndex = 0]

\* Variant: last_log_index is not read back.
LoadWithoutEnd(s) == [s EXCEPT !.entries = s.disk, !.lastLogIndex = 0]

\* Storage::new on an existing data directory.
Load(s) == [s EXCEPT !.entries = s.disk]
=============================================================================
