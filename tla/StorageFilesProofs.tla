-------------------------- MODULE StorageFilesProofs --------------------------
(***************************************************************************)
(* What survives kills and file errors at any file operation, for every    *)
(* length of the log, every term and any number of mishaps.                *)
(*                                                                         *)
(* FilesInv says how far the operation in progress has come, from which it *)
(* follows that an operation that ends well is one step of LogStore.  With *)
(* it, TermInv says that a term is on disk before it is told, and AckInv   *)
(* that acknowledged entries are in memory and in the file at all times.   *)
(* MatchInv says what a restart would find, CauseInv what mishap is behind *)
(* a damaged file, and GapInv that the log has no gap without one.         *)
(***************************************************************************)
EXTENDS StorageFiles, FiniteSetTheorems, NaturalsInduction, TLAPS

LogOperation ==
    [op : {"append"}, id : 1 .. MaxLog, entry : FileEntry]
        \cup [op : {"commit", "truncate"}, id : 0 .. MaxLog]

FileOperation == LogOperation \cup [op : {"setTerm"}, id : 0 .. MaxTerm]

Whole == Effect(before, Head(todo))

\* How far the operation in progress has come: nothing is written yet, or the
\* log file is done and the metadata is not.
InProgress ==
    /\ store = [Whole EXCEPT !.disk = store.disk]
    /\ \/ steps = FileSteps(Head(todo)) /\ store.disk = before.disk
       \/ /\ Head(todo).op = "append"
          /\ steps \in {<<"newline", "empty", "fill">>, <<"empty", "fill">>, <<"fill">>}
          /\ broken \/ store.disk = Whole.disk
       \/ /\ Head(todo).op = "truncate"
          /\ steps \in {<<"empty", "fill">>, <<"fill">>}
          /\ store.disk = Whole.disk
       \/ /\ Head(todo).op \in {"commit", "setTerm"}
          /\ steps = <<"fill">>
          /\ store.disk = Whole.disk

FilesInv ==
    /\ FilesTypeOK
    /\ todo \in Seq(FileOperation)
    /\ ~up => todo = <<>> /\ steps = <<>>
    /\ steps # <<>> => todo # <<>> /\ InProgress

-----------------------------------------------------------------------------
(* Data *)

\* The greatest of some indices.
LEMMA HighestSound ==
    ASSUME NEW S \in SUBSET (1 .. MaxLog)
    PROVE  Highest(S) \in 0 .. MaxLog /\ \A n \in S : n <= Highest(S)
<1> USE FilesBounds
<1>1. CASE S = {}
  BY <1>1 DEF Highest
<1>2. ASSUME NEW e \in S
      PROVE  Highest(S) \in 0 .. MaxLog /\ \A n \in S : n <= Highest(S)
  <2> DEFINE bounds == {m \in Nat : \A n \in S : n <= m}
  <2>1. MaxLog \in bounds
    OBVIOUS
  <2>2. PICK x \in bounds : \A y \in bounds : ~(y < x)
    <3>1. bounds \subseteq Nat /\ bounds # {}
      BY <2>1
    <3> HIDE DEF bounds
    <3>2. \E x \in bounds : \A y \in bounds : ~(<<y, x>> \in OpToRel(<, Nat))
      BY <3>1, NatLessThanWellFounded, WFMin, Zenon
    <3> QED
      BY <3>1, <3>2 DEF OpToRel
  <2>3. x \in S
    <3>1. SUFFICES ASSUME x \notin S PROVE FALSE
      OBVIOUS
    <3>2. x \in Nat /\ \A n \in S : n \in Nat /\ n > 0 /\ n <= x /\ n # x
      BY <2>2, <3>1
    <3>3. x > 0
      BY <3>2
    <3>4. x - 1 \in bounds
      BY <3>2, <3>3
    <3> QED
      BY <2>2, <3>4
  <2>4. \A n \in S : x >= n
    BY <2>2
  <2>5. Max(S) \in S /\ \A n \in S : Max(S) >= n
    BY <2>3, <2>4 DEF Max
  <2>6. Highest(S) = Max(S)
    BY DEF Highest
  <2>7. Max(S) \in 1 .. MaxLog
    BY <2>5
  <2> QED
    BY <2>5, <2>6, <2>7
<1> QED
  BY <1>1, <1>2

\* The greatest of two numbers.
LEMMA PairMax ==
    ASSUME NEW m \in Int, NEW n \in Int
    PROVE  /\ Max({m, n}) = IF m >= n THEN m ELSE n
           /\ Min({m, n}) = IF m <= n THEN m ELSE n
<1>1. \E x \in {m, n} : \A y \in {m, n} : x >= y
  OBVIOUS
<1>2. \E x \in {m, n} : \A y \in {m, n} : x =< y
  OBVIOUS
<1>3. Max({m, n}) \in {m, n} /\ \A y \in {m, n} : Max({m, n}) >= y
  BY <1>1 DEF Max
<1>4. Min({m, n}) \in {m, n} /\ \A y \in {m, n} : Min({m, n}) =< y
  BY <1>2 DEF Min
<1> QED
  BY <1>3, <1>4

\* A log is a function from some of the indices to entries.
LEMMA FileLogMembership ==
    ASSUME NEW log
    PROVE  log \in FileLog <=> /\ DOMAIN log \subseteq 1 .. MaxLog
                               /\ log \in [DOMAIN log -> FileEntry]
  BY DEF FileLog

LEMMA OverlayIsFileLog ==
    ASSUME NEW log \in FileLog, NEW n \in 1 .. MaxLog, NEW e \in FileEntry
    PROVE  LET both == Overlay(log, [k \in {n} |-> e])
           IN  /\ both \in FileLog
               /\ DOMAIN both = DOMAIN log \cup {n}
               /\ both[n] = e
               /\ \A k \in DOMAIN log : k # n => both[k] = log[k]
<1> DEFINE both == Overlay(log, [k \in {n} |-> e])
<1>1. DOMAIN log \subseteq 1 .. MaxLog /\ log \in [DOMAIN log -> FileEntry]
  BY FileLogMembership
<1>2. both = [k \in DOMAIN log \cup {n} |-> IF k = n THEN e ELSE log[k]]
  BY DEF Overlay
<1>3. both \in [DOMAIN log \cup {n} -> FileEntry] /\ DOMAIN both = DOMAIN log \cup {n}
  BY <1>1, <1>2
<1>4. both \in FileLog
  <2> HIDE DEF both
  <2> QED
    BY <1>1, <1>3, FileLogMembership
<1> QED
  BY <1>2, <1>3, <1>4

\* The log with one entry put at its index.
With(log, n, e) == Overlay(log, [k \in {n} |-> e])

LEMMA WithDomain ==
    ASSUME NEW log \in FileLog, NEW n \in 1 .. MaxLog, NEW e \in FileEntry
    PROVE  DOMAIN With(log, n, e) = DOMAIN log \cup {n}
  BY OverlayIsFileLog DEF With

LEMMA WithMember ==
    ASSUME NEW log \in FileLog, NEW n \in 1 .. MaxLog, NEW e \in FileEntry,
           NEW k \in DOMAIN log \cup {n}
    PROVE  k \in DOMAIN With(log, n, e)
  BY WithDomain

LEMMA WithNew ==
    ASSUME NEW log \in FileLog, NEW n \in 1 .. MaxLog, NEW e \in FileEntry
    PROVE  With(log, n, e)[n] = e
  BY OverlayIsFileLog DEF With

LEMMA WithOld ==
    ASSUME NEW log \in FileLog, NEW n \in 1 .. MaxLog, NEW e \in FileEntry,
           NEW k \in DOMAIN log, k # n
    PROVE  With(log, n, e)[k] = log[k]
  BY OverlayIsFileLog DEF With

LEMMA RestrictionIsFileLog ==
    ASSUME NEW log \in FileLog, NEW index \in 0 .. MaxLog
    PROVE  LET kept == [n \in {m \in DOMAIN log : m < index} |-> log[n]]
           IN  kept \in FileLog /\ DOMAIN kept = {m \in DOMAIN log : m < index}
<1> DEFINE kept == [n \in {m \in DOMAIN log : m < index} |-> log[n]]
<1>1. DOMAIN log \subseteq 1 .. MaxLog /\ log \in [DOMAIN log -> FileEntry]
  BY FileLogMembership
<1>2. DOMAIN kept \subseteq 1 .. MaxLog /\ kept \in [DOMAIN kept -> FileEntry]
  BY <1>1
<1>3. kept \in FileLog
  <2> HIDE DEF kept
  <2> QED
    BY <1>2, FileLogMembership
<1> QED
  BY <1>3

\* A store is the record of its fields.
LEMMA StoreFields ==
    ASSUME NEW s \in StoreType
    PROVE  /\ s = [entries |-> s.entries, disk |-> s.disk,
                   currentTerm |-> s.currentTerm, lastLogIndex |-> s.lastLogIndex,
                   commitIndex |-> s.commitIndex]
           /\ s.entries \in FileLog /\ s.disk \in FileLog
           /\ s.currentTerm \in 0 .. MaxTerm
           /\ s.lastLogIndex \in 0 .. MaxLog /\ s.commitIndex \in 0 .. MaxLog
  BY DEF StoreType

\* What each operation makes of a store.
LEMMA AppendEffect ==
    ASSUME NEW s \in StoreType, NEW o \in FileOperation, o.op = "append"
    PROVE  /\ Effect(s, o) = [s EXCEPT !.entries = Overlay(s.entries, [n \in {o.id} |-> o.entry]),
                                       !.disk = Overlay(s.disk, [n \in {o.id} |-> o.entry]),
                                       !.lastLogIndex = Effect(s, o).lastLogIndex]
           /\ Effect(s, o) \in StoreType
           /\ Effect(s, o).lastLogIndex >= s.lastLogIndex
           /\ Effect(s, o).lastLogIndex >= o.id
           /\ o.id \in 1 .. MaxLog /\ o.entry \in FileEntry
<1>1. o.id \in 1 .. MaxLog /\ o.entry \in FileEntry
  BY DEF FileOperation, LogOperation
<1> DEFINE batch == [n \in {o.id} |-> o.entry]
           last  == Max({s.lastLogIndex, Highest(DOMAIN batch)})
<1>2. Highest(DOMAIN batch) = o.id
  <2>1. Max({o.id}) = o.id
    BY <1>1 DEF Max
  <2> QED
    BY <2>1 DEF Highest
<1>3. last \in 0 .. MaxLog /\ last >= s.lastLogIndex /\ last >= o.id
  <2>1. s.lastLogIndex \in 0 .. MaxLog /\ s.lastLogIndex \in Int /\ o.id \in Int
    BY <1>1, StoreFields, FilesBounds
  <2>2. last = Max({s.lastLogIndex, o.id})
    BY <1>2
  <2>3. last = IF s.lastLogIndex >= o.id THEN s.lastLogIndex ELSE o.id
    BY <2>1, <2>2, PairMax
  <2> HIDE DEF last
  <2> QED
    BY <1>1, <2>1, <2>3, FilesBounds
<1>4. Overlay(s.entries, batch) \in FileLog /\ Overlay(s.disk, batch) \in FileLog
  <2>1. s.entries \in FileLog /\ s.disk \in FileLog
    BY StoreFields
  <2>2. \A log \in FileLog : Overlay(log, [n \in {o.id} |-> o.entry]) \in FileLog
    <3>1. SUFFICES ASSUME NEW log \in FileLog
                   PROVE  Overlay(log, [n \in {o.id} |-> o.entry]) \in FileLog
      OBVIOUS
    <3> QED
      BY <1>1, OverlayIsFileLog, Zenon
  <2> QED
    BY <2>1, <2>2
<1>5. Effect(s, o) = [s EXCEPT !.entries = Overlay(s.entries, batch),
                               !.disk = Overlay(s.disk, batch),
                               !.lastLogIndex = last]
  BY StoreFields DEF Effect, AppendBatch
<1> HIDE DEF batch, last
<1>6. Effect(s, o) \in StoreType /\ Effect(s, o).lastLogIndex = last
  BY <1>3, <1>4, <1>5, StoreFields DEF StoreType
<1> QED
  BY <1>1, <1>3, <1>5, <1>6 DEF batch

\* The fields an append gives a store.
LEMMA AppendedDisk ==
    ASSUME NEW s \in StoreType, NEW o \in FileOperation, o.op = "append"
    PROVE  /\ Effect(s, o).disk = Overlay(s.disk, [n \in {o.id} |-> o.entry])
           /\ Effect(s, o).entries = Overlay(s.entries, [n \in {o.id} |-> o.entry])
<1> DEFINE e == Effect(s, o)
           d == Overlay(s.disk, [n \in {o.id} |-> o.entry])
           l == Overlay(s.entries, [n \in {o.id} |-> o.entry])
           last == e.lastLogIndex
<1>1. e = [s EXCEPT !.entries = l, !.disk = d, !.lastLogIndex = last]
  BY AppendEffect
<1> HIDE DEF e, d, l, last
<1>2. e.disk = d /\ e.entries = l
  BY <1>1, StoreFields
<1> QED
  BY <1>2 DEF e, d, l

LEMMA TruncateEffect ==
    ASSUME NEW s \in StoreType, NEW o \in FileOperation, o.op = "truncate"
    PROVE  LET kept == [n \in {m \in DOMAIN s.entries : m < o.id} |-> s.entries[n]]
           IN  /\ Effect(s, o) = [s EXCEPT !.entries = kept, !.disk = kept,
                                           !.lastLogIndex = Highest(DOMAIN kept)]
               /\ Effect(s, o) \in StoreType
               /\ \A n \in DOMAIN kept : n <= Highest(DOMAIN kept)
<1> DEFINE kept == [n \in {m \in DOMAIN s.entries : m < o.id} |-> s.entries[n]]
<1>1. o.id \in 0 .. MaxLog
  BY DEF FileOperation, LogOperation
<1>2. kept \in FileLog /\ DOMAIN kept \subseteq 1 .. MaxLog
  BY <1>1, RestrictionIsFileLog, StoreFields, FileLogMembership
<1>3. Effect(s, o) = [s EXCEPT !.entries = kept, !.disk = kept,
                               !.lastLogIndex = Highest(DOMAIN kept)]
  BY DEF Effect, TruncateFrom
<1> HIDE DEF kept
<1>4. /\ Highest(DOMAIN kept) \in 0 .. MaxLog
      /\ \A n \in DOMAIN kept : n <= Highest(DOMAIN kept)
  BY <1>2, HighestSound
<1>5. Effect(s, o) \in StoreType
  BY <1>2, <1>3, <1>4, StoreFields DEF StoreType
<1> QED
  BY <1>3, <1>4, <1>5 DEF kept

LEMMA CommitEffect ==
    ASSUME NEW s \in StoreType, NEW o \in FileOperation, o.op = "commit"
    PROVE  /\ Effect(s, o) = [s EXCEPT !.entries = Effect(s, o).entries,
                                       !.commitIndex = o.id]
           /\ Effect(s, o) \in StoreType
           /\ DOMAIN Effect(s, o).entries = DOMAIN s.entries
           /\ \A n \in DOMAIN s.entries :
                 /\ Effect(s, o).entries[n].term = s.entries[n].term
                 /\ s.entries[n].committed => Effect(s, o).entries[n].committed
<1>1. o.id \in 0 .. MaxLog
  BY DEF FileOperation, LogOperation
<1> DEFINE flagged == [n \in DOMAIN s.entries |->
                          IF n \in (s.commitIndex + 1) .. o.id
                          THEN [s.entries[n] EXCEPT !.committed = TRUE]
                          ELSE s.entries[n]]
<1>2. Effect(s, o) = [s EXCEPT !.entries = flagged, !.commitIndex = o.id]
  BY StoreFields DEF Effect, CommitUpTo
<1>3. /\ DOMAIN s.entries \subseteq 1 .. MaxLog
      /\ \A n \in DOMAIN s.entries : s.entries[n] \in FileEntry
  BY StoreFields, FileLogMembership
<1>4. \A n \in DOMAIN s.entries :
         /\ flagged[n] \in FileEntry /\ flagged[n].term = s.entries[n].term
         /\ s.entries[n].committed => flagged[n].committed
  BY <1>3 DEF FileEntry
<1>5. flagged \in FileLog
  <2>1. flagged \in [DOMAIN s.entries -> FileEntry]
    BY <1>4
  <2> HIDE DEF flagged
  <2> QED
    BY <1>3, <2>1, FileLogMembership
<1>6. DOMAIN flagged = DOMAIN s.entries
  OBVIOUS
<1> HIDE DEF flagged
<1>7. Effect(s, o) \in StoreType /\ Effect(s, o).entries = flagged
  BY <1>1, <1>2, <1>5, StoreFields DEF StoreType
<1> QED
  BY <1>2, <1>4, <1>6, <1>7

LEMMA SetTermEffect ==
    ASSUME NEW s \in StoreType, NEW o \in FileOperation, o.op = "setTerm"
    PROVE  /\ Effect(s, o) = [s EXCEPT !.currentTerm = o.id]
           /\ Effect(s, o) \in StoreType
<1>1. o.id \in 0 .. MaxTerm
  BY DEF FileOperation, LogOperation
<1>2. Effect(s, o) = [s EXCEPT !.currentTerm = o.id]
  BY DEF Effect, SetCurrentTerm
<1> QED
  BY <1>1, <1>2, StoreFields DEF StoreType

LEMMA OperationKinds ==
    ASSUME NEW o \in FileOperation
    PROVE  /\ o.op \in {"append", "truncate", "commit", "setTerm"}
           /\ o.op = "setTerm" <=> o \notin LogOperation
  BY DEF FileOperation, LogOperation

LEMMA EffectTyped ==
    ASSUME NEW s \in StoreType, NEW o \in FileOperation
    PROVE  /\ Effect(s, o) \in StoreType
           /\ o.op # "setTerm" => Effect(s, o).currentTerm = s.currentTerm
           /\ o.op = "setTerm" => Effect(s, o).currentTerm = o.id
<1>1. CASE o.op = "append"
  <2> DEFINE e == Effect(s, o)
  <2>1. /\ e \in StoreType
        /\ e = [s EXCEPT !.entries = Overlay(s.entries, [n \in {o.id} |-> o.entry]),
                         !.disk = Overlay(s.disk, [n \in {o.id} |-> o.entry]),
                         !.lastLogIndex = e.lastLogIndex]
    BY <1>1, AppendEffect
  <2> HIDE DEF e
  <2>2. e.currentTerm = s.currentTerm
    BY <2>1, StoreFields
  <2> QED
    BY <1>1, <2>1, <2>2 DEF e
<1>2. CASE o.op = "truncate"
  <2> DEFINE kept == [n \in {m \in DOMAIN s.entries : m < o.id} |-> s.entries[n]]
             last == Highest(DOMAIN kept)
             e    == Effect(s, o)
  <2>1. e \in StoreType /\ e = [s EXCEPT !.entries = kept, !.disk = kept, !.lastLogIndex = last]
    BY <1>2, TruncateEffect
  <2> HIDE DEF kept, last, e
  <2>2. e.currentTerm = s.currentTerm
    BY <2>1, StoreFields
  <2> QED
    BY <1>2, <2>1, <2>2 DEF e
<1>3. CASE o.op = "commit"
  BY <1>3, CommitEffect, StoreFields
<1>4. CASE o.op = "setTerm"
  BY <1>4, SetTermEffect, StoreFields
<1> QED
  BY <1>1, <1>2, <1>3, <1>4, OperationKinds

-----------------------------------------------------------------------------
(* What a handler asks of its Storage *)

LEMMA BatchShape ==
    ASSUME NEW t \in 0 .. MaxTerm, NEW batch \in Batches(t)
    PROVE  /\ DOMAIN batch \subseteq 1 .. MaxLog
           /\ \A n \in DOMAIN batch : batch[n] \in FileEntry
           /\ \E first \in 1 .. MaxLog, last \in 0 .. MaxLog : DOMAIN batch = first .. last
<1>1. PICK span \in Spans : batch \in [span -> [term : 0 .. t, committed : BOOLEAN]]
  BY DEF Batches
<1>2. [term : 0 .. t, committed : BOOLEAN] \subseteq FileEntry
  <2>1. 0 .. t \subseteq 0 .. MaxTerm
    BY FilesBounds
  <2> QED
    BY <2>1 DEF FileEntry
<1>3. DOMAIN batch = span /\ \A n \in span : batch[n] \in FileEntry
  BY <1>1, <1>2
<1>4. PICK first \in 1 .. MaxLog, last \in 0 .. MaxLog : span = first .. last
  BY <1>1 DEF Spans
<1>5. first .. last \subseteq 1 .. MaxLog
  BY FilesBounds
<1> QED
  BY <1>3, <1>4, <1>5

LEMMA IntervalLeast ==
    ASSUME NEW m \in Int, NEW n \in Int, m <= n
    PROVE  Min(m .. n) = m
<1>1. m \in m .. n /\ \A y \in m .. n : m =< y
  OBVIOUS
<1>2. \A x \in m .. n : (\A y \in m .. n : x =< y) => x = m
  OBVIOUS
<1> QED
  BY <1>1, <1>2 DEF Min

LEMMA AppendsTyped ==
    ASSUME NEW t \in 0 .. MaxTerm, NEW batch \in Batches(t)
    PROVE  Appends(batch) \in Seq(LogOperation)
<1>1. PICK first \in 1 .. MaxLog, last \in 0 .. MaxLog : DOMAIN batch = first .. last
  BY BatchShape
<1> DEFINE size == IF first > last THEN 0 ELSE last - first + 1
<1>2. first \in Int /\ last \in Int /\ Cardinality(DOMAIN batch) = size /\ size \in Nat
  BY <1>1, FS_Interval, FilesBounds
<1>3. \A k \in 1 .. size : Append1(Min(DOMAIN batch) + k - 1,
                                   batch[Min(DOMAIN batch) + k - 1]) \in LogOperation
  <2> TAKE k \in 1 .. size
  <2>1. first <= last /\ Min(DOMAIN batch) = first
    BY <1>1, <1>2, IntervalLeast
  <2>2. first + k - 1 \in first .. last
    BY <1>2, <2>1
  <2>3. /\ first + k - 1 \in 1 .. MaxLog
        /\ batch[first + k - 1] \in FileEntry
    BY <1>1, <2>2, BatchShape
  <2> QED
    BY <2>1, <2>3 DEF Append1, LogOperation
<1>4. Appends(batch) = [k \in 1 .. size |-> Append1(Min(DOMAIN batch) + k - 1,
                                                  batch[Min(DOMAIN batch) + k - 1])]
  BY <1>2 DEF Appends
<1> HIDE DEF size
<1>5. Appends(batch) \in [1 .. size -> LogOperation]
  BY <1>3, <1>4
<1> QED
  BY <1>2, <1>5

LEMMA ConflictTyped ==
    ASSUME FilesInv, NEW t \in 0 .. MaxTerm, NEW batch \in Batches(t)
    PROVE  ConflictAt(batch) \in Seq(LogOperation)
<1>1. DOMAIN store.entries \subseteq 1 .. MaxLog
  BY StoreFields, FileLogMembership DEF FilesInv, FilesTypeOK
<1>2. CASE /\ DOMAIN batch # {}
           /\ Min(DOMAIN batch) \in DOMAIN store.entries
           /\ store.entries[Min(DOMAIN batch)].term # batch[Min(DOMAIN batch)].term
  <2>1. Min(DOMAIN batch) \in 0 .. MaxLog
    BY <1>1, <1>2, FilesBounds
  <2>2. Truncate(Min(DOMAIN batch)) \in LogOperation
    BY <2>1 DEF Truncate, LogOperation
  <2>3. ConflictAt(batch) = <<Truncate(Min(DOMAIN batch))>>
    BY <1>2 DEF ConflictAt
  <2> QED
    BY <2>2, <2>3
<1>3. CASE ~(/\ DOMAIN batch # {}
             /\ Min(DOMAIN batch) \in DOMAIN store.entries
             /\ store.entries[Min(DOMAIN batch)].term # batch[Min(DOMAIN batch)].term)
  <2>1. ConflictAt(batch) = <<>>
    BY <1>3 DEF ConflictAt
  <2> QED
    BY <2>1
<1> QED
  BY <1>2, <1>3

LEMMA CommitTyped ==
    ASSUME FilesInv, NEW t \in 0 .. MaxTerm, NEW batch \in Batches(t),
           NEW leaderCommit \in 0 .. MaxLog
    PROVE  CommitTo(batch, leaderCommit) \in Seq(LogOperation)
<1>1. LastAfter(batch) \in 0 .. MaxLog
  <2> DEFINE top == Highest(DOMAIN batch)
  <2>1. top \in 0 .. MaxLog /\ store.lastLogIndex \in 0 .. MaxLog
    BY BatchShape, HighestSound, StoreFields DEF FilesInv, FilesTypeOK
  <2> HIDE DEF top
  <2>2. Max({store.lastLogIndex, top}) \in 0 .. MaxLog
    BY <2>1, PairMax, FilesBounds
  <2> QED
    BY <2>1, <2>2 DEF LastAfter, top
<1>2. Min({leaderCommit, LastAfter(batch)}) \in 0 .. MaxLog
  <2> DEFINE last == LastAfter(batch)
  <2> HIDE DEF last
  <2>1. last \in 0 .. MaxLog
    BY <1>1 DEF last
  <2>2. Min({leaderCommit, last}) \in 0 .. MaxLog
    <3>1. leaderCommit \in Int /\ last \in Int
      BY <2>1, FilesBounds
    <3>2. Min({leaderCommit, last}) = IF leaderCommit <= last THEN leaderCommit ELSE last
      BY <3>1, PairMax
    <3> QED
      BY <2>1, <3>2
  <2> QED
    BY <2>2 DEF last
<1>3. Commit(Min({leaderCommit, LastAfter(batch)})) \in LogOperation
  BY <1>2 DEF Commit, LogOperation
<1> HIDE DEF LogOperation
<1> QED
  BY <1>3 DEF CommitTo

\* A handler that hears of the term t leaves the adoption of t to do first,
\* if it is newer, and then operations on the log only.
AsksFor(t, operations) ==
    /\ operations \in Seq(FileOperation)
    /\ IF t > term
       THEN operations # <<>> /\ Head(operations) = SetTerm(t)
            /\ Tail(operations) \in Seq(LogOperation)
       ELSE operations \in Seq(LogOperation)

LEMMA SetTermTyped ==
    ASSUME NEW t \in 0 .. MaxTerm
    PROVE  SetTerm(t) \in FileOperation /\ <<SetTerm(t)>> \in Seq(FileOperation)
<1>1. SetTerm(t) \in FileOperation
  BY DEF SetTerm, FileOperation
<1> QED
  BY <1>1

LEMMA LogOperationsTyped ==
    ASSUME NEW q \in Seq(LogOperation)
    PROVE  q \in Seq(FileOperation)
<1>1. \A k \in 1 .. Len(q) : q[k] \in FileOperation
  BY DEF FileOperation
<1> QED
  BY <1>1

LEMMA AppendEntriesAsks ==
    ASSUME FilesInv, NEW t \in 0 .. MaxTerm, NEW batch \in Batches(t),
           NEW leaderCommit \in 0 .. MaxLog, AppendEntries(t, batch, leaderCommit)
    PROVE  /\ t >= term
           /\ \E operations : AsksFor(t, operations) /\ Handle(t, operations)
<1> DEFINE A == ConflictAt(batch)
           B == Appends(batch)
           C == CommitTo(batch, leaderCommit)
<1>1. A \in Seq(LogOperation) /\ B \in Seq(LogOperation) /\ C \in Seq(LogOperation)
  BY AppendsTyped, ConflictTyped, CommitTyped
<1>2. t >= term /\ Handle(t, AdoptTerm(t) \o A \o B \o C)
  BY DEF AppendEntries
<1> HIDE DEF A, B, C
<1>3. CASE t > term
  <2>1. AdoptTerm(t) = <<SetTerm(t)>>
    BY <1>3 DEF AdoptTerm
  <2> DEFINE all == <<SetTerm(t)>> \o A \o B \o C
  <2>2. <<SetTerm(t)>> \in Seq({SetTerm(t)} \cup LogOperation)
    OBVIOUS
  <2>3. all # <<>> /\ Head(all) = SetTerm(t) /\ Tail(all) = A \o B \o C
    <3>1. A \in Seq({SetTerm(t)} \cup LogOperation) /\ B \in Seq({SetTerm(t)} \cup LogOperation)
          /\ C \in Seq({SetTerm(t)} \cup LogOperation)
      BY <1>1
    <3> QED
      BY <2>2, <3>1
  <2>4. A \o B \o C \in Seq(LogOperation)
    BY <1>1
  <2>5. all \in Seq(FileOperation)
    BY <1>1, SetTermTyped, LogOperationsTyped
  <2>6. AsksFor(t, all)
    BY <1>3, <2>3, <2>4, <2>5 DEF AsksFor
  <2> QED
    BY <1>2, <2>1, <2>6
<1>4. CASE ~(t > term)
  <2>1. AdoptTerm(t) = <<>>
    BY <1>4 DEF AdoptTerm
  <2>2. AdoptTerm(t) \o A \o B \o C \in Seq(LogOperation)
    BY <1>1, <2>1
  <2> QED
    BY <1>2, <1>4, <2>2, LogOperationsTyped DEF AsksFor
<1> QED
  BY <1>2, <1>3, <1>4

LEMMA ClientAppendAsks ==
    ASSUME FilesInv, NEW match \in 0 .. MaxLog, ClientAppend(match)
    PROVE  \E operations : AsksFor(term, operations) /\ Handle(term, operations)
<1> DEFINE id      == store.lastLogIndex + 1
           entry   == [term |-> term, committed |-> FALSE]
           ownTerm == {n \in store.commitIndex + 1 .. match :
                          n = id \/ (n \in DOMAIN store.entries
                                     /\ store.entries[n].term = term)}
<1>1. /\ term \in 0 .. MaxTerm
      /\ store.lastLogIndex \in 0 .. MaxLog /\ store.commitIndex \in 0 .. MaxLog
  BY StoreFields DEF FilesInv, FilesTypeOK
<1>2. PICK order \in [1 .. Cardinality(ownTerm) -> ownTerm] :
         Handle(term, <<Append1(id, entry)>> \o [k \in DOMAIN order |-> Commit(order[k])])
  BY DEF ClientAppend
<1>3. id \in 1 .. MaxLog
  BY <1>1, FilesBounds DEF ClientAppend
<1>4. Append1(id, entry) \in LogOperation
  BY <1>1, <1>3 DEF Append1, LogOperation, FileEntry
<1>5. ownTerm \in SUBSET (0 .. MaxLog) /\ Cardinality(ownTerm) \in Nat
  <2>1. ownTerm \subseteq 0 .. MaxLog
    BY <1>1, FilesBounds
  <2>2. IsFiniteSet(0 .. MaxLog)
    BY FS_Interval, FilesBounds
  <2> HIDE DEF ownTerm
  <2> QED
    BY <2>1, <2>2, FS_Subset, FS_CardinalityType
<1> HIDE DEF id, entry, ownTerm
<1> DEFINE commits == [k \in DOMAIN order |-> Commit(order[k])]
<1>6. commits \in Seq(LogOperation)
  <2>1. \A k \in 1 .. Cardinality(ownTerm) : Commit(order[k]) \in LogOperation
    BY <1>2, <1>5 DEF Commit, LogOperation
  <2>2. commits \in [1 .. Cardinality(ownTerm) -> LogOperation]
    BY <1>2, <2>1
  <2> HIDE DEF commits
  <2> QED
    BY <1>5, <2>2
<1> HIDE DEF commits, LogOperation
<1>7. <<Append1(id, entry)>> \o commits \in Seq(LogOperation)
  BY <1>4, <1>6
<1>8. Handle(term, <<Append1(id, entry)>> \o commits)
  BY <1>2 DEF commits
<1>9. ~(term > term)
  BY <1>1
<1> QED
  BY <1>7, <1>8, <1>9, LogOperationsTyped DEF AsksFor

\* Every handler but Announce asks for something.
LEMMA HandlersAsk ==
    ASSUME FilesInv, Handler
    PROVE  IdleNode /\ (Announce \/ \E t \in 0 .. MaxTerm : \E operations :
              t >= term /\ AsksFor(t, operations) /\ Handle(t, operations))
<1>1. term \in 0 .. MaxTerm
  BY DEF FilesInv, FilesTypeOK
<1>2. IdleNode
  BY DEF Handler, StartElection, HearOfTerm, AppendEntries, ClientAppend, Announce
<1>3. ASSUME StartElection
      PROVE  \E t \in 0 .. MaxTerm : \E operations :
                t >= term /\ AsksFor(t, operations) /\ Handle(t, operations)
  <2>1. /\ term + 1 \in 0 .. MaxTerm /\ term + 1 > term /\ term + 1 >= term
        /\ Handle(term + 1, <<SetTerm(term + 1)>>)
    BY <1>1, <1>3, FilesBounds DEF StartElection
  <2>2. AsksFor(term + 1, <<SetTerm(term + 1)>>)
    BY <2>1, SetTermTyped DEF AsksFor
  <2> QED
    BY <2>1, <2>2
<1>4. ASSUME NEW t \in 1 .. MaxTerm, HearOfTerm(t)
      PROVE  t \in 0 .. MaxTerm /\ \E operations :
                t >= term /\ AsksFor(t, operations) /\ Handle(t, operations)
  <2>1. /\ t \in 0 .. MaxTerm /\ t > term /\ t >= term
        /\ Handle(t, <<SetTerm(t)>>)
    BY <1>1, <1>4, FilesBounds DEF HearOfTerm, AdoptTerm
  <2>2. AsksFor(t, <<SetTerm(t)>>)
    BY <2>1, SetTermTyped DEF AsksFor
  <2> QED
    BY <2>1, <2>2
<1>5. ASSUME NEW match \in 0 .. MaxLog, ClientAppend(match)
      PROVE  \E t \in 0 .. MaxTerm : \E operations :
                t >= term /\ AsksFor(t, operations) /\ Handle(t, operations)
  <2>1. term >= term
    BY <1>1
  <2> QED
    BY <1>1, <1>5, <2>1, ClientAppendAsks
<1> QED
  BY <1>2, <1>3, <1>4, <1>5, AppendEntriesAsks DEF Handler

-----------------------------------------------------------------------------
(* FilesInv *)

OpKinds   == {"append", "commit", "truncate", "setTerm"}
StepKinds == {"line", "newline", "rename", "empty", "fill"}

LEMMA OperationsKnown ==
    ASSUME NEW q \in Seq(FileOperation)
    PROVE  \A k \in 1 .. Len(q) : q[k].op \in OpKinds
  BY OperationKinds DEF OpKinds

\* Sequences of one length with the same elements are the same.
LEMMA SameElements ==
    ASSUME NEW S, NEW u \in Seq(S), NEW v \in Seq(S), Len(u) = Len(v),
           \A k \in 1 .. Len(u) : u[k] = v[k]
    PROVE  u = v
  OBVIOUS

LEMMA ShortConcatenations ==
    ASSUME NEW a, NEW b, NEW c, NEW d
    PROVE  <<a, b>> \o <<c, d>> = <<a, b, c, d>> /\ <<a>> \o <<c, d>> = <<a, c, d>>
<1> DEFINE S == {a, b, c, d}
           u == <<a, b>> \o <<c, d>>
           v == <<a, b, c, d>>
           x == <<a>> \o <<c, d>>
           y == <<a, c, d>>
<1>1. /\ <<a, b>> \in Seq(S) /\ <<c, d>> \in Seq(S) /\ <<a>> \in Seq(S)
      /\ v \in Seq(S) /\ y \in Seq(S) /\ Len(v) = 4 /\ Len(y) = 3
      /\ Len(<<a, b>>) = 2 /\ Len(<<c, d>>) = 2 /\ Len(<<a>>) = 1
  OBVIOUS
<1>2. u \in Seq(S) /\ Len(u) = 4 /\ x \in Seq(S) /\ Len(x) = 3
  BY <1>1
<1>3. (\A k \in 1 .. 4 : u[k] = v[k]) /\ \A k \in 1 .. 3 : x[k] = y[k]
  BY <1>1
<1> HIDE DEF S, u, v, x, y
<1>4. u = v
  BY <1>1, <1>2, <1>3, SameElements
<1>5. x = y
  BY <1>1, <1>2, <1>3, SameElements
<1> QED
  BY <1>4, <1>5 DEF u, v, x, y

LEMMA StepsKnown ==
    ASSUME NEW o \in FileOperation
    PROVE  /\ FileSteps(o) \in Seq(StepKinds)
           /\ FileSteps(o) = CASE o.op = "append" -> <<"line", "newline", "empty", "fill">>
                               [] o.op = "truncate" -> <<"rename", "empty", "fill">>
                               [] o.op \in {"commit", "setTerm"} -> <<"empty", "fill">>
<1>1. CASE o.op = "append"
  <2>1. FileSteps(o) = <<"line", "newline", "empty", "fill">>
    BY <1>1, ShortConcatenations DEF FileSteps, SaveMetadata
  <2> QED
    BY <1>1, <2>1 DEF StepKinds
<1>2. CASE o.op = "truncate"
  <2>1. FileSteps(o) = <<"rename", "empty", "fill">>
    BY <1>2, ShortConcatenations DEF FileSteps, SaveMetadata
  <2> QED
    BY <1>2, <2>1 DEF StepKinds
<1>3. CASE o.op \in {"commit", "setTerm"}
  <2>1. FileSteps(o) = <<"empty", "fill">>
    BY <1>3 DEF FileSteps, SaveMetadata
  <2> QED
    BY <1>3, <2>1 DEF StepKinds
<1> QED
  BY <1>1, <1>2, <1>3, OperationKinds

\* The file operations left to an operation in progress.
LEMMA StepsLeft ==
    ASSUME FilesInv, steps # <<>>
    PROVE  /\ Head(todo) \in FileOperation /\ Tail(todo) \in Seq(FileOperation)
           /\ steps \in {<<"line", "newline", "empty", "fill">>,
                         <<"newline", "empty", "fill">>, <<"rename", "empty", "fill">>,
                         <<"empty", "fill">>, <<"fill">>}
           /\ steps[1] = "line" \/ steps[1] = "newline" => Head(todo).op = "append"
           /\ steps[1] = "rename" => Head(todo).op = "truncate"
           /\ steps[1] = "line" \/ steps[1] = "rename" =>
                 steps = FileSteps(Head(todo)) /\ store.disk = before.disk
<1>1. todo # <<>> /\ todo \in Seq(FileOperation) /\ InProgress
  BY DEF FilesInv
<1>2. Head(todo) \in FileOperation /\ Tail(todo) \in Seq(FileOperation)
  BY <1>1
<1> DEFINE o == Head(todo)
<1> HIDE DEF o
<1>3. CASE steps = FileSteps(o) /\ store.disk = before.disk
  BY <1>2, <1>3, StepsKnown, OperationKinds DEF o
<1>4. CASE /\ o.op = "append"
           /\ steps \in {<<"newline", "empty", "fill">>, <<"empty", "fill">>, <<"fill">>}
  BY <1>2, <1>4 DEF o
<1>5. CASE o.op = "truncate" /\ steps \in {<<"empty", "fill">>, <<"fill">>}
  BY <1>2, <1>5 DEF o
<1>6. CASE o.op \in {"commit", "setTerm"} /\ steps = <<"fill">>
  BY <1>2, <1>6 DEF o
<1> QED
  BY <1>1, <1>3, <1>4, <1>5, <1>6 DEF InProgress, o

LEMMA EmptyStoreTyped == EmptyLog \in FileLog /\ EmptyStore \in StoreType
<1>1. EmptyLog \in FileLog
  <2>1. DOMAIN EmptyLog = {} /\ EmptyLog \in [{} -> FileEntry]
    BY DEF EmptyLog
  <2> QED
    BY <2>1, FileLogMembership
<1> QED
  BY <1>1, FilesBounds DEF EmptyStore, StoreType

LEMMA InitFiles == Init => FilesInv
<1> SUFFICES ASSUME Init PROVE FilesInv
  OBVIOUS
<1>1. EmptyLog \in FileLog /\ EmptyStore \in StoreType
  BY EmptyStoreTyped
<1>2. 0 \in 0 .. MaxTerm
  BY FilesBounds
<1>3. todo \in Seq(FileOperation) /\ todo = <<>> /\ steps = <<>>
  BY DEF Init
<1>4. up \in BOOLEAN /\ cut \in BOOLEAN /\ broken \in BOOLEAN /\ failed \in BOOLEAN
  BY Zenon DEF Init
<1>5. Len(todo) = 0 /\ Len(steps) = 0
  BY <1>3
<1>6. FilesTypeOK
  BY <1>1, <1>2, <1>4, <1>5 DEF Init, FilesTypeOK
<1> QED
  BY <1>3, <1>6 DEF Init, FilesInv

LEMMA HandleFiles ==
    ASSUME FilesInv, IdleNode, NEW t \in 0 .. MaxTerm, NEW operations,
           AsksFor(t, operations), Handle(t, operations)
    PROVE  FilesInv'
<1>1. steps = <<>> /\ up
  BY DEF FilesInv, IdleNode
<1>2. /\ todo' \in Seq(FileOperation) /\ term' \in 0 .. MaxTerm
      /\ UNCHANGED <<up, steps, store, cut, broken, metadata, before, acked,
                     announced, mishaps, failed>>
  BY DEF Handle, fileVars, historyVars, AsksFor
<1>3. \A k \in 1 .. Len(todo') : todo'[k].op \in OpKinds
  BY <1>2, OperationsKnown
<1>4. FilesTypeOK'
  BY <1>2, <1>3 DEF FilesInv, FilesTypeOK, OpKinds
<1> QED
  BY <1>1, <1>2, <1>4 DEF FilesInv

LEMMA AnnounceFiles ==
    ASSUME FilesInv, Announce
    PROVE  FilesInv'
<1>1. /\ announced' = term
      /\ UNCHANGED <<up, term, todo, steps, store, cut, broken, metadata, before,
                     acked, mishaps, failed>>
  BY DEF Announce, memoryVars, fileVars
<1>2. UNCHANGED InProgress
  BY <1>1 DEF InProgress, Whole
<1> QED
  BY <1>1, <1>2 DEF FilesInv, FilesTypeOK

LEMMA EffectOnStore ==
    ASSUME NEW s \in StoreType, NEW disk \in FileLog
    PROVE  /\ [s EXCEPT !.disk = disk] \in StoreType
           /\ [s EXCEPT !.disk = disk].disk = disk
           /\ [s EXCEPT !.disk = disk].entries = s.entries
           /\ [s EXCEPT !.disk = disk].currentTerm = s.currentTerm
           /\ [s EXCEPT !.disk = disk].lastLogIndex = s.lastLogIndex
           /\ [s EXCEPT !.disk = disk].commitIndex = s.commitIndex
           /\ \A d : [[s EXCEPT !.disk = disk] EXCEPT !.disk = d] = [s EXCEPT !.disk = d]
  BY StoreFields DEF StoreType

LEMMA SubLogTyped ==
    ASSUME NEW log \in FileLog, NEW S \in SUBSET DOMAIN log
    PROVE  [n \in S |-> log[n]] \in FileLog
<1> DEFINE part == [n \in S |-> log[n]]
<1>1. DOMAIN log \subseteq 1 .. MaxLog /\ log \in [DOMAIN log -> FileEntry]
  BY FileLogMembership
<1>2. DOMAIN part \subseteq 1 .. MaxLog /\ part \in [DOMAIN part -> FileEntry]
  BY <1>1
<1> HIDE DEF part
<1>3. part \in FileLog
  BY <1>2, FileLogMembership
<1> QED
  BY <1>3 DEF part

LEMMA BeginFiles ==
    ASSUME FilesInv, BeginOperation
    PROVE  FilesInv'
<1> DEFINE o == Head(todo)
           kept == {m \in DOMAIN acked :
                      CASE o.op = "append"   -> m # o.id
                        [] o.op = "truncate" -> m < o.id
                        [] OTHER             -> TRUE}
<1>1. /\ up /\ todo # <<>> /\ steps = <<>>
      /\ before' = store /\ steps' = FileSteps(o)
      /\ store' = [Effect(store, o) EXCEPT !.disk = store.disk]
      /\ acked' = [n \in kept |-> acked[n]]
      /\ UNCHANGED <<up, term, todo, cut, broken, metadata, announced, mishaps, failed>>
  BY DEF BeginOperation, fileVars
<1>2. o \in FileOperation /\ store \in StoreType /\ store.disk \in FileLog
      /\ acked \in FileLog
  BY <1>1, StoreFields DEF FilesInv, FilesTypeOK
<1>3. acked' \in FileLog
  <2>1. kept \in SUBSET DOMAIN acked
    OBVIOUS
  <2> HIDE DEF kept
  <2> QED
    BY <1>1, <1>2, <2>1, SubLogTyped
<1> HIDE DEF o, kept
<1>4. Effect(store, o) \in StoreType
  BY <1>2, EffectTyped
<1>5. store' \in StoreType /\ store'.disk = store.disk
  BY <1>1, <1>2, <1>4, EffectOnStore
<1>6. steps' \in Seq(StepKinds)
  BY <1>1, <1>2, StepsKnown
<1>7. Head(todo') = o /\ Whole' = Effect(store, o)
  BY <1>1 DEF Whole, o
<1>8. InProgress'
  <2>1. store' = [Whole' EXCEPT !.disk = store'.disk]
    BY <1>1, <1>5, <1>7
  <2>2. steps' = FileSteps(Head(todo')) /\ store'.disk = before'.disk
    BY <1>1, <1>5, <1>7
  <2> QED
    BY <2>1, <2>2 DEF InProgress
<1>9. FilesTypeOK'
  BY <1>1, <1>2, <1>3, <1>5, <1>6 DEF FilesInv, FilesTypeOK, StepKinds
<1> QED
  BY <1>1, <1>8, <1>9 DEF FilesInv

\* What a file operation that ends well does to the operation in progress.
LEMMA AdvanceShape ==
    ASSUME FilesInv, steps # <<>>, Advance
    PROVE  /\ steps' = Tail(steps) /\ steps' \in Seq(StepKinds)
           /\ UNCHANGED <<up, term, announced, mishaps, failed>>
           /\ steps' # <<>> => UNCHANGED <<todo, before, acked>>
           /\ steps' = <<>> <=> steps = <<"fill">>
           /\ steps' = <<>> => /\ todo' = Tail(todo) /\ before' = store'
                               /\ acked' = IF Head(todo).op = "append"
                                           THEN Overlay(acked, [n \in {Head(todo).id} |-> Head(todo).entry])
                                           ELSE acked
<1>1. steps \in {<<"line", "newline", "empty", "fill">>,
                 <<"newline", "empty", "fill">>, <<"rename", "empty", "fill">>,
                 <<"empty", "fill">>, <<"fill">>}
  BY StepsLeft
<1> DEFINE tail == Tail(steps)
           shaped == /\ tail \in Seq(StepKinds)
                     /\ tail = <<>> <=> steps = <<"fill">>
<1>2. ASSUME steps = <<"line", "newline", "empty", "fill">> PROVE shaped
  <2>1. tail = <<"newline", "empty", "fill">>
    BY <1>2
  <2> HIDE DEF tail
  <2> QED
    BY <1>2, <2>1 DEF StepKinds
<1>3. ASSUME steps = <<"newline", "empty", "fill">> PROVE shaped
  <2>1. tail = <<"empty", "fill">>
    BY <1>3
  <2> HIDE DEF tail
  <2> QED
    BY <1>3, <2>1 DEF StepKinds
<1>4. ASSUME steps = <<"rename", "empty", "fill">> PROVE shaped
  <2>1. tail = <<"empty", "fill">>
    BY <1>4
  <2> HIDE DEF tail
  <2> QED
    BY <1>4, <2>1 DEF StepKinds
<1>5. ASSUME steps = <<"empty", "fill">> PROVE shaped
  <2>1. tail = <<"fill">>
    BY <1>5
  <2> HIDE DEF tail
  <2> QED
    BY <1>5, <2>1 DEF StepKinds
<1>6. ASSUME steps = <<"fill">> PROVE shaped
  <2>1. tail = <<>>
    BY <1>6
  <2> HIDE DEF tail
  <2> QED
    BY <1>6, <2>1 DEF StepKinds
<1>7. shaped
  BY <1>1, <1>2, <1>3, <1>4, <1>5, <1>6
<1> HIDE DEF tail
<1> QED
  BY <1>7 DEF Advance, tail

LEMMA AckedTyped ==
    ASSUME FilesInv, todo # <<>>, Head(todo).op = "append"
    PROVE  Overlay(acked, [n \in {Head(todo).id} |-> Head(todo).entry]) \in FileLog
<1>1. Head(todo) \in FileOperation /\ acked \in FileLog
  BY DEF FilesInv, FilesTypeOK
<1>2. Head(todo).id \in 1 .. MaxLog /\ Head(todo).entry \in FileEntry
  BY <1>1 DEF FileOperation, LogOperation
<1> QED
  BY <1>1, <1>2, OverlayIsFileLog

LEMMA WriteLineFiles ==
    ASSUME FilesInv, WriteLine
    PROVE  FilesInv'
<1> DEFINE o == Head(todo)
<1>1. /\ up /\ steps # <<>> /\ Head(steps) = "line" /\ Advance
      /\ store' = IF cut THEN store ELSE WrittenLine(store, o)
      /\ broken' = (broken \/ cut) /\ cut' = TRUE /\ UNCHANGED metadata
  BY DEF WriteLine, At
<1>2. /\ o.op = "append" /\ o \in FileOperation /\ todo # <<>>
      /\ steps = <<"line", "newline", "empty", "fill">>
      /\ store.disk = before.disk
      /\ store = [Whole EXCEPT !.disk = store.disk]
  BY <1>1, StepsLeft DEF FilesInv, InProgress
<1>3. /\ steps' = <<"newline", "empty", "fill">>
      /\ UNCHANGED <<up, term, todo, before, acked, announced, mishaps, failed>>
  BY <1>1, <1>2, AdvanceShape
<1>4. before \in StoreType /\ store \in StoreType
  BY DEF FilesInv, FilesTypeOK
<1> DEFINE disk == Overlay(store.disk, [n \in {o.id} |-> o.entry])
<1> HIDE DEF o
<1>5. disk \in FileLog /\ Whole \in StoreType
  <2>1. store.disk \in FileLog
    BY <1>4, StoreFields
  <2>2. o.id \in 1 .. MaxLog /\ o.entry \in FileEntry
    BY <1>2, <1>4, AppendEffect
  <2>3. disk \in FileLog
    BY <2>1, <2>2, OverlayIsFileLog
  <2>4. Whole \in StoreType
    BY <1>2, <1>4, EffectTyped DEF Whole, o
  <2> QED
    BY <2>3, <2>4
<1>6. Whole.disk = disk
  BY <1>2, <1>4, AppendedDisk DEF Whole, o
<1>7. Whole' = Whole
  BY <1>3 DEF Whole
<1>8. store' \in StoreType /\ store' = [Whole EXCEPT !.disk = store'.disk]
      /\ (broken' \/ store'.disk = Whole.disk)
  <2>1. CASE cut
    BY <1>1, <1>2, <1>4, <2>1
  <2>2. CASE ~cut
    <3>1. store' = [store EXCEPT !.disk = disk]
      BY <1>1, <2>2 DEF WrittenLine
    <3> HIDE DEF disk
    <3>2. store' \in StoreType /\ store'.disk = disk
      BY <1>4, <1>5, <3>1, EffectOnStore
    <3>3. store.disk \in FileLog
      BY <1>4, StoreFields
    <3>4. store' = [Whole EXCEPT !.disk = disk]
      BY <1>2, <1>5, <3>1, <3>3, EffectOnStore
    <3> QED
      BY <1>6, <3>2, <3>4
  <2> QED
    BY <2>1, <2>2
<1>9. InProgress'
  BY <1>2, <1>3, <1>7, <1>8 DEF InProgress, o
<1>10. broken' \in BOOLEAN /\ cut' \in BOOLEAN
  BY <1>1, Zenon DEF FilesInv, FilesTypeOK
<1>11. FilesTypeOK'
  BY <1>1, <1>3, <1>8, <1>10 DEF FilesInv, FilesTypeOK
<1> QED
  BY <1>2, <1>3, <1>9, <1>11 DEF FilesInv

\* A commit and a term leave the file's lines as they are.
LEMMA SavesOnly ==
    ASSUME NEW s \in StoreType, NEW o \in FileOperation, o.op \in {"commit", "setTerm"}
    PROVE  Effect(s, o).disk = s.disk
<1>1. CASE o.op = "commit"
  <2> DEFINE e == Effect(s, o)
             l == e.entries
  <2>1. e = [s EXCEPT !.entries = l, !.commitIndex = o.id]
    BY <1>1, CommitEffect
  <2> HIDE DEF e, l
  <2>2. e.disk = s.disk
    BY <2>1, StoreFields
  <2> QED
    BY <2>2 DEF e
<1>2. CASE o.op = "setTerm"
  BY <1>2, SetTermEffect, StoreFields
<1> QED
  BY <1>1, <1>2

\* A truncation leaves the same entries in memory and in the file.
LEMMA TruncatedFields ==
    ASSUME NEW s \in StoreType, NEW o \in FileOperation, o.op = "truncate"
    PROVE  LET kept == [n \in {m \in DOMAIN s.entries : m < o.id} |-> s.entries[n]]
           IN  /\ Effect(s, o).disk = kept /\ Effect(s, o).entries = kept
               /\ Effect(s, o).disk = Effect(s, o).entries
               /\ Effect(s, o).lastLogIndex = Highest(DOMAIN kept)
<1> DEFINE e == Effect(s, o)
           kept == [n \in {m \in DOMAIN s.entries : m < o.id} |-> s.entries[n]]
           last == Highest(DOMAIN kept)
<1>1. e = [s EXCEPT !.entries = kept, !.disk = kept, !.lastLogIndex = last]
  BY TruncateEffect
<1> HIDE DEF e, kept, last
<1>2. e.disk = kept /\ e.entries = kept /\ e.lastLogIndex = last
  BY <1>1, StoreFields
<1> QED
  BY <1>2 DEF e, kept, last

\* The lines of the log are those the operation asks for.
LogDone == (Head(todo).op = "append" /\ broken) \/ store.disk = Whole.disk

\* The file operation that comes next says how far the operation is.
LEMMA Stages ==
    ASSUME FilesInv, steps # <<>>
    PROVE  /\ Head(steps) = "newline" =>
                 /\ steps = <<"newline", "empty", "fill">>
                 /\ Head(todo).op = "append" /\ LogDone
           /\ Head(steps) = "rename" =>
                 steps = <<"rename", "empty", "fill">> /\ Head(todo).op = "truncate"
           /\ Head(steps) = "empty" => steps = <<"empty", "fill">> /\ LogDone
           /\ Head(steps) = "fill" => steps = <<"fill">> /\ LogDone
<1> DEFINE o == Head(todo)
<1>1. todo # <<>> /\ o \in FileOperation /\ InProgress /\ before \in StoreType
  BY DEF FilesInv, FilesTypeOK
<1>2. Whole = Effect(before, o)
  BY DEF Whole
<1> HIDE DEF o
<1>3. ASSUME steps = FileSteps(o), store.disk = before.disk
      PROVE  \/ steps = <<"line", "newline", "empty", "fill">>
             \/ steps = <<"rename", "empty", "fill">> /\ o.op = "truncate"
             \/ steps = <<"empty", "fill">> /\ store.disk = Whole.disk
  BY <1>1, <1>2, <1>3, StepsKnown, OperationKinds, SavesOnly
<1>4. \/ steps = FileSteps(o) /\ store.disk = before.disk
      \/ /\ o.op = "append"
         /\ steps \in {<<"newline", "empty", "fill">>, <<"empty", "fill">>, <<"fill">>}
         /\ broken \/ store.disk = Whole.disk
      \/ /\ o.op = "truncate"
         /\ steps \in {<<"empty", "fill">>, <<"fill">>}
         /\ store.disk = Whole.disk
      \/ steps = <<"fill">> /\ store.disk = Whole.disk
  BY <1>1 DEF InProgress, o
<1> HIDE DEF Whole
<1> QED
  BY <1>3, <1>4 DEF LogDone, o

\* A file operation that leaves the saving of the metadata to do.
LEMMA LogWritten ==
    ASSUME FilesInv, Head(todo) \in FileOperation,
           steps' \in {<<"newline", "empty", "fill">>, <<"empty", "fill">>, <<"fill">>},
           steps' = <<"newline", "empty", "fill">> => Head(todo).op = "append",
           steps' = <<"empty", "fill">> => Head(todo).op \in {"append", "truncate"},
           UNCHANGED <<todo, before>>,
           store' = [Whole EXCEPT !.disk = store'.disk], LogDone'
    PROVE  InProgress'
<1>1. Whole' = Whole /\ Head(todo') = Head(todo)
  BY DEF Whole
<1> HIDE DEF Whole
<1>2. Head(todo).op \in {"append", "truncate", "commit", "setTerm"}
  BY OperationKinds
<1> QED
  BY <1>1, <1>2 DEF InProgress, LogDone

LEMMA WriteNewlineFiles ==
    ASSUME FilesInv, WriteNewline
    PROVE  FilesInv'
<1>1. /\ up /\ steps # <<>> /\ Head(steps) = "newline" /\ Advance /\ cut' = FALSE
      /\ UNCHANGED <<store, broken, metadata>>
  BY DEF WriteNewline, At
<1>2. /\ steps = <<"newline", "empty", "fill">> /\ Head(todo).op = "append" /\ LogDone
      /\ todo # <<>> /\ Head(todo) \in FileOperation
      /\ store = [Whole EXCEPT !.disk = store.disk]
  BY <1>1, Stages, StepsLeft DEF FilesInv, InProgress
<1>3. /\ steps' = <<"empty", "fill">>
      /\ UNCHANGED <<up, term, todo, before, acked, announced, mishaps, failed>>
  BY <1>1, <1>2, AdvanceShape
<1>4. LogDone' /\ store' = [Whole EXCEPT !.disk = store'.disk]
  BY <1>1, <1>2, <1>3 DEF LogDone, Whole
<1>5. InProgress'
  BY <1>2, <1>3, <1>4, LogWritten
<1>6. cut' \in BOOLEAN /\ broken' \in BOOLEAN
  BY <1>1, Zenon DEF FilesInv, FilesTypeOK
<1>7. FilesTypeOK'
  BY <1>1, <1>3, <1>6 DEF FilesInv, FilesTypeOK
<1> QED
  BY <1>1, <1>2, <1>3, <1>5, <1>7 DEF FilesInv

LEMMA RenameLogFiles ==
    ASSUME FilesInv, RenameLog
    PROVE  FilesInv'
<1>1. /\ up /\ steps # <<>> /\ Head(steps) = "rename" /\ Advance
      /\ cut' = FALSE /\ broken' = FALSE /\ UNCHANGED metadata
      /\ store' = [store EXCEPT !.disk = store.entries]
      /\ store \in StoreType /\ before \in StoreType
  BY DEF RenameLog, At, FilesInv, FilesTypeOK
<1>2. /\ steps = <<"rename", "empty", "fill">> /\ Head(todo).op = "truncate"
      /\ todo # <<>> /\ Head(todo) \in FileOperation
      /\ store = [Whole EXCEPT !.disk = store.disk]
  BY <1>1, Stages, StepsLeft DEF FilesInv, InProgress
<1>3. /\ steps' = <<"empty", "fill">>
      /\ UNCHANGED <<up, term, todo, before, acked, announced, mishaps, failed>>
  BY <1>1, <1>2, AdvanceShape
<1>4. Whole \in StoreType /\ Whole.disk = Whole.entries
  BY <1>1, <1>2, TruncatedFields, EffectTyped DEF Whole
<1>5. store.entries = Whole.entries
  <2> DEFINE d == store.disk
  <2>1. d \in FileLog /\ store = [Whole EXCEPT !.disk = d]
    BY <1>1, <1>2, StoreFields
  <2> HIDE DEF Whole, d
  <2>2. [Whole EXCEPT !.disk = d].entries = Whole.entries
    BY <1>4, <2>1, EffectOnStore
  <2> QED
    BY <2>1, <2>2
<1>6. /\ store' \in StoreType /\ store'.disk = Whole.disk
      /\ store' = [Whole EXCEPT !.disk = store'.disk]
  <2>1. store.disk \in FileLog /\ store.entries \in FileLog
    BY <1>1, StoreFields
  <2> HIDE DEF Whole
  <2>2. store' \in StoreType /\ store'.disk = store.entries
    BY <1>1, <2>1, EffectOnStore
  <2>3. store' = [Whole EXCEPT !.disk = store.entries]
    BY <1>1, <1>2, <1>4, <2>1, EffectOnStore
  <2> QED
    BY <1>4, <1>5, <2>2, <2>3
<1>7. Whole' = Whole
  BY <1>3 DEF Whole
<1>8. InProgress'
  BY <1>2, <1>3, <1>6, <1>7, LogWritten DEF LogDone
<1>9. cut' \in BOOLEAN /\ broken' \in BOOLEAN
  BY <1>1, Zenon DEF FilesInv, FilesTypeOK
<1>10. FilesTypeOK'
  BY <1>1, <1>3, <1>6, <1>9 DEF FilesInv, FilesTypeOK
<1> QED
  BY <1>1, <1>2, <1>3, <1>8, <1>10 DEF FilesInv

LEMMA EmptyMetadataFiles ==
    ASSUME FilesInv, EmptyMetadata
    PROVE  FilesInv'
<1>1. /\ up /\ steps # <<>> /\ Head(steps) = "empty" /\ Advance /\ metadata' = Torn
      /\ UNCHANGED <<store, cut, broken>>
  BY DEF EmptyMetadata, At
<1>2. /\ steps = <<"empty", "fill">> /\ LogDone
      /\ todo # <<>> /\ Head(todo) \in FileOperation
      /\ store = [Whole EXCEPT !.disk = store.disk]
  BY <1>1, Stages, StepsLeft DEF FilesInv, InProgress
<1>3. /\ steps' = <<"fill">>
      /\ UNCHANGED <<up, term, todo, before, acked, announced, mishaps, failed>>
  BY <1>1, <1>2, AdvanceShape
<1>4. LogDone' /\ store' = [Whole EXCEPT !.disk = store'.disk]
  BY <1>1, <1>2, <1>3 DEF LogDone, Whole
<1>5. InProgress'
  BY <1>2, <1>3, <1>4, LogWritten
<1>6. FilesTypeOK'
  BY <1>1, <1>3 DEF FilesInv, FilesTypeOK
<1> QED
  BY <1>1, <1>2, <1>3, <1>5, <1>6 DEF FilesInv

LEMMA FillMetadataFiles ==
    ASSUME FilesInv, FillMetadata
    PROVE  FilesInv'
<1>1. /\ up /\ steps # <<>> /\ Head(steps) = "fill" /\ Advance
      /\ metadata' = Metadata(store) /\ UNCHANGED <<store, cut, broken>>
  BY DEF FillMetadata, At
<1>2. /\ steps = <<"fill">> /\ todo # <<>>
      /\ Head(todo) \in FileOperation /\ Tail(todo) \in Seq(FileOperation)
  BY <1>1, Stages, StepsLeft DEF FilesInv
<1>3. /\ steps' = <<>> /\ todo' = Tail(todo) /\ before' = store'
      /\ UNCHANGED <<up, term, announced, mishaps, failed>>
      /\ acked' = IF Head(todo).op = "append"
                  THEN Overlay(acked, [n \in {Head(todo).id} |-> Head(todo).entry])
                  ELSE acked
  BY <1>1, <1>2, AdvanceShape
<1>4. acked' \in FileLog
  <2>1. acked \in FileLog
    BY DEF FilesInv, FilesTypeOK
  <2>2. CASE Head(todo).op = "append"
    BY <1>2, <1>3, <2>2, AckedTyped
  <2>3. CASE Head(todo).op # "append"
    BY <1>3, <2>1, <2>3
  <2> QED
    BY <2>2, <2>3
<1>5. store \in StoreType
  BY DEF FilesInv, FilesTypeOK
<1>6. metadata' \in [state : {"whole"}, currentTerm : 0 .. MaxTerm,
                     lastLogIndex : 0 .. MaxLog, commitIndex : 0 .. MaxLog]
  BY <1>1, <1>5, StoreFields DEF Metadata
<1>7. \A k \in 1 .. Len(todo') : todo'[k].op \in OpKinds
  BY <1>2, <1>3, OperationsKnown
<1>8. Len(steps') = 0
  BY <1>3
<1>9. FilesTypeOK'
  BY <1>1, <1>3, <1>4, <1>5, <1>6, <1>7, <1>8 DEF FilesInv, FilesTypeOK, OpKinds
<1> QED
  BY <1>1, <1>2, <1>3, <1>9 DEF FilesInv

LEMMA FileErrorFiles ==
    ASSUME FilesInv, FileError
    PROVE  FilesInv'
<1>1. /\ todo' = <<>> /\ steps' = <<>> /\ before' = store /\ failed' = TRUE
      /\ UNCHANGED <<up, term, store, acked, announced, metadata>>
      /\ cut' \in {cut, TRUE, FALSE} /\ broken' \in {broken, TRUE}
  BY DEF FileError, fileVars
<1>2. Len(todo') = 0 /\ Len(steps') = 0 /\ todo' \in Seq(FileOperation)
  BY <1>1
<1>3. cut' \in BOOLEAN /\ broken' \in BOOLEAN /\ failed' \in BOOLEAN
  BY <1>1, Zenon DEF FilesInv, FilesTypeOK
<1>4. FilesTypeOK'
  BY <1>1, <1>2, <1>3 DEF FilesInv, FilesTypeOK
<1> QED
  BY <1>1, <1>2, <1>4 DEF FilesInv

LEMMA KillFiles ==
    ASSUME FilesInv, Kill
    PROVE  FilesInv'
<1>1. /\ todo' = <<>> /\ steps' = <<>> /\ up' = FALSE /\ term' = 0 /\ failed' = FALSE
      /\ store' = [EmptyStore EXCEPT !.disk = store.disk] /\ before' = store'
      /\ UNCHANGED <<cut, broken, metadata, acked, announced>>
  BY DEF Kill, fileVars
<1>2. Len(todo') = 0 /\ Len(steps') = 0 /\ todo' \in Seq(FileOperation)
  BY <1>1
<1>3. up' \in BOOLEAN /\ failed' \in BOOLEAN
  BY <1>1, Zenon
<1>4. store' \in StoreType
  BY <1>1, EmptyStoreTyped, StoreFields, EffectOnStore DEF FilesInv, FilesTypeOK
<1>5. 0 \in 0 .. MaxTerm
  BY FilesBounds
<1>6. FilesTypeOK'
  BY <1>1, <1>2, <1>3, <1>4, <1>5 DEF FilesInv, FilesTypeOK
<1> QED
  BY <1>1, <1>2, <1>6 DEF FilesInv

LEMMA RecoveredTyped ==
    ASSUME FilesTypeOK, Loadable
    PROVE  /\ Recovered \in StoreType
           /\ Recovered.entries = store.disk /\ Recovered.disk = store.disk
           /\ metadata = Missing => Recovered.currentTerm = 0 /\ Recovered.lastLogIndex = 0
           /\ metadata # Missing => /\ metadata.state = "whole"
                                    /\ Recovered.currentTerm = metadata.currentTerm
                                    /\ Recovered.lastLogIndex = metadata.lastLogIndex
<1>1. store.disk \in FileLog /\ 0 \in 0 .. MaxTerm /\ 0 \in 0 .. MaxLog
  BY StoreFields, FilesBounds DEF FilesTypeOK
<1>2. \/ metadata = Missing
      \/ metadata \in [state : {"whole"}, currentTerm : 0 .. MaxTerm,
                       lastLogIndex : 0 .. MaxLog, commitIndex : 0 .. MaxLog]
  BY DEF FilesTypeOK, Loadable
<1>3. CASE metadata = Missing
  BY <1>1, <1>3 DEF Recovered, StoreType
<1>4. CASE metadata # Missing
  BY <1>1, <1>2, <1>4 DEF Recovered, StoreType
<1> QED
  BY <1>3, <1>4

LEMMA StartFiles ==
    ASSUME FilesInv, Start
    PROVE  FilesInv'
<1>1. /\ ~up /\ Loadable /\ up' = TRUE /\ store' = Recovered /\ before' = store'
      /\ term' = Recovered.currentTerm
      /\ UNCHANGED <<todo, steps, cut, broken, metadata, acked, announced, failed>>
  BY DEF Start, fileVars, historyVars
<1>2. store' \in StoreType /\ term' \in 0 .. MaxTerm
  BY <1>1, RecoveredTyped, StoreFields DEF FilesInv
<1>3. FilesTypeOK'
  BY <1>1, <1>2 DEF FilesInv, FilesTypeOK
<1> QED
  BY <1>1, <1>3 DEF FilesInv

\* FilesInv is kept by every step.
LEMMA FilesStep == FilesInv /\ [Next]_vars => FilesInv'
<1> SUFFICES ASSUME FilesInv, [Next]_vars PROVE FilesInv'
  OBVIOUS
<1>1. CASE Handler
  <2>1. CASE Announce
    BY <2>1, AnnounceFiles
  <2>2. CASE \E t \in 0 .. MaxTerm : \E operations :
               t >= term /\ AsksFor(t, operations) /\ Handle(t, operations)
    BY <1>1, <2>2, HandlersAsk, HandleFiles
  <2> QED
    BY <1>1, <2>1, <2>2, HandlersAsk
<1>2. CASE BeginOperation
  BY <1>2, BeginFiles
<1>3. CASE FileStep
  BY <1>3, WriteLineFiles, WriteNewlineFiles, RenameLogFiles, EmptyMetadataFiles,
     FillMetadataFiles DEF FileStep
<1>4. CASE FileError
  BY <1>4, FileErrorFiles
<1>5. CASE Kill
  BY <1>5, KillFiles
<1>6. CASE Start
  BY <1>6, StartFiles
<1>7. CASE UNCHANGED vars
  <2>1. UNCHANGED <<up, term, todo, steps, store, cut, broken, metadata, before,
                    acked, announced, mishaps, failed>>
    BY <1>7 DEF vars, memoryVars, fileVars, historyVars
  <2>2. UNCHANGED InProgress
    BY <2>1 DEF InProgress, Whole
  <2> QED
    BY <2>1, <2>2 DEF FilesInv, FilesTypeOK
<1> QED
  BY <1>1, <1>2, <1>3, <1>4, <1>5, <1>6, <1>7 DEF Next

\* At every point of every operation, killed or not, the files and the memory
\* stand as FilesInv says (all operations of Storage, src/src/storage.rs).
THEOREM FilesInvariant == Spec => []FilesInv
  BY InitFiles, FilesStep, PTL DEF Spec

\* The fields, the files and the operations under way hold what they stand
\* for, for every bound on terms, indices and mishaps (struct Storage).
THEOREM FilesTypeCorrect == Spec => []FilesTypeOK
<1>1. FilesInv => FilesTypeOK
  BY DEF FilesInv
<1> QED
  BY <1>1, FilesInvariant, PTL

-----------------------------------------------------------------------------
(* Terms *)

NoFailedSave == mishaps \cap {<<"error", "empty">>, <<"error", "fill">>} = {}

\* The manager has changed its term and the Storage is still to be told.
TermPending ==
    /\ todo # <<>> /\ Head(todo) = SetTerm(term)
    /\ Tail(todo) \in Seq(LogOperation)

\* The Storage has the manager's term, and so has the file once it is whole.
TermKept ==
    /\ store.currentTerm = term
    /\ todo \in Seq(LogOperation)
    /\ metadata = Torn => steps = <<"fill">>
    /\ metadata.state = "whole" => metadata.currentTerm = term
    /\ metadata = Missing => term = 0

TermInv ==
    NoFailedSave =>
        /\ metadata.state = "whole" => announced <= metadata.currentTerm
        /\ metadata = Missing => announced = 0
        /\ up => announced <= term /\ (TermPending \/ TermKept)

\* What each file operation leaves alone.
LEMMA FileStepShape ==
    ASSUME FilesInv, FileStep
    PROVE  /\ up /\ steps # <<>> /\ todo # <<>> /\ Head(todo) \in FileOperation
           /\ UNCHANGED <<up, term, announced, mishaps, failed>>
           /\ store'.entries = store.entries /\ store'.currentTerm = store.currentTerm
           /\ store'.lastLogIndex = store.lastLogIndex
           /\ \/ FillMetadata /\ steps = <<"fill">> /\ steps' = <<>>
              \/ /\ steps # <<"fill">> /\ steps' # <<>>
                 /\ UNCHANGED <<todo, before, acked>>
                 /\ \/ metadata' = metadata
                    \/ metadata' = Torn /\ steps' = <<"fill">>
<1>1. up /\ steps # <<>> /\ Advance
  BY DEF FileStep, WriteLine, WriteNewline, RenameLog, EmptyMetadata, FillMetadata, At
<1>2. todo # <<>> /\ Head(todo) \in FileOperation /\ store \in StoreType
  BY <1>1, StepsLeft DEF FilesInv, FilesTypeOK
<1>3. /\ UNCHANGED <<up, term, announced, mishaps, failed>>
      /\ steps' # <<>> => UNCHANGED <<todo, before, acked>>
      /\ steps' = <<>> <=> steps = <<"fill">>
  BY <1>1, AdvanceShape
<1>4. \E disk : store' = [store EXCEPT !.disk = disk]
  <2>1. store = [store EXCEPT !.disk = store.disk]
    BY <1>2, StoreFields
  <2> QED
    BY <2>1 DEF FileStep, WriteLine, WriteNewline, RenameLog, EmptyMetadata,
       FillMetadata, WrittenLine
<1>5. /\ store'.entries = store.entries /\ store'.currentTerm = store.currentTerm
      /\ store'.lastLogIndex = store.lastLogIndex
  BY <1>2, <1>4, StoreFields
<1>6. CASE FillMetadata
  <2>1. steps = <<"fill">>
    BY <1>1, <1>6, Stages DEF FillMetadata, At
  <2> QED
    BY <1>1, <1>2, <1>3, <1>5, <1>6, <2>1
<1>7. CASE EmptyMetadata
  <2>1. steps = <<"empty", "fill">> /\ metadata' = Torn
    BY <1>1, <1>7, Stages DEF EmptyMetadata, At
  <2>2. Tail(steps) = <<"fill">> /\ steps # <<"fill">>
    BY <2>1
  <2>3. steps' = <<"fill">>
    BY <1>1, <2>2 DEF Advance
  <2> QED
    BY <1>1, <1>2, <1>3, <1>5, <2>1, <2>2, <2>3
<1>8. CASE WriteLine \/ WriteNewline \/ RenameLog
  <2>1. metadata' = metadata /\ Head(steps) # "fill"
    BY <1>8 DEF WriteLine, WriteNewline, RenameLog, At
  <2>2. steps # <<"fill">>
    BY <2>1
  <2> QED
    BY <1>1, <1>2, <1>3, <1>5, <2>1, <2>2
<1> QED
  BY <1>6, <1>7, <1>8 DEF FileStep

LEMMA InitTerm == Init => TermInv
<1> SUFFICES ASSUME Init PROVE TermInv
  OBVIOUS
<1>1. todo = <<>> /\ <<>> \in Seq(LogOperation) /\ metadata.state = "missing"
      /\ metadata # Torn /\ term = 0 /\ announced = 0 /\ store.currentTerm = 0
  BY DEF Init, EmptyStore, Missing, Torn
<1> QED
  BY <1>1 DEF TermInv, TermKept

LEMMA HandleTerm ==
    ASSUME FilesInv, TermInv, IdleNode, NEW t \in 0 .. MaxTerm, NEW operations,
           t >= term, AsksFor(t, operations), Handle(t, operations)
    PROVE  TermInv'
<1>1. /\ term' = t /\ todo' = operations
      /\ UNCHANGED <<up, steps, store, metadata, announced, mishaps>>
  BY DEF Handle, fileVars, historyVars
<1>2. /\ up /\ todo = <<>> /\ term \in Int /\ t \in Int /\ announced \in Int
  BY FilesBounds DEF IdleNode, FilesInv, FilesTypeOK
<1>3. CASE t > term
  <2>1. operations # <<>> /\ Head(operations) = SetTerm(t)
        /\ Tail(operations) \in Seq(LogOperation)
    BY <1>3 DEF AsksFor
  <2>2. TermPending'
    BY <1>1, <2>1 DEF TermPending
  <2>3. NoFailedSave /\ announced <= term => announced <= t
    BY <1>2, <1>3
  <2> QED
    BY <1>1, <1>2, <2>2, <2>3 DEF TermInv, NoFailedSave
<1>4. CASE ~(t > term)
  <2>1. t = term /\ operations \in Seq(LogOperation)
    BY <1>2, <1>4 DEF AsksFor
  <2>2. ~TermPending
    BY <1>2 DEF TermPending
  <2>3. TermKept => TermKept'
    BY <1>1, <2>1 DEF TermKept
  <2> QED
    BY <1>1, <1>2, <2>1, <2>2, <2>3 DEF TermInv, NoFailedSave
<1> QED
  BY <1>3, <1>4

LEMMA AnnounceTerm ==
    ASSUME FilesInv, TermInv, Announce
    PROVE  TermInv'
<1>1. /\ up /\ todo = <<>> /\ term > announced /\ announced' = term
      /\ UNCHANGED <<up, term, todo, steps, store, metadata, mishaps>>
      /\ term \in Int /\ announced \in 0 .. MaxTerm
  BY FilesBounds DEF Announce, IdleNode, memoryVars, fileVars, FilesInv, FilesTypeOK
<1>2. ~TermPending /\ UNCHANGED <<NoFailedSave, TermKept>>
  BY <1>1 DEF TermPending, TermKept, NoFailedSave
<1>3. ASSUME NoFailedSave PROVE TermKept
  BY <1>1, <1>2, <1>3 DEF TermInv
<1>4. ASSUME NoFailedSave
      PROVE  /\ metadata.state = "whole" => term <= metadata.currentTerm
             /\ metadata # Missing
  BY <1>1, <1>3, <1>4 DEF TermKept
<1> QED
  BY <1>1, <1>2, <1>3, <1>4 DEF TermInv

LEMMA BeginTerm ==
    ASSUME FilesInv, TermInv, BeginOperation
    PROVE  TermInv'
<1>1. /\ up /\ todo # <<>> /\ steps = <<>>
      /\ store' = [Effect(store, Head(todo)) EXCEPT !.disk = store.disk]
      /\ UNCHANGED <<up, term, todo, metadata, announced, mishaps>>
  BY DEF BeginOperation, fileVars
<1>2. UNCHANGED <<NoFailedSave, TermPending>>
  BY <1>1 DEF NoFailedSave, TermPending
<1>3. ASSUME TermKept PROVE TermKept'
  <2>1. todo \in Seq(LogOperation)
    BY <1>3 DEF TermKept
  <2>2. Head(todo) \in LogOperation /\ Head(todo) \in FileOperation
    BY <1>1, <2>1 DEF FileOperation
  <2>3. Head(todo).op # "setTerm"
    BY <2>2, OperationKinds
  <2>4. store \in StoreType /\ store.disk \in FileLog
    BY StoreFields DEF FilesInv, FilesTypeOK
  <2> DEFINE e == Effect(store, Head(todo))
  <2>5. e \in StoreType /\ e.currentTerm = store.currentTerm
    BY <2>2, <2>3, <2>4, EffectTyped
  <2>6. store' = [e EXCEPT !.disk = store.disk]
    BY <1>1
  <2> HIDE DEF e
  <2>7. store'.currentTerm = store.currentTerm
    BY <2>4, <2>5, <2>6, EffectOnStore
  <2>8. metadata # Torn
    BY <1>1, <1>3 DEF TermKept
  <2> QED
    BY <1>1, <1>3, <2>7, <2>8 DEF TermKept
<1> QED
  BY <1>1, <1>2, <1>3 DEF TermInv

LEMMA FileStepTerm ==
    ASSUME FilesInv, TermInv, FileStep
    PROVE  TermInv'
<1>1. /\ up /\ steps # <<>> /\ todo # <<>> /\ Head(todo) \in FileOperation
      /\ UNCHANGED <<up, term, announced, mishaps>>
      /\ store'.currentTerm = store.currentTerm
  BY FileStepShape
<1>2. UNCHANGED NoFailedSave
  BY <1>1 DEF NoFailedSave
<1>3. CASE FillMetadata /\ steps = <<"fill">> /\ steps' = <<>>
  <2>1. /\ todo' = Tail(todo) /\ metadata' = Metadata(store)
    BY <1>1, <1>3, AdvanceShape DEF FillMetadata
  <2>2. /\ metadata'.state = "whole" /\ metadata'.currentTerm = store.currentTerm
        /\ metadata' # Missing /\ metadata' # Torn
    BY <2>1 DEF Metadata, Missing, Torn
  <2>3. ASSUME TermPending
        PROVE  store.currentTerm = term /\ Tail(todo) \in Seq(LogOperation)
    <3>1. Head(todo) = SetTerm(term)
      BY <2>3 DEF TermPending
    <3>2. Head(todo).op = "setTerm" /\ Head(todo).id = term
      BY <3>1 DEF SetTerm
    <3>3. before \in StoreType /\ store \in StoreType
          /\ store = [Whole EXCEPT !.disk = store.disk]
      BY <1>1 DEF FilesInv, FilesTypeOK, InProgress
    <3>4. Whole \in StoreType /\ Whole.currentTerm = term
      BY <1>1, <3>2, <3>3, EffectTyped DEF Whole
    <3> DEFINE d == store.disk
    <3>5. store = [Whole EXCEPT !.disk = d] /\ d \in FileLog
      BY <3>3, StoreFields
    <3> HIDE DEF Whole, d
    <3>6. store.currentTerm = term
      BY <3>4, <3>5, EffectOnStore
    <3> QED
      BY <2>3, <3>6 DEF TermPending
  <2>4. ASSUME TermKept
        PROVE  store.currentTerm = term /\ Tail(todo) \in Seq(LogOperation)
    <3>1. todo \in Seq(LogOperation)
      BY <2>4 DEF TermKept
    <3>2. Tail(todo) \in Seq(LogOperation)
      BY <1>1, <3>1
    <3> QED
      BY <2>4, <3>2 DEF TermKept
  <2>5. ASSUME NoFailedSave PROVE TermKept' /\ announced <= metadata'.currentTerm
    <3>1. (TermPending \/ TermKept) /\ announced <= term
      BY <1>1, <2>5 DEF TermInv
    <3>2. store.currentTerm = term /\ Tail(todo) \in Seq(LogOperation)
      BY <2>3, <2>4, <3>1
    <3> QED
      BY <1>1, <2>1, <2>2, <3>1, <3>2 DEF TermKept
  <2> QED
    BY <1>1, <1>2, <2>2, <2>5 DEF TermInv
<1>4. CASE /\ steps # <<"fill">> /\ todo' = todo
           /\ (metadata' = metadata \/ (metadata' = Torn /\ steps' = <<"fill">>))
  <2>1. TermPending => TermPending'
    BY <1>1, <1>4 DEF TermPending
  <2>2. Torn # Missing /\ Torn.state # "whole"
    BY DEF Torn, Missing
  <2>3. TermKept => TermKept'
    BY <1>1, <1>4, <2>2 DEF TermKept
  <2> QED
    BY <1>1, <1>2, <1>4, <2>1, <2>2, <2>3 DEF TermInv
<1>5. \/ FillMetadata /\ steps = <<"fill">> /\ steps' = <<>>
      \/ /\ steps # <<"fill">> /\ todo' = todo
         /\ (metadata' = metadata \/ (metadata' = Torn /\ steps' = <<"fill">>))
  BY FileStepShape
<1> QED
  BY <1>3, <1>4, <1>5

LEMMA ErrorTerm ==
    ASSUME FilesInv, TermInv, FileError
    PROVE  TermInv'
<1>1. /\ up /\ steps # <<>> /\ todo' = <<>> /\ steps' = <<>>
      /\ UNCHANGED <<up, term, store, announced, metadata>>
      /\ mishaps' = mishaps \cup {<<"error", Head(steps)>>}
  BY DEF FileError, Mishap, fileVars
<1>2. ASSUME NoFailedSave'
      PROVE  NoFailedSave /\ Head(steps) \notin {"empty", "fill"}
  BY <1>1, <1>2 DEF NoFailedSave
<1>3. ASSUME NoFailedSave' PROVE ~TermPending /\ steps # <<"fill">>
  <2>1. Head(steps) # "empty" /\ Head(steps) # "fill"
    BY <1>2, <1>3
  <2>2. Head(todo).op \in {"append", "truncate"} /\ steps # <<"fill">>
    BY <1>1, <2>1, StepsLeft
  <2> QED
    BY <2>2 DEF TermPending, SetTerm
<1>4. <<>> \in Seq(LogOperation)
  OBVIOUS
<1>5. ASSUME NoFailedSave' PROVE TermKept'
  <2>1. TermKept
    BY <1>1, <1>2, <1>3, <1>5 DEF TermInv
  <2>2. metadata # Torn
    BY <1>3, <1>5, <2>1 DEF TermKept
  <2> QED
    BY <1>1, <1>4, <2>1, <2>2 DEF TermKept
<1> QED
  BY <1>1, <1>2, <1>5 DEF TermInv

LEMMA KillTerm ==
    ASSUME FilesInv, TermInv, Kill
    PROVE  TermInv'
<1>1. /\ up' = FALSE /\ UNCHANGED <<metadata, announced>>
      /\ mishaps \subseteq mishaps'
  BY DEF Kill, Mishap, fileVars
<1>2. NoFailedSave' => NoFailedSave
  BY <1>1 DEF NoFailedSave
<1> QED
  BY <1>1, <1>2 DEF TermInv

LEMMA StartTerm ==
    ASSUME FilesInv, TermInv, Start
    PROVE  TermInv'
<1>1. /\ ~up /\ Loadable /\ store' = Recovered /\ term' = Recovered.currentTerm
      /\ UNCHANGED <<todo, steps, metadata, announced, mishaps>>
  BY DEF Start, fileVars, historyVars
<1>2. todo = <<>> /\ <<>> \in Seq(LogOperation) /\ metadata # Torn
  BY <1>1 DEF FilesInv, Loadable
<1>3. /\ metadata = Missing => term' = 0
      /\ metadata # Missing => metadata.state = "whole" /\ term' = metadata.currentTerm
      /\ store'.currentTerm = term' /\ term' \in Int
  BY <1>1, RecoveredTyped, StoreFields, FilesBounds DEF FilesInv
<1>4. Missing.state # "whole"
  BY DEF Missing
<1>5. TermKept'
  BY <1>1, <1>2, <1>3, <1>4 DEF TermKept
<1>6. UNCHANGED NoFailedSave
  BY <1>1 DEF NoFailedSave
<1>7. 0 <= 0
  OBVIOUS
<1>8. NoFailedSave => announced <= term'
  BY <1>3, <1>7 DEF TermInv
<1> QED
  BY <1>1, <1>5, <1>6, <1>8 DEF TermInv

LEMMA TermStep == FilesInv /\ TermInv /\ [Next]_vars => TermInv'
<1> SUFFICES ASSUME FilesInv, TermInv, [Next]_vars PROVE TermInv'
  OBVIOUS
<1>1. CASE Handler
  BY <1>1, HandlersAsk, HandleTerm, AnnounceTerm
<1>2. CASE BeginOperation
  BY <1>2, BeginTerm
<1>3. CASE FileStep
  BY <1>3, FileStepTerm
<1>4. CASE FileError
  BY <1>4, ErrorTerm
<1>5. CASE Kill
  BY <1>5, KillTerm
<1>6. CASE Start
  BY <1>6, StartTerm
<1>7. CASE UNCHANGED vars
  BY <1>7 DEF vars, memoryVars, fileVars, historyVars, TermInv, TermPending, TermKept,
     NoFailedSave
<1> QED
  BY <1>1, <1>2, <1>3, <1>4, <1>5, <1>6, <1>7 DEF Next

\* No kill and no error but that of a save makes a node forget a term it told:
\* the term is in its metadata before any response or request carries it
\* (handle_vote_request, handle_append_entries and start_election save it first).
THEOREM TermsSurvive == Spec => []TermSurvives
<1>1. TermInv => TermSurvives
  BY DEF TermInv, TermSurvives, NoFailedSave
<1> QED
  BY <1>1, FilesInvariant, InitTerm, TermStep, PTL DEF Spec

-----------------------------------------------------------------------------
(* Acknowledged entries *)

\* The entry at index n of a log file and of the memory is the acknowledged one.
OnDisk(n)   == n \in DOMAIN store.disk /\ store.disk[n].term = acked[n].term
InMemory(n) == /\ n \in DOMAIN store.entries /\ store.entries[n].term = acked[n].term
               /\ n <= store.lastLogIndex

AckInv ==
    /\ \A n \in DOMAIN acked :
          /\ ~broken => OnDisk(n)
          /\ metadata # Missing
          /\ metadata.state = "whole" => n <= metadata.lastLogIndex
          /\ up => InMemory(n)
    /\ steps # <<>> /\ Head(todo).op = "append" => Head(todo).id \notin DOMAIN acked

\* An operation keeps the entries it does not replace or truncate.
LEMMA EffectKeeps ==
    ASSUME NEW s \in StoreType, NEW o \in FileOperation, NEW n \in DOMAIN s.entries,
           n <= s.lastLogIndex,
           o.op = "append" => n # o.id,
           o.op = "truncate" => n < o.id
    PROVE  /\ n \in DOMAIN Effect(s, o).entries
           /\ Effect(s, o).entries[n].term = s.entries[n].term
           /\ n <= Effect(s, o).lastLogIndex
<1> DEFINE e == Effect(s, o)
<1>1. s.entries \in FileLog /\ n \in Int /\ s.lastLogIndex \in Int
  BY StoreFields, FileLogMembership, FilesBounds
<1>2. CASE o.op = "append"
  <2>1. /\ e.entries = With(s.entries, o.id, o.entry)
        /\ o.id \in 1 .. MaxLog /\ o.entry \in FileEntry
        /\ e.lastLogIndex >= s.lastLogIndex /\ e \in StoreType
    BY <1>2, AppendedDisk, AppendEffect DEF With
  <2> HIDE DEF e
  <2>2. e.lastLogIndex \in Int
    BY <2>1, StoreFields, FilesBounds
  <2>3. n \in DOMAIN e.entries
    BY <1>1, <2>1, WithMember
  <2>4. e.entries[n] = s.entries[n]
    BY <1>1, <1>2, <2>1, WithOld
  <2>5. n <= e.lastLogIndex
    BY <1>1, <2>1, <2>2
  <2> QED
    BY <2>3, <2>5, <2>4 DEF e
<1>3. CASE o.op = "truncate"
  <2> DEFINE kept == [k \in {m \in DOMAIN s.entries : m < o.id} |-> s.entries[k]]
  <2>1. e.entries = kept /\ e.lastLogIndex = Highest(DOMAIN kept)
        /\ \A k \in DOMAIN kept : k <= Highest(DOMAIN kept)
    BY <1>3, TruncatedFields, TruncateEffect
  <2>2. n \in DOMAIN kept /\ kept[n] = s.entries[n]
    BY <1>3
  <2> HIDE DEF e, kept
  <2>3. n \in DOMAIN e.entries /\ e.entries[n].term = s.entries[n].term
        /\ n <= e.lastLogIndex
    BY <2>1, <2>2
  <2> QED
    BY <2>3 DEF e
<1>4. CASE o.op = "commit"
  <2> DEFINE l == e.entries
  <2>1. /\ e = [s EXCEPT !.entries = l, !.commitIndex = o.id]
        /\ DOMAIN l = DOMAIN s.entries
        /\ \A k \in DOMAIN s.entries : l[k].term = s.entries[k].term
    BY <1>4, CommitEffect
  <2> HIDE DEF e, l
  <2>2. e.lastLogIndex = s.lastLogIndex
    BY <2>1, StoreFields
  <2> QED
    BY <2>1, <2>2 DEF e, l
<1>5. CASE o.op = "setTerm"
  BY <1>5, SetTermEffect, StoreFields
<1> QED
  BY <1>2, <1>3, <1>4, <1>5, OperationKinds

LEMMA EffectAdds ==
    ASSUME NEW s \in StoreType, NEW o \in FileOperation, o.op = "append"
    PROVE  /\ o.id \in DOMAIN Effect(s, o).entries /\ Effect(s, o).entries[o.id] = o.entry
           /\ o.id \in DOMAIN Effect(s, o).disk /\ Effect(s, o).disk[o.id] = o.entry
           /\ o.id <= Effect(s, o).lastLogIndex
<1> DEFINE e == Effect(s, o)
<1>1. /\ e.entries = With(s.entries, o.id, o.entry)
      /\ e.disk = With(s.disk, o.id, o.entry)
      /\ o.id \in 1 .. MaxLog /\ o.entry \in FileEntry
      /\ e.lastLogIndex >= o.id /\ e \in StoreType
  BY AppendedDisk, AppendEffect DEF With
<1> HIDE DEF e
<1>2. e.lastLogIndex \in Int /\ s.entries \in FileLog /\ s.disk \in FileLog
  BY <1>1, StoreFields, FilesBounds
<1>3. o.id \in DOMAIN e.entries /\ o.id \in DOMAIN e.disk
  BY <1>1, <1>2, WithMember
<1>4. e.entries[o.id] = o.entry /\ e.disk[o.id] = o.entry
  BY <1>1, <1>2, WithNew
<1>5. o.id <= e.lastLogIndex
  BY <1>1, <1>2
<1> QED
  BY <1>3, <1>5, <1>4 DEF e

LEMMA InitAck == Init => AckInv
  BY DEF Init, AckInv, EmptyLog

\* Nothing happens to the log and its entries.
LEMMA QuietAck ==
    ASSUME AckInv, UNCHANGED <<up, acked, broken, metadata, store>>, steps' = <<>>
    PROVE  AckInv'
  BY DEF AckInv, OnDisk, InMemory

LEMMA BeginAck ==
    ASSUME FilesInv, AckInv, BeginOperation
    PROVE  AckInv'
<1> DEFINE o == Head(todo)
           e == Effect(store, o)
           kept == {m \in DOMAIN acked :
                      CASE o.op = "append"   -> m # o.id
                        [] o.op = "truncate" -> m < o.id
                        [] OTHER             -> TRUE}
<1>1. /\ up /\ todo # <<>> /\ todo' = todo
      /\ store' = [e EXCEPT !.disk = store.disk]
      /\ acked' = [n \in kept |-> acked[n]]
      /\ UNCHANGED <<up, broken, metadata>>
  BY DEF BeginOperation, fileVars
<1>2. o \in FileOperation /\ store \in StoreType /\ store.disk \in FileLog
  BY <1>1, StoreFields DEF FilesInv, FilesTypeOK
<1>3. e \in StoreType
  BY <1>2, EffectTyped
<1>4. /\ store'.disk = store.disk /\ store'.entries = e.entries
      /\ store'.lastLogIndex = e.lastLogIndex
  <2> HIDE DEF e, o
  <2> QED
    BY <1>1, <1>2, <1>3, EffectOnStore
<1>5. /\ DOMAIN acked' = kept
      /\ \A n \in kept : /\ n \in DOMAIN acked /\ acked'[n] = acked[n]
                         /\ o.op = "append" => n # o.id
                         /\ o.op = "truncate" => n < o.id
  BY <1>1
<1> HIDE DEF kept, o
<1>6. ASSUME NEW n \in kept
      PROVE  /\ ~broken' => OnDisk(n)'
             /\ metadata' # Missing
             /\ metadata'.state = "whole" => n <= metadata'.lastLogIndex
             /\ up' => InMemory(n)'
  <2>1. n \in DOMAIN acked /\ acked'[n] = acked[n]
    BY <1>5, <1>6
  <2>2. InMemory(n)
    BY <1>1, <2>1 DEF AckInv
  <2>3. /\ n \in DOMAIN e.entries /\ e.entries[n].term = acked[n].term
        /\ n <= e.lastLogIndex
    BY <1>2, <1>5, <2>2, EffectKeeps DEF InMemory
  <2>4. InMemory(n)'
    BY <1>4, <2>1, <2>3 DEF InMemory
  <2>5. OnDisk(n) => OnDisk(n)'
    BY <1>4, <2>1 DEF OnDisk
  <2> QED
    BY <1>1, <2>1, <2>4, <2>5 DEF AckInv
<1>7. o.op = "append" => o.id \notin kept
  BY <1>5
<1> QED
  BY <1>1, <1>5, <1>6, <1>7 DEF AckInv, o

\* The operation is not finished, and the file keeps what it held.
LEMMA StepAck ==
    ASSUME FilesInv, AckInv, FileStep, steps' # <<>>, metadata' \in {metadata, Torn},
           ~broken' => \A n \in DOMAIN acked : n \in DOMAIN store'.disk
                                               /\ store'.disk[n].term = acked[n].term
    PROVE  AckInv'
<1>1. /\ up /\ steps # <<>> /\ UNCHANGED up
      /\ store'.entries = store.entries /\ store'.lastLogIndex = store.lastLogIndex
      /\ UNCHANGED <<todo, acked>>
  BY FileStepShape
<1>2. Torn # Missing /\ Torn.state # "whole"
  BY DEF Torn, Missing
<1>3. ASSUME NEW n \in DOMAIN acked
      PROVE  /\ ~broken' => OnDisk(n)'
             /\ metadata' # Missing
             /\ metadata'.state = "whole" => n <= metadata'.lastLogIndex
             /\ InMemory(n)'
  <2>1. /\ metadata # Missing /\ InMemory(n)
        /\ metadata.state = "whole" => n <= metadata.lastLogIndex
    BY <1>1 DEF AckInv
  <2>2. InMemory(n)'
    BY <1>1, <2>1 DEF InMemory
  <2>3. ~broken' => OnDisk(n)'
    BY <1>1 DEF OnDisk
  <2> QED
    BY <1>2, <2>1, <2>2, <2>3
<1> QED
  BY <1>1, <1>3 DEF AckInv

LEMMA WriteLineAck ==
    ASSUME FilesInv, AckInv, WriteLine
    PROVE  AckInv'
<1> DEFINE o == Head(todo)
           disk == With(store.disk, o.id, o.entry)
<1>1. /\ steps # <<>> /\ Head(steps) = "line" /\ FileStep
      /\ store' = IF cut THEN store ELSE WrittenLine(store, o)
      /\ broken' = (broken \/ cut) /\ metadata' = metadata
  BY DEF WriteLine, At, FileStep
<1>2. o \in FileOperation /\ o.op = "append" /\ steps' # <<>>
  <2>1. Head(todo).op = "append" /\ steps # <<"fill">>
    BY <1>1, StepsLeft
  <2> QED
    BY <1>1, <2>1, FileStepShape
<1>3. /\ store \in StoreType /\ store.disk \in FileLog
      /\ o.id \in 1 .. MaxLog /\ o.entry \in FileEntry
  <2>1. store \in StoreType
    BY DEF FilesInv, FilesTypeOK
  <2> QED
    BY <1>2, <2>1, StoreFields, AppendEffect
<1>4. o.id \notin DOMAIN acked
  BY <1>1, <1>2 DEF AckInv
<1> HIDE DEF o
<1>5. ASSUME ~broken', NEW n \in DOMAIN acked
      PROVE  n \in DOMAIN store'.disk /\ store'.disk[n].term = acked[n].term
  <2>1. store' = [store EXCEPT !.disk = disk] /\ ~broken
    BY <1>1, <1>5 DEF WrittenLine, With
  <2>2. OnDisk(n) /\ n # o.id
    BY <1>4, <2>1 DEF AckInv
  <2>3. n \in DOMAIN disk
    BY <1>3, <2>2, WithMember DEF OnDisk
  <2>4. disk[n] = store.disk[n]
    BY <1>3, <2>2, WithOld DEF OnDisk
  <2> HIDE DEF disk
  <2>5. store'.disk = disk
    BY <1>3, <2>1, StoreFields
  <2> QED
    BY <2>2, <2>3, <2>5, <2>4 DEF OnDisk
<1> QED
  BY <1>1, <1>2, <1>5, StepAck

LEMMA FillMetadataAck ==
    ASSUME FilesInv, AckInv, FillMetadata
    PROVE  AckInv'
<1> DEFINE o == Head(todo)
           new == With(acked, o.id, o.entry)
<1>1. /\ up /\ steps # <<>> /\ Head(steps) = "fill" /\ Advance /\ FileStep
      /\ metadata' = Metadata(store) /\ UNCHANGED <<store, broken>>
  BY DEF FillMetadata, At, FileStep
<1>2. /\ steps = <<"fill">> /\ todo # <<>> /\ o \in FileOperation /\ LogDone
      /\ store = [Whole EXCEPT !.disk = store.disk]
      /\ before \in StoreType /\ store \in StoreType /\ acked \in FileLog
  BY <1>1, Stages DEF FilesInv, FilesTypeOK, InProgress
<1>3. /\ steps' = <<>> /\ UNCHANGED up
      /\ acked' = IF o.op = "append" THEN new ELSE acked
  BY <1>1, <1>2, AdvanceShape DEF With
<1>4. /\ metadata'.state = "whole" /\ metadata' # Missing
      /\ metadata'.lastLogIndex = store.lastLogIndex
  BY <1>1 DEF Metadata, Missing
<1>5. ASSUME NEW n \in DOMAIN acked
      PROVE  InMemory(n) /\ (~broken => OnDisk(n)) /\ (o.op = "append" => n # o.id)
  BY <1>1, <1>2 DEF AckInv
<1>6. CASE o.op # "append"
  <2>1. acked' = acked
    BY <1>3, <1>6
  <2> QED
    BY <1>1, <1>3, <1>4, <1>5, <2>1 DEF AckInv, OnDisk, InMemory
<1>7. CASE o.op = "append"
  <2>1. o.id \in 1 .. MaxLog /\ o.entry \in FileEntry
    BY <1>2, <1>7, AppendEffect
  <2>2. DOMAIN acked' = DOMAIN acked \cup {o.id}
    BY <1>2, <1>3, <1>7, <2>1, WithDomain
  <2>3. acked'[o.id] = o.entry
    BY <1>2, <1>3, <1>7, <2>1, WithNew
  <2>4. \A n \in DOMAIN acked : n # o.id => acked'[n] = acked[n]
    BY <1>2, <1>3, <1>7, <2>1, WithOld
  <2>5. /\ Whole \in StoreType
        /\ o.id \in DOMAIN Whole.entries /\ Whole.entries[o.id] = o.entry
        /\ o.id \in DOMAIN Whole.disk /\ Whole.disk[o.id] = o.entry
        /\ o.id <= Whole.lastLogIndex
    BY <1>2, <1>7, EffectTyped, EffectAdds DEF Whole
  <2> DEFINE d == store.disk
  <2>6. d \in FileLog /\ store = [Whole EXCEPT !.disk = d]
    BY <1>2, StoreFields
  <2>7. store.entries = Whole.entries /\ store.lastLogIndex = Whole.lastLogIndex
    <3> HIDE DEF Whole, d
    <3> QED
      BY <2>5, <2>6, EffectOnStore
  <2>8. ~broken => d = Whole.disk
    BY <1>2 DEF LogDone
  <2> HIDE DEF Whole, o, new
  <2>9. ASSUME NEW n \in DOMAIN acked'
        PROVE  InMemory(n)' /\ (~broken' => OnDisk(n)')
    <3>1. CASE n = o.id
      BY <1>1, <2>3, <2>5, <2>7, <2>8, <3>1 DEF InMemory, OnDisk
    <3>2. CASE n # o.id
      BY <1>1, <1>5, <2>2, <2>4, <2>9, <3>2 DEF InMemory, OnDisk
    <3> QED
      BY <3>1, <3>2
  <2> QED
    BY <1>1, <1>3, <1>4, <2>9 DEF AckInv, InMemory
<1> QED
  BY <1>6, <1>7

LEMMA FileStepAck ==
    ASSUME FilesInv, AckInv, FileStep
    PROVE  AckInv'
<1>1. up /\ steps # <<>> /\ store \in StoreType
  BY FileStepShape DEF FilesInv, FilesTypeOK
<1>2. Head(steps) # "fill" => steps # <<"fill">>
  OBVIOUS
<1>3. Head(steps) # "fill" => steps' # <<>>
  BY <1>2, FileStepShape
<1>4. CASE WriteLine
  BY <1>4, WriteLineAck
<1>5. CASE WriteNewline
  <2>1. metadata' = metadata /\ UNCHANGED <<store, broken>> /\ Head(steps) # "fill"
    BY <1>5 DEF WriteNewline, At
  <2>2. ~broken' => \A n \in DOMAIN acked : n \in DOMAIN store'.disk
                                            /\ store'.disk[n].term = acked[n].term
    BY <2>1 DEF AckInv, OnDisk
  <2> QED
    BY <1>3, <2>1, <2>2, StepAck
<1>6. CASE RenameLog
  <2>1. /\ metadata' = metadata /\ Head(steps) # "fill"
        /\ store' = [store EXCEPT !.disk = store.entries]
    BY <1>6 DEF RenameLog, At
  <2>2. store'.disk = store.entries
    BY <1>1, <2>1, StoreFields
  <2>3. \A n \in DOMAIN acked : n \in DOMAIN store'.disk
                                /\ store'.disk[n].term = acked[n].term
    BY <1>1, <2>2 DEF AckInv, InMemory
  <2> QED
    BY <1>3, <2>1, <2>3, StepAck
<1>7. CASE EmptyMetadata
  <2>1. metadata' = Torn /\ UNCHANGED <<store, broken>> /\ Head(steps) # "fill"
    BY <1>7 DEF EmptyMetadata, At
  <2>2. ~broken' => \A n \in DOMAIN acked : n \in DOMAIN store'.disk
                                            /\ store'.disk[n].term = acked[n].term
    BY <2>1 DEF AckInv, OnDisk
  <2> QED
    BY <1>3, <2>1, <2>2, StepAck
<1>8. CASE FillMetadata
  BY <1>8, FillMetadataAck
<1> QED
  BY <1>4, <1>5, <1>6, <1>7, <1>8 DEF FileStep

LEMMA ErrorAck ==
    ASSUME AckInv, FileError
    PROVE  AckInv'
<1>1. /\ steps' = <<>> /\ UNCHANGED <<up, store, acked, metadata>>
      /\ broken' \in {broken, TRUE}
  BY DEF FileError, fileVars
<1>2. ~broken' => ~broken
  BY <1>1
<1> QED
  BY <1>1, <1>2 DEF AckInv, OnDisk, InMemory

LEMMA KillAck ==
    ASSUME FilesInv, AckInv, Kill
    PROVE  AckInv'
<1>1. /\ up' = FALSE /\ steps' = <<>> /\ UNCHANGED <<acked, metadata, broken>>
      /\ store' = [EmptyStore EXCEPT !.disk = store.disk]
  BY DEF Kill, fileVars
<1>2. store'.disk = store.disk
  BY <1>1 DEF EmptyStore
<1> QED
  BY <1>1, <1>2 DEF AckInv, OnDisk

LEMMA StartAck ==
    ASSUME FilesInv, AckInv, Start
    PROVE  AckInv'
<1>1. /\ ~up /\ ~broken /\ Loadable /\ store' = Recovered
      /\ UNCHANGED <<steps, todo, acked, metadata, broken>>
  BY DEF Start, Loadable, fileVars, historyVars
<1>2. /\ store'.entries = store.disk /\ store'.disk = store.disk
      /\ metadata # Missing => /\ metadata.state = "whole"
                               /\ store'.lastLogIndex = metadata.lastLogIndex
  BY <1>1, RecoveredTyped DEF FilesInv
<1>3. steps' = <<>>
  BY <1>1 DEF FilesInv
<1>4. ASSUME NEW n \in DOMAIN acked PROVE OnDisk(n)' /\ InMemory(n)'
  <2>1. /\ OnDisk(n) /\ metadata # Missing
        /\ metadata.state = "whole" => n <= metadata.lastLogIndex
    BY <1>1 DEF AckInv
  <2> QED
    BY <1>1, <1>2, <2>1 DEF OnDisk, InMemory
<1> QED
  BY <1>1, <1>3, <1>4 DEF AckInv

LEMMA AckStep == FilesInv /\ AckInv /\ [Next]_vars => AckInv'
<1> SUFFICES ASSUME FilesInv, AckInv, [Next]_vars PROVE AckInv'
  OBVIOUS
<1>1. CASE Handler
  <2>1. todo = <<>> /\ UNCHANGED <<up, acked, broken, metadata, store, steps>>
    BY <1>1 DEF Handler, StartElection, HearOfTerm, AppendEntries, ClientAppend,
       Announce, Handle, IdleNode, memoryVars, fileVars, historyVars
  <2>2. steps' = <<>>
    BY <2>1 DEF FilesInv
  <2> QED
    BY <2>1, <2>2, QuietAck
<1>2. CASE BeginOperation
  BY <1>2, BeginAck
<1>3. CASE FileStep
  BY <1>3, FileStepAck
<1>4. CASE FileError
  BY <1>4, ErrorAck
<1>5. CASE Kill
  BY <1>5, KillAck
<1>6. CASE Start
  BY <1>6, StartAck
<1>7. CASE UNCHANGED vars
  BY <1>7 DEF vars, memoryVars, fileVars, historyVars, AckInv, OnDisk, InMemory
<1> QED
  BY <1>1, <1>2, <1>3, <1>4, <1>5, <1>6, <1>7 DEF Next

\* An append that returned Ok stays in the log file and below the saved
\* last_log_index until it is truncated or replaced, whatever is killed or
\* fails, as long as the log is readable (Storage::append writes both files
\* before it returns).
THEOREM AcknowledgedSurvives == Spec => []AckedSurvive
<1>1. AckInv => AckedSurvive
  BY DEF AckInv, AckedSurvive, OnDisk
<1> QED
  BY <1>1, FilesInvariant, InitAck, AckStep, PTL DEF Spec

-----------------------------------------------------------------------------
(* What a restart finds *)

\* The operation in progress has not written anything yet that replaces lines.
LogUntouched == steps # <<>> /\ Head(steps) \in {"line", "rename"}

\* As long as no file operation failed, the log file has the entries from
\* before or from after the operation in progress, and the metadata is from
\* before it or is being written.
MatchInv ==
    /\ steps = <<>> => before = store
    /\ steps = <<"fill">> => metadata = Torn
    /\ up /\ ~failed =>
          /\ ~broken => IF LogUntouched THEN SameEntries(store.disk, before.entries)
                                        ELSE SameEntries(store.disk, store.entries)
          /\ steps # <<"fill">> => metadata # Torn /\ Saved(before)

\* Commits and terms leave the terms of the entries as they are, and take no mark.
LEMMA SavesKeepEntries ==
    ASSUME NEW s \in StoreType, NEW o \in FileOperation, o.op \in {"commit", "setTerm"},
           NEW log, SameEntries(log, s.entries)
    PROVE  SameEntries(log, Effect(s, o).entries)
<1>1. CASE o.op = "commit"
  <2> DEFINE l == Effect(s, o).entries
  <2>1. /\ DOMAIN l = DOMAIN s.entries
        /\ \A n \in DOMAIN s.entries : /\ l[n].term = s.entries[n].term
                                       /\ s.entries[n].committed => l[n].committed
    BY <1>1, CommitEffect
  <2> HIDE DEF l
  <2>2. SameEntries(log, l)
    BY <2>1 DEF SameEntries
  <2> QED
    BY <2>2 DEF l
<1>2. CASE o.op = "setTerm"
  <2>1. Effect(s, o).entries = s.entries
    BY <1>2, SetTermEffect, StoreFields
  <2> QED
    BY <2>1
<1> QED
  BY <1>1, <1>2

\* An append to file and memory keeps them alike.
LEMMA AppendKeepsEntries ==
    ASSUME NEW s \in StoreType, NEW o \in FileOperation, o.op = "append",
           SameEntries(s.disk, s.entries)
    PROVE  SameEntries(Effect(s, o).disk, Effect(s, o).entries)
<1> DEFINE e == Effect(s, o)
<1>1. /\ e.disk = With(s.disk, o.id, o.entry) /\ e.entries = With(s.entries, o.id, o.entry)
      /\ o.id \in 1 .. MaxLog /\ o.entry \in FileEntry
  BY AppendedDisk, AppendEffect DEF With
<1>2. s.disk \in FileLog /\ s.entries \in FileLog
  BY StoreFields
<1> HIDE DEF e
<1>3. DOMAIN e.disk = DOMAIN s.disk \cup {o.id} /\ DOMAIN e.entries = DOMAIN e.disk
  <2>1. DOMAIN With(s.disk, o.id, o.entry) = DOMAIN s.disk \cup {o.id}
    BY <1>1, <1>2, WithDomain, Zenon
  <2>2. DOMAIN With(s.entries, o.id, o.entry) = DOMAIN s.entries \cup {o.id}
    BY <1>1, <1>2, WithDomain, Zenon
  <2> QED
    BY <1>1, <2>1, <2>2 DEF SameEntries
<1>4. ASSUME NEW n \in DOMAIN e.disk
      PROVE  /\ e.disk[n].term = e.entries[n].term
             /\ e.disk[n].committed => e.entries[n].committed
  <2>1. CASE n = o.id
    BY <1>1, <1>2, <2>1, WithNew
  <2>2. CASE n # o.id
    <3>1. n \in DOMAIN s.disk /\ n \in DOMAIN s.entries
      BY <1>3, <2>2 DEF SameEntries
    <3>2. e.disk[n] = s.disk[n] /\ e.entries[n] = s.entries[n]
      BY <1>1, <1>2, <2>2, <3>1, WithOld
    <3> QED
      BY <3>1, <3>2 DEF SameEntries
  <2> QED
    BY <2>1, <2>2
<1> QED
  BY <1>3, <1>4 DEF SameEntries, e

LEMMA InitMatch == Init => MatchInv
<1> SUFFICES ASSUME Init PROVE MatchInv
  OBVIOUS
<1>1. /\ steps = <<>> /\ before = store /\ metadata = Missing /\ metadata # Torn
      /\ store.disk = store.entries /\ before.currentTerm = 0
      /\ before.lastLogIndex = 0 /\ before.commitIndex = 0
  BY DEF Init, EmptyStore, Missing, Torn
<1>2. <<>> # <<"fill">>
  OBVIOUS
<1> QED
  BY <1>1, <1>2 DEF MatchInv, SameEntries, Saved

LEMMA QuietMatch ==
    ASSUME MatchInv, UNCHANGED <<up, failed, steps, store, before, broken, metadata>>
    PROVE  MatchInv'
  BY DEF MatchInv, LogUntouched, SameEntries, Saved, Metadata

LEMMA BeginMatch ==
    ASSUME FilesInv, MatchInv, BeginOperation
    PROVE  MatchInv'
<1> DEFINE o == Head(todo)
           e == Effect(store, o)
<1>1. /\ up /\ todo # <<>> /\ steps = <<>> /\ before' = store /\ steps' = FileSteps(o)
      /\ store' = [e EXCEPT !.disk = store.disk]
      /\ UNCHANGED <<up, broken, metadata, failed>>
  BY DEF BeginOperation, fileVars
<1>2. o \in FileOperation /\ store \in StoreType /\ store.disk \in FileLog
  BY <1>1, StoreFields DEF FilesInv, FilesTypeOK
<1>3. e \in StoreType
  BY <1>2, EffectTyped
<1>4. store'.disk = store.disk /\ store'.entries = e.entries
  <2> HIDE DEF e, o
  <2> QED
    BY <1>1, <1>2, <1>3, EffectOnStore
<1>5. before = store /\ steps # <<"fill">> /\ ~LogUntouched
  BY <1>1 DEF MatchInv, LogUntouched
<1>6. /\ steps' # <<>> /\ steps' # <<"fill">>
      /\ \/ Head(steps') \in {"line", "rename"}
         \/ o.op \in {"commit", "setTerm"} /\ Head(steps') = "empty"
  <2> HIDE DEF o
  <2>1. CASE o.op = "append"
    BY <1>1, <1>2, <2>1, StepsKnown
  <2>2. CASE o.op = "truncate"
    BY <1>1, <1>2, <2>2, StepsKnown
  <2>3. CASE o.op \in {"commit", "setTerm"}
    BY <1>1, <1>2, <2>3, StepsKnown
  <2> QED
    BY <1>2, <2>1, <2>2, <2>3, OperationKinds
<1>7. ASSUME up, ~failed
      PROVE  metadata' # Torn /\ Saved(before)'
  BY <1>1, <1>5, <1>7 DEF MatchInv, Saved, Metadata
<1>8. ASSUME up, ~failed, ~broken
      PROVE  IF LogUntouched' THEN SameEntries(store.disk, before.entries)'
                              ELSE SameEntries(store.disk, store.entries)'
  <2>1. SameEntries(store.disk, store.entries)
    BY <1>5, <1>8 DEF MatchInv
  <2>2. CASE Head(steps') \in {"line", "rename"}
    BY <1>1, <1>4, <1>6, <2>1, <2>2 DEF LogUntouched, SameEntries
  <2>3. CASE o.op \in {"commit", "setTerm"} /\ Head(steps') = "empty"
    <3>1. SameEntries(store.disk, e.entries)
      BY <1>2, <2>1, <2>3, SavesKeepEntries
    <3>2. ~LogUntouched'
      BY <2>3 DEF LogUntouched
    <3> HIDE DEF e
    <3> QED
      BY <1>4, <3>1, <3>2 DEF SameEntries
  <2> QED
    BY <1>6, <2>2, <2>3
<1> QED
  BY <1>1, <1>6, <1>7, <1>8 DEF MatchInv

LEMMA WriteLineMatch ==
    ASSUME FilesInv, MatchInv, WriteLine
    PROVE  MatchInv'
<1> DEFINE o == Head(todo)
<1>1. /\ up /\ steps # <<>> /\ Head(steps) = "line" /\ Advance
      /\ store' = IF cut THEN store ELSE WrittenLine(store, o)
      /\ broken' = (broken \/ cut) /\ metadata' = metadata
  BY DEF WriteLine, At
<1>2. /\ o.op = "append" /\ o \in FileOperation
      /\ steps = <<"line", "newline", "empty", "fill">>
      /\ store.disk = before.disk
      /\ store = [Whole EXCEPT !.disk = store.disk]
      /\ before \in StoreType /\ store \in StoreType
  BY <1>1, StepsLeft DEF FilesInv, FilesTypeOK, InProgress
<1>3. /\ steps' = <<"newline", "empty", "fill">>
      /\ UNCHANGED <<up, before, failed>>
  BY <1>1, <1>2, AdvanceShape
<1>4. steps' # <<>> /\ steps' # <<"fill">> /\ steps # <<"fill">>
  BY <1>2, <1>3
<1>5. ASSUME up, ~failed
      PROVE  metadata' # Torn /\ Saved(before)'
  BY <1>1, <1>3, <1>4, <1>5 DEF MatchInv, Saved, Metadata
<1>6. ASSUME up, ~failed, ~broken'
      PROVE  SameEntries(store.disk, store.entries)'
  <2> DEFINE d == store.disk
             w == Overlay(d, [n \in {o.id} |-> o.entry])
  <2>1. ~broken /\ ~cut /\ store' = [store EXCEPT !.disk = w]
    BY <1>1, <1>6 DEF WrittenLine
  <2>2. Whole \in StoreType /\ d \in FileLog /\ Whole.disk = w
    BY <1>2, EffectTyped, StoreFields, AppendedDisk DEF Whole
  <2>3. w \in FileLog
    BY <2>2, StoreFields
  <2> HIDE DEF d, w
  <2>4. store.entries = Whole.entries
    <3>1. store = [Whole EXCEPT !.disk = d]
      BY <1>2 DEF d
    <3> HIDE DEF Whole
    <3> QED
      BY <2>2, <3>1, EffectOnStore
  <2>5. store'.disk = Whole.disk /\ store'.entries = Whole.entries
    <3> HIDE DEF Whole
    <3> QED
      BY <1>2, <2>1, <2>2, <2>3, <2>4, EffectOnStore
  <2>6. SameEntries(before.disk, before.entries)
    <3>1. LogUntouched
      BY <1>1 DEF LogUntouched
    <3>2. SameEntries(store.disk, before.entries)
      BY <1>1, <1>6, <2>1, <3>1 DEF MatchInv
    <3> QED
      BY <1>2, <3>2
  <2>7. SameEntries(Whole.disk, Whole.entries)
    BY <1>2, <2>6, AppendKeepsEntries DEF Whole
  <2> HIDE DEF Whole
  <2> QED
    BY <2>5, <2>7 DEF SameEntries
<1>7. ~LogUntouched'
  BY <1>3 DEF LogUntouched
<1> QED
  BY <1>3, <1>4, <1>5, <1>6, <1>7 DEF MatchInv

LEMMA RenameMatch ==
    ASSUME FilesInv, MatchInv, RenameLog
    PROVE  MatchInv'
<1>1. /\ steps # <<>> /\ Head(steps) = "rename" /\ Advance /\ metadata' = metadata
      /\ store' = [store EXCEPT !.disk = store.entries] /\ store \in StoreType
  BY DEF RenameLog, At, FilesInv, FilesTypeOK
<1>2. steps = <<"rename", "empty", "fill">>
  BY <1>1, Stages
<1>3. steps' = <<"empty", "fill">> /\ UNCHANGED <<up, before, failed>>
  BY <1>1, <1>2, AdvanceShape
<1>4. steps' # <<>> /\ steps' # <<"fill">> /\ steps # <<"fill">>
  BY <1>2, <1>3
<1>5. ~LogUntouched'
  BY <1>3 DEF LogUntouched
<1>6. store'.disk = store.entries /\ store'.entries = store.entries
  BY <1>1, StoreFields
<1>7. SameEntries(store.disk, store.entries)'
  BY <1>6 DEF SameEntries
<1>8. ASSUME up, ~failed
      PROVE  metadata' # Torn /\ Saved(before)'
  BY <1>1, <1>3, <1>4, <1>8 DEF MatchInv, Saved, Metadata
<1> QED
  BY <1>3, <1>4, <1>5, <1>7, <1>8 DEF MatchInv

\* The newline, and the emptying of the metadata, leave the log as it is.
LEMMA LaterMatch ==
    ASSUME FilesInv, MatchInv, WriteNewline \/ EmptyMetadata
    PROVE  MatchInv'
<1>1. /\ steps # <<>> /\ Head(steps) \in {"newline", "empty"} /\ Advance
      /\ UNCHANGED <<store, broken>>
      /\ \/ Head(steps) = "newline" /\ metadata' = metadata
         \/ Head(steps) = "empty" /\ metadata' = Torn
  BY DEF WriteNewline, EmptyMetadata, At
<1>2. \/ steps = <<"newline", "empty", "fill">> /\ metadata' = metadata
      \/ steps = <<"empty", "fill">> /\ metadata' = Torn
  BY <1>1, Stages
<1>3. steps # <<"fill">> /\ ~LogUntouched
  BY <1>1, <1>2 DEF LogUntouched
<1>4. /\ UNCHANGED <<up, before, failed>> /\ steps' = Tail(steps)
      /\ steps' # <<>>
  BY <1>1, <1>3, AdvanceShape
<1>5. \/ steps' = <<"empty", "fill">> /\ metadata' = metadata
      \/ steps' = <<"fill">> /\ metadata' = Torn
  <2>1. CASE steps = <<"newline", "empty", "fill">> /\ metadata' = metadata
    BY <1>4, <2>1
  <2>2. CASE steps = <<"empty", "fill">> /\ metadata' = Torn
    BY <1>4, <2>2
  <2> QED
    BY <1>2, <2>1, <2>2
<1>6. ~LogUntouched' /\ (steps' # <<"fill">> => metadata' = metadata)
      /\ (steps' = <<"fill">> => metadata' = Torn)
  BY <1>5 DEF LogUntouched
<1>7. ASSUME up, ~failed
      PROVE  /\ steps' # <<"fill">> => metadata' # Torn /\ Saved(before)'
             /\ ~broken => SameEntries(store.disk, store.entries)'
  BY <1>1, <1>3, <1>4, <1>6, <1>7 DEF MatchInv, Saved, Metadata, SameEntries
<1> QED
  BY <1>1, <1>4, <1>6, <1>7 DEF MatchInv

LEMMA FillMatch ==
    ASSUME FilesInv, MatchInv, FillMetadata
    PROVE  MatchInv'
<1>1. /\ steps # <<>> /\ Head(steps) = "fill" /\ Advance
      /\ metadata' = Metadata(store) /\ UNCHANGED <<store, broken>>
  BY DEF FillMetadata, At
<1>2. steps = <<"fill">> /\ ~LogUntouched
  BY <1>1, Stages DEF LogUntouched
<1>3. steps' = <<>> /\ before' = store' /\ UNCHANGED <<up, failed>>
  BY <1>1, <1>2, AdvanceShape
<1>4. metadata'.state = "whole" /\ metadata' = Metadata(store')
  BY <1>1 DEF Metadata
<1>5. metadata' # Torn /\ metadata' # Missing /\ Saved(before)'
  BY <1>3, <1>4 DEF Torn, Missing, Saved, Metadata
<1>6. ~LogUntouched' /\ steps' # <<"fill">>
  BY <1>3 DEF LogUntouched
<1>7. ASSUME up, ~failed, ~broken
      PROVE  SameEntries(store.disk, store.entries)'
  BY <1>1, <1>2, <1>7 DEF MatchInv, SameEntries
<1> QED
  BY <1>1, <1>3, <1>5, <1>6, <1>7 DEF MatchInv

LEMMA StartMatch ==
    ASSUME FilesInv, MatchInv, Start
    PROVE  MatchInv'
<1>1. /\ ~up /\ Loadable /\ store' = Recovered /\ before' = store'
      /\ UNCHANGED <<todo, steps, broken, metadata, failed>>
  BY DEF Start, fileVars, historyVars
<1>2. steps' = <<>> /\ steps' # <<"fill">> /\ ~LogUntouched'
  BY <1>1 DEF FilesInv, LogUntouched
<1>3. store'.entries = store'.disk
  BY <1>1 DEF Recovered
<1>4. SameEntries(store.disk, store.entries)'
  BY <1>3 DEF SameEntries
<1>5. metadata' # Torn /\ Saved(before)'
  <2>1. CASE metadata = Missing
    <3>1. /\ before'.currentTerm = 0 /\ before'.lastLogIndex = 0
          /\ before'.commitIndex = 0
      BY <1>1, <2>1 DEF Recovered
    <3> QED
      BY <1>1, <2>1, <3>1 DEF Saved, Loadable
  <2>2. CASE metadata # Missing
    <3>1. metadata \in [state : {"whole"}, currentTerm : 0 .. MaxTerm,
                       lastLogIndex : 0 .. MaxLog, commitIndex : 0 .. MaxLog]
      BY <1>1, <2>2 DEF FilesInv, FilesTypeOK, Loadable
    <3>2. /\ before'.currentTerm = metadata.currentTerm
          /\ before'.lastLogIndex = metadata.lastLogIndex
          /\ before'.commitIndex = metadata.commitIndex
      BY <1>1, <2>2 DEF Recovered
    <3>3. metadata = [state |-> "whole", currentTerm |-> metadata.currentTerm,
                      lastLogIndex |-> metadata.lastLogIndex,
                      commitIndex |-> metadata.commitIndex]
      BY <3>1
    <3> QED
      BY <1>1, <2>2, <3>2, <3>3 DEF Saved, Metadata, Loadable
  <2> QED
    BY <2>1, <2>2
<1> QED
  BY <1>1, <1>2, <1>4, <1>5 DEF MatchInv

LEMMA MatchStep == FilesInv /\ MatchInv /\ [Next]_vars => MatchInv'
<1> SUFFICES ASSUME FilesInv, MatchInv, [Next]_vars PROVE MatchInv'
  OBVIOUS
<1>1. CASE Handler
  BY <1>1, QuietMatch DEF Handler, StartElection, HearOfTerm, AppendEntries,
     ClientAppend, Announce, Handle, memoryVars, fileVars, historyVars
<1>2. CASE BeginOperation
  BY <1>2, BeginMatch
<1>3. CASE FileStep
  BY <1>3, WriteLineMatch, RenameMatch, LaterMatch, FillMatch DEF FileStep
<1>4. CASE FileError \/ Kill
  <2>1. /\ steps' = <<>> /\ before' = store'
        /\ (failed' = TRUE \/ up' = FALSE)
    BY <1>4 DEF FileError, Kill
  <2>2. steps' # <<"fill">>
    BY <2>1
  <2> QED
    BY <2>1, <2>2 DEF MatchInv
<1>5. CASE Start
  BY <1>5, StartMatch
<1>6. CASE UNCHANGED vars
  BY <1>6, QuietMatch DEF vars, memoryVars, fileVars, historyVars
<1> QED
  BY <1>1, <1>2, <1>3, <1>4, <1>5, <1>6 DEF Next

\* A restart after a kill at any file operation finds the entries, and the
\* metadata, from before or from after the operation in progress (Storage::load
\* of src/src/storage.rs), for every log and any number of kills.
THEOREM RestartsFind == Spec => []RestartFinds
<1>1. MatchInv => RestartFinds
  <2> SUFFICES ASSUME MatchInv, up, ~failed, Loadable
               PROVE  /\ SameEntries(Recovered.entries, before.entries)
                         \/ SameEntries(Recovered.entries, store.entries)
                      /\ Saved(before) \/ Saved(store)
    BY DEF RestartFinds
  <2>1. Recovered.entries = store.disk
    BY DEF Recovered
  <2>2. ~broken /\ steps # <<"fill">>
    BY DEF Loadable, MatchInv
  <2> QED
    BY <2>1, <2>2 DEF MatchInv
<1> QED
  BY <1>1, FilesInvariant, InitMatch, MatchStep, PTL DEF Spec

-----------------------------------------------------------------------------
(* What Replication relies on *)

\* Every operation of the Storage that returns Ok on a readable log, done file
\* operation by file operation, is one step of LogStore on the store it began
\* with, whatever was killed or failed before it, in this process or an earlier
\* one (append, truncate_from, commit_up_to and set_current_term of
\* src/src/storage.rs).
THEOREM OperationsAreAtomic == Spec => OperationsAtomic
<1> DEFINE Ends == up' /\ ~broken' /\ metadata' # Torn /\ Len(steps) = 1 /\ steps' = <<>>
           Done == store' = Effect(before, Head(todo)) /\ metadata' = Metadata(store')
<1>1. ASSUME FilesInv, MatchInv, [Next]_vars, Ends PROVE Done
  <2>1. steps # <<>>
    BY <1>1
  <2>2. steps # steps'
    BY <1>1, <2>1
  <2>3. ~Handler
    BY <2>2 DEF Handler, StartElection, HearOfTerm, AppendEntries, ClientAppend,
       Announce, Handle, memoryVars
  <2>4. ~BeginOperation /\ ~Kill /\ ~Start /\ ~FileError /\ vars' # vars
    <3>1. ~BeginOperation /\ ~Kill /\ ~Start /\ vars' # vars
      BY <1>1, <2>1, <2>2 DEF BeginOperation, Kill, Start, vars, memoryVars
    <3>2. ASSUME FileError PROVE FALSE
      <4>1. steps = <<"fill">>
        <5>1. steps \in {<<"line", "newline", "empty", "fill">>,
                        <<"newline", "empty", "fill">>, <<"rename", "empty", "fill">>,
                        <<"empty", "fill">>, <<"fill">>}
          BY <1>1, <2>1, StepsLeft
        <5>2. /\ Len(<<"line", "newline", "empty", "fill">>) # 1
              /\ Len(<<"newline", "empty", "fill">>) # 1
              /\ Len(<<"rename", "empty", "fill">>) # 1
              /\ Len(<<"empty", "fill">>) # 1
          OBVIOUS
        <5> QED
          BY <1>1, <5>1, <5>2
      <4>2. metadata = Torn
        BY <1>1, <4>1 DEF MatchInv
      <4>3. metadata' = metadata
        BY <3>2, <4>1 DEF FileError, fileVars
      <4> QED
        BY <1>1, <4>2, <4>3
    <3> QED
      BY <3>1, <3>2
  <2>5. FileStep
    BY <1>1, <2>3, <2>4 DEF Next
  <2>6. Advance /\ Head(steps) = "fill" => FillMetadata
    BY <2>5 DEF FileStep, WriteLine, WriteNewline, RenameLog, EmptyMetadata, At
  <2>7. Advance
    BY <2>5 DEF FileStep, WriteLine, WriteNewline, RenameLog, EmptyMetadata, FillMetadata
  <2>8. steps = <<"fill">> /\ Head(steps) = "fill"
    BY <1>1, <2>1, <2>7, AdvanceShape
  <2>9. metadata' = Metadata(store) /\ UNCHANGED <<store, broken>>
    BY <2>6, <2>7, <2>8 DEF FillMetadata
  <2>10. store = [Whole EXCEPT !.disk = store.disk] /\ LogDone /\ Whole \in StoreType
    <3>1. store = [Whole EXCEPT !.disk = store.disk] /\ before \in StoreType
      BY <1>1, <2>1 DEF FilesInv, FilesTypeOK, InProgress
    <3>2. LogDone
      BY <1>1, <2>1, <2>8, Stages
    <3>3. Whole \in StoreType
      BY <1>1, <2>1, <3>1, StepsLeft, EffectTyped DEF Whole
    <3> QED
      BY <3>1, <3>2, <3>3
  <2>11. store.disk = Whole.disk
    BY <1>1, <2>9, <2>10 DEF LogDone
  <2>12. store = Whole
    <3> HIDE DEF Whole
    <3> QED
      BY <2>10, <2>11, StoreFields
  <2> QED
    BY <2>9, <2>12 DEF Whole
<1>2. FilesInv /\ MatchInv /\ [Next]_vars => [Ends => Done]_vars
  BY <1>1
<1> QED
  BY <1>2, FilesInvariant, InitMatch, MatchStep, PTL DEF Spec, OperationsAtomic

-----------------------------------------------------------------------------
(* What does lasting damage *)

LogCauses  == {<<"kill", "newline">>, <<"error", "newline">>, <<"error", "line">>}
SaveCauses == {<<"kill", "fill">>, <<"error", "fill">>}

\* A file is damaged by the mishap in the one write that leaves it unfinished.
CauseInv ==
    /\ cut => At("newline") \/ mishaps \cap LogCauses # {}
    /\ broken => mishaps \cap LogCauses # {}
    /\ metadata = Torn => At("fill") \/ mishaps \cap SaveCauses # {}
    /\ failed => Errors # {}

LEMMA InitCause == Init => CauseInv
  BY DEF Init, CauseInv, Missing, Torn

\* Between two file operations nothing is unfinished.
LEMMA RestCause ==
    ASSUME CauseInv, ~up \/ steps = <<>>,
           UNCHANGED <<cut, broken, metadata, mishaps, failed>>
    PROVE  CauseInv'
<1>1. ~At("newline") /\ ~At("fill")
  BY DEF At
<1> QED
  BY <1>1 DEF CauseInv, Errors

LEMMA FileStepCause ==
    ASSUME FilesInv, CauseInv, FileStep
    PROVE  CauseInv'
<1>1. up' /\ steps # <<>> /\ steps' = Tail(steps) /\ UNCHANGED <<up, mishaps, failed>>
  <2>1. Advance /\ up /\ steps # <<>>
    BY DEF FileStep, WriteLine, WriteNewline, RenameLog, EmptyMetadata, FillMetadata, At
  <2> QED
    BY <2>1, AdvanceShape
<1>2. CASE WriteLine
  <2>1. /\ Head(steps) = "line" /\ broken' = (broken \/ cut) /\ metadata' = metadata
    BY <1>2 DEF WriteLine, At
  <2>2. steps = <<"line", "newline", "empty", "fill">>
    BY <1>1, <2>1, StepsLeft
  <2>3. At("newline")' /\ ~At("newline") /\ ~At("fill")
    BY <1>1, <2>1, <2>2 DEF At
  <2> QED
    BY <1>1, <2>1, <2>3 DEF CauseInv, Errors
<1>3. CASE WriteNewline
  <2>1. Head(steps) = "newline" /\ cut' = FALSE /\ UNCHANGED <<broken, metadata>>
    BY <1>3 DEF WriteNewline, At
  <2>2. ~At("fill")
    BY <2>1 DEF At
  <2> QED
    BY <1>1, <2>1, <2>2 DEF CauseInv, Errors
<1>4. CASE RenameLog
  <2>1. Head(steps) = "rename" /\ cut' = FALSE /\ broken' = FALSE /\ metadata' = metadata
    BY <1>4 DEF RenameLog, At
  <2>2. ~At("fill")
    BY <2>1 DEF At
  <2> QED
    BY <1>1, <2>1, <2>2 DEF CauseInv, Errors
<1>5. CASE EmptyMetadata
  <2>1. Head(steps) = "empty" /\ UNCHANGED <<cut, broken>>
    BY <1>5 DEF EmptyMetadata, At
  <2>2. steps = <<"empty", "fill">>
    BY <1>1, <2>1, Stages
  <2>3. At("fill")' /\ ~At("newline")
    BY <1>1, <2>1, <2>2 DEF At
  <2> QED
    BY <1>1, <2>1, <2>3 DEF CauseInv, Errors
<1>6. CASE FillMetadata
  <2>1. Head(steps) = "fill" /\ UNCHANGED <<cut, broken>> /\ metadata' = Metadata(store)
    BY <1>6 DEF FillMetadata, At
  <2>2. metadata'.state = "whole"
    BY <2>1 DEF Metadata
  <2>3. metadata' # Torn /\ ~At("newline")
    BY <2>1, <2>2 DEF Torn, At
  <2> QED
    BY <1>1, <2>1, <2>3 DEF CauseInv, Errors
<1> QED
  BY <1>2, <1>3, <1>4, <1>5, <1>6 DEF FileStep

\* A mishap is remembered, and so is each before it.
LEMMA MishapKept ==
    ASSUME NEW how, Mishap(how)
    PROVE  /\ <<how, Head(steps)>> \in mishaps'
           /\ mishaps \subseteq mishaps'
           /\ Errors \subseteq Errors'
           /\ how = "error" => Errors' # {}
<1>1. mishaps' = mishaps \cup {<<how, Head(steps)>>}
  BY DEF Mishap
<1>2. how = "error" => <<how, Head(steps)>> \in Errors'
  BY <1>1 DEF Errors
<1> QED
  BY <1>1, <1>2 DEF Errors

LEMMA ErrorCause ==
    ASSUME CauseInv, FileError
    PROVE  CauseInv'
<1>1. /\ up /\ steps # <<>> /\ Mishap("error") /\ metadata' = metadata
      /\ \/ UNCHANGED <<cut, broken>>
         \/ Head(steps) \in {"line", "newline"}
  BY DEF FileError, fileVars
<1>2. /\ <<"error", Head(steps)>> \in mishaps' /\ mishaps \subseteq mishaps'
      /\ Errors' # {}
  BY <1>1, MishapKept
<1>3. Head(steps) \in {"line", "newline"} => mishaps' \cap LogCauses # {}
  BY <1>2 DEF LogCauses
<1>4. Head(steps) = "fill" => mishaps' \cap SaveCauses # {}
  BY <1>2 DEF SaveCauses
<1>5. /\ mishaps \cap LogCauses # {} => mishaps' \cap LogCauses # {}
      /\ mishaps \cap SaveCauses # {} => mishaps' \cap SaveCauses # {}
  BY <1>2
<1>6. /\ At("newline") => Head(steps) = "newline"
      /\ At("fill") => Head(steps) = "fill"
  BY DEF At
<1> QED
  BY <1>1, <1>2, <1>3, <1>4, <1>5, <1>6 DEF CauseInv

LEMMA KillCause ==
    ASSUME CauseInv, Kill
    PROVE  CauseInv'
<1>1. /\ up /\ failed' = FALSE /\ UNCHANGED <<cut, broken, metadata>>
      /\ IF steps = <<>> THEN mishaps' = mishaps ELSE Mishap("kill")
  BY DEF Kill, fileVars
<1>2. /\ mishaps \subseteq mishaps'
      /\ steps # <<>> => <<"kill", Head(steps)>> \in mishaps'
  BY <1>1, MishapKept
<1>3. At("newline") => mishaps' \cap LogCauses # {}
  BY <1>2 DEF At, LogCauses
<1>4. At("fill") => mishaps' \cap SaveCauses # {}
  BY <1>2 DEF At, SaveCauses
<1>5. /\ mishaps \cap LogCauses # {} => mishaps' \cap LogCauses # {}
      /\ mishaps \cap SaveCauses # {} => mishaps' \cap SaveCauses # {}
  BY <1>2
<1> QED
  BY <1>1, <1>3, <1>4, <1>5 DEF CauseInv

LEMMA CauseStep == FilesInv /\ CauseInv /\ [Next]_vars => CauseInv'
<1> SUFFICES ASSUME FilesInv, CauseInv, [Next]_vars PROVE CauseInv'
  OBVIOUS
<1>1. CASE Handler
  <2>1. todo = <<>> /\ UNCHANGED <<cut, broken, metadata, mishaps, failed>>
    BY <1>1 DEF Handler, StartElection, HearOfTerm, AppendEntries, ClientAppend,
       Announce, Handle, IdleNode, fileVars, historyVars
  <2>2. steps = <<>>
    BY <2>1 DEF FilesInv
  <2> QED
    BY <2>1, <2>2, RestCause
<1>2. CASE BeginOperation \/ Start
  BY <1>2, RestCause DEF BeginOperation, Start, fileVars, historyVars
<1>3. CASE FileStep
  BY <1>3, FileStepCause
<1>4. CASE FileError
  BY <1>4, ErrorCause
<1>5. CASE Kill
  BY <1>5, KillCause
<1>6. CASE UNCHANGED vars
  BY <1>6 DEF vars, memoryVars, fileVars, historyVars, CauseInv, At, Errors
<1> QED
  BY <1>1, <1>2, <1>3, <1>4, <1>5, <1>6 DEF Next

-----------------------------------------------------------------------------
(* What leaves a gap in the log *)

\* The entries of a store are those up to its last index.
Gapless(s) == DOMAIN s.entries = 1 .. s.lastLogIndex

\* An operation that leaves no gap in a log of this last index.
Fits(o, last) ==
    /\ o.op = "append" => o.id <= last + 1
    /\ o.op = "truncate" => o.id \in 1 .. last

\* An operation that leaves no gap after the one before it.
Leads(o, p) ==
    /\ p.op = "append" => \/ o.op = "append" /\ p.id = o.id + 1
                          \/ o.op = "truncate" /\ p.id = o.id
    /\ p.op # "truncate"

Chain(q) == \A k \in 1 .. Len(q) - 1 : Leads(q[k], q[k + 1])

Planned(q, last) == Chain(q) /\ (q # <<>> => Fits(q[1], last))

\* A handler may adopt a term before it changes the log.
PlanFits(q, last) ==
    \/ Planned(q, last)
    \/ q # <<>> /\ Head(q).op = "setTerm" /\ Planned(Tail(q), last)

\* Nothing failed, and no kill came between the log file and the metadata.
Clean == Errors = {} /\ mishaps \cap Killed({"newline", "empty"}) = {}

\* Then the log has no gap before any operation of a handler, nor in what a
\* restart reads, and no operation left to the handler makes one.
GapInv ==
    Clean => /\ up => Gapless(before) /\ PlanFits(todo, before.lastLogIndex)
             /\ ~up /\ Loadable => Gapless(Recovered)

LEMMA GaplessAppend ==
    ASSUME NEW s \in StoreType, NEW o \in FileOperation, o.op = "append",
           Gapless(s), Fits(o, s.lastLogIndex)
    PROVE  /\ Gapless(Effect(s, o))
           /\ o.id <= Effect(s, o).lastLogIndex
<1> DEFINE e == Effect(s, o)
           last == s.lastLogIndex
           batch == [n \in {o.id} |-> o.entry]
<1>1. /\ o.id \in 1 .. MaxLog /\ o.entry \in FileEntry /\ last \in 0 .. MaxLog
      /\ s.entries \in FileLog
      /\ e.entries = With(s.entries, o.id, o.entry)
  <2>1. o.id \in 1 .. MaxLog /\ o.entry \in FileEntry
    BY DEF FileOperation, LogOperation
  <2>2. e.entries = With(s.entries, o.id, o.entry)
    BY AppendedDisk DEF With
  <2> QED
    BY <2>1, <2>2, StoreFields
<1>2. e.lastLogIndex = IF last >= o.id THEN last ELSE o.id
  <2>1. Highest(DOMAIN batch) = o.id
    <3>1. Max({o.id}) = o.id
      BY <1>1 DEF Max
    <3> QED
      BY <3>1 DEF Highest
  <2>2. e.lastLogIndex = Max({last, o.id})
    <3> DEFINE l == Overlay(s.entries, batch)
               d == Overlay(s.disk, batch)
               m == Max({last, Highest(DOMAIN batch)})
    <3>1. e = [s EXCEPT !.entries = l, !.disk = d, !.lastLogIndex = m]
      BY StoreFields DEF Effect, AppendBatch
    <3> HIDE DEF e, l, d, m
    <3>2. e.lastLogIndex = m
      BY <3>1, StoreFields
    <3> QED
      BY <2>1, <3>2 DEF m
  <2>3. last \in Int /\ o.id \in Int
    BY <1>1, FilesBounds
  <2> HIDE DEF e, last
  <2> QED
    BY <2>2, <2>3, PairMax
<1>3. DOMAIN s.entries = 1 .. last /\ o.id <= last + 1
  BY DEF Gapless, Fits
<1>4. DOMAIN e.entries = DOMAIN s.entries \cup {o.id}
  <2>1. DOMAIN With(s.entries, o.id, o.entry) = DOMAIN s.entries \cup {o.id}
    BY <1>1, WithDomain
  <2> HIDE DEF e
  <2> QED
    BY <1>1, <2>1
<1> HIDE DEF e, last
<1>5. last \in Int /\ o.id \in Int /\ 0 <= last /\ 1 <= o.id
  BY <1>1, FilesBounds
<1>6. (1 .. last) \cup {o.id} = 1 .. e.lastLogIndex
  BY <1>2, <1>3, <1>5
<1>7. o.id <= e.lastLogIndex
  BY <1>2, <1>5
<1> QED
  BY <1>3, <1>4, <1>6, <1>7 DEF Gapless, e

LEMMA HighestOfInterval ==
    ASSUME NEW n \in Nat
    PROVE  Highest(1 .. n) = n
<1>1. CASE n = 0
  <2>1. 1 .. n = {}
    BY <1>1
  <2> QED
    BY <1>1, <2>1 DEF Highest
<1>2. CASE n # 0
  <2>1. n \in 1 .. n /\ \A y \in 1 .. n : n >= y
    BY <1>2
  <2>2. \A x \in 1 .. n : (\A y \in 1 .. n : x >= y) => x = n
    BY <2>1
  <2>3. Max(1 .. n) = n
    BY <2>1, <2>2 DEF Max
  <2>4. 1 .. n # {}
    BY <2>1
  <2> QED
    BY <2>3, <2>4 DEF Highest
<1> QED
  BY <1>1, <1>2

LEMMA GaplessTruncate ==
    ASSUME NEW s \in StoreType, NEW o \in FileOperation, o.op = "truncate",
           Gapless(s), Fits(o, s.lastLogIndex)
    PROVE  /\ Gapless(Effect(s, o))
           /\ Effect(s, o).lastLogIndex = o.id - 1
<1> DEFINE e == Effect(s, o)
           kept == [n \in {m \in DOMAIN s.entries : m < o.id} |-> s.entries[n]]
<1>1. e.entries = kept /\ e.lastLogIndex = Highest(DOMAIN kept)
  BY TruncatedFields
<1>2. /\ DOMAIN s.entries = 1 .. s.lastLogIndex /\ o.id \in 1 .. s.lastLogIndex
      /\ s.lastLogIndex \in 0 .. MaxLog
  BY StoreFields DEF Gapless, Fits
<1>3. DOMAIN kept = {m \in 1 .. s.lastLogIndex : m < o.id}
  BY <1>2
<1>4. o.id - 1 \in Nat /\ {m \in 1 .. s.lastLogIndex : m < o.id} = 1 .. o.id - 1
  <2> DEFINE n == o.id
             last == s.lastLogIndex
  <2>1. n \in Int /\ last \in Int /\ 1 <= n /\ n <= last
    BY <1>2, FilesBounds
  <2> HIDE DEF n, last
  <2>2. n - 1 \in Nat /\ {m \in 1 .. last : m < n} = 1 .. n - 1
    BY <2>1
  <2> QED
    BY <2>2 DEF n, last
<1> HIDE DEF e, kept
<1>5. DOMAIN e.entries = 1 .. o.id - 1 /\ e.lastLogIndex = o.id - 1
  BY <1>1, <1>3, <1>4, HighestOfInterval
<1> QED
  BY <1>5 DEF Gapless, e

LEMMA GaplessSaves ==
    ASSUME NEW s \in StoreType, NEW o \in FileOperation, o.op \in {"commit", "setTerm"},
           Gapless(s)
    PROVE  /\ Gapless(Effect(s, o))
           /\ Effect(s, o).lastLogIndex = s.lastLogIndex
<1> DEFINE e == Effect(s, o)
<1>1. CASE o.op = "commit"
  <2> DEFINE l == e.entries
  <2>1. e = [s EXCEPT !.entries = l, !.commitIndex = o.id]
    BY <1>1, CommitEffect, Zenon
  <2>2. DOMAIN l = DOMAIN s.entries
    BY <1>1, CommitEffect, Zenon
  <2> HIDE DEF e, l
  <2>3. e.entries = l /\ e.lastLogIndex = s.lastLogIndex
    BY <2>1, StoreFields
  <2> QED
    BY <2>2, <2>3 DEF Gapless, e
<1>2. CASE o.op = "setTerm"
  <2>1. e.entries = s.entries /\ e.lastLogIndex = s.lastLogIndex
    BY <1>2, SetTermEffect, StoreFields
  <2> QED
    BY <2>1 DEF Gapless
<1> QED
  BY <1>1, <1>2

\* The rest of a chain is a chain, and begins where its head leads.
LEMMA ChainTail ==
    ASSUME NEW q \in Seq(FileOperation), q # <<>>, Chain(q)
    PROVE  /\ Tail(q) \in Seq(FileOperation) /\ Chain(Tail(q))
           /\ Tail(q) # <<>> => Leads(Head(q), Tail(q)[1])
<1>1. /\ Tail(q) \in Seq(FileOperation) /\ Len(q) \in Nat /\ Len(q) >= 1
      /\ Len(Tail(q)) = Len(q) - 1
      /\ \A k \in 1 .. Len(Tail(q)) : Tail(q)[k] = q[k + 1]
      /\ Head(q) = q[1]
  OBVIOUS
<1>2. ASSUME NEW k \in 1 .. Len(Tail(q)) - 1
      PROVE  Leads(Tail(q)[k], Tail(q)[k + 1])
  <2>1. k \in 1 .. Len(Tail(q)) /\ k + 1 \in 1 .. Len(Tail(q)) /\ k + 1 \in 1 .. Len(q) - 1
    BY <1>1
  <2>2. Leads(q[k + 1], q[(k + 1) + 1])
    BY <2>1 DEF Chain
  <2> HIDE DEF Leads
  <2> QED
    BY <1>1, <2>1, <2>2
<1>3. ASSUME Tail(q) # <<>>
      PROVE  Leads(Head(q), Tail(q)[1])
  <2>1. Len(Tail(q)) >= 1
    BY <1>1, <1>3
  <2>2. 1 \in 1 .. Len(q) - 1 /\ 1 \in 1 .. Len(Tail(q))
    BY <1>1, <2>1
  <2>3. Leads(q[1], q[1 + 1])
    BY <2>2 DEF Chain
  <2> QED
    BY <1>1, <2>2, <2>3
<1> QED
  BY <1>1, <1>2, <1>3 DEF Chain

\* Two chains that fit together make one.
LEMMA ChainJoin ==
    ASSUME NEW p \in Seq(FileOperation), NEW q \in Seq(FileOperation),
           Chain(p), Chain(q), p # <<>> /\ q # <<>> => Leads(p[Len(p)], q[1])
    PROVE  Chain(p \o q) /\ p \o q \in Seq(FileOperation)
<1> DEFINE r == p \o q
<1>1. /\ r \in Seq(FileOperation) /\ Len(p) \in Nat /\ Len(q) \in Nat
      /\ Len(r) = Len(p) + Len(q)
      /\ \A k \in 1 .. Len(p) : r[k] = p[k]
      /\ \A k \in 1 .. Len(q) : r[Len(p) + k] = q[k]
  OBVIOUS
<1> HIDE DEF r
<1>2. ASSUME NEW k \in 1 .. Len(r) - 1
      PROVE  Leads(r[k], r[k + 1])
  <2>1. CASE k < Len(p)
    <3>1. k \in 1 .. Len(p) - 1 /\ k \in 1 .. Len(p) /\ k + 1 \in 1 .. Len(p)
      BY <1>1, <2>1
    <3> QED
      BY <1>1, <3>1 DEF Chain
  <2>2. CASE k = Len(p)
    <3>1. k \in 1 .. Len(p) /\ 1 \in 1 .. Len(q) /\ p # <<>> /\ q # <<>>
      BY <1>1, <2>2
    <3>2. r[k] = p[Len(p)] /\ r[k + 1] = q[1]
      BY <1>1, <2>2, <3>1
    <3> QED
      BY <3>1, <3>2
  <2>3. CASE k > Len(p)
    <3> DEFINE j == k - Len(p)
    <3>1. /\ j \in 1 .. Len(q) - 1 /\ j \in 1 .. Len(q) /\ j + 1 \in 1 .. Len(q)
          /\ k = Len(p) + j /\ k + 1 = Len(p) + (j + 1)
      BY <1>1, <2>3
    <3> HIDE DEF j
    <3>2. r[k] = q[j] /\ r[k + 1] = q[j + 1]
      BY <1>1, <3>1
    <3>3. Leads(q[j], q[j + 1])
      BY <3>1 DEF Chain
    <3> QED
      BY <3>2, <3>3
  <2> QED
    BY <1>1, <2>1, <2>2, <2>3
<1> QED
  BY <1>1, <1>2 DEF Chain, r

\* An operation done, the rest of the plan fits what it made of the log.
LEMMA OperationDone ==
    ASSUME NEW s \in StoreType, NEW q \in Seq(FileOperation), q # <<>>,
           Gapless(s), PlanFits(q, s.lastLogIndex)
    PROVE  /\ Gapless(Effect(s, Head(q)))
           /\ PlanFits(Tail(q), Effect(s, Head(q)).lastLogIndex)
<1> DEFINE o == Head(q)
           e == Effect(s, o)
<1>1. o \in FileOperation /\ o = q[1]
  OBVIOUS
<1>2. CASE Planned(q, s.lastLogIndex)
  <2>1. Fits(o, s.lastLogIndex) /\ Chain(q)
    BY <1>1, <1>2 DEF Planned
  <2>2. /\ Tail(q) \in Seq(FileOperation) /\ Chain(Tail(q))
        /\ Tail(q) # <<>> => Leads(o, Tail(q)[1])
    BY <2>1, ChainTail
  <2> DEFINE p == Tail(q)[1]
  <2>3. ASSUME Tail(q) # <<>>, p.op = "append"
        PROVE  p.id \in Int /\ o.id \in Int
    <3>1. p \in FileOperation
      BY <2>2, <2>3
    <3>2. o.op \in {"append", "truncate"}
      BY <2>2, <2>3 DEF Leads
    <3> QED
      BY <1>1, <2>3, <3>1, <3>2, FilesBounds DEF FileOperation, LogOperation
  <2> HIDE DEF o, e, p
  <2>4. ASSUME o.op = "append"
        PROVE  Gapless(e) /\ o.id <= e.lastLogIndex
    BY <1>1, <2>1, <2>4, GaplessAppend DEF e
  <2>5. ASSUME o.op = "truncate"
        PROVE  Gapless(e) /\ e.lastLogIndex = o.id - 1
    BY <1>1, <2>1, <2>5, GaplessTruncate DEF e
  <2>6. Gapless(e) /\ e \in StoreType
    BY <1>1, <2>4, <2>5, GaplessSaves, EffectTyped, OperationKinds DEF e
  <2>7. ASSUME Tail(q) # <<>>
        PROVE  Fits(p, e.lastLogIndex)
    <3>1. Leads(o, p)
      BY <2>2, <2>7 DEF p
    <3>2. e.lastLogIndex \in Int
      BY <2>6, StoreFields, FilesBounds
    <3>3. ASSUME p.op = "append"
          PROVE  p.id <= e.lastLogIndex + 1
      <4>1. p.id \in Int /\ o.id \in Int
        BY <2>3, <2>7, <3>3
      <4>2. CASE o.op = "append" /\ p.id = o.id + 1
        BY <2>4, <3>2, <4>1, <4>2
      <4>3. CASE o.op = "truncate" /\ p.id = o.id
        BY <2>5, <3>2, <4>1, <4>3
      <4> QED
        BY <3>1, <3>3, <4>2, <4>3 DEF Leads
    <3> QED
      BY <3>1, <3>3 DEF Leads, Fits
  <2> QED
    BY <2>2, <2>6, <2>7 DEF PlanFits, Planned, o, e, p
<1>3. CASE o.op = "setTerm" /\ Planned(Tail(q), s.lastLogIndex)
  <2> HIDE DEF o
  <2>1. Gapless(e) /\ e.lastLogIndex = s.lastLogIndex
    BY <1>1, <1>3, GaplessSaves
  <2> QED
    BY <1>3, <2>1 DEF PlanFits, o
<1> QED
  BY <1>2, <1>3 DEF PlanFits

\* Entries with consecutive indices make a chain.
LEMMA AppendsChain ==
    ASSUME NEW t \in 0 .. MaxTerm, NEW batch \in Batches(t)
    PROVE  /\ Appends(batch) \in Seq(FileOperation) /\ Chain(Appends(batch))
           /\ DOMAIN batch = {} => Appends(batch) = <<>>
           /\ DOMAIN batch # {} =>
                 /\ Appends(batch) # <<>> /\ Min(DOMAIN batch) \in 1 .. MaxLog
                 /\ Appends(batch)[1].op = "append"
                 /\ Appends(batch)[1].id = Min(DOMAIN batch)
<1> DEFINE B == Appends(batch)
<1>1. PICK first \in 1 .. MaxLog, last \in 0 .. MaxLog : DOMAIN batch = first .. last
  BY BatchShape
<1> DEFINE size == IF first > last THEN 0 ELSE last - first + 1
           least == Min(DOMAIN batch)
<1>2. first \in Int /\ last \in Int /\ Cardinality(DOMAIN batch) = size /\ size \in Nat
  BY <1>1, FS_Interval, FilesBounds
<1>3. DOMAIN batch = {} => size = 0
  BY <1>1, <1>2
<1>4. DOMAIN batch # {} => size >= 1 /\ least = first
  <2>1. ASSUME NEW n \in first .. last
        PROVE  first <= last
    BY <1>2
  <2>2. DOMAIN batch # {} => first <= last
    BY <1>1, <2>1
  <2>3. first <= last => Min(first .. last) = first
    BY <1>2, IntervalLeast
  <2> QED
    BY <1>1, <1>2, <2>2, <2>3
<1>5. B = [k \in 1 .. size |-> Append1(least + k - 1, batch[least + k - 1])]
  BY <1>2 DEF Appends
<1>6. B \in Seq(FileOperation)
  BY AppendsTyped, LogOperationsTyped
<1> HIDE DEF size, least, B
<1>7. Len(B) = size /\ \A k \in 1 .. size : B[k].op = "append" /\ B[k].id = least + k - 1
  BY <1>2, <1>5, <1>6 DEF Append1
<1>8. ASSUME DOMAIN batch = {}
      PROVE  B = <<>>
  BY <1>3, <1>6, <1>7, <1>8
<1>9. ASSUME DOMAIN batch # {}
      PROVE  /\ B # <<>> /\ least \in 1 .. MaxLog
             /\ B[1].op = "append" /\ B[1].id = least
  <2>1. size >= 1 /\ least = first /\ 1 \in 1 .. size
    BY <1>2, <1>4, <1>9
  <2>2. B[1].op = "append" /\ B[1].id = least + 1 - 1
    BY <1>7, <2>1
  <2>3. B # <<>>
    BY <1>6, <1>7, <2>1
  <2> QED
    BY <1>2, <2>1, <2>2, <2>3
<1>10. Chain(B)
  <2> SUFFICES ASSUME NEW k \in 1 .. size - 1 PROVE Leads(B[k], B[k + 1])
    BY <1>7 DEF Chain
  <2>1. k \in 1 .. size /\ k + 1 \in 1 .. size /\ size # 0
    BY <1>2
  <2> DEFINE ids == DOMAIN batch
  <2> HIDE DEF ids
  <2>2. least \in Int
    <3>1. ids # {}
      BY <1>3, <2>1 DEF ids
    <3> QED
      BY <1>2, <1>4, <3>1 DEF ids
  <2>3. /\ B[k].op = "append" /\ B[k].id = least + k - 1
        /\ B[k + 1].op = "append" /\ B[k + 1].id = least + (k + 1) - 1
    BY <1>7, <2>1
  <2> QED
    BY <2>2, <2>3 DEF Leads
<1> QED
  BY <1>6, <1>8, <1>9, <1>10 DEF B, least

\* Commits make a chain, and fit after anything.
LEMMA CommitsChain ==
    ASSUME NEW q \in Seq(FileOperation), \A k \in 1 .. Len(q) : q[k].op = "commit"
    PROVE  /\ Chain(q)
           /\ \A o : q # <<>> => Leads(o, q[1])
           /\ \A last : q # <<>> => Fits(q[1], last)
<1>1. \A k \in 1 .. Len(q) : \A o : Leads(o, q[k])
  BY DEF Leads
<1>2. Chain(q)
  <2> SUFFICES ASSUME NEW k \in 1 .. Len(q) - 1 PROVE Leads(q[k], q[k + 1])
    BY DEF Chain
  <2>1. Len(q) \in Nat
    OBVIOUS
  <2>2. k + 1 \in 1 .. Len(q)
    BY <2>1
  <2> QED
    BY <1>1, <2>2
<1>3. q # <<>> => 1 \in 1 .. Len(q)
  OBVIOUS
<1>4. ASSUME NEW last, q # <<>>
      PROVE  Fits(q[1], last)
  BY <1>3, <1>4 DEF Fits
<1> QED
  BY <1>1, <1>2, <1>3, <1>4

LEMMA SingleChain ==
    ASSUME NEW o \in FileOperation
    PROVE  /\ <<o>> \in Seq(FileOperation) /\ Chain(<<o>>) /\ <<o>> # <<>>
           /\ Len(<<o>>) = 1 /\ <<o>>[1] = o /\ Head(<<o>>) = o
<1>1. /\ <<o>> \in Seq(FileOperation) /\ <<o>> # <<>> /\ Len(<<o>>) = 1
      /\ <<o>>[1] = o /\ Head(<<o>>) = o
  OBVIOUS
<1>2. \A k \in 1 .. 0 : FALSE
  OBVIOUS
<1> QED
  BY <1>1, <1>2 DEF Chain

\* A plan joined to another begins as it did, unless it was empty.
LEMMA JoinedBegins ==
    ASSUME NEW p \in Seq(FileOperation), NEW q \in Seq(FileOperation)
    PROVE  /\ p # <<>> => p \o q # <<>> /\ (p \o q)[1] = p[1]
           /\ p = <<>> => p \o q = q
           /\ q = <<>> => p \o q = p
  OBVIOUS

\* Concatenation is associative.
LEMMA JoinedThrice ==
    ASSUME NEW p \in Seq(FileOperation), NEW q \in Seq(FileOperation),
           NEW r \in Seq(FileOperation)
    PROVE  (p \o q) \o r = p \o (q \o r)
<1> DEFINE u == (p \o q) \o r
           v == p \o (q \o r)
<1>1. /\ Len(p) \in Nat /\ Len(q) \in Nat /\ Len(r) \in Nat
      /\ p \o q \in Seq(FileOperation) /\ q \o r \in Seq(FileOperation) /\ u \in Seq(FileOperation) /\ v \in Seq(FileOperation)
      /\ Len(p \o q) = Len(p) + Len(q) /\ Len(q \o r) = Len(q) + Len(r)
  OBVIOUS
<1>2. Len(u) = Len(p) + Len(q) + Len(r) /\ Len(v) = Len(p) + Len(q) + Len(r)
  BY <1>1
<1>3. ASSUME NEW k \in 1 .. Len(u)
      PROVE  u[k] = v[k]
  <2>1. CASE k <= Len(p)
    <3>1. u[k] = p[k]
      BY <1>1, <1>2, <2>1
    <3>2. v[k] = p[k]
      BY <1>1, <1>2, <2>1
    <3> QED
      BY <3>1, <3>2
  <2>2. CASE k > Len(p) /\ k <= Len(p) + Len(q)
    <3>1. u[k] = q[k - Len(p)]
      BY <1>1, <1>2, <2>2
    <3>2. v[k] = q[k - Len(p)]
      BY <1>1, <1>2, <2>2
    <3> QED
      BY <3>1, <3>2
  <2>3. CASE k > Len(p) + Len(q)
    <3>1. u[k] = r[k - (Len(p) + Len(q))]
      BY <1>1, <1>2, <2>3
    <3>2. v[k] = r[k - (Len(p) + Len(q))]
      BY <1>1, <1>2, <2>3
    <3> QED
      BY <3>1, <3>2
  <2> QED
    BY <1>1, <1>2, <2>1, <2>2, <2>3
<1> HIDE DEF u, v
<1>4. u = v
  BY <1>1, <1>2, <1>3, SameElements
<1> QED
  BY <1>4 DEF u, v

\* The entries of a request fit the log they are for: a conflict is truncated
\* where the entries begin, and otherwise they begin next to what is there.
LEMMA AppendEntriesFit ==
    ASSUME FilesInv, Gapless(store), NEW t \in 0 .. MaxTerm, NEW batch \in Batches(t),
           NEW leaderCommit \in 0 .. MaxLog, AppendEntries(t, batch, leaderCommit)
    PROVE  PlanFits(todo', store.lastLogIndex)
<1> DEFINE A == ConflictAt(batch)
           B == Appends(batch)
           C == CommitTo(batch, leaderCommit)
           first == Min(DOMAIN batch)
           last  == store.lastLogIndex
<1>1. /\ todo' = AdoptTerm(t) \o A \o B \o C
      /\ DOMAIN batch # {} => first = 1 \/ first - 1 \in DOMAIN store.entries
  BY DEF AppendEntries, Handle
<1>2. DOMAIN store.entries = 1 .. last /\ last \in 0 .. MaxLog /\ last \in Int
  BY StoreFields, FilesBounds DEF Gapless, FilesInv, FilesTypeOK
<1>3. /\ A \in Seq(FileOperation) /\ B \in Seq(FileOperation) /\ C \in Seq(FileOperation)
  BY AppendsTyped, ConflictTyped, CommitTyped, LogOperationsTyped
<1>4. /\ Chain(B)
      /\ DOMAIN batch = {} => B = <<>>
      /\ DOMAIN batch # {} => /\ B # <<>> /\ B[1].op = "append" /\ B[1].id = first
                              /\ first \in 1 .. MaxLog
  BY AppendsChain
<1>5. \/ A = <<>>
      \/ /\ A = <<Truncate(first)>> /\ DOMAIN batch # {}
         /\ first \in DOMAIN store.entries
  BY DEF ConflictAt
<1>6. C = <<>> \/ \E index : C = <<Commit(index)>>
  BY DEF CommitTo
<1>7. /\ Chain(C) /\ \A o : C # <<>> => Leads(o, C[1])
      /\ C # <<>> => Fits(C[1], last)
  <2>1. \A k \in 1 .. Len(C) : C[k].op = "commit"
    <3>1. CASE C = <<>>
      BY <3>1
    <3>2. ASSUME NEW index, C = <<Commit(index)>>
          PROVE  \A k \in 1 .. Len(C) : C[k].op = "commit"
      <4>1. Len(C) = 1 /\ C[1] = Commit(index)
        BY <3>2
      <4>2. Commit(index).op = "commit"
        BY DEF Commit
      <4> QED
        BY <4>1, <4>2
    <3> QED
      BY <1>6, <3>1, <3>2
  <2> HIDE DEF C
  <2> QED
    BY <1>3, <2>1, CommitsChain
<1> HIDE DEF A, B, C, first, last
<1> DEFINE BC == B \o C
<1>8. /\ BC \in Seq(FileOperation) /\ Chain(BC)
      /\ B # <<>> => BC # <<>> /\ BC[1] = B[1]
      /\ B = <<>> => BC = C
  BY <1>3, <1>4, <1>7, ChainJoin, JoinedBegins
<1>9. DOMAIN batch # {} => B[1].id \in Int /\ first \in Int /\ (first = 1 \/ first - 1 <= last)
  BY <1>1, <1>2, <1>4, FilesBounds
<1>10. Planned(A \o BC, last)
  <2> HIDE DEF BC
  <2>1. CASE A = <<>>
    <3>1. A \o BC = BC
      BY <1>3, <1>8, <2>1, JoinedBegins
    <3>2. CASE DOMAIN batch = {}
      BY <1>4, <1>7, <1>8, <3>1, <3>2 DEF Planned
    <3>3. CASE DOMAIN batch # {}
      <4>1. BC[1] = B[1] /\ B[1].op = "append" /\ B[1].id = first
        BY <1>4, <1>8, <3>3
      <4>2. B[1].id <= last + 1
        BY <1>2, <1>9, <3>3, <4>1
      <4> QED
        BY <1>8, <3>1, <4>1, <4>2 DEF Planned, Fits
    <3> QED
      BY <3>2, <3>3
  <2>2. CASE A # <<>>
    <3> DEFINE o == Truncate(first)
    <3>1. /\ A = <<o>> /\ DOMAIN batch # {} /\ first \in 1 .. last
          /\ first \in 0 .. MaxLog
      BY <1>2, <1>4, <1>5, <2>2, FilesBounds
    <3>2. o.op = "truncate" /\ o.id = first /\ o \in FileOperation
      BY <3>1 DEF Truncate, FileOperation, LogOperation
    <3> HIDE DEF o
    <3>3. /\ Chain(A) /\ A[1] = o /\ Len(A) = 1
      BY <3>1, <3>2, SingleChain
    <3>4. BC # <<>> /\ BC[1].op = "append" /\ BC[1].id = first
      BY <1>4, <1>8, <3>1
    <3>5. Leads(A[Len(A)], BC[1])
      BY <3>2, <3>3, <3>4 DEF Leads
    <3>6. Chain(A \o BC)
      BY <1>3, <1>8, <3>3, <3>5, ChainJoin
    <3>7. (A \o BC)[1] = o
      BY <1>3, <1>8, <2>2, <3>3, JoinedBegins
    <3>8. Fits(o, last)
      BY <3>1, <3>2 DEF Fits
    <3> QED
      BY <3>6, <3>7, <3>8 DEF Planned
  <2> QED
    BY <2>1, <2>2
<1>11. A \o B \o C = A \o BC /\ A \o BC \in Seq(FileOperation)
  BY <1>3, JoinedThrice
<1>12. CASE t > term
  <2> DEFINE q == A \o BC
             o == SetTerm(t)
  <2>1. AdoptTerm(t) = <<o>> /\ o \in FileOperation /\ o.op = "setTerm"
    BY <1>12, SetTermTyped DEF AdoptTerm, SetTerm
  <2> HIDE DEF q, o
  <2>2. todo' = <<o>> \o q
    <3> DEFINE x == <<o>>
    <3>1. x \in Seq(FileOperation)
      BY <2>1, SingleChain
    <3> HIDE DEF x
    <3> DEFINE y == x \o A
    <3>2. y \in Seq(FileOperation)
      BY <1>3, <3>1
    <3> HIDE DEF y
    <3>3. y \o B \o C = y \o BC
      BY <1>3, <3>2, JoinedThrice
    <3>4. BC \in Seq(FileOperation)
      BY <1>8
    <3> HIDE DEF BC
    <3>5. (x \o A) \o BC = x \o (A \o BC)
      BY <1>3, <3>1, <3>4, JoinedThrice
    <3>6. todo' = y \o B \o C
      <4>1. x = AdoptTerm(t)
        BY <2>1 DEF x
      <4> QED
        BY <1>1, <4>1 DEF y
    <3>7. todo' = x \o (A \o BC)
      BY <3>3, <3>5, <3>6 DEF y
    <3> QED
      BY <3>7 DEF q, x
  <2>3. q \in Seq(FileOperation) /\ Planned(q, last)
    BY <1>10, <1>11 DEF q
  <2>4. todo' # <<>> /\ Head(todo') = o /\ Tail(todo') = q
    BY <2>1, <2>2, <2>3
  <2> QED
    BY <2>1, <2>3, <2>4 DEF PlanFits, last
<1>13. CASE ~(t > term)
  <2>1. AdoptTerm(t) = <<>>
    BY <1>13 DEF AdoptTerm
  <2>2. todo' = A \o BC
    BY <1>1, <1>3, <1>11, <2>1
  <2> QED
    BY <1>10, <2>2 DEF PlanFits, last
<1> QED
  BY <1>12, <1>13

LEMMA ClientAppendFits ==
    ASSUME FilesInv, NEW match \in 0 .. MaxLog, ClientAppend(match)
    PROVE  PlanFits(todo', store.lastLogIndex)
<1> DEFINE id      == store.lastLogIndex + 1
           entry   == [term |-> term, committed |-> FALSE]
           ownTerm == {n \in store.commitIndex + 1 .. match :
                          n = id \/ (n \in DOMAIN store.entries
                                     /\ store.entries[n].term = term)}
<1>1. /\ term \in 0 .. MaxTerm
      /\ store.lastLogIndex \in 0 .. MaxLog /\ store.commitIndex \in 0 .. MaxLog
  BY StoreFields DEF FilesInv, FilesTypeOK
<1>2. PICK order \in [1 .. Cardinality(ownTerm) -> ownTerm] :
         todo' = <<Append1(id, entry)>> \o [k \in DOMAIN order |-> Commit(order[k])]
  BY DEF ClientAppend, Handle
<1>3. id \in 1 .. MaxLog
  BY <1>1, FilesBounds DEF ClientAppend
<1> DEFINE o == Append1(id, entry)
<1>4. o \in FileOperation /\ o.op = "append" /\ o.id = id
  BY <1>1, <1>3 DEF Append1, FileOperation, LogOperation, FileEntry
<1>5. ownTerm \in SUBSET (0 .. MaxLog) /\ Cardinality(ownTerm) \in Nat
  <2>1. ownTerm \subseteq 0 .. MaxLog
    BY <1>1, FilesBounds
  <2>2. IsFiniteSet(0 .. MaxLog)
    BY FS_Interval, FilesBounds
  <2> HIDE DEF ownTerm
  <2> QED
    BY <2>1, <2>2, FS_Subset, FS_CardinalityType
<1> HIDE DEF ownTerm, o
<1> DEFINE commits == [k \in DOMAIN order |-> Commit(order[k])]
<1>6. commits \in Seq(FileOperation) /\ \A k \in 1 .. Len(commits) : commits[k].op = "commit"
  <2>1. \A k \in 1 .. Cardinality(ownTerm) :
           Commit(order[k]) \in FileOperation /\ Commit(order[k]).op = "commit"
    BY <1>2, <1>5 DEF Commit, FileOperation, LogOperation
  <2>2. /\ commits \in [1 .. Cardinality(ownTerm) -> FileOperation]
        /\ \A k \in 1 .. Cardinality(ownTerm) : commits[k].op = "commit"
    BY <1>2, <2>1
  <2> HIDE DEF commits
  <2> QED
    BY <1>5, <2>2
<1>7. todo' = <<o>> \o commits
  BY <1>2 DEF o
<1> HIDE DEF commits
<1>8. Chain(commits) /\ (commits # <<>> => Leads(o, commits[1]))
  BY <1>6, CommitsChain
<1> DEFINE x == <<o>>
<1>9. /\ x \in Seq(FileOperation) /\ Chain(x) /\ x # <<>> /\ Len(x) = 1 /\ x[1] = o
      /\ x[Len(x)] = o
  BY <1>4, SingleChain
<1> HIDE DEF x
<1>10. Chain(x \o commits)
  BY <1>6, <1>8, <1>9, ChainJoin
<1>11. x \o commits # <<>> /\ (x \o commits)[1] = o
  BY <1>6, <1>9, JoinedBegins
<1>12. Fits(o, store.lastLogIndex)
  BY <1>1, <1>4, FilesBounds DEF Fits
<1> QED
  BY <1>7, <1>10, <1>11, <1>12 DEF PlanFits, Planned, x

\* A new term alone fits any log.
LEMMA TermFits ==
    ASSUME NEW t \in 0 .. MaxTerm, NEW last
    PROVE  PlanFits(<<SetTerm(t)>>, last)
<1> DEFINE o == SetTerm(t)
<1>1. o \in FileOperation /\ o.op = "setTerm"
  BY SetTermTyped DEF SetTerm
<1> HIDE DEF o
<1>2. Chain(<<o>>) /\ <<o>>[1] = o
  BY <1>1, SingleChain
<1>3. Fits(o, last)
  BY <1>1 DEF Fits
<1> QED
  BY <1>2, <1>3 DEF PlanFits, Planned, o

LEMMA NothingFits ==
    ASSUME NEW last
    PROVE  PlanFits(<<>>, last)
<1>1. \A k \in 1 .. Len(<<>>) - 1 : FALSE
  OBVIOUS
<1> QED
  BY <1>1 DEF PlanFits, Planned, Chain

LEMMA HandlerFits ==
    ASSUME FilesInv, Gapless(store), Handler
    PROVE  todo' = todo \/ PlanFits(todo', store.lastLogIndex)
<1>1. term \in 0 .. MaxTerm
  BY DEF FilesInv, FilesTypeOK
<1>2. CASE StartElection
  <2>1. term + 1 \in 0 .. MaxTerm /\ todo' = <<SetTerm(term + 1)>>
    BY <1>1, <1>2, FilesBounds DEF StartElection, Handle
  <2> QED
    BY <2>1, TermFits
<1>3. ASSUME NEW t \in 1 .. MaxTerm, HearOfTerm(t)
      PROVE  PlanFits(todo', store.lastLogIndex)
  <2>1. t \in 0 .. MaxTerm /\ todo' = <<SetTerm(t)>>
    BY <1>3, FilesBounds DEF HearOfTerm, Handle, AdoptTerm
  <2> QED
    BY <2>1, TermFits
<1>4. CASE Announce
  BY <1>4 DEF Announce, memoryVars
<1> QED
  BY <1>2, <1>3, <1>4, AppendEntriesFit, ClientAppendFits DEF Handler

LEMMA InitGap == Init => GapInv
<1> SUFFICES ASSUME Init PROVE GapInv
  OBVIOUS
<1>1. up /\ todo = <<>> /\ before = EmptyStore
  BY DEF Init
<1>2. Gapless(before)
  BY <1>1 DEF Gapless, EmptyStore, EmptyLog
<1> QED
  BY <1>1, <1>2, NothingFits DEF GapInv

LEMMA HandlerGap ==
    ASSUME FilesInv, MatchInv, GapInv, Handler
    PROVE  GapInv'
<1>1. /\ up /\ todo = <<>> /\ UNCHANGED <<up, store, before, mishaps>>
  BY DEF Handler, StartElection, HearOfTerm, AppendEntries, ClientAppend, Announce,
     Handle, IdleNode, memoryVars, historyVars
<1>2. before = store
  BY <1>1 DEF FilesInv, MatchInv
<1>3. ASSUME Clean'
      PROVE  Gapless(before)' /\ PlanFits(todo', before'.lastLogIndex)
  <2>1. Gapless(before) /\ PlanFits(todo, before.lastLogIndex)
    BY <1>1, <1>3 DEF GapInv, Clean, Errors
  <2>2. todo' = todo \/ PlanFits(todo', store.lastLogIndex)
    BY <1>2, <2>1, HandlerFits
  <2>3. PlanFits(todo', before.lastLogIndex)
    BY <1>2, <2>1, <2>2
  <2> QED
    BY <1>1, <2>1, <2>3 DEF Gapless
<1> QED
  BY <1>1, <1>3 DEF GapInv

LEMMA StepGap ==
    ASSUME FilesInv, GapInv, FileStep
    PROVE  GapInv'
<1>1. up /\ up' = up /\ mishaps' = mishaps /\ steps # <<>> /\ todo # <<>>
  BY FileStepShape
<1>2. Clean' => Gapless(before) /\ PlanFits(todo, before.lastLogIndex)
  BY <1>1 DEF GapInv, Clean, Errors
<1>3. CASE UNCHANGED <<todo, before>>
  BY <1>1, <1>2, <1>3 DEF GapInv, Gapless
<1>4. CASE FillMetadata
  <2>1. /\ steps = <<"fill">> /\ Advance /\ store' = store
    BY <1>1, <1>4, Stages DEF FillMetadata, At
  <2>2. todo' = Tail(todo) /\ before' = store
    BY <1>1, <2>1, AdvanceShape
  <2>3. /\ todo \in Seq(FileOperation) /\ Head(todo) \in FileOperation
        /\ before \in StoreType /\ store.disk \in FileLog
        /\ store = [Whole EXCEPT !.disk = store.disk]
    BY <1>1, StepsLeft, StoreFields DEF FilesInv, FilesTypeOK, InProgress
  <2>4. Whole \in StoreType
    BY <2>3, EffectTyped DEF Whole
  <2>5. store.entries = Whole.entries /\ store.lastLogIndex = Whole.lastLogIndex
    <3> DEFINE d == store.disk
    <3>1. store = [Whole EXCEPT !.disk = d] /\ d \in FileLog
      BY <2>3
    <3> HIDE DEF Whole, d
    <3>2. Whole = [entries |-> Whole.entries, disk |-> Whole.disk,
                   currentTerm |-> Whole.currentTerm,
                   lastLogIndex |-> Whole.lastLogIndex, commitIndex |-> Whole.commitIndex]
      BY <2>4, StoreFields
    <3> QED
      BY <3>1, <3>2
  <2>6. ASSUME Clean'
        PROVE  Gapless(Whole) /\ PlanFits(Tail(todo), Whole.lastLogIndex)
    BY <1>1, <1>2, <2>3, <2>6, OperationDone DEF Whole
  <2> HIDE DEF Whole
  <2> QED
    BY <1>1, <2>2, <2>5, <2>6 DEF GapInv, Gapless
<1> QED
  BY <1>3, <1>4, FileStepShape

\* A kill that leaves the files readable and the log without a gap came
\* before the log was touched, or between two operations.
LEMMA KillGap ==
    ASSUME FilesInv, MatchInv, CauseInv, GapInv, Kill
    PROVE  GapInv'
<1>1. /\ up /\ up' = FALSE /\ UNCHANGED <<cut, broken, metadata>>
      /\ store' = [EmptyStore EXCEPT !.disk = store.disk]
      /\ IF steps = <<>> THEN mishaps' = mishaps ELSE Mishap("kill")
  BY DEF Kill, fileVars
<1>2. /\ mishaps \subseteq mishaps' /\ Errors \subseteq Errors'
      /\ steps # <<>> => <<"kill", Head(steps)>> \in mishaps'
  <2>1. CASE steps = <<>>
    BY <1>1, <2>1 DEF Errors
  <2>2. CASE steps # <<>>
    BY <1>1, <2>2, MishapKept
  <2> QED
    BY <2>1, <2>2
<1>3. store'.disk = store.disk
  BY <1>1, EmptyStoreTyped, StoreFields DEF EmptyStore
<1>4. ASSUME Clean', Loadable'
      PROVE  Gapless(Recovered)'
  <2>1. Loadable /\ ~broken /\ metadata # Torn
    BY <1>1, <1>4 DEF Loadable
  <2>2. Clean /\ Errors = {}
    BY <1>2, <1>4 DEF Clean
  <2>3. ~failed /\ Gapless(before)
    BY <1>1, <2>2 DEF CauseInv, GapInv
  <2>4. steps = <<>> \/ LogUntouched
    <3> SUFFICES ASSUME steps # <<>> PROVE Head(steps) \in {"line", "rename"}
      BY DEF LogUntouched
    <3>1. Head(steps) \in StepKinds
      BY StepsLeft DEF StepKinds
    <3>2. Head(steps) # "fill"
      <4> SUFFICES ASSUME Head(steps) = "fill" PROVE FALSE
        OBVIOUS
      <4> QED
        BY <2>1, Stages DEF MatchInv
    <3>3. Head(steps) \notin {"newline", "empty"}
      BY <1>2, <1>4 DEF Clean, Killed
    <3> QED
      BY <3>1, <3>2, <3>3 DEF StepKinds
  <2>5. SameEntries(store.disk, before.entries)
    <3>1. CASE steps = <<>>
      <4>1. before = store /\ ~LogUntouched
        BY <3>1 DEF MatchInv, LogUntouched
      <4> QED
        BY <1>1, <2>1, <2>3, <4>1 DEF MatchInv
    <3>2. CASE LogUntouched
      BY <1>1, <2>1, <2>3, <3>2 DEF MatchInv
    <3> QED
      BY <2>4, <3>1, <3>2
  <2>6. Saved(before)
    <3>1. steps # <<"fill">>
      BY <2>1 DEF MatchInv
    <3> QED
      BY <1>1, <2>3, <3>1 DEF MatchInv
  <2>7. Recovered'.entries = store.disk
    BY <1>3 DEF Recovered
  <2>8. Recovered'.lastLogIndex = before.lastLogIndex
    BY <1>1, <2>6 DEF Recovered, Saved, Metadata
  <2> QED
    BY <2>3, <2>5, <2>7, <2>8 DEF Gapless, SameEntries
<1> QED
  BY <1>1, <1>4 DEF GapInv

LEMMA GapStep == FilesInv /\ MatchInv /\ CauseInv /\ GapInv /\ [Next]_vars => GapInv'
<1> SUFFICES ASSUME FilesInv, MatchInv, CauseInv, GapInv, [Next]_vars PROVE GapInv'
  OBVIOUS
<1>1. CASE Handler
  BY <1>1, HandlerGap
<1>2. CASE BeginOperation
  <2>1. /\ up /\ steps = <<>> /\ before' = store /\ UNCHANGED <<up, todo, mishaps>>
    BY <1>2 DEF BeginOperation
  <2>2. before' = before
    BY <2>1 DEF MatchInv
  <2> QED
    BY <2>1, <2>2 DEF GapInv, Gapless, Clean, Errors
<1>3. CASE FileStep
  BY <1>3, StepGap
<1>4. CASE FileError
  <2>1. Errors' # {}
    BY <1>4, MishapKept DEF FileError
  <2> QED
    BY <2>1 DEF GapInv, Clean
<1>5. CASE Kill
  BY <1>5, KillGap
<1>6. CASE Start
  <2>1. /\ ~up /\ up' /\ Loadable /\ before' = Recovered
        /\ todo' = <<>> /\ UNCHANGED mishaps
    BY <1>6 DEF Start, historyVars, FilesInv
  <2> QED
    BY <2>1, NothingFits DEF GapInv, Gapless, Clean, Errors
<1>7. CASE UNCHANGED vars
  <2>1. UNCHANGED <<up, todo, before, mishaps, broken, metadata, store>>
    BY <1>7 DEF vars, memoryVars, fileVars, historyVars
  <2>2. Recovered' = Recovered /\ Loadable' = Loadable /\ Clean' = Clean
    BY <2>1 DEF Recovered, Loadable, Clean, Errors
  <2> QED
    BY <2>1, <2>2 DEF GapInv, Gapless
<1> QED
  BY <1>1, <1>2, <1>3, <1>4, <1>5, <1>6, <1>7 DEF Next

\* The log becomes unreadable, the metadata unreadable, or the two of them
\* disagree, only by a mishap at one of the few file operations DamageHasCause
\* lists (append, truncate_from and save_metadata of src/src/storage.rs, none of
\* which is atomic), for every log and any number of mishaps.
THEOREM DamagesHaveCauses == Spec => []DamageHasCause
<1>1. FilesInv /\ MatchInv /\ CauseInv /\ GapInv => DamageHasCause
  <2> SUFFICES ASSUME FilesInv, MatchInv, CauseInv, GapInv PROVE DamageHasCause
    OBVIOUS
  <2>1. broken => mishaps \cap {<<"kill", "newline">>, <<"error", "newline">>,
                                <<"error", "line">>} # {}
    BY DEF CauseInv, LogCauses
  <2>2. metadata = Torn /\ ~At("fill") =>
           mishaps \cap {<<"kill", "fill">>, <<"error", "fill">>} # {}
    BY DEF CauseInv, SaveCauses
  <2>3. IdleNode => up /\ before = store
    BY DEF IdleNode, FilesInv, MatchInv
  <2>4. ASSUME IdleNode, DOMAIN store.entries # 1 .. store.lastLogIndex
        PROVE  Errors # {} \/ mishaps \cap Killed({"newline", "empty"}) # {}
    <3>1. ~Gapless(before) /\ up
      BY <2>3, <2>4 DEF Gapless
    <3>2. ~Clean
      BY <3>1 DEF GapInv
    <3> QED
      BY <3>2 DEF Clean
  <2> QED
    BY <2>1, <2>2, <2>4 DEF DamageHasCause
<1> QED
  BY <1>1, FilesInvariant, InitMatch, MatchStep, InitCause, CauseStep, InitGap, GapStep,
     PTL DEF Spec
=============================================================================
