---------------------------- MODULE StoreProofs ----------------------------
(***************************************************************************)
(* What the operations of Storage preserve: a well-formed log without      *)
(* holes stays one.  Each lemma is about one operator of module LogStore   *)
(* (or the operator of Replication that composes them).                    *)
(***************************************************************************)
EXTENDS ReplicationProperties, TLAPS

\* The greatest and the least element of an interval.
LEMMA IntervalEnds ==
    ASSUME NEW m \in Int, NEW n \in Int, m <= n
    PROVE  Max(m .. n) = n /\ Min(m .. n) = m
<1>1. n \in m .. n /\ \A y \in m .. n : n >= y
  OBVIOUS
<1>2. m \in m .. n /\ \A y \in m .. n : m =< y
  OBVIOUS
<1>3. \A x \in m .. n : (\A y \in m .. n : x >= y) => x = n
  OBVIOUS
<1>4. \A x \in m .. n : (\A y \in m .. n : x =< y) => x = m
  OBVIOUS
<1> QED
  BY <1>1, <1>2, <1>3, <1>4 DEF Max, Min

\* The greatest and the least of two numbers.
LEMMA PairEnds ==
    ASSUME NEW m \in Int, NEW n \in Int
    PROVE  /\ Max({m, n}) = IF m >= n THEN m ELSE n
           /\ Min({m, n}) = IF m =< n THEN m ELSE n
<1>1. \E x \in {m, n} : \A y \in {m, n} : x >= y
  OBVIOUS
<1>2. \E x \in {m, n} : \A y \in {m, n} : x =< y
  OBVIOUS
<1>3. Max({m, n}) \in {m, n} /\ \A y \in {m, n} : Max({m, n}) >= y
  BY <1>1 DEF Max
<1>4. Min({m, n}) \in {m, n} /\ \A y \in {m, n} : Min({m, n}) =< y
  BY <1>2 DEF Min
<1> QED
  BY <1>3, <1>4

\* Highest of an interval that starts above zero.
LEMMA HighestOfInterval ==
    ASSUME NEW m \in Nat \ {0}, NEW n \in Nat
    PROVE  Highest(m .. n) = IF m <= n THEN n ELSE 0
<1>1. CASE m <= n
  BY <1>1, IntervalEnds DEF Highest
<1>2. CASE ~(m <= n)
  <2>1. m .. n = {}
    BY <1>2
  <2> QED
    BY <1>2, <2>1 DEF Highest
<1> QED
  BY <1>1, <1>2

\* A log is a function from some of the indices to entries.
LEMMA LogMembership ==
    ASSUME NEW log
    PROVE  log \in Log <=> /\ DOMAIN log \subseteq 1 .. MaxLog
                           /\ log \in [DOMAIN log -> Entry]
  BY DEF Log

\* The empty log is a log.
LEMMA EmptyLogIsLog == EmptyLog \in Log /\ DOMAIN EmptyLog = {}
  BY LogMembership DEF EmptyLog

\* Overlaying a log with a batch yields a log with the ids of both.
LEMMA OverlayIsLog ==
    ASSUME NEW log \in Log, NEW batch \in Log
    PROVE  /\ Overlay(log, batch) \in Log
           /\ DOMAIN Overlay(log, batch) = DOMAIN log \cup DOMAIN batch
  BY LogMembership DEF Overlay

\* A log cut down to some of its ids is a log with these ids.
LEMMA RestrictionIsLog ==
    ASSUME NEW log \in Log, NEW ids \in SUBSET DOMAIN log
    PROVE  /\ [n \in ids |-> log[n]] \in Log
           /\ DOMAIN [n \in ids |-> log[n]] = ids
  BY LogMembership

Contiguous(s) == /\ DOMAIN s.entries = 1 .. s.lastLogIndex
                 /\ DOMAIN s.disk = 1 .. s.lastLogIndex

Sound(s) == s \in Store /\ Contiguous(s)

\* Storage::append of a batch that starts no later than one past the end of the
\* log leaves no hole; the last index becomes the greater of the two ends.
LEMMA AppendBatchSound ==
    ASSUME NEW s, Sound(s), NEW batch \in Log,
           NEW prev \in 0 .. s.lastLogIndex, NEW last \in Indices,
           DOMAIN batch = prev + 1 .. last
    PROVE  /\ Sound(AppendBatch(s, batch))
           /\ AppendBatch(s, batch).currentTerm = s.currentTerm
<1> USE BoundsAssumption
<1> DEFINE t == AppendBatch(s, batch)
<1>1. s \in Store /\ s.lastLogIndex \in Nat /\ prev \in Nat /\ last \in Nat
  BY DEF Sound, Store, Indices
<1>2. /\ Overlay(s.entries, batch) \in Log
      /\ DOMAIN Overlay(s.entries, batch) = DOMAIN s.entries \cup DOMAIN batch
  BY <1>1, OverlayIsLog DEF Store
<1>3. /\ Overlay(s.disk, batch) \in Log
      /\ DOMAIN Overlay(s.disk, batch) = DOMAIN s.disk \cup DOMAIN batch
  BY <1>1, OverlayIsLog DEF Store
<1>4. Highest(DOMAIN batch) = IF prev + 1 <= last THEN last ELSE 0
  BY <1>1, HighestOfInterval
<1> DEFINE top == Max({s.lastLogIndex, Highest(DOMAIN batch)})
<1>5. top = IF last > s.lastLogIndex THEN last ELSE s.lastLogIndex
  <2>1. Highest(DOMAIN batch) \in Int
    BY <1>1, <1>4
  <2>2. top = IF s.lastLogIndex >= Highest(DOMAIN batch)
              THEN s.lastLogIndex ELSE Highest(DOMAIN batch)
    BY <1>1, <2>1, PairEnds
  <2> QED
    BY <1>1, <1>4, <2>2
<1>6. top \in Indices
  BY <1>1, <1>5 DEF Store
<1>7. 1 .. s.lastLogIndex \cup (prev + 1 .. last) = 1 .. top
  BY <1>1, <1>5
<1>8. /\ t.entries = Overlay(s.entries, batch)
      /\ t.disk = Overlay(s.disk, batch)
      /\ t.currentTerm = s.currentTerm
      /\ t.lastLogIndex = top
  BY <1>1 DEF AppendBatch, Store
<1> HIDE DEF top
<1>9. t \in Store
  BY <1>1, <1>2, <1>3, <1>6 DEF AppendBatch, Store, top
<1> HIDE DEF t
<1>10. Contiguous(t)
  BY <1>2, <1>3, <1>7, <1>8 DEF Contiguous, Sound
<1> QED
  BY <1>8, <1>9, <1>10 DEF Sound, t

\* Storage::commit_up_to flags entries and moves the index, nothing else.
LEMMA CommitUpToSound ==
    ASSUME NEW s, Sound(s), NEW index \in Indices
    PROVE  /\ Sound(CommitUpTo(s, index))
           /\ CommitUpTo(s, index).currentTerm = s.currentTerm
<1> DEFINE flagged == [n \in DOMAIN s.entries |->
                         IF n \in (s.commitIndex + 1) .. index
                         THEN [s.entries[n] EXCEPT !.committed = TRUE]
                         ELSE s.entries[n]]
           t == CommitUpTo(s, index)
<1>1. s \in Store
  BY DEF Sound
<1>2. s.entries \in Log
  BY <1>1 DEF Store
<1>3. flagged \in Log
  <2>1. DOMAIN flagged \subseteq 1 .. MaxLog
    BY <1>2, LogMembership
  <2>2. \A n \in DOMAIN s.entries : s.entries[n] \in Entry
    BY <1>2, LogMembership
  <2>3. \A n \in DOMAIN s.entries : flagged[n] \in Entry
    BY <2>2 DEF Entry
  <2> QED
    BY <2>1, <2>3, LogMembership
<1>4. /\ t.entries = flagged
      /\ t.disk = s.disk
      /\ t.currentTerm = s.currentTerm
      /\ t.lastLogIndex = s.lastLogIndex
  BY <1>1 DEF CommitUpTo, Store
<1>5. DOMAIN flagged = DOMAIN s.entries
  OBVIOUS
<1> HIDE DEF flagged
<1>6. t \in Store
  BY <1>1, <1>3 DEF CommitUpTo, Store, flagged
<1> HIDE DEF t
<1>7. Contiguous(t)
  BY <1>4, <1>5 DEF Contiguous, Sound
<1> QED
  BY <1>4, <1>6, <1>7 DEF Sound, t

\* Storage::set_current_term changes the term alone.
LEMMA SetCurrentTermSound ==
    ASSUME NEW s, Sound(s), NEW term \in Terms
    PROVE  /\ Sound(SetCurrentTerm(s, term))
           /\ SetCurrentTerm(s, term).currentTerm = term
           /\ SetCurrentTerm(s, term).lastLogIndex = s.lastLogIndex
           /\ SetCurrentTerm(s, term).entries = s.entries
  BY DEF Sound, Contiguous, SetCurrentTerm, Store

\* Storage::truncate_from at an index of the log: what is left ends before it.
LEMMA TruncateFromSound ==
    ASSUME NEW s, Sound(s), NEW index \in 1 .. s.lastLogIndex
    PROVE  /\ Sound(TruncateFrom(s, index))
           /\ TruncateFrom(s, index).currentTerm = s.currentTerm
           /\ TruncateFrom(s, index).lastLogIndex = index - 1
<1> USE BoundsAssumption
<1> DEFINE ids  == {m \in DOMAIN s.entries : m < index}
           kept == [n \in ids |-> s.entries[n]]
           t    == TruncateFrom(s, index)
<1>1. s \in Store /\ s.entries \in Log /\ s.lastLogIndex \in Indices
  BY DEF Sound, Store
<1>2. ids = 1 .. index - 1
  BY <1>1 DEF Sound, Contiguous, Indices
<1>3. kept \in Log /\ DOMAIN kept = ids
  <2>1. ids \in SUBSET DOMAIN s.entries
    OBVIOUS
  <2> HIDE DEF ids
  <2> QED
    BY <1>1, <2>1, RestrictionIsLog
<1>4. Highest(DOMAIN kept) = index - 1
  <2>1. 1 \in Nat \ {0} /\ index - 1 \in Nat
    BY <1>1 DEF Indices
  <2>2. Highest(1 .. index - 1) = IF 1 <= index - 1 THEN index - 1 ELSE 0
    BY <2>1, HighestOfInterval
  <2>3. DOMAIN kept = 1 .. index - 1
    BY <1>2, <1>3
  <2>4. Highest(1 .. index - 1) = index - 1
    BY <2>1, <2>2
  <2> HIDE DEF kept
  <2> QED
    BY <2>3, <2>4
<1>5. index - 1 \in Indices
  BY <1>1 DEF Indices
<1>6. /\ t.entries = kept
      /\ t.disk = kept
      /\ t.currentTerm = s.currentTerm
      /\ t.lastLogIndex = Highest(DOMAIN kept)
  BY <1>1 DEF TruncateFrom, Store
<1>7. t \in Store
  <2> DEFINE end == Highest(DOMAIN kept)
  <2>1. end \in Indices
    BY <1>4, <1>5
  <2>2. t = [s EXCEPT !.entries = kept, !.disk = kept, !.lastLogIndex = end]
    BY DEF TruncateFrom
  <2> HIDE DEF kept, end, t
  <2> QED
    BY <1>1, <1>3, <2>1, <2>2 DEF Store
<1> HIDE DEF kept, ids, t
<1>8. Contiguous(t)
  BY <1>2, <1>3, <1>4, <1>6 DEF Contiguous
<1> QED
  BY <1>4, <1>6, <1>7, <1>8 DEF Sound, t

\* Storage::new finds the log it left on disk.
LEMMA LoadSound ==
    ASSUME NEW s, Sound(s)
    PROVE  Sound(Load(s)) /\ Load(s).currentTerm = s.currentTerm
  BY DEF Sound, Contiguous, Load, Store

\* Cutting off what conflicts with the first new entry leaves no hole, and the
\* entry before the new ones.
LEMMA WithoutConflictSound ==
    ASSUME NEW s, Sound(s), NEW entries,
           NEW prev \in 0 .. s.lastLogIndex, NEW last \in Indices,
           DOMAIN entries = prev + 1 .. last
    PROVE  /\ Sound(WithoutConflict(s, entries))
           /\ WithoutConflict(s, entries).currentTerm = s.currentTerm
           /\ prev \in 0 .. WithoutConflict(s, entries).lastLogIndex
<1> USE BoundsAssumption
<1>1. s \in Store /\ s.lastLogIndex \in Nat /\ last \in Nat /\ prev \in Nat
  BY DEF Sound, Store, Indices
<1>2. CASE Conflicts(s, entries)
  <2> DEFINE first == Min(DOMAIN entries)
             t == TruncateFrom(s, first)
  <2>1. prev + 1 <= last
    BY <1>1, <1>2 DEF Conflicts
  <2>2. first = prev + 1
    BY <1>1, <2>1, IntervalEnds
  <2>3. first \in 1 .. s.lastLogIndex
    BY <1>2, <2>2 DEF Conflicts, Sound, Contiguous
  <2> HIDE DEF first
  <2>4. Sound(t) /\ t.currentTerm = s.currentTerm /\ t.lastLogIndex = prev
    BY <1>1, <2>2, <2>3, TruncateFromSound
  <2>5. WithoutConflict(s, entries) = t
    BY <1>2 DEF WithoutConflict, first
  <2> HIDE DEF t
  <2> QED
    BY <1>1, <2>4, <2>5
<1>3. CASE ~Conflicts(s, entries)
  <2>1. WithoutConflict(s, entries) = s
    BY <1>3 DEF WithoutConflict
  <2> QED
    BY <2>1
<1> QED
  BY <1>2, <1>3

\* Nor do the new entries, or the first of them, once they are appended: the
\* consistency check found the entry before them.
LEMMA NewEntriesSound ==
    ASSUME NEW s, Sound(s), NEW entries,
           NEW prev \in 0 .. s.lastLogIndex, NEW last \in Indices,
           DOMAIN entries = prev + 1 .. last,
           NEW batch \in Log, NEW end \in Indices, DOMAIN batch = prev + 1 .. end
    PROVE  /\ Sound(AppendBatch(WithoutConflict(s, entries), batch))
           /\ AppendBatch(WithoutConflict(s, entries), batch).currentTerm
                 = s.currentTerm
<1> DEFINE t == WithoutConflict(s, entries)
<1>1. Sound(t) /\ t.currentTerm = s.currentTerm /\ prev \in 0 .. t.lastLogIndex
  BY WithoutConflictSound
<1> HIDE DEF t
<1>2. Sound(AppendBatch(t, batch)) /\ AppendBatch(t, batch).currentTerm = s.currentTerm
  BY <1>1, AppendBatchSound
<1> QED
  BY <1>2 DEF t

\* The entries of a request up to one of them, or none.
LEMMA EntriesUpToFit ==
    ASSUME NEW entries \in Log, NEW prev \in Indices, NEW last \in Indices,
           DOMAIN entries = prev + 1 .. last,
           NEW end \in {prev} \cup DOMAIN entries
    PROVE  /\ EntriesUpTo(entries, end) \in Log
           /\ end \in Indices
           /\ DOMAIN EntriesUpTo(entries, end) = prev + 1 .. end
<1> DEFINE ids == {e \in DOMAIN entries : e <= end}
<1>1. prev \in Nat /\ last \in Nat /\ end \in Nat /\ end \in Indices
  BY BoundsAssumption DEF Indices
<1>2. ids = prev + 1 .. end
  BY <1>1
<1>3. ids \in SUBSET DOMAIN entries
  OBVIOUS
<1>4. EntriesUpTo(entries, end) = [n \in ids |-> entries[n]]
  BY DEF EntriesUpTo
<1> HIDE DEF ids
<1>5. EntriesUpTo(entries, end) \in Log /\ DOMAIN EntriesUpTo(entries, end) = ids
  BY <1>3, <1>4, RestrictionIsLog
<1> QED
  BY <1>1, <1>2, <1>5

\* The commit index a follower takes from its leader is an index of its log.
LEMMA WithCommitSound ==
    ASSUME NEW s, Sound(s), NEW leaderCommit \in Indices
    PROVE  /\ Sound(WithCommit(s, leaderCommit))
           /\ WithCommit(s, leaderCommit).currentTerm = s.currentTerm
<1> USE BoundsAssumption
<1> DEFINE index == Min({leaderCommit, s.lastLogIndex})
<1>1. s.lastLogIndex \in Indices
  BY DEF Sound, Store
<1>2. index \in Indices
  <2>1. leaderCommit \in Int /\ s.lastLogIndex \in Int
    BY <1>1 DEF Indices
  <2>2. index = IF leaderCommit =< s.lastLogIndex THEN leaderCommit ELSE s.lastLogIndex
    BY <2>1, PairEnds
  <2> QED
    BY <1>1, <2>2
<1> HIDE DEF index
<1>3. Sound(CommitUpTo(s, index)) /\ CommitUpTo(s, index).currentTerm = s.currentTerm
  BY <1>2, CommitUpToSound
<1> QED
  BY <1>3 DEF WithCommit, index

\* A term that is read from a log is a term.
LEMMA TermAtIsTerm ==
    ASSUME NEW s \in Store, NEW n
    PROVE  TermAt(s, n) \in Terms
<1>1. 0 \in Terms
  BY BoundsAssumption DEF Terms
<1>2. \A k \in DOMAIN s.entries : s.entries[k].term \in Terms
  BY LogMembership DEF Store, Entry
<1> QED
  BY <1>1, <1>2 DEF TermAt

\* What the leader sends from next_index on is all that follows the entry
\* before it.
LEMMA EntriesFromFit ==
    ASSUME NEW s, Sound(s), NEW next \in 1 .. MaxLog + 1
    PROVE  /\ GetEntriesFrom(s, next) \in Log
           /\ \E last \in Indices : DOMAIN GetEntriesFrom(s, next) = next .. last
<1> USE BoundsAssumption
<1> DEFINE ids == {m \in DOMAIN s.entries : m >= next}
<1>1. s.entries \in Log /\ s.lastLogIndex \in Indices
  BY DEF Sound, Store
<1>2. ids = next .. s.lastLogIndex
  BY <1>1 DEF Sound, Contiguous, Indices
<1>3. ids \in SUBSET DOMAIN s.entries
  OBVIOUS
<1>4. GetEntriesFrom(s, next) = [n \in ids |-> s.entries[n]]
  BY DEF GetEntriesFrom
<1> HIDE DEF ids
<1>5. GetEntriesFrom(s, next) \in Log /\ DOMAIN GetEntriesFrom(s, next) = ids
  BY <1>1, <1>3, <1>4, RestrictionIsLog
<1> QED
  BY <1>1, <1>2, <1>5

-----------------------------------------------------------------------------
(* Which entries the operations of Storage leave in a log.                  *)

\* An entry of this term and command is at index n of a log, marked or not.
HasEntry(log, n, t, c) ==
    n \in DOMAIN log /\ log[n].term = t /\ log[n].command = c

\* The same of the logs of a node, in memory or on disk.
InStore(s, n, t, c) == HasEntry(s.entries, n, t, c) \/ HasEntry(s.disk, n, t, c)

\* Nothing beyond the index is marked committed.
FlagsUpTo(log, index) == \A n \in DOMAIN log : log[n].committed => n <= index

LEMMA OverlayValues ==
    ASSUME NEW log, NEW batch
    PROVE  /\ \A n \in DOMAIN batch : Overlay(log, batch)[n] = batch[n]
           /\ \A n \in DOMAIN log \ DOMAIN batch : Overlay(log, batch)[n] = log[n]
  BY DEF Overlay

LEMMA OverlayDomain ==
    ASSUME NEW log, NEW batch
    PROVE  DOMAIN Overlay(log, batch) = DOMAIN log \cup DOMAIN batch
  BY DEF Overlay

\* An entry of an overlaid log comes from the log or from the batch.
LEMMA OverlayEntry ==
    ASSUME NEW log, NEW batch, NEW n, NEW t, NEW c
    PROVE  /\ HasEntry(Overlay(log, batch), n, t, c)
                => HasEntry(log, n, t, c) \/ HasEntry(batch, n, t, c)
           /\ HasEntry(batch, n, t, c) => HasEntry(Overlay(log, batch), n, t, c)
           /\ HasEntry(log, n, t, c) /\ n \notin DOMAIN batch
                => HasEntry(Overlay(log, batch), n, t, c)
<1> DEFINE both == Overlay(log, batch)
<1>1. n \in DOMAIN both <=> n \in DOMAIN log \/ n \in DOMAIN batch
  <2>1. DOMAIN both = DOMAIN log \cup DOMAIN batch
    BY OverlayDomain
  <2> HIDE DEF both
  <2> QED
    BY <2>1
<1>2. CASE n \in DOMAIN batch
  <2>1. both[n] = batch[n]
    BY <1>2, OverlayValues
  <2> QED
    BY <1>1, <1>2, <2>1 DEF HasEntry
<1>3. CASE n \in DOMAIN log \ DOMAIN batch
  <2>1. both[n] = log[n]
    BY <1>3, OverlayValues
  <2> QED
    BY <1>1, <1>3, <2>1 DEF HasEntry
<1>4. CASE n \notin DOMAIN log \cup DOMAIN batch
  BY <1>1, <1>4 DEF HasEntry
<1> QED
  BY <1>2, <1>3, <1>4

LEMMA OverlayFlags ==
    ASSUME NEW log, NEW batch, NEW index,
           FlagsUpTo(log, index), FlagsUpTo(batch, index)
    PROVE  FlagsUpTo(Overlay(log, batch), index)
<1> SUFFICES ASSUME NEW n \in DOMAIN Overlay(log, batch),
                    Overlay(log, batch)[n].committed
             PROVE  n <= index
  BY DEF FlagsUpTo
<1>1. CASE n \in DOMAIN batch
  BY <1>1, OverlayValues DEF FlagsUpTo
<1>2. CASE n \in DOMAIN log \ DOMAIN batch
  BY <1>2, OverlayValues DEF FlagsUpTo
<1> QED
  BY <1>1, <1>2, OverlayDomain

LEMMA AppendBatchFields ==
    ASSUME NEW s \in Store, NEW batch
    PROVE  /\ AppendBatch(s, batch).entries = Overlay(s.entries, batch)
           /\ AppendBatch(s, batch).disk = Overlay(s.disk, batch)
           /\ AppendBatch(s, batch).commitIndex = s.commitIndex
           /\ AppendBatch(s, batch).lastLogIndex
                = Max({s.lastLogIndex, Highest(DOMAIN batch)})
  BY DEF AppendBatch, Store

LEMMA TruncateFromFields ==
    ASSUME NEW s \in Store, NEW index
    PROVE  /\ DOMAIN TruncateFrom(s, index).entries
                = {m \in DOMAIN s.entries : m < index}
           /\ \A n \in DOMAIN TruncateFrom(s, index).entries :
                TruncateFrom(s, index).entries[n] = s.entries[n]
           /\ TruncateFrom(s, index).disk = TruncateFrom(s, index).entries
           /\ TruncateFrom(s, index).commitIndex = s.commitIndex
  BY DEF TruncateFrom, Store

LEMMA CommitUpToFields ==
    ASSUME NEW s \in Store, NEW index
    PROVE  /\ CommitUpTo(s, index).disk = s.disk
           /\ CommitUpTo(s, index).commitIndex = index
           /\ CommitUpTo(s, index).lastLogIndex = s.lastLogIndex
           /\ DOMAIN CommitUpTo(s, index).entries = DOMAIN s.entries
           /\ \A n \in DOMAIN s.entries :
                CommitUpTo(s, index).entries[n] =
                   IF n \in (s.commitIndex + 1) .. index
                   THEN [s.entries[n] EXCEPT !.committed = TRUE]
                   ELSE s.entries[n]
  BY DEF CommitUpTo, Store

\* A commit changes marks, within the new commit index, and no entry.
LEMMA CommitUpToEntries ==
    ASSUME NEW s, Sound(s), NEW index \in Indices
    PROVE  /\ \A n, t, c : HasEntry(CommitUpTo(s, index).entries, n, t, c)
                              <=> HasEntry(s.entries, n, t, c)
           /\ \A n, t, c : InStore(CommitUpTo(s, index), n, t, c)
                              <=> InStore(s, n, t, c)
           /\ \A n \in DOMAIN s.entries :
                CommitUpTo(s, index).entries[n].committed =>
                   s.entries[n].committed \/ n <= index
<1> DEFINE after == CommitUpTo(s, index)
<1>1. s \in Store /\ s.entries \in Log
  BY DEF Sound, Store
<1>2. /\ after.disk = s.disk
      /\ DOMAIN after.entries = DOMAIN s.entries
      /\ \A n \in DOMAIN s.entries :
            after.entries[n] = IF n \in (s.commitIndex + 1) .. index
                               THEN [s.entries[n] EXCEPT !.committed = TRUE]
                               ELSE s.entries[n]
  BY <1>1, CommitUpToFields
<1> HIDE DEF after
<1>3. \A n \in DOMAIN s.entries : s.entries[n] \in Entry
  BY <1>1, LogMembership
<1>4. ASSUME NEW n \in DOMAIN s.entries
      PROVE  /\ after.entries[n].term = s.entries[n].term
             /\ after.entries[n].command = s.entries[n].command
             /\ after.entries[n].committed => s.entries[n].committed \/ n <= index
  <2>1. s.entries[n] \in Entry /\ index \in Int /\ s.commitIndex \in Int
    BY <1>1, <1>3, BoundsAssumption DEF Indices, Store
  <2>2. CASE n \in (s.commitIndex + 1) .. index
    <3>1. after.entries[n] = [s.entries[n] EXCEPT !.committed = TRUE]
      BY <1>2, <2>2
    <3> QED
      BY <2>1, <2>2, <3>1 DEF Entry
  <2>3. CASE n \notin (s.commitIndex + 1) .. index
    BY <1>2, <2>3
  <2> QED
    BY <2>2, <2>3
<1>5. \A n, t, c : HasEntry(after.entries, n, t, c) <=> HasEntry(s.entries, n, t, c)
  BY <1>2, <1>4 DEF HasEntry
<1> QED
  BY <1>2, <1>4, <1>5 DEF InStore, after

LEMMA TruncateFromEntries ==
    ASSUME NEW s \in Store, NEW index, NEW n, NEW t, NEW c,
           InStore(TruncateFrom(s, index), n, t, c)
    PROVE  HasEntry(s.entries, n, t, c)
  BY TruncateFromFields DEF InStore, HasEntry

LEMMA TruncateFromFlags ==
    ASSUME NEW s \in Store, NEW from, NEW index, FlagsUpTo(s.entries, index)
    PROVE  /\ FlagsUpTo(TruncateFrom(s, from).entries, index)
           /\ FlagsUpTo(TruncateFrom(s, from).disk, index)
  BY TruncateFromFields DEF FlagsUpTo

LEMMA AppendBatchEntries ==
    ASSUME NEW s \in Store, NEW batch, NEW n, NEW t, NEW c,
           InStore(AppendBatch(s, batch), n, t, c)
    PROVE  InStore(s, n, t, c) \/ HasEntry(batch, n, t, c)
<1> DEFINE after == AppendBatch(s, batch)
<1>1. /\ after.entries = Overlay(s.entries, batch)
      /\ after.disk = Overlay(s.disk, batch)
  BY AppendBatchFields
<1> HIDE DEF after
<1> QED
  BY <1>1, OverlayEntry DEF InStore, after

LEMMA AppendBatchFlags ==
    ASSUME NEW s \in Store, NEW batch, NEW index, FlagsUpTo(batch, index),
           FlagsUpTo(s.entries, index), FlagsUpTo(s.disk, index)
    PROVE  /\ FlagsUpTo(AppendBatch(s, batch).entries, index)
           /\ FlagsUpTo(AppendBatch(s, batch).disk, index)
<1>1. /\ AppendBatch(s, batch).entries = Overlay(s.entries, batch)
      /\ AppendBatch(s, batch).disk = Overlay(s.disk, batch)
  BY AppendBatchFields
<1>2. /\ FlagsUpTo(Overlay(s.entries, batch), index)
      /\ FlagsUpTo(Overlay(s.disk, batch), index)
  BY OverlayFlags
<1> QED
  BY <1>1, <1>2

\* What a follower has in its log after it took over some new entries, it had
\* before or was sent; the marks come from the two as well, and the commit index
\* stays.
TookOver(s, entries, batch, r) ==
    /\ \A n, t, c : InStore(r, n, t, c) => InStore(s, n, t, c) \/ HasEntry(batch, n, t, c)
    /\ \A index : (/\ FlagsUpTo(s.entries, index) /\ FlagsUpTo(s.disk, index)
                   /\ FlagsUpTo(batch, index))
          => FlagsUpTo(r.entries, index) /\ FlagsUpTo(r.disk, index)
    /\ r.commitIndex = s.commitIndex
    /\ ~Conflicts(s, entries) =>
          r.lastLogIndex = Max({s.lastLogIndex, Highest(DOMAIN batch)})

LEMMA NewEntriesEffect ==
    ASSUME NEW s, Sound(s), NEW entries, NEW batch
    PROVE  TookOver(s, entries, batch, AppendBatch(WithoutConflict(s, entries), batch))
<1> DEFINE cut == WithoutConflict(s, entries)
<1>1. s \in Store
  BY DEF Sound
<1>2. ~Conflicts(s, entries) => cut = s
  BY DEF WithoutConflict
<1>3. /\ cut \in Store
      /\ \A n, t, c : InStore(cut, n, t, c) => InStore(s, n, t, c)
      /\ \A index : FlagsUpTo(s.entries, index) /\ FlagsUpTo(s.disk, index) =>
            FlagsUpTo(cut.entries, index) /\ FlagsUpTo(cut.disk, index)
      /\ cut.commitIndex = s.commitIndex
  <2>1. CASE ~Conflicts(s, entries)
    <3> HIDE DEF cut
    <3> QED
      BY <1>1, <1>2, <2>1
  <2>2. CASE Conflicts(s, entries)
    <3> DEFINE first == Min(DOMAIN entries)
    <3>1. cut = TruncateFrom(s, first)
      BY <2>2 DEF WithoutConflict
    <3>2. first \in 1 .. s.lastLogIndex
      BY <2>2 DEF Conflicts, Sound, Contiguous
    <3> HIDE DEF cut, first
    <3>3. cut \in Store
      BY <3>1, <3>2, TruncateFromSound DEF Sound
    <3>4. \A n, t, c : InStore(cut, n, t, c) => HasEntry(s.entries, n, t, c)
      BY <1>1, <3>1, TruncateFromEntries
    <3>5. cut.commitIndex = s.commitIndex
      BY <1>1, <3>1, TruncateFromFields
    <3>6. \A index : FlagsUpTo(s.entries, index) =>
             FlagsUpTo(cut.entries, index) /\ FlagsUpTo(cut.disk, index)
      BY <1>1, <3>1, TruncateFromFlags
    <3> QED
      BY <3>3, <3>4, <3>5, <3>6 DEF InStore
  <2> QED
    BY <2>1, <2>2
<1> HIDE DEF cut
<1>4. /\ AppendBatch(cut, batch).commitIndex = s.commitIndex
      /\ AppendBatch(cut, batch).lastLogIndex
            = Max({cut.lastLogIndex, Highest(DOMAIN batch)})
  BY <1>3, AppendBatchFields
<1>5. \A n, t, c : InStore(AppendBatch(cut, batch), n, t, c)
         => InStore(s, n, t, c) \/ HasEntry(batch, n, t, c)
  BY <1>3, AppendBatchEntries
<1>6. \A index : (/\ FlagsUpTo(s.entries, index) /\ FlagsUpTo(s.disk, index)
                  /\ FlagsUpTo(batch, index))
         => /\ FlagsUpTo(AppendBatch(cut, batch).entries, index)
            /\ FlagsUpTo(AppendBatch(cut, batch).disk, index)
  BY <1>3, AppendBatchFlags
<1> DEFINE r == AppendBatch(cut, batch)
<1> HIDE DEF r
<1>7. /\ r.commitIndex = s.commitIndex
      /\ ~Conflicts(s, entries) =>
            r.lastLogIndex = Max({s.lastLogIndex, Highest(DOMAIN batch)})
  BY <1>2, <1>4 DEF r
<1>8. TookOver(s, entries, batch, r)
  BY <1>5, <1>6, <1>7 DEF TookOver, r
<1> QED
  BY <1>8 DEF cut, r

\* What a follower takes over of its leader's commit index lies in its own log,
\* and so do the marks that come with it.
LEMMA WithCommitEffect ==
    ASSUME NEW s, Sound(s), NEW leaderCommit \in Indices
    PROVE  /\ \A n, t, c : InStore(WithCommit(s, leaderCommit), n, t, c)
                 <=> InStore(s, n, t, c)
           /\ WithCommit(s, leaderCommit).lastLogIndex = s.lastLogIndex
           /\ WithCommit(s, leaderCommit).commitIndex =
                 IF leaderCommit > s.commitIndex
                 THEN IF leaderCommit <= s.lastLogIndex
                      THEN leaderCommit ELSE s.lastLogIndex
                 ELSE s.commitIndex
           /\ \A index \in Nat :
                 (/\ FlagsUpTo(s.entries, index) /\ FlagsUpTo(s.disk, index)
                  /\ leaderCommit <= index)
                 => /\ FlagsUpTo(WithCommit(s, leaderCommit).entries, index)
                    /\ FlagsUpTo(WithCommit(s, leaderCommit).disk, index)
           /\ (\A index : index \in {leaderCommit, s.commitIndex}
                            /\ index >= leaderCommit /\ index >= s.commitIndex =>
                  FlagsUpTo(s.entries, index) /\ FlagsUpTo(s.disk, index))
              => /\ FlagsUpTo(WithCommit(s, leaderCommit).entries,
                              WithCommit(s, leaderCommit).commitIndex)
                 /\ FlagsUpTo(WithCommit(s, leaderCommit).disk,
                              WithCommit(s, leaderCommit).commitIndex)
<1> DEFINE last == s.lastLogIndex
           index == Min({leaderCommit, last})
<1>1. /\ s \in Store /\ last \in Nat /\ s.commitIndex \in Nat /\ leaderCommit \in Nat
      /\ DOMAIN s.entries = 1 .. last /\ DOMAIN s.disk = 1 .. last
      /\ last \in Indices
  BY BoundsAssumption DEF Sound, Contiguous, Store, Indices
<1>2. index = IF leaderCommit <= last THEN leaderCommit ELSE last
  <2>1. leaderCommit \in Int /\ last \in Int
    BY <1>1
  <2> HIDE DEF last
  <2> QED
    BY <2>1, PairEnds
<1>3. index \in Indices /\ index \in Nat
  BY <1>1, <1>2
<1> HIDE DEF index
<1>4. CASE leaderCommit > s.commitIndex
  <2> DEFINE after == CommitUpTo(s, index)
  <2>1. WithCommit(s, leaderCommit) = after
    BY <1>4 DEF WithCommit, index
  <2>2. /\ after.disk = s.disk
        /\ after.commitIndex = index
        /\ after.lastLogIndex = last
        /\ DOMAIN after.entries = DOMAIN s.entries
    BY <1>1, CommitUpToFields
  <2>3. /\ \A n, t, c : InStore(after, n, t, c) <=> InStore(s, n, t, c)
        /\ \A n \in DOMAIN s.entries : after.entries[n].committed =>
              s.entries[n].committed \/ n <= index
    BY <1>3, CommitUpToEntries
  <2> HIDE DEF after
  <2>4. ASSUME FlagsUpTo(s.entries, leaderCommit), FlagsUpTo(s.disk, leaderCommit)
        PROVE  FlagsUpTo(after.entries, index) /\ FlagsUpTo(after.disk, index)
    <3>1. \A n \in 1 .. last : n <= leaderCommit => n <= index
      BY <1>1, <1>2
    <3> QED
      BY <1>1, <2>2, <2>3, <2>4, <3>1 DEF FlagsUpTo
  <2>5. ASSUME NEW upto \in Nat, leaderCommit <= upto,
               FlagsUpTo(s.entries, upto), FlagsUpTo(s.disk, upto)
        PROVE  FlagsUpTo(after.entries, upto) /\ FlagsUpTo(after.disk, upto)
    <3>1. \A n \in 1 .. last : n <= index => n <= upto
      BY <1>1, <1>2, <2>5
    <3> QED
      BY <1>1, <2>2, <2>3, <2>5, <3>1 DEF FlagsUpTo
  <2> QED
    BY <1>1, <1>2, <1>4, <2>1, <2>2, <2>3, <2>4, <2>5
<1>5. CASE ~(leaderCommit > s.commitIndex)
  <2>1. WithCommit(s, leaderCommit) = s
    BY <1>5 DEF WithCommit
  <2> QED
    BY <1>1, <1>5, <2>1
<1> QED
  BY <1>4, <1>5
=============================================================================
