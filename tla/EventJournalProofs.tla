------------------------- MODULE EventJournalProofs -------------------------
(***************************************************************************)
(* Proofs about EventJournal for every configuration, record size and      *)
(* number of events: types (and with them the cursor bound), and that a    *)
(* START or END reported durable survives and is replayed until an         *)
(* unchecked ftruncate of a failed append fails.                           *)
(***************************************************************************)
EXTENDS EventJournal, TLAPS, WellFoundedInduction

(***************************************************************************)
(* The inductive invariant.  BoundaryDurable alone is not inductive: a     *)
(* compaction rewrites the file from the queue, so the queue must hold the *)
(* boundaries too; and an appended line is only readable when no torn      *)
(* bytes precede it and its cursor is above every cursor in the file.      *)
(***************************************************************************)
QueueSound ==
    trunc = "ok" /\ up = "open" =>
        /\ tail = "clean"
        /\ Boundary(issued) \subseteq records
        /\ \A r \in disk \cup records : r.cursor <= next_cursor

PendingSound ==
    pc = "write" =>
        /\ up = "open"
        /\ pending \in Record
        /\ pending.cursor = next_cursor + 1

IndInv ==
    /\ TypeOK
    /\ BoundaryDurable
    /\ QueueSound
    /\ PendingSound

-----------------------------------------------------------------------------
(* Lemmas about the pressure policy *)

\* Compaction only removes records, and never a START or an END.
LEMMA KeptBoundary ==
    ASSUME NEW l, NEW S, NEW n, NEW b
    PROVE  /\ Kept(l, S, n, b) \subseteq S
           /\ Boundary(S) \subseteq Kept(l, S, n, b)
  BY DEF Kept, OldestUpdates, Boundary

\* A nonempty set of naturals has a least element.
LEMMA LeastNatural ==
    ASSUME NEW T \in SUBSET Nat, T # {}
    PROVE  \E m \in T : \A n \in T : m <= n
<1> DEFINE R == {ss \in Nat \X Nat : ss[1] < ss[2]}
<1>1. IsWellFoundedOn(R, Nat)
  BY NatLessThanWellFounded DEF OpToRel
<1>2. PICK m \in T : \A n \in T : ~(<<n, m>> \in R)
  BY <1>1, WFMin
<1>3. ASSUME NEW n \in T PROVE m <= n
  <2>1. <<n, m>> \in Nat \X Nat
    OBVIOUS
  <2>2. ~(n < m)
    BY <1>2, <2>1
  <2> QED BY <2>2
<1> QED BY <1>3

\* A nonempty bounded set of naturals has a greatest element.
LEMMA GreatestNatural ==
    ASSUME NEW N \in Nat, NEW C \in SUBSET (0..N), C # {}
    PROVE  \E m \in C : \A y \in C : m >= y
<1> DEFINE T == {n \in 0..N : N - n \in C}
<1>1. PICK c \in C : TRUE
  OBVIOUS
<1>2. N - c \in T /\ T \in SUBSET Nat
  OBVIOUS
<1>3. PICK t \in T : \A u \in T : t <= u
  BY <1>2, LeastNatural
<1>4. ASSUME NEW y \in C PROVE N - t >= y
  <2>1. N - y \in 0..N /\ N - (N - y) = y
    OBVIOUS
  <2>2. N - y \in T
    BY <2>1
  <2>3. t <= N - y
    BY <1>3, <2>2
  <2> QED BY <2>3
<1> QED BY <1>4

\* The cursor a start continues from is a cursor, and no record is above it.
LEMMA MaxCursorBounds ==
    ASSUME NEW S \in SUBSET Record
    PROVE  /\ MaxCursorOf(S) \in 0..MaxCursor
           /\ \A r \in S : r.cursor <= MaxCursorOf(S)
<1>1. CASE S = {}
  BY <1>1, BoundsAssumption DEF MaxCursorOf
<1>2. CASE S # {}
  <2> DEFINE C == {r.cursor : r \in S}
             m == CHOOSE x \in C : \A y \in C : x >= y
  <2>1. \A r \in S : r.cursor \in C /\ r.cursor \in 0..MaxCursor
    BY BoundsAssumption DEF Record
  <2>2. C \in SUBSET (0..MaxCursor) /\ C # {}
    BY <1>2, <2>1
  <2> HIDE DEF C
  <2>3. m \in C /\ \A y \in C : m >= y
    BY <2>2, GreatestNatural, BoundsAssumption
  <2>4. MaxCursorOf(S) = m
    BY <1>2 DEF MaxCursorOf, Max, C
  <2> HIDE DEF m
  <2> QED BY <2>1, <2>2, <2>3, <2>4, BoundsAssumption
<1> QED BY <1>1, <1>2

-----------------------------------------------------------------------------
(* Types *)

\* Every step keeps the types, PendingSound included: it is what bounds the
\* cursor a successful write assigns.
LEMMA TypeStep ==
    TypeOK /\ PendingSound /\ [Next]_vars => TypeOK' /\ PendingSound'
<1> SUFFICES ASSUME TypeOK, PendingSound, [Next]_vars
             PROVE  TypeOK' /\ PendingSound'
  OBVIOUS
<1> USE BoundsAssumption DEF TypeOK, PendingSound
<1>1. ASSUME NEW phase \in Phase, NEW size \in Sizes, Append(phase, size)
      PROVE  TypeOK' /\ PendingSound'
  <2>1. Appending
    BY <1>1 DEF Append, AppendStart, AppendRefused, CompactOk, CompactFails,
                CompactReopenFails
  <2>2. /\ Incoming(phase, size) \in Record
        /\ Incoming(phase, size).cursor = next_cursor + 1
    BY <2>1 DEF Appending, Incoming, Record
  <2>3. Kept(limit, records, 1, size) \subseteq Record
    BY KeptBoundary
  <2>4. CASE AppendStart(phase, size)
    BY <2>1, <2>2, <2>4 DEF AppendStart, Appending
  <2>5. CASE AppendRefused(phase, size)
    BY <2>1, <2>5 DEF AppendRefused, Appending
  <2>6. CASE CompactOk(phase, size)
    BY <2>1, <2>2, <2>3, <2>6 DEF CompactOk, Appending
  <2>7. CASE CompactFails(phase, size)
    BY <2>1, <2>7 DEF CompactFails, Appending
  <2>8. CASE CompactReopenFails(phase, size)
    BY <2>1, <2>3, <2>8 DEF CompactReopenFails, Appending
  <2> QED BY <1>1, <2>4, <2>5, <2>6, <2>7, <2>8 DEF Append
<1>2. CASE AppendExhausted
  BY <1>2 DEF AppendExhausted
<1>3. CASE WriteOk
  BY <1>3 DEF WriteOk, WriteLine, Readable, Record
<1>4. CASE WriteFails
  BY <1>4 DEF WriteFails
<1>5. CASE WriteFailsUntruncated
  BY <1>5 DEF WriteFailsUntruncated, WriteLine, Readable
<1>6. CASE EventUnjournaled
  BY <1>6 DEF EventUnjournaled
<1>7. CASE Crash
  BY <1>7 DEF Crash, Stopped
<1>8. CASE CrashInWrite
  BY <1>8 DEF CrashInWrite, Stopped, WriteLine, Readable
<1>9. ASSUME NEW l \in Limits, Open(l) \/ OpenFails(l)
      PROVE  TypeOK' /\ PendingSound'
  <2>1. Kept(l, disk, 0, 0) \subseteq Record
    BY KeptBoundary
  <2>2. CASE Open(l)
    BY <2>1, <2>2, MaxCursorBounds DEF Open, Opening
  <2>3. CASE OpenFails(l)
    BY <2>1, <2>3 DEF OpenFails, Opening
  <2> QED BY <1>9, <2>2, <2>3
<1>10. CASE UNCHANGED vars
  BY <1>10 DEF vars
<1> QED BY <1>1, <1>2, <1>3, <1>4, <1>5, <1>6, <1>7, <1>8, <1>9, <1>10 DEF Next

\* Init establishes the inductive invariant.
LEMMA InitSound == Init => IndInv
<1> SUFFICES ASSUME Init PROVE IndInv
  OBVIOUS
<1>1. TypeOK
  BY BoundsAssumption DEF Init, TypeOK
<1>2. BoundaryDurable
  BY DEF Init, BoundaryDurable, DurableWhenReturned, Boundary
<1>3. QueueSound /\ PendingSound
  BY DEF Init, QueueSound, PendingSound
<1> QED BY <1>1, <1>2, <1>3 DEF IndInv

\* me_event_journal_append never hands out a cursor above UINT64_MAX, and
\* every variable keeps its type, whatever fails or crashes.
THEOREM Typing == Spec => []TypeOK
<1>1. Init => TypeOK /\ PendingSound
  BY InitSound DEF IndInv
<1> QED BY <1>1, TypeStep, PTL DEF Spec

-----------------------------------------------------------------------------
(* Durability of START and END *)

\* Every step keeps the inductive invariant; a failing ftruncate ends what it
\* says about boundaries.
LEMMA SoundStep == IndInv /\ [Next]_vars => IndInv'
<1> SUFFICES ASSUME IndInv, [Next]_vars
             PROVE  BoundaryDurable' /\ QueueSound'
  BY TypeStep DEF IndInv
<1>1. TypeOK /\ PendingSound /\ BoundaryDurable /\ QueueSound
  BY DEF IndInv
<1> USE <1>1 DEF BoundaryDurable, DurableWhenReturned, QueueSound, Boundary
<1>2. ASSUME NEW phase \in Phase, NEW size \in Sizes, Append(phase, size)
      PROVE  BoundaryDurable' /\ QueueSound'
  <2>1. Appending
    BY <1>2 DEF Append, AppendStart, AppendRefused, CompactOk, CompactFails,
                CompactReopenFails
  <2> DEFINE K == Kept(limit, records, 1, size)
  <2>2. K \subseteq records /\ Boundary(records) \subseteq K
    BY KeptBoundary
  <2> HIDE DEF K
  <2>3. CASE AppendStart(phase, size)
    BY <2>1, <2>3 DEF AppendStart, Appending
  <2>4. CASE AppendRefused(phase, size)
    BY <2>1, <2>4 DEF AppendRefused, Appending
  <2>5. CASE CompactOk(phase, size)
    <3>1. disk' = K /\ records' = K /\ tail' = "clean"
      BY <2>5 DEF CompactOk, K
    <3> QED BY <2>1, <2>2, <3>1 DEF Appending
  <2>6. CASE CompactFails(phase, size)
    BY <2>1, <2>6 DEF CompactFails, Appending
  <2>7. CASE CompactReopenFails(phase, size)
    <3>1. disk' = K /\ records' = records /\ tail' = "clean"
      BY <2>7 DEF CompactReopenFails, K
    <3> QED BY <2>1, <2>2, <3>1 DEF Appending
  <2> QED BY <1>2, <2>3, <2>4, <2>5, <2>6, <2>7 DEF Append
<1>3. CASE AppendExhausted
  BY <1>3 DEF AppendExhausted
<1>4. CASE WriteOk
  <2> SUFFICES ASSUME trunc = "ok" PROVE BoundaryDurable' /\ QueueSound'
    BY <1>4 DEF WriteOk
  <2>1. Readable(pending)
    BY <1>4, BoundsAssumption
    DEF WriteOk, PendingSound, Readable, TypeOK, Record
  <2>2. disk' = disk \cup {pending} /\ tail' = "clean"
    BY <1>4, <2>1 DEF WriteOk, WriteLine
  <2>3. /\ records' = records \cup {pending}
        /\ issued' = issued \cup {pending}
        /\ next_cursor' = pending.cursor
        /\ up' = up
    BY <1>4 DEF WriteOk
  <2>4. \A r \in disk \cup records : r.cursor <= pending.cursor
    BY <1>4, BoundsAssumption DEF WriteOk, PendingSound, TypeOK, Record
  <2>5. pending.cursor <= pending.cursor
    BY <1>4 DEF WriteOk, PendingSound, TypeOK
  <2> QED BY <2>2, <2>3, <2>4, <2>5
<1>5. CASE WriteFails
  BY <1>5 DEF WriteFails
<1>6. CASE WriteFailsUntruncated
  BY <1>6 DEF WriteFailsUntruncated
<1>7. CASE EventUnjournaled
  BY <1>7 DEF EventUnjournaled
<1>8. CASE Crash
  BY <1>8 DEF Crash, Stopped
<1>9. CASE CrashInWrite
  BY <1>9 DEF CrashInWrite, Stopped, WriteLine
<1>10. ASSUME NEW l \in Limits, Open(l) \/ OpenFails(l)
       PROVE  BoundaryDurable' /\ QueueSound'
  <2> DEFINE K == Kept(l, disk, 0, 0)
  <2>1. K \subseteq disk /\ Boundary(disk) \subseteq K
    BY KeptBoundary
  <2> HIDE DEF K
  <2>2. CASE Open(l)
    <3>1. /\ disk' = K /\ records' = K /\ tail' = "clean"
          /\ next_cursor' = MaxCursorOf(disk) /\ issued' = issued
          /\ trunc' = trunc
      BY <2>2 DEF Open, Opening, K
    <3>2. \A r \in disk : r.cursor <= MaxCursorOf(disk)
      BY MaxCursorBounds DEF TypeOK
    <3> QED BY <2>1, <3>1, <3>2
  <2>3. CASE OpenFails(l)
    <3>1. /\ up' = "unavailable"
          /\ issued' = issued /\ trunc' = trunc
          /\ disk' = disk \/ disk' = K
      BY <2>3 DEF OpenFails, Opening, K
    <3> QED BY <2>1, <3>1
  <2> QED BY <1>10, <2>2, <2>3
<1>11. CASE UNCHANGED vars
  BY <1>11 DEF vars
<1> QED BY <1>2, <1>3, <1>4, <1>5, <1>6, <1>7, <1>8, <1>9, <1>10, <1>11
        DEF IndInv, Next

\* A START or END for which me_event_journal_append returned 0 is read back by
\* every recovery, through any compactions, failed appends, restarts with
\* other limits and crashes, as long as every ftruncate that had to undo a
\* failed append has worked.
THEOREM Durability == Spec => []BoundaryDurable
<1>1. IndInv => BoundaryDurable
  BY DEF IndInv
<1> QED BY <1>1, InitSound, SoundStep, PTL DEF Spec

\* While the journal is open a subscriber is replayed every START and END
\* above the cursor it has confirmed, under the same condition.
THEOREM Replay == Spec => []BoundaryReplayed
<1>1. IndInv => BoundaryReplayed
  BY DEF IndInv, TypeOK, QueueSound, BoundaryReplayed, SnapshotAfter, Boundary,
         Record
<1> QED BY <1>1, InitSound, SoundStep, PTL DEF Spec

-----------------------------------------------------------------------------
(* Gaps *)

\* A hole of the queue, with a record behind it, is a gap for a subscriber
\* that stands before it.
LEMMA HoleIsGap ==
    ASSUME TypeOK,
           NEW c \in Nat, NEW later \in records, later.cursor > c,
           \A q \in records : q.cursor # c,
           NEW after \in 0..(c - 1)
    PROVE  ReplayGap(after)
<1> DEFINE T == {n \in Nat : n > c /\ \E q \in records : q.cursor = n}
<1>1. \A q \in records : q.cursor \in Nat
  BY DEF TypeOK, Record
<1>2. later.cursor \in T
  BY <1>1
<1>3. PICK n \in T : \A u \in T : n <= u
  BY <1>2, LeastNatural
<1>4. PICK r \in records : r.cursor = n
  OBVIOUS
<1>5. r \in SnapshotAfter(after)
  BY <1>3, <1>4 DEF SnapshotAfter
<1>6. ASSUME NEW q \in SnapshotAfter(after) \cup {[cursor |-> after]},
             q.cursor < r.cursor
      PROVE  r.cursor - q.cursor > 1
  <2>1. q.cursor \in Nat /\ q.cursor # c
    BY <1>1 DEF SnapshotAfter
  <2>2. ~(q.cursor > c)
    <3>1. SUFFICES ASSUME q.cursor > c PROVE FALSE
      OBVIOUS
    <3>2. q \in records
      BY <3>1 DEF SnapshotAfter
    <3>3. q.cursor \in T
      BY <2>1, <3>1, <3>2
    <3>4. r.cursor <= q.cursor
      BY <1>3, <1>4, <3>3
    <3> QED BY <1>1, <1>6, <2>1, <3>4
  <2> QED BY <1>3, <1>4, <2>1, <2>2
<1> HIDE DEF T
<1> QED BY <1>5, <1>6 DEF ReplayGap

\* me_event_journal_snapshot_after reports every missing cursor that has a
\* record behind it, even when the unchecked ftruncate fails.
THEOREM GapReported == Spec => []MissingCursorReported
<1>1. TypeOK => MissingCursorReported
  <2> SUFFICES ASSUME TypeOK, NEW r \in issued, NEW later \in records,
                      later.cursor > r.cursor,
                      \A q \in records : q.cursor # r.cursor,
                      NEW after \in 0..(r.cursor - 1)
               PROVE  ReplayGap(after)
    BY DEF MissingCursorReported
  <2>1. r.cursor \in Nat
    BY DEF TypeOK, Record
  <2> QED BY <2>1, HoleIsGap
<1> QED BY <1>1, Typing, PTL

=============================================================================
