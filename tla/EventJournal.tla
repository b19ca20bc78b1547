---------------------------- MODULE EventJournal ----------------------------
(***************************************************************************)
(* The producer's durable event log of media_engine                        *)
(* (src/media_engine/src/analytics/event_journal.c).                       *)
(*                                                                         *)
(* me_event_journal_append runs under the journal lock, so nothing but a   *)
(* crash can fall between its two durable effects: the compaction that     *)
(* makes room (rename of a rewritten file) and the append of the new line. *)
(* The model keeps those two as separate steps, AppendStart/Compact* and   *)
(* Write*.                                                                 *)
(*                                                                         *)
(* The GQueue is ordered by cursor because every push has a larger cursor  *)
(* than the ones before it, so the queue and the readable part of the file *)
(* are sets of records.  Bytes after the readable part (a partial line, or *)
(* a line whose cursor does not increase) are a torn tail: recovery        *)
(* truncates the file there, so whatever is appended behind them is lost.  *)
(***************************************************************************)
EXTENDS Integers, FiniteSets, FiniteSetsExt

CONSTANTS
    Limits,          \* configurations [records, bytes] a start may be given
    Sizes,           \* lengths a serialised record may have
    MaxEvents,       \* bound: events produced in one behaviour
    MaxCursor        \* stands for UINT64_MAX

Phase == {"START", "UPDATE", "END"}

ASSUME LimitsAssumption ==
    Limits \subseteq [records : Nat \ {0}, bytes : Nat \ {0}]
ASSUME SizesAssumption == Sizes \subseteq Nat \ {0}
ASSUME BoundsAssumption == MaxEvents \in Nat /\ MaxCursor \in Nat

VARIABLES
    up,              \* "down", "open", or "unavailable" (open returned NULL)
    limit,           \* max_records and max_bytes of the running process
    records,         \* journal->records
    next_cursor,     \* journal->next_cursor: the last cursor given out
    dropped_updates, \* journal->dropped_updates
    file,            \* journal->file: "open" or "null"
    disk,            \* the records recovery would read
    tail,            \* "torn" when unreadable bytes follow them, or "clean"
    pc,              \* "idle", or "write" between compaction and append
    pending,         \* the record being appended while pc = "write"
    issued,          \* history: records an append has returned 0 for
    produced,        \* events handed to the journal so far
    trunc            \* history: "failed" once an unchecked ftruncate failed

vars == <<up, limit, records, next_cursor, dropped_updates, file, disk, tail,
          pc, pending, issued, produced, trunc>>

Record == [cursor : 1..MaxCursor, ev : Nat \ {0}, phase : Phase, bytes : Sizes]

NoRecord == [cursor |-> 0]

Boundary(S) == {r \in S : r.phase # "UPDATE"}

-----------------------------------------------------------------------------
(* Pressure policy *)

TotalBytes(S) == MapThenSumSet(LAMBDA r : r.bytes, S)

MaxCursorOf(S) == IF S = {} THEN 0 ELSE Max({r.cursor : r \in S})

\* Mutant of OldestUpdates: the eviction does not look at the phase.
OldestOfAnyPhase(S, k) ==
    {r \in S : Cardinality({q \in S : q.cursor < r.cursor}) < k}

\* The first k records oldest_update finds, in cursor order.
OldestUpdates(S, k) ==
    {r \in S : /\ r.phase = "UPDATE"
               /\ Cardinality({q \in S : /\ q.phase = "UPDATE"
                                         /\ q.cursor < r.cursor}) < k}

UpdateCount(S) == Cardinality({r \in S : r.phase = "UPDATE"})

\* S, with n more records of b bytes in total, is within the limits l.
Within(l, S, n, b) ==
    /\ Cardinality(S) + n <= l.records
    /\ TotalBytes(S) + b <= l.bytes

\* How many of the oldest updates may go to make room for n incoming records.
RoomAfter(l, S, n, b) ==
    {k \in 0..UpdateCount(S) : Within(l, S \ OldestUpdates(S, k), n, b)}

\* The fewest are dropped: the loop stops as soon as the rest fits.
Kept(l, S, n, b) == S \ OldestUpdates(S, Min(RoomAfter(l, S, n, b)))

-----------------------------------------------------------------------------
Init ==
    /\ up = "down"
    /\ limit \in Limits
    /\ records = {}
    /\ next_cursor = 0
    /\ dropped_updates = 0
    /\ file = "null"
    /\ disk = {}
    /\ tail = "clean"
    /\ pc = "idle"
    /\ pending = NoRecord
    /\ issued = {}
    /\ produced = 0
    /\ trunc = "ok"

-----------------------------------------------------------------------------
(* me_event_journal_append *)

Incoming(phase, size) ==
    [cursor |-> next_cursor + 1, ev |-> produced + 1,
     phase |-> phase, bytes |-> size]

\* Mutant of Appending: the exhaustion check is off by one.
AppendingPastMaximum ==
    /\ up = "open"
    /\ pc = "idle"
    /\ produced < MaxEvents
    /\ next_cursor <= MaxCursor
    /\ produced' = produced + 1
    /\ UNCHANGED <<up, limit, next_cursor, issued, trunc>>

\* An event reaches the open journal and a cursor is left.
Appending ==
    /\ up = "open"
    /\ pc = "idle"
    /\ produced < MaxEvents
    /\ next_cursor < MaxCursor
    /\ produced' = produced + 1
    /\ UNCHANGED <<up, limit, next_cursor, issued, trunc>>

\* The cursor is exhausted: append returns -1 before anything else.
AppendExhausted ==
    /\ up = "open"
    /\ pc = "idle"
    /\ produced < MaxEvents
    /\ next_cursor >= MaxCursor
    /\ produced' = produced + 1
    /\ UNCHANGED <<up, limit, records, next_cursor, dropped_updates, file, disk,
                   tail, pc, pending, issued, trunc>>

\* compact_to_fit_locked finds room and returns 0 at once.
AppendStart(phase, size) ==
    /\ Appending
    /\ Within(limit, records, 1, size)
    /\ pc' = "write"
    /\ pending' = Incoming(phase, size)
    /\ UNCHANGED <<records, dropped_updates, file, disk, tail>>

\* No room and nothing left to evict: an UPDATE is counted and dropped, a
\* lifecycle boundary makes the append return -1.
AppendRefused(phase, size) ==
    /\ Appending
    /\ ~Within(limit, records, 1, size)
    /\ size > limit.bytes \/ RoomAfter(limit, records, 1, size) = {}
    /\ dropped_updates' = IF phase = "UPDATE" THEN dropped_updates + 1
                                              ELSE dropped_updates
    /\ UNCHANGED <<records, file, disk, tail, pc, pending>>

Evicting(size) ==
    /\ ~Within(limit, records, 1, size)
    /\ size <= limit.bytes
    /\ RoomAfter(limit, records, 1, size) # {}

\* The rewritten file has replaced the journal and the append goes on.
CompactOk(phase, size) ==
    /\ Appending
    /\ Evicting(size)
    /\ records' = Kept(limit, records, 1, size)
    /\ disk' = Kept(limit, records, 1, size)
    /\ tail' = "clean"
    /\ file' = "open"
    /\ pc' = "write"
    /\ pending' = Incoming(phase, size)
    /\ UNCHANGED dropped_updates

\* rewrite_locked fails before the rename: nothing changed, append returns -1.
CompactFails(phase, size) ==
    /\ Appending
    /\ Evicting(size)
    /\ UNCHANGED <<records, dropped_updates, file, disk, tail, pc, pending>>

\* The rename succeeded and the fopen or the fseek behind it did not: append
\* returns -1, the queue keeps the evicted records and journal->file is NULL
\* or the new file.
CompactReopenFails(phase, size) ==
    /\ Appending
    /\ Evicting(size)
    /\ disk' = Kept(limit, records, 1, size)
    /\ tail' = "clean"
    /\ file' \in {"open", "null"}
    /\ UNCHANGED <<records, dropped_updates, pc, pending>>

\* A line is readable when no unreadable bytes precede it and its cursor is
\* above every cursor before it.  The cursor is written as a JSON number and
\* read back up to 2^53 - 1; no journal lives long enough to get there.
Readable(r) == tail = "clean" /\ \A d \in disk : d.cursor < r.cursor

\* The line as it stands in the file: readable, or part of what recovery cuts.
WriteLine ==
    /\ disk' = IF Readable(pending) THEN disk \cup {pending} ELSE disk
    /\ tail' = IF Readable(pending) THEN "clean" ELSE "torn"

\* fwrite, fflush and fsync succeeded: the record gets its cursor.
WriteOk ==
    /\ pc = "write"
    /\ file = "open"
    /\ WriteLine
    /\ records' = records \cup {pending}
    /\ next_cursor' = pending.cursor
    /\ issued' = issued \cup {pending}
    /\ pc' = "idle"
    /\ pending' = NoRecord
    /\ UNCHANGED <<up, limit, dropped_updates, file, produced, trunc>>

\* A step of the write failed and ftruncate restored the old end of the file.
WriteFails ==
    /\ pc = "write"
    /\ file = "open"
    /\ pc' = "idle"
    /\ pending' = NoRecord
    /\ UNCHANGED <<up, limit, records, next_cursor, dropped_updates, file, disk,
                   tail, issued, produced, trunc>>

\* A step of the write failed and so did the ftruncate, whose result is not
\* looked at: part of the line, or all of it, stays in the file.
WriteFailsUntruncated ==
    /\ pc = "write"
    /\ file = "open"
    /\ \/ tail' = "torn" /\ UNCHANGED disk
       \/ WriteLine
    /\ trunc' = "failed"
    /\ pc' = "idle"
    /\ pending' = NoRecord
    /\ UNCHANGED <<up, limit, records, next_cursor, dropped_updates, file,
                   issued, produced>>

\* Without a journal the engine logs the event and drops it.
EventUnjournaled ==
    /\ up = "unavailable"
    /\ produced < MaxEvents
    /\ produced' = produced + 1
    /\ UNCHANGED <<up, limit, records, next_cursor, dropped_updates, file, disk,
                   tail, pc, pending, issued, trunc>>

-----------------------------------------------------------------------------
(* Process stop and me_event_journal_open *)

Stopped ==
    /\ up' = "down"
    /\ records' = {}
    /\ next_cursor' = 0
    /\ dropped_updates' = 0
    /\ file' = "null"
    /\ pc' = "idle"
    /\ pending' = NoRecord
    /\ UNCHANGED <<limit, issued, produced, trunc>>

\* The process ends between two appends (me_event_journal_close or a crash),
\* or inside one before anything of the line has reached the file; a NULL
\* journal->file ends it at the fseek of an append that needs no compaction.
Crash ==
    /\ up # "down"
    /\ Stopped
    /\ UNCHANGED <<disk, tail>>

\* The process dies with part of the line, or all of it, in the file.
CrashInWrite ==
    /\ pc = "write"
    /\ file = "open"
    /\ \/ tail' = "torn" /\ UNCHANGED disk
       \/ WriteLine
    /\ Stopped

\* A start reads the file up to the first unreadable byte and cuts the rest.
Opening ==
    /\ up = "down"
    /\ UNCHANGED <<dropped_updates, pc, pending, issued, produced, trunc>>

\* Mutant of Open: the corrupt tail is skipped and not truncated.
OpenWithoutTruncate(l) ==
    /\ Opening
    /\ RoomAfter(l, disk, 0, 0) # {}
    /\ up' = "open"
    /\ limit' = l
    /\ records' = Kept(l, disk, 0, 0)
    /\ disk' = Kept(l, disk, 0, 0)
    /\ tail' = tail
    /\ next_cursor' = MaxCursorOf(disk)
    /\ file' = "open"

\* The journal fits the limits, or fits once old updates are rewritten away.
Open(l) ==
    /\ Opening
    /\ RoomAfter(l, disk, 0, 0) # {}
    /\ up' = "open"
    /\ limit' = l
    /\ records' = Kept(l, disk, 0, 0)
    /\ disk' = Kept(l, disk, 0, 0)
    /\ tail' = "clean"
    /\ next_cursor' = MaxCursorOf(disk)
    /\ file' = "open"

\* me_event_journal_open returns NULL: the boundaries alone exceed the limits,
\* or an I/O call failed before the cut, after it, or after the rewrite.
OpenFails(l) ==
    /\ Opening
    /\ up' = "unavailable"
    /\ limit' = l
    /\ \/ UNCHANGED <<disk, tail>>
       \/ tail' = "clean" /\ UNCHANGED disk
       \/ /\ RoomAfter(l, disk, 0, 0) # {}
          /\ disk' = Kept(l, disk, 0, 0)
          /\ tail' = "clean"
    /\ UNCHANGED <<records, next_cursor, file>>

-----------------------------------------------------------------------------
Append(phase, size) ==
    \/ AppendStart(phase, size)
    \/ AppendRefused(phase, size)
    \/ CompactOk(phase, size)
    \/ CompactFails(phase, size)
    \/ CompactReopenFails(phase, size)

Next ==
    \/ \E phase \in Phase, size \in Sizes : Append(phase, size)
    \/ AppendExhausted
    \/ WriteOk
    \/ WriteFails
    \/ WriteFailsUntruncated
    \/ EventUnjournaled
    \/ Crash
    \/ CrashInWrite
    \/ \E l \in Limits : Open(l) \/ OpenFails(l)

Spec == Init /\ [][Next]_vars

-----------------------------------------------------------------------------
(* me_event_journal_snapshot_after: what a subscriber at cursor after is sent *)

SnapshotAfter(after) == {r \in records : r.cursor > after}

\* Mutant of ReplayGap: previous_cursor is not advanced with the records, so
\* only the first one is compared.
ReplayGapAtHeadOnly(after) ==
    /\ SnapshotAfter(after) # {}
    /\ \A r \in SnapshotAfter(after) : r.cursor - after > 1

\* Two neighbours of the snapshot, or the subscriber and its first record,
\* are more than one cursor apart.
ReplayGap(after) ==
    \E r \in SnapshotAfter(after) :
        \A q \in SnapshotAfter(after) \cup {[cursor |-> after]} :
            q.cursor < r.cursor => r.cursor - q.cursor > 1

-----------------------------------------------------------------------------
(* Properties *)

\* Every variable has its type; in particular no cursor is given out beyond
\* UINT64_MAX, where the increment in me_event_journal_append would wrap to 0.
TypeOK ==
    /\ up \in {"down", "open", "unavailable"}
    /\ limit \in Limits
    /\ records \subseteq Record
    /\ next_cursor \in 0..MaxCursor
    /\ dropped_updates \in Nat
    /\ file \in {"open", "null"}
    /\ disk \subseteq Record
    /\ tail \in {"clean", "torn"}
    /\ pc \in {"idle", "write"}
    /\ pending \in Record \cup {NoRecord}
    /\ issued \subseteq Record
    /\ produced \in Nat
    /\ trunc \in {"ok", "failed"}

\* "Returns 0 when durable" (event_journal.h:27): a START or END an append has
\* returned 0 for is read back by every later recovery, whatever compactions,
\* failed appends, crashes and changed limits came in between.
DurableWhenReturned == \A r \in Boundary(issued) : r \in disk

\* A START or END an append has returned 0 for is read back by every later
\* recovery, as long as every ftruncate that had to undo a failed append has
\* worked.
BoundaryDurable == trunc = "ok" => DurableWhenReturned

\* A subscriber that has confirmed nothing beyond cursor c is replayed every
\* START and END with a larger cursor while the journal is open, under the
\* same condition.
BoundaryReplayed ==
    trunc = "ok" /\ up = "open" =>
        \A r \in Boundary(issued) : \A after \in 0..(r.cursor - 1) :
            r \in SnapshotAfter(after)

\* A cursor that was given out and evicted since is reported as a gap to a
\* subscriber behind it, as soon as a later record exists
\* (README.md:135-136 of media_engine).
MissingCursorReported ==
    up = "open" =>
        \A r \in issued, later \in records :
            (/\ later.cursor > r.cursor
             /\ \A q \in records : q.cursor # r.cursor)
                => \A after \in 0..(r.cursor - 1) : ReplayGap(after)

=============================================================================
