------------------------------- MODULE Outbox -------------------------------
(***************************************************************************)
(* The consumer's durable outbox of gb28181_daemon                         *)
(* (src/gb28181_daemon/internal/outbox/outbox.go): an append-only JSONL    *)
(* log of entries, the records and the producer cursor it stands for, and  *)
(* the compaction that replaces the log by one snapshot line.              *)
(*                                                                         *)
(* Every operation holds Store.mu from its first line to its last, so it   *)
(* is one action; its I/O may fail in several ways, and a power loss may   *)
(* leave the log as any failed write would.  An operation is an action     *)
(* with its result as parameter; OutboxDurability and EventDelivery        *)
(* compose these actions with the goroutines that call them.               *)
(*                                                                         *)
(* A record is known by the index of its event in Stream, which is also    *)
(* the producer cursor the event carries: the key of an event and its      *)
(* cursor determine each other within one stream.  Every entry counts as   *)
(* one unit of file size and so does every record of a snapshot line,      *)
(* which is a single line whatever its size.                               *)
(***************************************************************************)
EXTENDS Integers, Sequences, FiniteSets, Functions

CONSTANTS
    Stream,          \* the producer's events, [id, phase, evidence]
    AlarmPhases,     \* the phases alarms are configured for
    EvidenceEnabled, \* whether an evidence uploader is configured
    Limits,          \* configurations [records, bytes] a start may be given
    MaxLine,         \* the longest line load accepts: 8 MiB, while maxBytes
                     \* is 16 MiB unless configured otherwise
    Faults           \* "partial": a write may fail part way; "noeol": a power
                     \* loss may cut a line exactly before its newline

ASSUME StreamAssumption ==
    Stream \in Seq([id : STRING, phase : {"START", "UPDATE", "END"},
                    evidence : BOOLEAN])
ASSUME OutboxAssumption ==
    /\ AlarmPhases \subseteq {"START", "UPDATE", "END"}
    /\ EvidenceEnabled \in BOOLEAN
    /\ Limits \subseteq [records : Nat \ {0}, bytes : Nat \ {0}]
    /\ MaxLine \in Nat \ {0}
    /\ Faults \subseteq {"partial", "noeol"}

VARIABLES
    up,     \* whether a Store is open in a running daemon
    limit,  \* maxRecords and maxBytes of that Store
    mem,    \* Store.records and Store.lastAck
    file,   \* Store.file: "open", or "nil" after a failed reopen
    disk    \* the log file, as recovery would see it

storeVars == <<up, limit, mem, file, disk>>

Key == DOMAIN Stream

AlarmState == {"pending", "sent", "ignored", "dead"}
EvidenceState ==
    {"pending", "staging", "sent", "ignored", "dead", "disabled"}

Record == [alarm : AlarmState, alarmAttempts : Nat,
           evidence : EvidenceState, evidenceAttempts : Nat]

IsStore(s) ==
    /\ DOMAIN s = {"recs", "ack"}
    /\ DOMAIN s.recs \subseteq Key
    /\ \A k \in DOMAIN s.recs : s.recs[k] \in Record
    /\ s.ack \in 0..Len(Stream)

EmptyStore == [recs |-> <<>>, ack |-> 0]

-----------------------------------------------------------------------------
(* Journal entries *)

EventEntry(k, record) == [op |-> "event", key |-> k, record |-> record]
AckEntry(c) == [op |-> "ack", cursor |-> c]

\* A state entry carries one sink's fields; the other sink's are kept.
AlarmEntry(k, state, attempts) ==
    [op |-> "alarm_state", key |-> k, state |-> state, attempts |-> attempts]
EvidenceEntry(k, state, attempts) ==
    [op |-> "evidence_state", key |-> k, state |-> state, attempts |-> attempts]

\* A state entry for a key the log does not know makes recovery fail.
Applies(s, e) ==
    e.op \in {"alarm_state", "evidence_state"} => e.key \in DOMAIN s.recs

\* The table recs with the record r at key k.
Put(recs, k, r) == [j \in DOMAIN recs \cup {k} |-> IF j = k THEN r ELSE recs[j]]

\* The state an entry turns s into: Store.apply, and the assignment that
\* follows a successful append in every operation.
Apply(s, e) ==
    CASE e.op = "event" -> [s EXCEPT !.recs = Put(@, e.key, e.record)]
      [] e.op = "ack" -> [s EXCEPT !.ack = IF e.cursor > @ THEN e.cursor ELSE @]
      [] e.op = "alarm_state" ->
             [s EXCEPT !.recs[e.key] = [@ EXCEPT !.alarm = e.state,
                                                 !.alarmAttempts = e.attempts]]
      [] e.op = "evidence_state" ->
             [s EXCEPT !.recs[e.key] = [@ EXCEPT !.evidence = e.state,
                                                 !.evidenceAttempts = e.attempts]]

-----------------------------------------------------------------------------
(* The file *)

(***************************************************************************)
(* base is what the newline-terminated, well-formed lines amount to.  tail *)
(* says what follows them:                                                 *)
(*   clean     nothing;                                                    *)
(*   torn      part of a line;                                             *)
(*   noeol     a complete entry without its newline; ext is base with it;  *)
(*   glued     a malformed line with its newline: a torn or noeol line and *)
(*             the entry that was appended to it;                          *)
(*   poisoned  a malformed line with more bytes behind it.                 *)
(* line is the length of the snapshot line, if there is one; the lines of  *)
(* entries are taken to be shorter than load accepts.                      *)
(***************************************************************************)
TailStatus == {"clean", "torn", "noeol", "glued", "poisoned"}

IsDisk(d) ==
    /\ DOMAIN d = {"base", "ext", "tail", "used", "line"}
    /\ IsStore(d.base)
    /\ IsStore(d.ext)
    /\ d.tail \in TailStatus
    /\ d.used \in Nat
    /\ d.line \in Nat

EmptyDisk == [base |-> EmptyStore, ext |-> EmptyStore, tail |-> "clean",
              used |-> 0, line |-> 0]

Size(d) == d.used + (IF d.tail = "clean" THEN 0 ELSE 1)

\* The file once the entry e has been written behind it, newline included.
WithLine(d, e) ==
    CASE d.tail = "clean" /\ Applies(d.base, e) ->
           [d EXCEPT !.base = Apply(@, e), !.ext = Apply(d.base, e),
                     !.used = @ + 1]
      [] d.tail \in {"torn", "noeol"} -> [d EXCEPT !.tail = "glued"]
      [] OTHER -> [d EXCEPT !.tail = "poisoned"]

\* The file once the bytes of e stop short of the end of the entry.
WithPart(d) ==
    [d EXCEPT !.tail = IF @ \in {"glued", "poisoned"} THEN "poisoned"
                                                      ELSE "torn"]

\* The file once all of e but its newline has been written.
WithoutNewline(d, e) ==
    IF d.tail = "clean" THEN [d EXCEPT !.tail = "noeol", !.ext = Apply(d.base, e)]
                        ELSE WithPart(d)

SnapshotSize(s) == 1 + Cardinality(DOMAIN s.recs)

\* The file as compactLocked leaves it: one snapshot line.
Compacted(s) ==
    [base |-> s, ext |-> s, tail |-> "clean", used |-> SnapshotSize(s),
     line |-> SnapshotSize(s)]

\* compactLocked holds the snapshot against maxBytes only; load refuses a file
\* with a line longer than it accepts, however small the file.
Legible(d) == d.line <= MaxLine

\* load succeeds.
Loads(d) == d.tail # "poisoned" /\ Legible(d)

\* What load reads then.
Loaded(d) == IF d.tail = "noeol" THEN d.ext ELSE d.base

\* The file after load: a malformed last line is truncated away, and a last
\* line that is an entry without its newline is left as it is.
Recovered(d) == IF d.tail = "noeol" THEN d ELSE [d EXCEPT !.tail = "clean"]

-----------------------------------------------------------------------------
(* Outcomes of the internal steps: [res, mem, disk, file] *)

Outcome(res, s, d, f) == [res |-> res, mem |-> s, disk |-> d, file |-> f]

\* compactLocked on the file d with the records of s.
CompactOutcomes(s, d) ==
    IF SnapshotSize(s) > limit.bytes
    THEN {Outcome("capacity", s, d, "open")}
    ELSE {Outcome("ok", s, Compacted(s), "open"),
          Outcome("error", s, d, "open"),
          Outcome("error", s, Compacted(s), "nil")}

\* The write and the sync of one entry.  Nothing undoes a write that fails
\* part way: what has been written stays in the file.
WriteOutcomes(s, d, e) ==
    {Outcome("ok", Apply(s, e), WithLine(d, e), "open"),
     Outcome("error", s, d, "open"),
     Outcome("error", s, WithLine(d, e), "open")}
    \cup {Outcome("error", s, left, "open") :
              left \in IF "partial" \in Faults
                       THEN {WithPart(d), WithoutNewline(d, e)} ELSE {}}

\* Mutant of AppendOutcomes: the size check leaves out the new entry.
AppendPastLimit(s, d, e) ==
    IF Size(d) <= limit.bytes
    THEN WriteOutcomes(s, d, e)
    ELSE {Outcome("capacity", s, d, "open")}

\* appendLocked of the entry e while the memory is s and the file d.
AppendOutcomes(s, d, e) ==
    IF Size(d) + 1 <= limit.bytes
    THEN WriteOutcomes(s, d, e)
    ELSE UNION {IF c.res # "ok" THEN {c}
                ELSE IF Size(c.disk) + 1 > limit.bytes
                     THEN {Outcome("capacity", s, c.disk, "open")}
                     ELSE WriteOutcomes(s, c.disk, e) : c \in CompactOutcomes(s, d)}

\* A Store whose file is nil answers every call with ErrClosed.
AppendLocked(e) ==
    IF file = "nil" THEN {Outcome("error", mem, disk, file)}
                    ELSE AppendOutcomes(mem, disk, e)

Becomes(o) ==
    /\ mem' = o.mem
    /\ disk' = o.disk
    /\ file' = o.file
    /\ UNCHANGED <<up, limit>>

-----------------------------------------------------------------------------
(* EnqueueWithEvidence *)

\* Mutant of Terminal: only the alarm sink is asked.
TerminalAlarmOnly(s) == {k \in DOMAIN s.recs : s.recs[k].alarm # "pending"}

\* The keys no sink is waiting for, in the order oldestTerminal finds them.
Terminal(s) ==
    {k \in DOMAIN s.recs : /\ s.recs[k].alarm # "pending"
                           /\ s.recs[k].evidence \notin {"pending", "staging"}}

Oldest(K, n) == {k \in K : Cardinality({j \in K : j < k}) < n}

Without(s, K) == [s EXCEPT !.recs = Restrict(@, DOMAIN @ \ K)]

\* makeRoomForBoundaryLocked: terminal records go until a slot is free.
BoundaryRoom ==
    LET over == Cardinality(DOMAIN mem.recs) - limit.records + 1
        kept == Without(mem, Oldest(Terminal(mem), over))
    IN  IF Cardinality(Terminal(mem)) < over
        THEN {Outcome("capacity", mem, disk, "open")}
        ELSE {IF c.res = "ok" THEN c ELSE [c EXCEPT !.mem = mem] :
                  c \in CompactOutcomes(kept, disk)}

\* coalesceUpdateLocked: the newest delivered UPDATE of the event goes.
UpdateRoom(k) ==
    LET old == {j \in DOMAIN mem.recs : /\ Stream[j].id = Stream[k].id
                                        /\ Stream[j].phase = "UPDATE"
                                        /\ mem.recs[j].alarm # "pending"
                                        /\ mem.recs[j].evidence # "pending"}
        newest == {j \in old : \A i \in old : i <= j}
    IN  IF old = {}
        THEN {Outcome("dropped", mem, disk, "open")}
        ELSE {IF c.res = "ok" THEN c ELSE [c EXCEPT !.mem = mem] :
                  c \in CompactOutcomes(Without(mem, newest), disk)}

RoomOutcomes(k) ==
    IF Cardinality(DOMAIN mem.recs) < limit.records
    THEN {Outcome("ok", mem, disk, "open")}
    ELSE IF Stream[k].phase = "UPDATE" THEN UpdateRoom(k) ELSE BoundaryRoom

\* appendBoundaryAfterBytePressureLocked: round j takes the j oldest terminal
\* records away, compacts, and appends.  A log that has just room for its
\* snapshot brings on the next round; evictions are not taken back.
PressureOutcomes(s, d, e) ==
    LET Gone(j) == Without(s, Oldest(Terminal(s), j))
        After(j) == IF j = 0 THEN d ELSE Compacted(Gone(j))
        last == Cardinality(Terminal(s))
        rounds == {j \in 0..last :
                      \A i \in 1..j : SnapshotSize(Gone(i)) = limit.bytes}
        RoundOutcomes(j) ==
            {c \in CompactOutcomes(Gone(j), After(j - 1)) : c.res # "ok"}
            \cup {a \in AppendOutcomes(Gone(j), Compacted(Gone(j)), e) :
                     SnapshotSize(Gone(j)) <= limit.bytes /\ a.res # "capacity"}
    IN  {Outcome("capacity", Gone(last), After(last), "open") : j \in rounds \cap {last}}
        \cup UNION {RoundOutcomes(j + 1) : j \in rounds \ {last}}

NewRecord(k) ==
    [alarm |-> IF Stream[k].phase \in AlarmPhases THEN "pending" ELSE "ignored",
     alarmAttempts |-> 0,
     evidence |-> CASE ~EvidenceEnabled -> "disabled"
                    [] EvidenceEnabled /\ Stream[k].phase # "START" -> "ignored"
                    [] OTHER -> IF Stream[k].evidence THEN "pending" ELSE "dead",
     evidenceAttempts |-> 0]

\* The outcomes of storing the event k once there is a slot for it.
StoreOutcomes(k, room) ==
    LET e == EventEntry(k, NewRecord(k))
        update == Stream[k].phase = "UPDATE"
    IN  UNION {CASE a.res = "capacity" /\ update -> {[a EXCEPT !.res = "dropped"]}
                 [] a.res = "capacity" /\ ~update ->
                        PressureOutcomes(a.mem, a.disk, e)
                 [] OTHER -> {a} : a \in AppendOutcomes(room.mem, room.disk, e)}

\* Mutant of EnqueueOutcomes: an event that is stored already is stored anew.
EnqueueWithoutLookup(k) ==
    IF file = "nil"
    THEN {Outcome("error", mem, disk, file)}
    ELSE UNION {IF r.res # "ok" THEN {r} ELSE StoreOutcomes(k, r) :
                    r \in RoomOutcomes(k)}

EnqueueOutcomes(k) ==
    CASE file = "nil" -> {Outcome("error", mem, disk, file)}
      [] file = "open" /\ k \in DOMAIN mem.recs ->
             {Outcome("exists", mem, disk, file)}
      [] OTHER -> UNION {IF r.res # "ok" THEN {r} ELSE StoreOutcomes(k, r) :
                             r \in RoomOutcomes(k)}

\* EnqueueWithEvidence of the event k returns res.
Enqueue(k, res) ==
    /\ up
    /\ \E o \in EnqueueOutcomes(k) : o.res = res /\ Becomes(o)

-----------------------------------------------------------------------------
(* Ack and the Mark operations *)

\* Ack moves the cursor forward only.
Ack(c, res) ==
    /\ up
    /\ IF file = "open" /\ c <= mem.ack
       THEN res = "ok" /\ UNCHANGED storeVars
       ELSE \E o \in AppendLocked(AckEntry(c)) : o.res = res /\ Becomes(o)

\* Mutant of Mark: the record is updated in memory before the append, and a
\* failed append does not take it back.
MarkVisibleFirst(k, e, res) ==
    /\ up
    /\ IF k \notin DOMAIN mem.recs
       THEN res = "error" /\ UNCHANGED storeVars
       ELSE \E o \in AppendLocked(e) :
                o.res = res /\ Becomes([o EXCEPT !.mem = Apply(mem, e)])

\* A Mark operation: an unknown key is refused, otherwise the record's new
\* state is appended and only then visible.
Mark(k, e, res) ==
    /\ up
    /\ IF k \notin DOMAIN mem.recs
       THEN res = "error" /\ UNCHANGED storeVars
       ELSE \E o \in AppendLocked(e) : o.res = res /\ Becomes(o)

MarkAlarmSent(k, res) ==
    Mark(k, AlarmEntry(k, "sent", mem.recs[k].alarmAttempts), res)

MarkAlarmAttempt(k, terminal, res) ==
    Mark(k, AlarmEntry(k, IF terminal THEN "dead" ELSE "pending",
                       mem.recs[k].alarmAttempts + 1), res)

MarkEvidenceSent(k, res) ==
    Mark(k, EvidenceEntry(k, "sent", mem.recs[k].evidenceAttempts), res)

MarkEvidenceAttempt(k, terminal, res) ==
    Mark(k, EvidenceEntry(k, IF terminal THEN "dead" ELSE "pending",
                          mem.recs[k].evidenceAttempts + 1), res)

MarkEvidenceStagingFailure(k, terminal, res) ==
    Mark(k, EvidenceEntry(k, IF terminal THEN "dead" ELSE "staging",
                          mem.recs[k].evidenceAttempts + 1), res)

MarkEvidenceState(k, state, res) ==
    Mark(k, EvidenceEntry(k, state, mem.recs[k].evidenceAttempts), res)

PendingAlarms == {k \in DOMAIN mem.recs : mem.recs[k].alarm = "pending"}

PendingEvidence == {k \in DOMAIN mem.recs : mem.recs[k].evidence = "pending"}

-----------------------------------------------------------------------------
(* Open, Close and power loss *)

StoreInit ==
    /\ up = FALSE
    /\ limit \in Limits
    /\ mem = EmptyStore
    /\ file = "nil"
    /\ disk = EmptyDisk

\* Open loads the log and compacts it when it is over the configured size.
Open(l) ==
    /\ ~up
    /\ Loads(disk)
    /\ LET s == Loaded(disk)
           d == Recovered(disk)
       IN  /\ up' = TRUE
           /\ limit' = l
           /\ mem' = s
           /\ file' = "open"
           /\ \/ Size(d) <= l.bytes /\ disk' = d
              \/ /\ Size(d) > l.bytes
                 /\ SnapshotSize(s) <= l.bytes
                 /\ disk' = Compacted(s)

\* Open returns an error: the log cannot be loaded, the snapshot is over the
\* configured size, or an I/O call failed before the tail was cut, after it,
\* or after the compaction.
OpenFails(l) ==
    /\ ~up
    /\ \/ UNCHANGED disk
       \/ /\ Loads(disk)
          /\ disk' = Recovered(disk)
       \/ /\ Loads(disk)
          /\ Size(Recovered(disk)) > l.bytes
          /\ SnapshotSize(Loaded(disk)) <= l.bytes
          /\ disk' = Compacted(Loaded(disk))
    /\ UNCHANGED <<up, limit, mem, file>>

\* The process ends, by Close or by a crash between two operations.
Stop ==
    /\ up
    /\ up' = FALSE
    /\ mem' = EmptyStore
    /\ file' = "nil"
    /\ UNCHANGED <<limit, disk>>

\* Power is lost inside the append of the entry e.
StopInAppend(e) ==
    /\ up
    /\ file = "open"
    /\ up' = FALSE
    /\ mem' = EmptyStore
    /\ file' = "nil"
    /\ \/ disk' = WithPart(disk)
       \/ "noeol" \in Faults /\ disk' = WithoutNewline(disk, e)
    /\ UNCHANGED limit

=============================================================================
