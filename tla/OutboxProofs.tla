---------------------------- MODULE OutboxProofs ----------------------------
(***************************************************************************)
(* What the operations of the outbox can do to the store and to the log,   *)
(* for any stream, limits and faults: the lemmas that the proofs about     *)
(* OutboxDurability and EventDelivery share.                               *)
(*                                                                         *)
(* An operation evicts some terminal records, may replace the log by a     *)
(* snapshot of what is left at some point, and writes one entry, with or   *)
(* without success.  Shape says so; every property of the outbox follows   *)
(* from it and from what the entry is.                                     *)
(***************************************************************************)
EXTENDS Outbox, FiniteSetTheorems, TLAPS

\* t is m without some terminal records.
Evicted(t, m) ==
    /\ DOMAIN t = {"recs", "ack"}
    /\ t.ack = m.ack
    /\ DOMAIN t.recs \subseteq DOMAIN m.recs
    /\ \A k \in DOMAIN t.recs : t.recs[k] = m.recs[k]
    /\ DOMAIN m.recs \ DOMAIN t.recs \subseteq Terminal(m)

\* x is the log d, or a snapshot of m after evictions that fits.
OnDisk(x, m, d) ==
    \/ x = d
    \/ \E u : Evicted(u, m) /\ SnapshotSize(u) <= limit.bytes /\ x = Compacted(u)

\* The outcome o of an operation that writes the entry e.
Shape(o, m, d, e) ==
    /\ \E t, x :
          /\ Evicted(t, m) /\ OnDisk(x, m, d)
          /\ \/ /\ o.res = "ok" /\ o.file = "open"
                /\ o.mem = Apply(t, e) /\ o.disk = WithLine(x, e)
             \/ /\ o.res \in {"capacity", "error", "dropped", "exists"}
                /\ o.file \in {"open", "nil"} /\ o.mem = t
                /\ o.disk \in {x, WithLine(x, e), WithPart(x), WithoutNewline(x, e)}
    /\ Size(d) <= limit.bytes => Size(o.disk) <= limit.bytes

IsEntry(e) ==
    \/ e.op = "event" /\ e.key \in Key /\ e.record \in Record
    \/ e.op = "ack" /\ e.cursor \in 0..Len(Stream)
    \/ e.op = "alarm_state" /\ e.key \in Key /\ e.state \in AlarmState /\ e.attempts \in Nat
    \/ e.op = "evidence_state" /\ e.key \in Key /\ e.state \in EvidenceState
       /\ e.attempts \in Nat

\* Records of an UPDATE never wait for evidence to be staged.
Plain(m) ==
    \A k \in DOMAIN m.recs : Stream[k].phase = "UPDATE" => m.recs[k].evidence # "staging"

-----------------------------------------------------------------------------
(* Evictions *)

\* A store is itself after no eviction.
LEMMA EvictedSame ==
    ASSUME NEW m, IsStore(m)
    PROVE  Evicted(m, m)
  BY DEF Evicted, IsStore

\* Evictions add up.
LEMMA EvictedTrans ==
    ASSUME NEW t, NEW s, NEW m, Evicted(t, s), Evicted(s, m)
    PROVE  Evicted(t, m)
  BY DEF Evicted, Terminal

\* What is left is a store.
LEMMA EvictedStore ==
    ASSUME NEW t, NEW m, IsStore(m), Evicted(t, m)
    PROVE  IsStore(t) /\ (Plain(m) => Plain(t))
  BY DEF Evicted, IsStore, Plain

\* Taking terminal records out is an eviction.
LEMMA WithoutEvicts ==
    ASSUME NEW m, IsStore(m), NEW K, K \cap DOMAIN m.recs \subseteq Terminal(m)
    PROVE  Evicted(Without(m, K), m)
  BY DEF Evicted, Without, Restrict, IsStore

\* The oldest terminal records are some of them.
LEMMA OldestAreSome ==
    ASSUME NEW K, NEW n
    PROVE  Oldest(K, n) \subseteq K
  BY DEF Oldest

-----------------------------------------------------------------------------
(* Sizes *)

\* The limits and the sizes are numbers.
LEMMA Numbers ==
    ASSUME limit \in Limits
    PROVE  limit.bytes \in Nat /\ limit.records \in Nat
<1>1. limit \in [records : Nat \ {0}, bytes : Nat \ {0}]
  BY OutboxAssumption
<1> QED
  BY <1>1

\* A store has finitely many records.
LEMMA KeysFinite ==
    ASSUME NEW s, IsStore(s)
    PROVE  IsFiniteSet(DOMAIN s.recs)
<1>1. Key = 1..Len(Stream) /\ Len(Stream) \in Nat
  BY StreamAssumption DEF Key
<1>2. IsFiniteSet(Key)
  BY <1>1, FS_Interval
<1> QED
  BY <1>2, FS_Subset DEF IsStore

\* The size of a snapshot is a number.
LEMMA SnapshotNat ==
    ASSUME NEW s, IsStore(s)
    PROVE  SnapshotSize(s) \in Nat
<1>1. Cardinality(DOMAIN s.recs) \in Nat
  BY KeysFinite, FS_CardinalityType
<1> QED
  BY <1>1 DEF SnapshotSize

\* A snapshot is as large as it says.
LEMMA CompactedSize ==
    ASSUME NEW s, IsStore(s)
    PROVE  /\ Size(Compacted(s)) = SnapshotSize(s) /\ IsDisk(Compacted(s))
           /\ Compacted(s).tail = "clean" /\ Compacted(s).base = s /\ Compacted(s).ext = s
           /\ Compacted(s).line = SnapshotSize(s)
<1>1. SnapshotSize(s) \in Nat
  BY SnapshotNat
<1>2. /\ Compacted(s).tail = "clean" /\ Compacted(s).base = s /\ Compacted(s).ext = s
      /\ Compacted(s).used = SnapshotSize(s) /\ Compacted(s).line = SnapshotSize(s)
      /\ DOMAIN Compacted(s) = {"base", "ext", "tail", "used", "line"}
  BY DEF Compacted
<1> QED
  BY <1>1, <1>2 DEF Size, IsDisk, TailStatus

-----------------------------------------------------------------------------
(* Writing an entry *)

\* A whole line: it adds to what the log says only where it starts a line of
\* its own and can be applied.
LEMMA LineFields ==
    ASSUME NEW d, IsDisk(d), NEW e, NEW w, w = WithLine(d, e)
    PROVE  /\ DOMAIN w = {"base", "ext", "tail", "used", "line"}
           /\ d.tail = "clean" /\ Applies(d.base, e) =>
                  /\ w.base = Apply(d.base, e) /\ w.ext = Apply(d.base, e)
                  /\ w.tail = "clean" /\ w.used = d.used + 1
           /\ ~(d.tail = "clean" /\ Applies(d.base, e)) =>
                  /\ w.base = d.base /\ w.ext = d.ext /\ w.used = d.used
                  /\ w.tail \in {"glued", "poisoned"}
           /\ w.line = d.line
<1>1. DOMAIN d = {"base", "ext", "tail", "used", "line"}
  BY DEF IsDisk
<1>2. CASE d.tail = "clean" /\ Applies(d.base, e)
  <2>1. w = [d EXCEPT !.base = Apply(@, e), !.ext = Apply(d.base, e), !.used = @ + 1]
    BY <1>2 DEF WithLine
  <2> QED
    BY <1>1, <1>2, <2>1
<1>3. CASE ~(d.tail = "clean" /\ Applies(d.base, e))
  <2>1. w = [d EXCEPT !.tail = "glued"] \/ w = [d EXCEPT !.tail = "poisoned"]
    BY <1>3 DEF WithLine
  <2> QED
    BY <1>1, <1>3, <2>1
<1> QED
  BY <1>2, <1>3

\* Part of a line leaves what the log says as it was.
LEMMA PartFields ==
    ASSUME NEW d, IsDisk(d), NEW w, w = WithPart(d)
    PROVE  /\ DOMAIN w = {"base", "ext", "tail", "used", "line"}
           /\ w.base = d.base /\ w.ext = d.ext /\ w.used = d.used /\ w.line = d.line
           /\ w.tail \in {"torn", "poisoned"}
           /\ d.tail \notin {"glued", "poisoned"} => w.tail = "torn"
<1>1. DOMAIN d = {"base", "ext", "tail", "used", "line"}
  BY DEF IsDisk
<1>2. w = [d EXCEPT !.tail = IF @ \in {"glued", "poisoned"} THEN "poisoned" ELSE "torn"]
  BY DEF WithPart
<1> QED
  BY <1>1, <1>2

\* A line without its newline is read by the next start, behind a clean log.
LEMMA NoNewlineFields ==
    ASSUME NEW d, IsDisk(d), NEW e, NEW w, w = WithoutNewline(d, e)
    PROVE  /\ DOMAIN w = {"base", "ext", "tail", "used", "line"}
           /\ w.base = d.base /\ w.used = d.used /\ w.line = d.line
           /\ w.tail \in {"torn", "noeol", "poisoned"}
           /\ d.tail = "clean" => w.tail = "noeol" /\ w.ext = Apply(d.base, e)
           /\ d.tail # "clean" => w.tail # "noeol" /\ w.ext = d.ext
<1>1. DOMAIN d = {"base", "ext", "tail", "used", "line"}
  BY DEF IsDisk
<1>2. CASE d.tail = "clean"
  <2>1. w = [d EXCEPT !.tail = "noeol", !.ext = Apply(d.base, e)]
    BY <1>2 DEF WithoutNewline
  <2> QED
    BY <1>1, <1>2, <2>1
<1>3. CASE d.tail # "clean"
  <2>1. w = WithPart(d)
    BY <1>3 DEF WithoutNewline
  <2> QED
    BY <1>3, <2>1, PartFields
<1> QED
  BY <1>2, <1>3

\* An entry takes at most one unit.
LEMMA WrittenSize ==
    ASSUME NEW d, IsDisk(d), NEW e,
           NEW w \in {d, WithLine(d, e), WithPart(d), WithoutNewline(d, e)}
    PROVE  Size(w) \in Nat /\ Size(d) \in Nat /\ Size(w) <= Size(d) + 1
<1>1. d.used \in Nat
  BY DEF IsDisk
<1>2. w.used \in {d.used, d.used + 1} /\ (w.used = d.used + 1 => w.tail = d.tail)
  <2>1. CASE w = d
    BY <1>1, <2>1
  <2>2. CASE w = WithLine(d, e)
    BY <1>1, <2>2, LineFields
  <2>3. CASE w = WithPart(d)
    BY <1>1, <2>3, PartFields
  <2>4. CASE w = WithoutNewline(d, e)
    BY <1>1, <2>4, NoNewlineFields
  <2> QED
    BY <2>1, <2>2, <2>3, <2>4
<1> QED
  BY <1>1, <1>2 DEF Size

\* What an entry does to the store: Store.apply, case by case.
LEMMA ApplyEvent ==
    ASSUME NEW s, IsStore(s), NEW e, e.op = "event", NEW r, r = Apply(s, e)
    PROVE  /\ DOMAIN r = {"recs", "ack"} /\ r.ack = s.ack
           /\ DOMAIN r.recs = DOMAIN s.recs \cup {e.key}
           /\ r.recs[e.key] = e.record
           /\ \A k \in DOMAIN s.recs : k # e.key => r.recs[k] = s.recs[k]
<1>1. DOMAIN s = {"recs", "ack"}
  BY DEF IsStore
<1>2. r = [s EXCEPT !.recs = Put(@, e.key, e.record)]
  BY DEF Apply
<1>3. DOMAIN r = {"recs", "ack"} /\ r.ack = s.ack /\ r.recs = Put(s.recs, e.key, e.record)
  BY <1>1, <1>2
<1> QED
  BY <1>3 DEF Put

\* An ack moves the cursor forward, or leaves the store alone.
LEMMA ApplyAck ==
    ASSUME NEW s, IsStore(s), NEW e, e.op = "ack", NEW r, r = Apply(s, e)
    PROVE  /\ DOMAIN r = {"recs", "ack"} /\ r.recs = s.recs
           /\ r.ack = IF e.cursor > s.ack THEN e.cursor ELSE s.ack
<1>1. DOMAIN s = {"recs", "ack"}
  BY DEF IsStore
<1>2. r = [s EXCEPT !.ack = IF e.cursor > @ THEN e.cursor ELSE @]
  BY DEF Apply
<1> QED
  BY <1>1, <1>2

\* An alarm entry changes the alarm fields of its record.
LEMMA ApplyAlarm ==
    ASSUME NEW s, IsStore(s), NEW e, e.op = "alarm_state", e.state \in AlarmState,
           e.attempts \in Nat, NEW r, r = Apply(s, e)
    PROVE  /\ DOMAIN r = {"recs", "ack"} /\ r.ack = s.ack
           /\ DOMAIN r.recs = DOMAIN s.recs
           /\ e.key \in DOMAIN s.recs =>
                  /\ r.recs[e.key] \in Record
                  /\ r.recs[e.key].alarm = e.state
                  /\ r.recs[e.key].alarmAttempts = e.attempts
                  /\ r.recs[e.key].evidence = s.recs[e.key].evidence
                  /\ r.recs[e.key].evidenceAttempts = s.recs[e.key].evidenceAttempts
           /\ \A k \in DOMAIN s.recs : k # e.key => r.recs[k] = s.recs[k]
<1>1. DOMAIN s = {"recs", "ack"}
  BY DEF IsStore
<1>2. r = [s EXCEPT !.recs[e.key] = [@ EXCEPT !.alarm = e.state,
                                              !.alarmAttempts = e.attempts]]
  BY DEF Apply
<1>3. /\ DOMAIN r = {"recs", "ack"} /\ r.ack = s.ack
      /\ DOMAIN r.recs = DOMAIN s.recs
      /\ e.key \in DOMAIN s.recs =>
             r.recs[e.key] = [s.recs[e.key] EXCEPT !.alarm = e.state,
                                                   !.alarmAttempts = e.attempts]
      /\ \A k \in DOMAIN s.recs : k # e.key => r.recs[k] = s.recs[k]
  BY <1>1, <1>2
<1>4. ASSUME e.key \in DOMAIN s.recs
      PROVE  /\ r.recs[e.key] \in Record
             /\ r.recs[e.key].alarm = e.state
             /\ r.recs[e.key].alarmAttempts = e.attempts
             /\ r.recs[e.key].evidence = s.recs[e.key].evidence
             /\ r.recs[e.key].evidenceAttempts = s.recs[e.key].evidenceAttempts
  <2>1. s.recs[e.key] \in Record
    BY <1>4 DEF IsStore
  <2> QED
    BY <1>3, <1>4, <2>1 DEF Record
<1> QED
  BY <1>3, <1>4

\* An evidence entry changes the evidence fields of its record.
LEMMA ApplyEvidence ==
    ASSUME NEW s, IsStore(s), NEW e, e.op = "evidence_state", e.state \in EvidenceState,
           e.attempts \in Nat, NEW r, r = Apply(s, e)
    PROVE  /\ DOMAIN r = {"recs", "ack"} /\ r.ack = s.ack
           /\ DOMAIN r.recs = DOMAIN s.recs
           /\ e.key \in DOMAIN s.recs =>
                  /\ r.recs[e.key] \in Record
                  /\ r.recs[e.key].evidence = e.state
                  /\ r.recs[e.key].evidenceAttempts = e.attempts
                  /\ r.recs[e.key].alarm = s.recs[e.key].alarm
                  /\ r.recs[e.key].alarmAttempts = s.recs[e.key].alarmAttempts
           /\ \A k \in DOMAIN s.recs : k # e.key => r.recs[k] = s.recs[k]
<1>1. DOMAIN s = {"recs", "ack"}
  BY DEF IsStore
<1>2. r = [s EXCEPT !.recs[e.key] = [@ EXCEPT !.evidence = e.state,
                                              !.evidenceAttempts = e.attempts]]
  BY DEF Apply
<1>3. /\ DOMAIN r = {"recs", "ack"} /\ r.ack = s.ack
      /\ DOMAIN r.recs = DOMAIN s.recs
      /\ e.key \in DOMAIN s.recs =>
             r.recs[e.key] = [s.recs[e.key] EXCEPT !.evidence = e.state,
                                                   !.evidenceAttempts = e.attempts]
      /\ \A k \in DOMAIN s.recs : k # e.key => r.recs[k] = s.recs[k]
  BY <1>1, <1>2
<1>4. ASSUME e.key \in DOMAIN s.recs
      PROVE  /\ r.recs[e.key] \in Record
             /\ r.recs[e.key].evidence = e.state
             /\ r.recs[e.key].evidenceAttempts = e.attempts
             /\ r.recs[e.key].alarm = s.recs[e.key].alarm
             /\ r.recs[e.key].alarmAttempts = s.recs[e.key].alarmAttempts
  <2>1. s.recs[e.key] \in Record
    BY <1>4 DEF IsStore
  <2> QED
    BY <1>3, <1>4, <2>1 DEF Record
<1> QED
  BY <1>3, <1>4

\* An entry turns a store into a store.
LEMMA ApplyStore ==
    ASSUME NEW s, IsStore(s), NEW e, IsEntry(e)
    PROVE  IsStore(Apply(s, e))
<1>1. PICK r : r = Apply(s, e)
  OBVIOUS
<1>2. CASE e.op = "event"
  BY <1>1, <1>2, ApplyEvent DEF IsEntry, IsStore
<1>3. CASE e.op = "ack"
  BY <1>1, <1>3, ApplyAck DEF IsEntry, IsStore
<1>4. CASE e.op = "alarm_state"
  BY <1>1, <1>4, ApplyAlarm DEF IsEntry, IsStore
<1>5. CASE e.op = "evidence_state"
  BY <1>1, <1>5, ApplyEvidence DEF IsEntry, IsStore
<1> QED
  BY <1>2, <1>3, <1>4, <1>5 DEF IsEntry

\* However an entry is written, the log stays one.
LEMMA WrittenDisk ==
    ASSUME NEW d, IsDisk(d), NEW e, IsEntry(e),
           NEW w \in {d, WithLine(d, e), WithPart(d), WithoutNewline(d, e)}
    PROVE  IsDisk(w)
<1>1. /\ IsStore(d.base) /\ IsStore(d.ext) /\ d.tail \in TailStatus /\ d.used \in Nat
      /\ d.line \in Nat /\ d.used + 1 \in Nat /\ IsStore(Apply(d.base, e))
  BY ApplyStore DEF IsDisk
<1>2. CASE w = WithLine(d, e)
  BY <1>1, <1>2, LineFields DEF IsDisk, TailStatus
<1>3. CASE w = WithPart(d)
  BY <1>1, <1>3, PartFields DEF IsDisk, TailStatus
<1>4. CASE w = WithoutNewline(d, e)
  BY <1>1, <1>4, NoNewlineFields DEF IsDisk, TailStatus
<1> QED
  BY <1>2, <1>3, <1>4

-----------------------------------------------------------------------------
(* The outcomes of the internal steps *)

\* A log that is on disk after evictions is one, and within its size.
LEMMA OnDiskIsDisk ==
    ASSUME NEW m, IsStore(m), NEW d, IsDisk(d), NEW x, OnDisk(x, m, d)
    PROVE  /\ IsDisk(x)
           /\ Size(d) <= limit.bytes => Size(x) <= limit.bytes
           /\ d.tail = "clean" => x.tail = "clean"
           /\ x = d \/ (Evicted(x.base, m) /\ x.ext = x.base)
<1>1. CASE x = d
  BY <1>1
<1>2. ASSUME NEW u, Evicted(u, m), SnapshotSize(u) <= limit.bytes, x = Compacted(u)
      PROVE  /\ IsDisk(x) /\ Size(x) <= limit.bytes /\ x.tail = "clean"
             /\ Evicted(x.base, m) /\ x.ext = x.base
  <2>1. IsStore(u)
    BY <1>2, EvictedStore
  <2> QED
    BY <1>2, <2>1, CompactedSize
<1> QED
  BY <1>1, <1>2 DEF OnDisk

\* The log of the log of a store after evictions.
LEMMA OnDiskTrans ==
    ASSUME NEW s, NEW m, Evicted(s, m), NEW y, NEW d, OnDisk(y, m, d),
           NEW x, OnDisk(x, s, y)
    PROVE  OnDisk(x, m, d)
  BY EvictedTrans DEF OnDisk

\* A step of an operation after evictions and compactions.
LEMMA ShapeTrans ==
    ASSUME NEW m, IsStore(m), NEW d, IsDisk(d), NEW s, Evicted(s, m), NEW y,
           OnDisk(y, m, d), NEW e, NEW o, Shape(o, s, y, e)
    PROVE  Shape(o, m, d, e)
<1>1. PICK t, x :
          /\ Evicted(t, s) /\ OnDisk(x, s, y)
          /\ \/ /\ o.res = "ok" /\ o.file = "open"
                /\ o.mem = Apply(t, e) /\ o.disk = WithLine(x, e)
             \/ /\ o.res \in {"capacity", "error", "dropped", "exists"}
                /\ o.file \in {"open", "nil"} /\ o.mem = t
                /\ o.disk \in {x, WithLine(x, e), WithPart(x), WithoutNewline(x, e)}
  BY DEF Shape
<1>2. Evicted(t, m) /\ OnDisk(x, m, d)
  BY <1>1, EvictedTrans, OnDiskTrans
<1>3. Size(d) <= limit.bytes => Size(o.disk) <= limit.bytes
  BY OnDiskIsDisk DEF Shape
<1> QED
  BY <1>1, <1>2, <1>3 DEF Shape

\* compactLocked leaves the log, or the snapshot in its place.
LEMMA CompactShape ==
    ASSUME NEW s, IsStore(s), limit \in Limits, NEW d, NEW o \in CompactOutcomes(s, d)
    PROVE  /\ o.mem = s /\ o.file \in {"open", "nil"} /\ o.res \in {"ok", "capacity", "error"}
           /\ DOMAIN o = {"res", "mem", "disk", "file"}
           /\ \/ o.disk = d /\ o.res # "ok"
              \/ o.disk = Compacted(s) /\ SnapshotSize(s) <= limit.bytes
           /\ o.res = "ok" => o.file = "open"
           /\ SnapshotSize(s) <= limit.bytes => o.res # "capacity"
<1>1. SnapshotSize(s) \in Nat /\ limit.bytes \in Nat
  BY SnapshotNat, Numbers
<1>2. CASE SnapshotSize(s) > limit.bytes
  BY <1>1, <1>2 DEF CompactOutcomes, Outcome
<1>3. CASE ~(SnapshotSize(s) > limit.bytes)
  BY <1>1, <1>3 DEF CompactOutcomes, Outcome
<1> QED
  BY <1>2, <1>3

\* The write and the sync of an entry for which there is room.
LEMMA WriteShape ==
    ASSUME NEW s, IsStore(s), limit \in Limits, NEW d, IsDisk(d), NEW e,
           Size(d) + 1 <= limit.bytes, NEW o \in WriteOutcomes(s, d, e)
    PROVE  /\ Shape(o, s, d, e) /\ o.res \in {"ok", "error"}
           /\ DOMAIN o = {"res", "mem", "disk", "file"}
<1>1. /\ DOMAIN o = {"res", "mem", "disk", "file"} /\ o.file = "open"
      /\ \/ o.res = "ok" /\ o.mem = Apply(s, e) /\ o.disk = WithLine(d, e)
         \/ /\ o.res = "error" /\ o.mem = s
            /\ o.disk \in {d, WithLine(d, e), WithPart(d), WithoutNewline(d, e)}
  BY DEF WriteOutcomes, Outcome
<1>2. o.disk \in {d, WithLine(d, e), WithPart(d), WithoutNewline(d, e)}
  BY <1>1
<1>3. Size(o.disk) \in Nat /\ Size(d) \in Nat /\ Size(o.disk) <= Size(d) + 1
  BY <1>2, WrittenSize
<1>4. Size(o.disk) <= limit.bytes
  BY <1>3, Numbers
<1>5. Evicted(s, s) /\ OnDisk(d, s, d)
  BY EvictedSame DEF OnDisk
<1> QED
  BY <1>1, <1>4, <1>5 DEF Shape

\* appendLocked writes the entry behind the log or behind its snapshot; for
\* want of room it leaves the store, and the log as it was or compacted.
LEMMA AppendShape ==
    ASSUME NEW s, IsStore(s), limit \in Limits, NEW d, IsDisk(d), NEW e,
           NEW o \in AppendOutcomes(s, d, e)
    PROVE  /\ Shape(o, s, d, e) /\ o.res \in {"ok", "capacity", "error"}
           /\ DOMAIN o = {"res", "mem", "disk", "file"}
           /\ o.res = "capacity" => o.mem = s /\ OnDisk(o.disk, s, d)
<1>1. CASE Size(d) + 1 <= limit.bytes
  <2>1. o \in WriteOutcomes(s, d, e)
    BY <1>1 DEF AppendOutcomes
  <2> QED
    BY <1>1, <2>1, WriteShape
<1>2. CASE ~(Size(d) + 1 <= limit.bytes)
  <2>1. PICK c \in CompactOutcomes(s, d) :
            o \in IF c.res # "ok" THEN {c}
                  ELSE IF Size(c.disk) + 1 > limit.bytes
                       THEN {Outcome("capacity", s, c.disk, "open")}
                       ELSE WriteOutcomes(s, c.disk, e)
    BY <1>2 DEF AppendOutcomes
  <2>2. /\ c.mem = s /\ c.file \in {"open", "nil"} /\ c.res \in {"ok", "capacity", "error"}
        /\ DOMAIN c = {"res", "mem", "disk", "file"}
        /\ \/ c.disk = d /\ c.res # "ok"
           \/ c.disk = Compacted(s) /\ SnapshotSize(s) <= limit.bytes
    BY CompactShape
  <2>3. Evicted(s, s) /\ OnDisk(c.disk, s, d)
    BY <2>2, EvictedSame DEF OnDisk
  <2>4. IsDisk(c.disk) /\ (Size(d) <= limit.bytes => Size(c.disk) <= limit.bytes)
    BY <2>3, OnDiskIsDisk
  <2>5. CASE c.res # "ok"
    <3>1. o = c
      BY <2>1, <2>5
    <3> QED
      BY <2>2, <2>3, <2>4, <2>5, <3>1 DEF Shape
  <2>6. CASE c.res = "ok" /\ Size(c.disk) + 1 > limit.bytes
    <3>1. o = Outcome("capacity", s, c.disk, "open")
      BY <2>1, <2>6
    <3>2. /\ o.res = "capacity" /\ o.mem = s /\ o.disk = c.disk /\ o.file = "open"
          /\ DOMAIN o = {"res", "mem", "disk", "file"}
      BY <3>1 DEF Outcome
    <3> QED
      BY <2>3, <2>4, <3>2 DEF Shape
  <2>7. CASE c.res = "ok" /\ ~(Size(c.disk) + 1 > limit.bytes)
    <3>1. o \in WriteOutcomes(s, c.disk, e)
      BY <2>1, <2>7
    <3>2. Size(c.disk) \in Nat
      BY <2>4, WrittenSize
    <3>3. Size(c.disk) + 1 <= limit.bytes
      BY <2>7, <3>2, Numbers
    <3>4. Shape(o, s, c.disk, e) /\ o.res \in {"ok", "error"}
          /\ DOMAIN o = {"res", "mem", "disk", "file"}
      BY <2>4, <3>1, <3>3, WriteShape
    <3> QED
      BY <2>3, <3>4, ShapeTrans
  <2> QED
    BY <2>5, <2>6, <2>7
<1> QED
  BY <1>1, <1>2

\* A slot is made by an eviction: the UPDATE that is coalesced was delivered,
\* and so were the oldest records that a boundary displaces.
LEMMA RoomShape ==
    ASSUME IsStore(mem), Plain(mem), limit \in Limits, IsDisk(disk), NEW k \in Key,
           NEW o \in RoomOutcomes(k)
    PROVE  /\ o.res \in {"ok", "capacity", "error", "dropped"}
           /\ DOMAIN o = {"res", "mem", "disk", "file"}
           /\ Evicted(o.mem, mem) /\ OnDisk(o.disk, mem, disk)
           /\ o.file \in {"open", "nil"}
           /\ o.res = "ok" => o.file = "open"
           /\ o.res = "dropped" => Stream[k].phase = "UPDATE"
<1>1. Evicted(mem, mem) /\ OnDisk(disk, mem, disk)
  BY EvictedSame DEF OnDisk
<1>2. ASSUME NEW K, K \cap DOMAIN mem.recs \subseteq Terminal(mem),
             NEW c \in CompactOutcomes(Without(mem, K), disk),
             o = IF c.res = "ok" THEN c ELSE [c EXCEPT !.mem = mem]
      PROVE  /\ o.res \in {"ok", "capacity", "error"}
             /\ DOMAIN o = {"res", "mem", "disk", "file"}
             /\ Evicted(o.mem, mem) /\ OnDisk(o.disk, mem, disk)
             /\ o.file \in {"open", "nil"} /\ (o.res = "ok" => o.file = "open")
  <2>1. Evicted(Without(mem, K), mem) /\ IsStore(Without(mem, K))
    BY <1>2, WithoutEvicts, EvictedStore
  <2>2. /\ c.mem = Without(mem, K) /\ c.file \in {"open", "nil"}
        /\ c.res \in {"ok", "capacity", "error"}
        /\ DOMAIN c = {"res", "mem", "disk", "file"}
        /\ \/ c.disk = disk /\ c.res # "ok"
           \/ c.disk = Compacted(Without(mem, K)) /\ SnapshotSize(Without(mem, K)) <= limit.bytes
        /\ c.res = "ok" => c.file = "open"
    BY <2>1, CompactShape
  <2>3. OnDisk(c.disk, mem, disk)
    BY <2>1, <2>2 DEF OnDisk
  <2>4. /\ o.res = c.res /\ o.disk = c.disk /\ o.file = c.file
        /\ o.mem \in {mem, c.mem} /\ DOMAIN o = DOMAIN c
    BY <1>2, <2>2
  <2> QED
    BY <1>1, <2>1, <2>2, <2>3, <2>4
<1>3. CASE Cardinality(DOMAIN mem.recs) < limit.records
  <2>1. o = Outcome("ok", mem, disk, "open")
    BY <1>3 DEF RoomOutcomes
  <2> QED
    BY <1>1, <2>1 DEF Outcome
<1>4. CASE o \in UpdateRoom(k) /\ Stream[k].phase = "UPDATE"
  <2> DEFINE old == {j \in DOMAIN mem.recs : /\ Stream[j].id = Stream[k].id
                                             /\ Stream[j].phase = "UPDATE"
                                             /\ mem.recs[j].alarm # "pending"
                                             /\ mem.recs[j].evidence # "pending"}
             newest == {j \in old : \A i \in old : i <= j}
  <2>1. newest \cap DOMAIN mem.recs \subseteq Terminal(mem)
    BY DEF Plain, Terminal
  <2>2. CASE old = {}
    <3>1. o = Outcome("dropped", mem, disk, "open")
      BY <1>4, <2>2 DEF UpdateRoom
    <3> QED
      BY <1>1, <1>4, <3>1 DEF Outcome
  <2>3. CASE old # {}
    <3>1. PICK c \in CompactOutcomes(Without(mem, newest), disk) :
              o = IF c.res = "ok" THEN c ELSE [c EXCEPT !.mem = mem]
      BY <1>4, <2>3 DEF UpdateRoom
    <3> HIDE DEF newest
    <3> QED
      BY <1>2, <2>1, <3>1
  <2> QED
    BY <2>2, <2>3
<1>5. CASE o \in BoundaryRoom
  <2> DEFINE over == Cardinality(DOMAIN mem.recs) - limit.records + 1
             K == Oldest(Terminal(mem), over)
  <2>1. K \cap DOMAIN mem.recs \subseteq Terminal(mem)
    BY OldestAreSome
  <2>2. CASE Cardinality(Terminal(mem)) < over
    <3>1. o = Outcome("capacity", mem, disk, "open")
      BY <1>5, <2>2 DEF BoundaryRoom
    <3> QED
      BY <1>1, <3>1 DEF Outcome
  <2>3. CASE ~(Cardinality(Terminal(mem)) < over)
    <3>1. PICK c \in CompactOutcomes(Without(mem, K), disk) :
              o = IF c.res = "ok" THEN c ELSE [c EXCEPT !.mem = mem]
      BY <1>5, <2>3 DEF BoundaryRoom
    <3> HIDE DEF K
    <3> QED
      BY <1>2, <2>1, <3>1
  <2> QED
    BY <2>2, <2>3
<1> QED
  BY <1>3, <1>4, <1>5 DEF RoomOutcomes

\* Under byte pressure each round evicts one more terminal record and puts the
\* snapshot of what is left in place of the log.
LEMMA PressureShape ==
    ASSUME NEW s, IsStore(s), limit \in Limits, NEW d, IsDisk(d), NEW e,
           NEW o \in PressureOutcomes(s, d, e)
    PROVE  Shape(o, s, d, e) /\ o.res \in {"ok", "capacity", "error"}
<1> DEFINE Gone(j) == Without(s, Oldest(Terminal(s), j))
           After(j) == IF j = 0 THEN d ELSE Compacted(Gone(j))
           last == Cardinality(Terminal(s))
           rounds == {j \in 0..last :
                         \A i \in 1..j : SnapshotSize(Gone(i)) = limit.bytes}
           RoundOutcomes(j) ==
               {c \in CompactOutcomes(Gone(j), After(j - 1)) : c.res # "ok"}
               \cup {a \in AppendOutcomes(Gone(j), Compacted(Gone(j)), e) :
                        SnapshotSize(Gone(j)) <= limit.bytes /\ a.res # "capacity"}
<1>1. \A j : Evicted(Gone(j), s) /\ IsStore(Gone(j))
  BY WithoutEvicts, OldestAreSome, EvictedStore
<1>2. limit.bytes \in Nat
  BY Numbers
<1>3. \A j \in rounds : OnDisk(After(j), s, d)
  <2> SUFFICES ASSUME NEW j \in rounds PROVE OnDisk(After(j), s, d)
    OBVIOUS
  <2>1. CASE j = 0
    BY <2>1 DEF OnDisk
  <2>2. CASE j # 0
    <3> HIDE DEF Gone, last
    <3>1. j \in 1..j
      BY <2>2
    <3>2. SnapshotSize(Gone(j)) = limit.bytes /\ After(j) = Compacted(Gone(j))
      BY <2>2, <3>1
    <3>3. SnapshotSize(Gone(j)) <= limit.bytes
      BY <1>2, <3>2
    <3> QED
      BY <1>1, <3>2, <3>3 DEF OnDisk
  <2> QED
    BY <2>1, <2>2
<1>4. \/ last \in rounds /\ o = Outcome("capacity", Gone(last), After(last), "open")
      \/ \E j \in rounds : o \in RoundOutcomes(j + 1)
  BY DEF PressureOutcomes
<1>5. CASE last \in rounds /\ o = Outcome("capacity", Gone(last), After(last), "open")
  <2>1. /\ o.res = "capacity" /\ o.mem = Gone(last) /\ o.disk = After(last)
        /\ o.file = "open"
    BY <1>5 DEF Outcome
  <2>2. OnDisk(o.disk, s, d) /\ Evicted(o.mem, s)
    BY <1>1, <1>3, <1>5, <2>1
  <2>3. Size(d) <= limit.bytes => Size(o.disk) <= limit.bytes
    BY <2>2, OnDiskIsDisk
  <2> HIDE DEF After, Gone, last
  <2> QED
    BY <2>1, <2>2, <2>3 DEF Shape
<1>6. ASSUME NEW j \in rounds, o \in RoundOutcomes(j + 1)
      PROVE  Shape(o, s, d, e) /\ o.res \in {"ok", "capacity", "error"}
  <2>1. PICK g : g = Gone(j + 1)
    OBVIOUS
  <2>2. PICK y : y = After(j)
    OBVIOUS
  <2>3. Evicted(g, s) /\ IsStore(g) /\ OnDisk(y, s, d) /\ j \in Nat
    <3>1. j \in 0..last
      BY <1>6
    <3> HIDE DEF Gone, After, rounds, last
    <3> QED
      BY <1>1, <1>3, <1>6, <2>1, <2>2, <3>1
  <2>4. j + 1 - 1 = j
    BY <2>3
  <2>5. \/ o \in CompactOutcomes(g, y) /\ o.res # "ok"
        \/ /\ o \in AppendOutcomes(g, Compacted(g), e)
           /\ SnapshotSize(g) <= limit.bytes /\ o.res # "capacity"
    <3> HIDE DEF Gone, After
    <3> QED
      BY <1>6, <2>1, <2>2, <2>4
  <2> HIDE DEF Gone, After, rounds, last, RoundOutcomes
  <2>6. CASE o \in CompactOutcomes(g, y) /\ o.res # "ok"
    <3>1. /\ o.mem = g /\ o.file \in {"open", "nil"} /\ o.res \in {"capacity", "error"}
          /\ o.disk = y \/ (o.disk = Compacted(g) /\ SnapshotSize(g) <= limit.bytes)
      BY <2>3, <2>6, CompactShape
    <3>2. OnDisk(o.disk, s, d)
      BY <2>3, <3>1 DEF OnDisk
    <3>3. Size(d) <= limit.bytes => Size(o.disk) <= limit.bytes
      BY <3>2, OnDiskIsDisk
    <3> QED
      BY <2>3, <3>1, <3>2, <3>3 DEF Shape
  <2>7. CASE o \in AppendOutcomes(g, Compacted(g), e) /\ SnapshotSize(g) <= limit.bytes
    <3>1. OnDisk(Compacted(g), s, d) /\ IsDisk(Compacted(g))
      BY <2>3, <2>7, CompactedSize DEF OnDisk
    <3>2. Shape(o, g, Compacted(g), e) /\ o.res \in {"ok", "capacity", "error"}
      BY <2>3, <2>7, <3>1, AppendShape
    <3> QED
      BY <2>3, <3>1, <3>2, ShapeTrans
  <2> QED
    BY <2>5, <2>6, <2>7
<1> HIDE DEF Gone, After, rounds, last, RoundOutcomes
<1> QED
  BY <1>4, <1>5, <1>6

\* EnqueueWithEvidence: an event that is stored already changes nothing, only an
\* UPDATE is dropped, and otherwise the entry of the new record is written.
LEMMA EnqueueShape ==
    ASSUME IsStore(mem), Plain(mem), limit \in Limits, IsDisk(disk),
           file \in {"open", "nil"}, NEW k \in Key, NEW o \in EnqueueOutcomes(k)
    PROVE  /\ Shape(o, mem, disk, EventEntry(k, NewRecord(k)))
           /\ o.res = "exists" => k \in DOMAIN mem.recs
           /\ k \in DOMAIN mem.recs => o.mem = mem /\ o.disk = disk
           /\ o.res = "dropped" => Stream[k].phase = "UPDATE"
<1> DEFINE e == EventEntry(k, NewRecord(k))
<1>1. Evicted(mem, mem) /\ OnDisk(disk, mem, disk)
  BY EvictedSame DEF OnDisk
<1>2. ASSUME NEW res \in {"error", "exists"}, o = Outcome(res, mem, disk, file)
      PROVE  Shape(o, mem, disk, e) /\ o.res = res /\ o.mem = mem /\ o.disk = disk
  <2>1. o.res = res /\ o.mem = mem /\ o.disk = disk /\ o.file = file
    BY <1>2 DEF Outcome
  <2> HIDE DEF e
  <2> QED
    BY <1>1, <2>1 DEF Shape
<1>3. CASE file = "nil"
  <2>1. o = Outcome("error", mem, disk, file)
    BY <1>3 DEF EnqueueOutcomes
  <2> QED
    BY <1>2, <2>1
<1>4. CASE file = "open" /\ k \in DOMAIN mem.recs
  <2>1. o = Outcome("exists", mem, disk, file)
    BY <1>4 DEF EnqueueOutcomes
  <2> QED
    BY <1>2, <1>4, <2>1
<1>5. CASE file = "open" /\ k \notin DOMAIN mem.recs
  <2>1. PICK r \in RoomOutcomes(k) :
            o \in IF r.res # "ok" THEN {r} ELSE StoreOutcomes(k, r)
    BY <1>5 DEF EnqueueOutcomes
  <2>2. /\ r.res \in {"ok", "capacity", "error", "dropped"}
        /\ Evicted(r.mem, mem) /\ OnDisk(r.disk, mem, disk)
        /\ r.file \in {"open", "nil"}
        /\ r.res = "dropped" => Stream[k].phase = "UPDATE"
    BY RoomShape
  <2>3. /\ IsStore(r.mem) /\ IsDisk(r.disk)
        /\ Size(disk) <= limit.bytes => Size(r.disk) <= limit.bytes
    BY <2>2, EvictedStore, OnDiskIsDisk
  <2>4. CASE r.res # "ok"
    <3>1. o = r
      BY <2>1, <2>4
    <3> HIDE DEF e
    <3> QED
      BY <1>5, <2>2, <2>3, <2>4, <3>1 DEF Shape
  <2>5. CASE r.res = "ok"
    <3>1. o \in StoreOutcomes(k, r)
      BY <2>1, <2>5
    <3>2. PICK a \in AppendOutcomes(r.mem, r.disk, e) :
              \/ /\ a.res = "capacity" /\ Stream[k].phase = "UPDATE"
                 /\ o = [a EXCEPT !.res = "dropped"]
              \/ a.res = "capacity" /\ o \in PressureOutcomes(a.mem, a.disk, e)
              \/ a.res # "capacity" /\ o = a
      BY <3>1 DEF StoreOutcomes
    <3> HIDE DEF e
    <3>3. /\ Shape(a, r.mem, r.disk, e) /\ a.res \in {"ok", "capacity", "error"}
          /\ DOMAIN a = {"res", "mem", "disk", "file"}
          /\ a.res = "capacity" => a.mem = r.mem /\ OnDisk(a.disk, r.mem, r.disk)
      BY <2>3, AppendShape
    <3>4. Shape(a, mem, disk, e)
      BY <2>2, <3>3, ShapeTrans
    <3>5. a.res = "capacity" => /\ OnDisk(a.disk, mem, disk) /\ IsDisk(a.disk)
                                /\ a.mem = r.mem
      BY <2>2, <2>3, <3>3, OnDiskTrans, OnDiskIsDisk
    <3>6. CASE a.res = "capacity" /\ Stream[k].phase = "UPDATE" /\ o = [a EXCEPT !.res = "dropped"]
      <4>1. o.res = "dropped" /\ o.mem = a.mem /\ o.disk = a.disk /\ o.file = a.file
        BY <3>3, <3>6
      <4>2. a.file \in {"open", "nil"} /\ (Size(disk) <= limit.bytes => Size(o.disk) <= limit.bytes)
        BY <3>4, <4>1 DEF Shape
      <4> QED
        BY <1>5, <2>2, <3>5, <3>6, <4>1, <4>2 DEF Shape
    <3>7. CASE a.res = "capacity" /\ o \in PressureOutcomes(a.mem, a.disk, e)
      <4>1. Shape(o, a.mem, a.disk, e) /\ o.res \in {"ok", "capacity", "error"}
        BY <2>3, <3>5, <3>7, PressureShape
      <4>2. Shape(o, mem, disk, e)
        BY <2>2, <3>5, <3>7, <4>1, ShapeTrans
      <4> QED
        BY <1>5, <4>1, <4>2 DEF e
    <3>8. CASE a.res # "capacity" /\ o = a
      BY <1>5, <3>3, <3>4, <3>8 DEF e
    <3> QED
      BY <3>2, <3>6, <3>7, <3>8
  <2> QED
    BY <2>4, <2>5
<1> HIDE DEF e
<1> QED
  BY <1>3, <1>4, <1>5 DEF e

\* An append of a Mark operation or of Ack.
LEMMA LockedShape ==
    ASSUME IsStore(mem), limit \in Limits, IsDisk(disk), file \in {"open", "nil"},
           NEW e, NEW o \in AppendLocked(e)
    PROVE  Shape(o, mem, disk, e) /\ o.res \in {"ok", "capacity", "error"}
<1>1. CASE file = "nil"
  <2>1. o = Outcome("error", mem, disk, file)
    BY <1>1 DEF AppendLocked
  <2>2. o.res = "error" /\ o.mem = mem /\ o.disk = disk /\ o.file = file
    BY <2>1 DEF Outcome
  <2>3. Evicted(mem, mem) /\ OnDisk(disk, mem, disk)
    BY EvictedSame DEF OnDisk
  <2> QED
    BY <2>2, <2>3 DEF Shape
<1>2. CASE file # "nil"
  <2>1. o \in AppendOutcomes(mem, disk, e)
    BY <1>2 DEF AppendLocked
  <2> QED
    BY <2>1, AppendShape
<1> QED
  BY <1>1, <1>2

-----------------------------------------------------------------------------
(* What a Shape amounts to *)

\* The store stays a store and the log a log.
LEMMA ShapeTypes ==
    ASSUME NEW m, IsStore(m), NEW d, IsDisk(d), NEW e, IsEntry(e), NEW o, Shape(o, m, d, e)
    PROVE  IsStore(o.mem) /\ IsDisk(o.disk) /\ o.file \in {"open", "nil"}
<1>1. PICK t, x :
          /\ Evicted(t, m) /\ OnDisk(x, m, d)
          /\ \/ /\ o.res = "ok" /\ o.file = "open"
                /\ o.mem = Apply(t, e) /\ o.disk = WithLine(x, e)
             \/ /\ o.res \in {"capacity", "error", "dropped", "exists"}
                /\ o.file \in {"open", "nil"} /\ o.mem = t
                /\ o.disk \in {x, WithLine(x, e), WithPart(x), WithoutNewline(x, e)}
  BY DEF Shape
<1>2. IsStore(t) /\ IsDisk(x)
  BY <1>1, EvictedStore, OnDiskIsDisk
<1>3. IsStore(Apply(t, e))
  BY <1>2, ApplyStore
<1>4. IsDisk(o.disk)
  BY <1>1, <1>2, WrittenDisk
<1> QED
  BY <1>1, <1>2, <1>3, <1>4

\* The store is the old one after evictions, with the entry when it is told to be
\* stored; the log stands for the old one or for a snapshot of the store after
\* evictions, with the entry or without.
LEMMA ShapeCases ==
    ASSUME NEW m, IsStore(m), NEW d, IsDisk(d), NEW e, NEW o, Shape(o, m, d, e)
    PROVE  \E t, b :
              /\ Evicted(t, m) /\ (b = d.base \/ Evicted(b, m))
              /\ o.mem = IF o.res = "ok" THEN Apply(t, e) ELSE t
              /\ o.disk.base = b \/ (Applies(b, e) /\ o.disk.base = Apply(b, e))
              /\ o.disk.ext \in {d.ext, b, Apply(b, e)}
              /\ o.res = "ok" /\ o.disk.tail = "clean" =>
                     Applies(b, e) /\ o.disk.base = Apply(b, e)
<1>1. PICK t, x :
          /\ Evicted(t, m) /\ OnDisk(x, m, d)
          /\ \/ /\ o.res = "ok" /\ o.file = "open"
                /\ o.mem = Apply(t, e) /\ o.disk = WithLine(x, e)
             \/ /\ o.res \in {"capacity", "error", "dropped", "exists"}
                /\ o.file \in {"open", "nil"} /\ o.mem = t
                /\ o.disk \in {x, WithLine(x, e), WithPart(x), WithoutNewline(x, e)}
  BY DEF Shape
<1>2. IsDisk(x) /\ (x = d \/ (Evicted(x.base, m) /\ x.ext = x.base))
  BY <1>1, OnDiskIsDisk
<1>3. x.base = d.base \/ Evicted(x.base, m)
  BY <1>2
<1>4. x.ext \in {d.ext, x.base}
  BY <1>2
<1>5. o.mem = IF o.res = "ok" THEN Apply(t, e) ELSE t
  BY <1>1
<1>6. /\ o.disk.base = x.base \/ (Applies(x.base, e) /\ o.disk.base = Apply(x.base, e))
      /\ o.disk.ext \in {x.ext, x.base, Apply(x.base, e)}
  <2>1. CASE o.disk = x
    BY <2>1
  <2>2. CASE o.disk = WithLine(x, e)
    BY <1>2, <2>2, LineFields
  <2>3. CASE o.disk = WithPart(x)
    BY <1>2, <2>3, PartFields
  <2>4. CASE o.disk = WithoutNewline(x, e)
    BY <1>2, <2>4, NoNewlineFields
  <2> QED
    BY <1>1, <2>1, <2>2, <2>3, <2>4
<1>7. o.res = "ok" /\ o.disk.tail = "clean" =>
          Applies(x.base, e) /\ o.disk.base = Apply(x.base, e)
  <2> SUFFICES ASSUME o.res = "ok", o.disk.tail = "clean"
               PROVE  Applies(x.base, e) /\ o.disk.base = Apply(x.base, e)
    OBVIOUS
  <2>1. o.disk = WithLine(x, e)
    BY <1>1
  <2> QED
    BY <1>2, <2>1, LineFields
<1> QED
  BY <1>1, <1>3, <1>4, <1>5, <1>6, <1>7

\* The snapshot line of the log is the old one, or within the size of the log.
LEMMA ShapeLine ==
    ASSUME NEW m, IsStore(m), NEW d, IsDisk(d), NEW e, NEW o, Shape(o, m, d, e)
    PROVE  o.disk.line = d.line \/ o.disk.line <= limit.bytes
<1>1. PICK x :
          /\ OnDisk(x, m, d)
          /\ o.disk \in {x, WithLine(x, e), WithPart(x), WithoutNewline(x, e)}
  BY DEF Shape
<1>2. IsDisk(x)
  BY <1>1, OnDiskIsDisk
<1>3. o.disk.line = x.line
  BY <1>1, <1>2, LineFields, PartFields, NoNewlineFields
<1>4. ASSUME NEW u, Evicted(u, m), SnapshotSize(u) <= limit.bytes, x = Compacted(u)
      PROVE  x.line <= limit.bytes
  BY <1>4, EvictedStore, CompactedSize
<1> QED
  BY <1>1, <1>3, <1>4 DEF OnDisk

\* A record that leaves the store was terminal.
LEMMA ShapeKeeps ==
    ASSUME NEW m, IsStore(m), NEW d, IsDisk(d), NEW e, IsEntry(e), NEW o, Shape(o, m, d, e)
    PROVE  DOMAIN m.recs \ DOMAIN o.mem.recs \subseteq Terminal(m)
<1>1. PICK t : Evicted(t, m) /\ o.mem = IF o.res = "ok" THEN Apply(t, e) ELSE t
  BY ShapeCases
<1>2. IsStore(t)
  BY <1>1, EvictedStore
<1>3. PICK r : r = Apply(t, e)
  OBVIOUS
<1>4. DOMAIN t.recs \subseteq DOMAIN r.recs
  BY <1>2, <1>3, ApplyEvent, ApplyAck, ApplyAlarm, ApplyEvidence DEF IsEntry
<1> QED
  BY <1>1, <1>3, <1>4 DEF Evicted

\* What an operation leaves of the records: those that wait for a sink stay, the
\* others stay or go, and only the record of the entry changes, in the fields of
\* the entry's sink.
LEMMA ShapeRecords ==
    ASSUME NEW m, IsStore(m), NEW d, IsDisk(d), NEW e, IsEntry(e), NEW o, Shape(o, m, d, e)
    PROVE  /\ DOMAIN m.recs \ Terminal(m) \subseteq DOMAIN o.mem.recs
           /\ DOMAIN o.mem.recs \subseteq
                  DOMAIN m.recs \cup (IF e.op = "event" THEN {e.key} ELSE {})
           /\ \A k \in DOMAIN o.mem.recs \cap DOMAIN m.recs :
                 e.op = "ack" \/ k # e.key => o.mem.recs[k] = m.recs[k]
           /\ e.op = "alarm_state" /\ e.key \in DOMAIN o.mem.recs =>
                 /\ o.mem.recs[e.key].evidence = m.recs[e.key].evidence
                 /\ o.mem.recs[e.key].evidenceAttempts = m.recs[e.key].evidenceAttempts
           /\ e.op = "evidence_state" /\ e.key \in DOMAIN o.mem.recs =>
                 /\ o.mem.recs[e.key].alarm = m.recs[e.key].alarm
                 /\ o.mem.recs[e.key].alarmAttempts = m.recs[e.key].alarmAttempts
           /\ o.res # "ok" => \A k \in DOMAIN o.mem.recs : o.mem.recs[k] = m.recs[k]
<1>1. PICK t : Evicted(t, m) /\ o.mem = IF o.res = "ok" THEN Apply(t, e) ELSE t
  BY ShapeCases
<1>2. IsStore(t)
  BY <1>1, EvictedStore
<1>3. /\ DOMAIN m.recs \ Terminal(m) \subseteq DOMAIN t.recs
      /\ DOMAIN t.recs \subseteq DOMAIN m.recs
      /\ \A k \in DOMAIN t.recs : t.recs[k] = m.recs[k]
  BY <1>1 DEF Evicted
<1>4. CASE o.res # "ok"
  BY <1>1, <1>3, <1>4
<1>5. CASE o.res = "ok"
  <2>1. PICK r : r = Apply(t, e)
    OBVIOUS
  <2>2. o.mem = r
    BY <1>1, <1>5, <2>1
  <2>3. CASE e.op = "event"
    BY <1>2, <1>3, <1>5, <2>1, <2>2, <2>3, ApplyEvent
  <2>4. CASE e.op = "ack"
    BY <1>2, <1>3, <1>5, <2>1, <2>2, <2>4, ApplyAck
  <2>5. CASE e.op = "alarm_state"
    BY <1>2, <1>3, <1>5, <2>1, <2>2, <2>5, ApplyAlarm DEF IsEntry
  <2>6. CASE e.op = "evidence_state"
    BY <1>2, <1>3, <1>5, <2>1, <2>2, <2>6, ApplyEvidence DEF IsEntry
  <2> QED
    BY <2>3, <2>4, <2>5, <2>6 DEF IsEntry
<1> QED
  BY <1>4, <1>5

\* The cursor moves by an acknowledgement only.
LEMMA ShapeAck ==
    ASSUME NEW m, IsStore(m), NEW d, IsDisk(d), NEW e, IsEntry(e), e.op # "ack",
           NEW o, Shape(o, m, d, e)
    PROVE  o.mem.ack = m.ack
<1>1. PICK t : Evicted(t, m) /\ o.mem = IF o.res = "ok" THEN Apply(t, e) ELSE t
  BY ShapeCases
<1>2. IsStore(t) /\ t.ack = m.ack
  BY <1>1, EvictedStore DEF Evicted
<1>3. Apply(t, e).ack = t.ack
  BY <1>2, ApplyEvent, ApplyAlarm, ApplyEvidence DEF IsEntry
<1> QED
  BY <1>1, <1>2, <1>3

-----------------------------------------------------------------------------
(* Keys and new records *)

\* Keys are the cursors from one on.
LEMMA Keys == Len(Stream) \in Nat /\ Key = 1..Len(Stream)
  BY StreamAssumption DEF Key

\* The record Enqueue builds is one, waiting for what it should.
LEMMA NewRecordType ==
    ASSUME NEW k
    PROVE  /\ NewRecord(k) \in Record
           /\ NewRecord(k).alarmAttempts = 0 /\ NewRecord(k).evidenceAttempts = 0
           /\ NewRecord(k).alarm \in {"pending", "ignored"}
           /\ NewRecord(k).evidence # "staging"
  BY OutboxAssumption DEF NewRecord, Record, AlarmState, EvidenceState

-----------------------------------------------------------------------------
(* Starting *)

\* What a start finds in the log and how it leaves it.
LEMMA RecoveredFields ==
    ASSUME NEW d, IsDisk(d)
    PROVE  /\ IsDisk(Recovered(d)) /\ IsStore(Loaded(d))
           /\ Recovered(d).base = d.base /\ Recovered(d).ext = d.ext
           /\ Recovered(d).line = d.line
           /\ Recovered(d).tail = IF d.tail = "noeol" THEN "noeol" ELSE "clean"
           /\ Loaded(d) = IF d.tail = "noeol" THEN d.ext ELSE d.base
<1>1. CASE d.tail = "noeol"
  BY <1>1 DEF Recovered, Loaded, IsDisk
<1>2. CASE d.tail # "noeol"
  <2>1. PICK r : r = [d EXCEPT !.tail = "clean"]
    OBVIOUS
  <2>2. /\ DOMAIN r = {"base", "ext", "tail", "used", "line"} /\ r.base = d.base
        /\ r.ext = d.ext /\ r.tail = "clean" /\ r.used = d.used /\ r.line = d.line
    BY <2>1 DEF IsDisk
  <2>3. Recovered(d) = r
    BY <1>2, <2>1 DEF Recovered
  <2> QED
    BY <1>2, <2>2, <2>3 DEF IsDisk, Loaded, TailStatus
<1> QED
  BY <1>1, <1>2

\* The empty store and the empty log.
LEMMA EmptyTypes ==
    /\ IsStore(EmptyStore) /\ DOMAIN EmptyStore.recs = {} /\ EmptyStore.ack = 0
    /\ IsDisk(EmptyDisk) /\ EmptyDisk.base = EmptyStore /\ EmptyDisk.ext = EmptyStore
    /\ EmptyDisk.tail = "clean"
<1>1. DOMAIN EmptyStore.recs = {} /\ EmptyStore.ack = 0 /\ DOMAIN EmptyStore = {"recs", "ack"}
  BY DEF EmptyStore
<1>2. 0 \in 0..Len(Stream)
  BY Keys
<1>3. IsStore(EmptyStore)
  BY <1>1, <1>2 DEF IsStore
<1>4. /\ DOMAIN EmptyDisk = {"base", "ext", "tail", "used", "line"}
      /\ EmptyDisk.base = EmptyStore /\ EmptyDisk.ext = EmptyStore
      /\ EmptyDisk.tail = "clean" /\ EmptyDisk.used = 0 /\ EmptyDisk.line = 0
  BY DEF EmptyDisk
<1> QED
  BY <1>1, <1>3, <1>4 DEF IsDisk, TailStatus

-----------------------------------------------------------------------------
(* A disk that writes all of a line or nothing *)

\* The log d is whole and knows every record of s.
Covers(s, d) == d.tail = "clean" /\ DOMAIN s.recs \subseteq DOMAIN d.base.recs

\* The keys of a store after an entry.
LEMMA ApplyKeys ==
    ASSUME NEW s, IsStore(s), NEW e, IsEntry(e)
    PROVE  DOMAIN Apply(s, e).recs =
               DOMAIN s.recs \cup (IF e.op = "event" THEN {e.key} ELSE {})
<1>1. PICK r : r = Apply(s, e)
  OBVIOUS
<1>2. DOMAIN r.recs = DOMAIN s.recs \cup (IF e.op = "event" THEN {e.key} ELSE {})
  BY <1>1, ApplyEvent, ApplyAck, ApplyAlarm, ApplyEvidence DEF IsEntry
<1> QED
  BY <1>1, <1>2

\* A line that is written whole keeps the log ahead of the store.
LEMMA LineCovers ==
    ASSUME NEW s, IsStore(s), NEW d, IsDisk(d), NEW e, IsEntry(e), Applies(s, e), Covers(s, d)
    PROVE  /\ Covers(Apply(s, e), WithLine(d, e)) /\ Covers(s, WithLine(d, e))
           /\ DOMAIN s.recs \subseteq DOMAIN Apply(s, e).recs
<1>1. PICK w : w = WithLine(d, e)
  OBVIOUS
<1>2. Applies(d.base, e)
  BY DEF Applies, Covers
<1>3. w.base = Apply(d.base, e) /\ w.tail = "clean"
  BY <1>1, <1>2, LineFields DEF Covers
<1>4. /\ DOMAIN Apply(s, e).recs = DOMAIN s.recs \cup (IF e.op = "event" THEN {e.key} ELSE {})
      /\ DOMAIN w.base.recs = DOMAIN d.base.recs \cup (IF e.op = "event" THEN {e.key} ELSE {})
  BY <1>3, ApplyKeys DEF IsDisk
<1> QED
  BY <1>1, <1>3, <1>4 DEF Covers

\* compactLocked keeps the log ahead.
LEMMA CompactCovers ==
    ASSUME NEW s, IsStore(s), limit \in Limits, NEW d, Covers(s, d), NEW o \in CompactOutcomes(s, d)
    PROVE  o.mem = s /\ Covers(s, o.disk)
  BY CompactShape, CompactedSize DEF Covers

\* So does a write.
LEMMA WriteCovers ==
    ASSUME "partial" \notin Faults, NEW s, IsStore(s), NEW d, IsDisk(d), NEW e, IsEntry(e),
           Applies(s, e), Covers(s, d), NEW o \in WriteOutcomes(s, d, e)
    PROVE  Covers(o.mem, o.disk) /\ DOMAIN s.recs \subseteq DOMAIN o.mem.recs
<1>1. \/ o.mem = Apply(s, e) /\ o.disk = WithLine(d, e)
      \/ o.mem = s /\ o.disk \in {d, WithLine(d, e)}
  BY DEF WriteOutcomes, Outcome
<1> QED
  BY <1>1, LineCovers

\* So does appendLocked, which drops no record.
LEMMA AppendCovers ==
    ASSUME "partial" \notin Faults, limit \in Limits, NEW s, IsStore(s), NEW d, IsDisk(d),
           NEW e, IsEntry(e), Applies(s, e), Covers(s, d), NEW o \in AppendOutcomes(s, d, e)
    PROVE  Covers(o.mem, o.disk) /\ DOMAIN s.recs \subseteq DOMAIN o.mem.recs
<1>1. CASE Size(d) + 1 <= limit.bytes
  BY <1>1, WriteCovers DEF AppendOutcomes
<1>2. CASE ~(Size(d) + 1 <= limit.bytes)
  <2>1. PICK c \in CompactOutcomes(s, d) :
            o \in IF c.res # "ok" THEN {c}
                  ELSE IF Size(c.disk) + 1 > limit.bytes
                       THEN {Outcome("capacity", s, c.disk, "open")}
                       ELSE WriteOutcomes(s, c.disk, e)
    BY <1>2 DEF AppendOutcomes
  <2>2. c.mem = s /\ Covers(s, c.disk)
    BY CompactCovers
  <2>3. IsDisk(c.disk)
    BY CompactShape, CompactedSize
  <2>4. CASE c.res # "ok"
    BY <2>1, <2>2, <2>4
  <2>5. CASE c.res = "ok" /\ Size(c.disk) + 1 > limit.bytes
    <3>1. o.mem = s /\ o.disk = c.disk
      BY <2>1, <2>5 DEF Outcome
    <3> QED
      BY <2>2, <3>1
  <2>6. CASE c.res = "ok" /\ ~(Size(c.disk) + 1 > limit.bytes)
    <3>1. o \in WriteOutcomes(s, c.disk, e)
      BY <2>1, <2>6
    <3> QED
      BY <2>2, <2>3, <3>1, WriteCovers
  <2> QED
    BY <2>4, <2>5, <2>6
<1> QED
  BY <1>1, <1>2

\* Making room leaves the log ahead, unless it leaves the store without a file.
LEMMA RoomCovers ==
    ASSUME IsStore(mem), Plain(mem), limit \in Limits, IsDisk(disk), Covers(mem, disk),
           NEW k \in Key, NEW o \in RoomOutcomes(k)
    PROVE  o.disk.tail = "clean" /\ (o.file = "open" => Covers(o.mem, o.disk))
<1>2. ASSUME NEW K, NEW c \in CompactOutcomes(Without(mem, K), disk),
             K \cap DOMAIN mem.recs \subseteq Terminal(mem),
             o = IF c.res = "ok" THEN c ELSE [c EXCEPT !.mem = mem]
      PROVE  o.disk.tail = "clean" /\ (o.file = "open" => Covers(o.mem, o.disk))
  <2>0. PICK s : s = Without(mem, K)
    OBVIOUS
  <2>1. Evicted(s, mem) /\ IsStore(s)
    BY <1>2, <2>0, WithoutEvicts, EvictedStore
  <2>2. Covers(s, disk)
    BY <2>1 DEF Covers, Evicted
  <2>3. c.mem = s /\ Covers(s, c.disk) /\ DOMAIN c = {"res", "mem", "disk", "file"}
    BY <1>2, <2>0, <2>1, <2>2, CompactCovers, CompactShape
  <2>4. CASE c.res = "ok"
    BY <1>2, <2>3, <2>4 DEF Covers
  <2>5. CASE c.res # "ok"
    <3>1. o.disk = c.disk /\ o.mem = mem /\ o.file = c.file
      BY <1>2, <2>3, <2>5
    <3>2. c.file = "open" => c.disk = disk
      BY <1>2, <2>0, <2>5 DEF CompactOutcomes, Outcome
    <3> QED
      BY <2>3, <3>1, <3>2 DEF Covers
  <2> QED
    BY <2>4, <2>5
<1>3. ASSUME NEW res, o = Outcome(res, mem, disk, "open")
      PROVE  o.disk.tail = "clean" /\ (o.file = "open" => Covers(o.mem, o.disk))
  BY <1>3 DEF Outcome, Covers
<1>4. CASE o \in UpdateRoom(k)
  <2> DEFINE old == {j \in DOMAIN mem.recs : /\ Stream[j].id = Stream[k].id
                                             /\ Stream[j].phase = "UPDATE"
                                             /\ mem.recs[j].alarm # "pending"
                                             /\ mem.recs[j].evidence # "pending"}
             newest == {j \in old : \A i \in old : i <= j}
  <2>1. newest \cap DOMAIN mem.recs \subseteq Terminal(mem)
    BY DEF Plain, Terminal
  <2>2. CASE old = {}
    BY <1>3, <1>4, <2>2 DEF UpdateRoom
  <2>3. CASE old # {}
    <3>1. PICK c \in CompactOutcomes(Without(mem, newest), disk) :
              o = IF c.res = "ok" THEN c ELSE [c EXCEPT !.mem = mem]
      BY <1>4, <2>3 DEF UpdateRoom
    <3> HIDE DEF newest
    <3> QED
      BY <1>2, <2>1, <3>1
  <2> QED
    BY <2>2, <2>3
<1>5. CASE o \in BoundaryRoom
  <2> DEFINE over == Cardinality(DOMAIN mem.recs) - limit.records + 1
             K == Oldest(Terminal(mem), over)
  <2>1. K \cap DOMAIN mem.recs \subseteq Terminal(mem)
    BY OldestAreSome
  <2>2. CASE Cardinality(Terminal(mem)) < over
    BY <1>3, <1>5, <2>2 DEF BoundaryRoom
  <2>3. CASE ~(Cardinality(Terminal(mem)) < over)
    <3>1. PICK c \in CompactOutcomes(Without(mem, K), disk) :
              o = IF c.res = "ok" THEN c ELSE [c EXCEPT !.mem = mem]
      BY <1>5, <2>3 DEF BoundaryRoom
    <3> HIDE DEF K
    <3> QED
      BY <1>2, <2>1, <3>1
  <2> QED
    BY <2>2, <2>3
<1> QED
  BY <1>3, <1>4, <1>5 DEF RoomOutcomes

\* A round takes away what the round before took away, and more.
LEMMA OldestGrow ==
    ASSUME NEW K, IsFiniteSet(K), NEW n \in Nat
    PROVE  Oldest(K, n) \subseteq Oldest(K, n + 1)
<1> SUFFICES ASSUME NEW k \in K, Cardinality({j \in K : j < k}) < n
             PROVE  Cardinality({j \in K : j < k}) < n + 1
  BY DEF Oldest
<1>1. PICK B : B = {j \in K : j < k}
  OBVIOUS
<1>2. B \subseteq K
  BY <1>1
<1>3. Cardinality(B) \in Nat
  BY <1>2, FS_Subset, FS_CardinalityType
<1> QED
  BY <1>1, <1>3

\* Byte pressure leaves the log ahead.
LEMMA PressureCovers ==
    ASSUME "partial" \notin Faults, limit \in Limits, NEW s, IsStore(s), NEW d, IsDisk(d),
           NEW e, IsEntry(e), e.op = "event", Covers(s, d), NEW o \in PressureOutcomes(s, d, e)
    PROVE  Covers(o.mem, o.disk)
<1> DEFINE Gone(j) == Without(s, Oldest(Terminal(s), j))
           After(j) == IF j = 0 THEN d ELSE Compacted(Gone(j))
           last == Cardinality(Terminal(s))
           rounds == {j \in 0..last :
                         \A i \in 1..j : SnapshotSize(Gone(i)) = limit.bytes}
           RoundOutcomes(j) ==
               {c \in CompactOutcomes(Gone(j), After(j - 1)) : c.res # "ok"}
               \cup {a \in AppendOutcomes(Gone(j), Compacted(Gone(j)), e) :
                        SnapshotSize(Gone(j)) <= limit.bytes /\ a.res # "capacity"}
<1>1. \A j : Evicted(Gone(j), s) /\ IsStore(Gone(j))
  BY WithoutEvicts, OldestAreSome, EvictedStore
<1>2. \A j : Covers(Gone(j), Compacted(Gone(j))) /\ Covers(Gone(j), d)
  <2> HIDE DEF Gone
  <2> QED
    BY <1>1, CompactedSize DEF Covers, Evicted
<1>3. \A j \in Nat : DOMAIN Gone(j + 1).recs \subseteq DOMAIN Gone(j).recs
  <2> SUFFICES ASSUME NEW j \in Nat
               PROVE  DOMAIN Gone(j + 1).recs \subseteq DOMAIN Gone(j).recs
    OBVIOUS
  <2>1. IsFiniteSet(Terminal(s))
    <3>1. IsFiniteSet(DOMAIN s.recs) /\ Terminal(s) \subseteq DOMAIN s.recs
      BY KeysFinite DEF Terminal
    <3> QED
      BY <3>1, FS_Subset
  <2>2. Oldest(Terminal(s), j) \subseteq Oldest(Terminal(s), j + 1)
    BY <2>1, OldestGrow
  <2>3. \A K : DOMAIN Without(s, K).recs = DOMAIN s.recs \ K
    BY DEF Without, Restrict, IsStore
  <2> QED
    BY <2>2, <2>3
<1>4. \/ last \in rounds /\ o = Outcome("capacity", Gone(last), After(last), "open")
      \/ \E j \in rounds : o \in RoundOutcomes(j + 1)
  BY DEF PressureOutcomes
<1>5. CASE last \in rounds /\ o = Outcome("capacity", Gone(last), After(last), "open")
  <2>1. o.mem = Gone(last) /\ o.disk = After(last)
    BY <1>5 DEF Outcome
  <2> HIDE DEF Gone, last
  <2> QED
    BY <1>2, <2>1
<1>6. ASSUME NEW j \in rounds, o \in RoundOutcomes(j + 1)
      PROVE  Covers(o.mem, o.disk)
  <2>0. j \in Nat
    <3>1. j \in 0..last
      BY <1>6
    <3> HIDE DEF last
    <3> QED
      BY <3>1
  <2>1. PICK g : g = Gone(j + 1)
    OBVIOUS
  <2>2. PICK y : y = After(j)
    OBVIOUS
  <2>3. IsStore(g) /\ Covers(g, y) /\ Covers(g, Compacted(g))
    <3>1. IsStore(g) /\ Covers(g, Compacted(g)) /\ Covers(g, d)
      BY <1>1, <1>2, <2>1
    <3>2. CASE j = 0
      BY <2>2, <3>1, <3>2
    <3>3. CASE j # 0
      <4> HIDE DEF Gone
      <4>1. y = Compacted(Gone(j)) /\ Covers(Gone(j), y)
        BY <1>2, <2>2, <3>3
      <4>2. DOMAIN g.recs \subseteq DOMAIN Gone(j).recs
        BY <1>3, <2>0, <2>1
      <4> QED
        BY <3>1, <4>1, <4>2 DEF Covers
    <3> QED
      BY <3>2, <3>3
  <2>4. j + 1 - 1 = j
    BY <2>0
  <2>5. \/ o \in CompactOutcomes(g, y)
        \/ o \in AppendOutcomes(g, Compacted(g), e)
    <3> HIDE DEF Gone, After
    <3> QED
      BY <1>6, <2>1, <2>2, <2>4
  <2> HIDE DEF Gone, After, rounds, last, RoundOutcomes
  <2>6. IsDisk(Compacted(g)) /\ Applies(g, e)
    BY <2>3, CompactedSize DEF Applies
  <2> QED
    BY <2>3, <2>5, <2>6, CompactCovers, AppendCovers
<1> HIDE DEF Gone, After, rounds, last, RoundOutcomes
<1> QED
  BY <1>4, <1>5, <1>6

\* EnqueueWithEvidence leaves the log ahead, unless it leaves the store without a
\* file; it leaves everything as it is when the event is stored already.
LEMMA EnqueueCovers ==
    ASSUME "partial" \notin Faults, IsStore(mem), Plain(mem), limit \in Limits, IsDisk(disk),
           file \in {"open", "nil"}, disk.tail = "clean", file = "open" => Covers(mem, disk),
           NEW k \in Key, NEW o \in EnqueueOutcomes(k)
    PROVE  /\ o.disk.tail = "clean" /\ (o.file = "open" => Covers(o.mem, o.disk))
           /\ k \in DOMAIN mem.recs => o.file = file
<1>1. CASE file = "nil" \/ k \in DOMAIN mem.recs
  <2>1. o.mem = mem /\ o.disk = disk /\ o.file = file
    BY <1>1 DEF EnqueueOutcomes, Outcome
  <2> QED
    BY <2>1
<1>2. CASE file = "open" /\ k \notin DOMAIN mem.recs
  <2>0. PICK e : e = EventEntry(k, NewRecord(k))
    OBVIOUS
  <2>1. e.op = "event" /\ IsEntry(e) /\ \A s : Applies(s, e)
    BY <2>0, NewRecordType DEF EventEntry, IsEntry, Applies
  <2>2. PICK r \in RoomOutcomes(k) :
            o \in IF r.res # "ok" THEN {r} ELSE StoreOutcomes(k, r)
    BY <1>2 DEF EnqueueOutcomes
  <2>3. /\ Evicted(r.mem, mem) /\ OnDisk(r.disk, mem, disk) /\ (r.res = "ok" => r.file = "open")
        /\ r.disk.tail = "clean" /\ (r.file = "open" => Covers(r.mem, r.disk))
    BY <1>2, RoomShape, RoomCovers
  <2>4. IsStore(r.mem) /\ IsDisk(r.disk)
    BY <2>3, EvictedStore, OnDiskIsDisk
  <2>5. CASE r.res # "ok"
    BY <1>2, <2>2, <2>3, <2>5
  <2>6. CASE r.res = "ok"
    <3>1. o \in StoreOutcomes(k, r)
      BY <2>2, <2>6
    <3>2. PICK a \in AppendOutcomes(r.mem, r.disk, e) :
              \/ o = [a EXCEPT !.res = "dropped"]
              \/ a.res = "capacity" /\ o \in PressureOutcomes(a.mem, a.disk, e)
              \/ o = a
      BY <2>0, <3>1 DEF StoreOutcomes
    <3>3. Covers(a.mem, a.disk)
      BY <2>1, <2>3, <2>4, <2>6, AppendCovers
    <3>4. /\ DOMAIN a = {"res", "mem", "disk", "file"}
          /\ a.res = "capacity" => IsStore(a.mem) /\ IsDisk(a.disk)
      BY <2>4, AppendShape, OnDiskIsDisk
    <3>5. CASE o = [a EXCEPT !.res = "dropped"] \/ o = a
      <4>1. o.mem = a.mem /\ o.disk = a.disk
        BY <3>4, <3>5
      <4> QED
        BY <1>2, <3>3, <4>1 DEF Covers
    <3>6. CASE a.res = "capacity" /\ o \in PressureOutcomes(a.mem, a.disk, e)
      <4>1. Covers(o.mem, o.disk)
        BY <2>1, <3>3, <3>4, <3>6, PressureCovers
      <4> QED
        BY <1>2, <4>1 DEF Covers
    <3> QED
      BY <3>2, <3>5, <3>6
  <2> QED
    BY <2>5, <2>6
<1> QED
  BY <1>1, <1>2

\* An append of a Mark operation or of Ack leaves the log ahead and drops no
\* record.
LEMMA LockedCovers ==
    ASSUME "partial" \notin Faults, IsStore(mem), limit \in Limits, IsDisk(disk),
           file \in {"open", "nil"}, disk.tail = "clean", file = "open" => Covers(mem, disk),
           NEW e, IsEntry(e), Applies(mem, e), NEW o \in AppendLocked(e)
    PROVE  /\ o.disk.tail = "clean" /\ (o.file = "open" => Covers(o.mem, o.disk))
           /\ DOMAIN mem.recs \subseteq DOMAIN o.mem.recs
<1>1. CASE file = "nil"
  <2>1. o.mem = mem /\ o.disk = disk /\ o.file = file
    BY <1>1 DEF AppendLocked, Outcome
  <2> QED
    BY <2>1
<1>2. CASE file = "open"
  <2>1. o \in AppendOutcomes(mem, disk, e)
    BY <1>2 DEF AppendLocked
  <2> QED
    BY <1>2, <2>1, AppendCovers DEF Covers
<1> QED
  BY <1>1, <1>2

=============================================================================
