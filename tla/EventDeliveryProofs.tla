------------------------- MODULE EventDeliveryProofs -------------------------
(***************************************************************************)
(* Proofs about EventDelivery for any stream of events, any limits and any *)
(* number of attempts and faults: no stale snapshot of a delivery loop and *)
(* no replay settles an alarm wrongly or anew, and the evidence of an      *)
(* acknowledged START is kept until it is uploaded or given up.            *)
(***************************************************************************)
EXTENDS EventDelivery, OutboxProofs, WellFoundedInduction

Busy == {"stage", "store", "requeue", "fail", "ack"}

\* The pairs of key and attempts that a loop still carries.
Carried(loop) ==
    loop.list \cup (IF loop.pc = "mark" THEN {<<loop.key, loop.attempts>>} ELSE {})

IngestType ==
    [pc : {"off", "idle"} \cup Busy, key : Key \cup {0}, required : BOOLEAN,
     stageErr : BOOLEAN, attempts : Nat]

LoopType(pcs) ==
    [pc : pcs, list : SUBSET (Key \X Nat), key : Key \cup {0}, attempts : Nat, ok : BOOLEAN]

Types ==
    /\ up \in BOOLEAN
    /\ limit \in Limits
    /\ IsStore(mem)
    /\ file \in {"open", "nil"}
    /\ IsDisk(disk)
    /\ ingest \in IngestType
    /\ alarm \in LoopType({"idle", "next", "mark"})
    /\ evidence \in LoopType({"idle", "next", "mark", "remove"})
    /\ staged \in SUBSET Key
    /\ uploaded \in SUBSET Key
    /\ alarmed \in SUBSET Key
    /\ faults \in 0..MaxFaults

\* A loop works through a snapshot, and nothing runs in a daemon that is down.
Running ==
    /\ alarm.pc = "next" => alarm.list # {}
    /\ evidence.pc = "next" => evidence.list # {}
    /\ ~up => alarm = LoopIdle /\ evidence = LoopIdle /\ ingest.pc = "off"

\* ingest is at the event behind the acknowledged one, and stages evidence only
\* for a START.
Position ==
    /\ ingest.pc \in Busy => ingest.key \in Key /\ ingest.key = mem.ack + 1
    /\ ingest.required => Stream[ingest.key].phase = "START"
    /\ ingest.stageErr => ingest.required
    /\ ingest.pc = "stage" => ingest.required /\ ~ingest.stageErr
    /\ ingest.pc = "fail" => ingest.stageErr
    /\ ingest.pc = "requeue" => ingest.required /\ ~ingest.stageErr

\* The alarms of s are settled rightly.
AlarmGood(s, told) ==
    \A k \in DOMAIN s.recs :
        /\ s.recs[k].alarm = "sent" => k \in told
        /\ s.recs[k].alarm = "dead" => s.recs[k].alarmAttempts >= MaxAttempts
        /\ s.recs[k].alarm = "pending" => s.recs[k].alarmAttempts < MaxAttempts
        /\ s.recs[k].alarmAttempts <= MaxAttempts

Alarms ==
    /\ AlarmGood(mem, alarmed) /\ Plain(mem)
    /\ AlarmGood(disk.base, alarmed) /\ Plain(disk.base)
    /\ AlarmGood(disk.ext, alarmed) /\ Plain(disk.ext)

\* What the alarm loop carries is as it was when the snapshot was taken.
AlarmHand ==
    /\ \A r \in Carried(alarm) : /\ r[1] \in DOMAIN mem.recs
                                 /\ mem.recs[r[1]].alarm = "pending"
                                 /\ mem.recs[r[1]].alarmAttempts = r[2]
    /\ alarm.pc = "mark" => /\ \A r \in alarm.list : r[1] # alarm.key
                            /\ alarm.ok => alarm.key \in alarmed

IndInv == Types /\ Running /\ Position /\ Alarms /\ AlarmHand

-----------------------------------------------------------------------------
\* The event k carries evidence to be uploaded.
Wanted(k) == NewRecord(k).evidence = "pending"

\* The evidence of the record k of s is uploaded, staged or given up.
Kept(s, k, here) == k \in here \/ s.recs[k].evidenceAttempts >= MaxAttempts

EvidenceGood(s) ==
    \A k \in DOMAIN s.recs : Wanted(k) =>
        /\ s.recs[k].evidence \in {"pending", "staging", "sent", "dead"}
        /\ s.recs[k].evidence = "sent" => k \in uploaded
        /\ s.recs[k].evidence = "dead" => s.recs[k].evidenceAttempts >= MaxAttempts

\* The log is whole and not behind the store.
LogWhole ==
    /\ disk.tail = "clean"
    /\ DOMAIN disk.base.recs \subseteq 1..disk.base.ack + 1
    /\ up => /\ DOMAIN mem.recs \subseteq 1..mem.ack + 1
             /\ file = "open" => DOMAIN mem.recs \subseteq DOMAIN disk.base.recs
             /\ mem.ack <= disk.base.ack
             /\ disk.base.ack <= mem.ack + 1
             /\ \A k \in DOMAIN mem.recs \cap DOMAIN disk.base.recs :
                   mem.recs[k].evidenceAttempts <= disk.base.recs[k].evidenceAttempts

EvidenceSafe ==
    /\ EvidenceGood(mem) /\ EvidenceGood(disk.base)
    /\ \A k \in DOMAIN disk.base.recs :
          Wanted(k) /\ k <= disk.base.ack => Kept(disk.base, k, uploaded \cup staged)
    /\ up => \A k \in 1..disk.base.ack : Wanted(k) =>
                /\ k \in DOMAIN mem.recs => Kept(mem, k, uploaded \cup staged)
                /\ k \in DOMAIN mem.recs \/ k <= mem.ack

IngestSafe ==
    /\ ingest.required => Wanted(ingest.key)
    /\ ingest.pc \in {"requeue", "fail"} => ingest.key \in DOMAIN mem.recs
    /\ ingest.pc = "fail" => ingest.attempts <= mem.recs[ingest.key].evidenceAttempts
    /\ ingest.pc \in {"store", "requeue"} /\ ~ingest.stageErr /\ Wanted(ingest.key) =>
           \/ ingest.key \in uploaded \cup staged
           \/ /\ ingest.key \in DOMAIN mem.recs
              /\ mem.recs[ingest.key].evidenceAttempts >= MaxAttempts
    /\ ingest.pc = "ack" /\ Wanted(ingest.key) =>
           /\ ingest.key \in DOMAIN mem.recs
           /\ Kept(mem, ingest.key, uploaded \cup staged)

EvidenceHand ==
    /\ \A r \in Carried(evidence) :
          /\ r[1] \in DOMAIN mem.recs => mem.recs[r[1]].evidenceAttempts >= r[2]
          /\ r[1] \in DOMAIN mem.recs \/ r[1] <= mem.ack
    /\ evidence.pc = "mark" /\ evidence.ok => evidence.key \in uploaded
    /\ evidence.pc = "remove" =>
          \/ evidence.key \in uploaded
          \/ /\ \A s \in {mem, disk.base} :
                   evidence.key \in DOMAIN s.recs =>
                       s.recs[evidence.key].evidenceAttempts >= MaxAttempts
             /\ evidence.key \in DOMAIN mem.recs \/ evidence.key <= mem.ack

EvidenceInv == LogWhole /\ EvidenceSafe /\ IngestSafe /\ EvidenceHand

-----------------------------------------------------------------------------
(* The operations of the outbox, as the goroutines use them *)

\* An entry that settles an alarm only as it should.
Rightly(e, told) ==
    \/ e.op = "event" /\ e.key \in Key /\ e.record = NewRecord(e.key)
    \/ e.op = "ack" /\ e.cursor \in Key
    \/ /\ e.op = "alarm_state" /\ e.key \in Key /\ e.state \in {"pending", "sent", "dead"}
       /\ e.attempts \in 0..MaxAttempts
       /\ e.state = "sent" => e.key \in told
       /\ e.state = "dead" => e.attempts >= MaxAttempts
       /\ e.state = "pending" => e.attempts < MaxAttempts
    \/ /\ e.op = "evidence_state" /\ e.key \in Key /\ e.state \in EvidenceState
       /\ e.attempts \in Nat
       /\ e.state = "staging" => Stream[e.key].phase # "UPDATE"

\* A call that writes the entry e returns res, or changes nothing.
Op(e, res) ==
    \/ /\ mem' = mem /\ disk' = disk /\ file' \in {"open", "nil"}
       /\ UNCHANGED <<up, limit>>
    \/ /\ e.op = "event" => e.key \notin DOMAIN mem.recs
       /\ \E o : Shape(o, mem, disk, e) /\ o.res = res /\ Becomes(o)

\* What becomes of the records: those that wait for a sink stay, and only the
\* record of the entry changes, in the fields of the entry's sink.
RecordsKept(e) ==
    /\ DOMAIN mem.recs \ Terminal(mem) \subseteq DOMAIN mem'.recs
    /\ DOMAIN mem'.recs \subseteq
           DOMAIN mem.recs \cup (IF e.op = "event" THEN {e.key} ELSE {})
    /\ \A k \in DOMAIN mem'.recs \cap DOMAIN mem.recs :
          /\ e.op \in {"event", "ack"} \/ k # e.key => mem'.recs[k] = mem.recs[k]
          /\ e.op = "alarm_state" =>
                /\ mem'.recs[k].evidence = mem.recs[k].evidence
                /\ mem'.recs[k].evidenceAttempts = mem.recs[k].evidenceAttempts
          /\ e.op = "evidence_state" =>
                /\ mem'.recs[k].alarm = mem.recs[k].alarm
                /\ mem'.recs[k].alarmAttempts = mem.recs[k].alarmAttempts

StoreTypes ==
    /\ up \in BOOLEAN
    /\ limit \in Limits
    /\ IsStore(mem)
    /\ file \in {"open", "nil"}
    /\ IsDisk(disk)

\* The number of attempts is positive.
LEMMA Attempts == MaxAttempts \in Nat /\ 0 < MaxAttempts /\ 0 <= MaxAttempts
  BY DeliveryAssumption

\* Such entries are well-formed.
LEMMA RightlyIsEntry ==
    ASSUME NEW e, NEW told, Rightly(e, told)
    PROVE  IsEntry(e)
<1>1. CASE e.op = "event"
  BY <1>1, NewRecordType DEF Rightly, IsEntry
<1>2. CASE e.op = "ack"
  BY <1>2, Keys DEF Rightly, IsEntry
<1>3. CASE e.op \in {"alarm_state", "evidence_state"}
  BY <1>3, Attempts DEF Rightly, IsEntry, AlarmState
<1> QED
  BY <1>1, <1>2, <1>3 DEF Rightly

\* Alarms stay settled rightly when records are evicted.
LEMMA AlarmsEvicted ==
    ASSUME NEW m, IsStore(m), NEW t, Evicted(t, m), NEW told, AlarmGood(m, told), Plain(m)
    PROVE  AlarmGood(t, told) /\ Plain(t)
  BY DEF Evicted, AlarmGood, Plain

\* And when such an entry is applied.
LEMMA AlarmsApply ==
    ASSUME NEW s, IsStore(s), NEW told, AlarmGood(s, told), Plain(s), NEW e, Rightly(e, told)
    PROVE  AlarmGood(Apply(s, e), told) /\ Plain(Apply(s, e))
<1>1. PICK r : r = Apply(s, e)
  OBVIOUS
<1>2. CASE e.op = "event"
  <2>1. /\ DOMAIN r.recs = DOMAIN s.recs \cup {e.key} /\ r.recs[e.key] = NewRecord(e.key)
        /\ \A k \in DOMAIN s.recs : k # e.key => r.recs[k] = s.recs[k]
    BY <1>1, <1>2, ApplyEvent DEF Rightly
  <2>2. AlarmGood(r, told)
    BY <2>1, Attempts, NewRecordType DEF AlarmGood
  <2>3. Plain(r)
    BY <2>1, NewRecordType DEF Plain
  <2> QED
    BY <1>1, <2>2, <2>3
<1>3. CASE e.op = "ack"
  <2>1. r.recs = s.recs
    BY <1>1, <1>3, ApplyAck
  <2> QED
    BY <1>1, <2>1 DEF AlarmGood, Plain
<1>4. CASE e.op = "alarm_state"
  <2>0. /\ e.state \in AlarmState /\ e.attempts \in Nat /\ e.attempts <= MaxAttempts
        /\ e.state = "sent" => e.key \in told
        /\ e.state = "dead" => e.attempts >= MaxAttempts
        /\ e.state = "pending" => e.attempts < MaxAttempts
    BY <1>4, Attempts DEF Rightly, AlarmState
  <2>1. /\ DOMAIN r.recs = DOMAIN s.recs
        /\ e.key \in DOMAIN s.recs =>
               /\ r.recs[e.key].alarm = e.state /\ r.recs[e.key].alarmAttempts = e.attempts
               /\ r.recs[e.key].evidence = s.recs[e.key].evidence
        /\ \A k \in DOMAIN s.recs : k # e.key => r.recs[k] = s.recs[k]
    BY <1>1, <1>4, <2>0, ApplyAlarm
  <2>2. AlarmGood(r, told)
    BY <2>0, <2>1 DEF AlarmGood
  <2>3. Plain(r)
    BY <2>1 DEF Plain
  <2> QED
    BY <1>1, <2>2, <2>3
<1>5. CASE e.op = "evidence_state"
  <2>0. /\ e.state \in EvidenceState /\ e.attempts \in Nat
        /\ e.state = "staging" => Stream[e.key].phase # "UPDATE"
    BY <1>5 DEF Rightly
  <2>1. /\ DOMAIN r.recs = DOMAIN s.recs
        /\ e.key \in DOMAIN s.recs =>
               /\ r.recs[e.key].evidence = e.state
               /\ r.recs[e.key].alarm = s.recs[e.key].alarm
               /\ r.recs[e.key].alarmAttempts = s.recs[e.key].alarmAttempts
        /\ \A k \in DOMAIN s.recs : k # e.key => r.recs[k] = s.recs[k]
    BY <1>1, <1>5, <2>0, ApplyEvidence
  <2>2. AlarmGood(r, told)
    BY <2>1 DEF AlarmGood
  <2>3. Plain(r)
    BY <2>0, <2>1 DEF Plain
  <2> QED
    BY <1>1, <2>2, <2>3
<1> QED
  BY <1>2, <1>3, <1>4, <1>5 DEF Rightly

\* What every call keeps.
LEMMA OpKept ==
    ASSUME StoreTypes, Alarms, NEW e, Rightly(e, alarmed), NEW res, Op(e, res),
           alarmed' = alarmed
    PROVE  /\ StoreTypes' /\ Alarms' /\ RecordsKept(e) /\ up' = up
           /\ e.op # "ack" => mem'.ack = mem.ack
<1>1. CASE mem' = mem /\ disk' = disk /\ file' \in {"open", "nil"} /\ UNCHANGED <<up, limit>>
  BY <1>1 DEF StoreTypes, Alarms, RecordsKept
<1>2. ASSUME e.op = "event" => e.key \notin DOMAIN mem.recs,
             NEW o, Shape(o, mem, disk, e), Becomes(o)
      PROVE  /\ StoreTypes' /\ Alarms' /\ RecordsKept(e) /\ up' = up
             /\ e.op # "ack" => mem'.ack = mem.ack
  <2>1. /\ IsStore(mem) /\ IsDisk(disk) /\ IsEntry(e)
        /\ mem' = o.mem /\ disk' = o.disk /\ file' = o.file /\ UNCHANGED <<up, limit>>
    BY <1>2, RightlyIsEntry DEF StoreTypes, Becomes
  <2>2. StoreTypes'
    BY <1>2, <2>1, ShapeTypes DEF StoreTypes
  <2>3. e.op # "ack" => mem'.ack = mem.ack
    BY <1>2, <2>1, ShapeAck
  <2>4. RecordsKept(e)
    <3>1. /\ DOMAIN mem.recs \ Terminal(mem) \subseteq DOMAIN mem'.recs
          /\ DOMAIN mem'.recs \subseteq
                 DOMAIN mem.recs \cup (IF e.op = "event" THEN {e.key} ELSE {})
          /\ \A k \in DOMAIN mem'.recs \cap DOMAIN mem.recs :
                e.op = "ack" \/ k # e.key => mem'.recs[k] = mem.recs[k]
          /\ e.op = "alarm_state" /\ e.key \in DOMAIN mem'.recs =>
                /\ mem'.recs[e.key].evidence = mem.recs[e.key].evidence
                /\ mem'.recs[e.key].evidenceAttempts = mem.recs[e.key].evidenceAttempts
          /\ e.op = "evidence_state" /\ e.key \in DOMAIN mem'.recs =>
                /\ mem'.recs[e.key].alarm = mem.recs[e.key].alarm
                /\ mem'.recs[e.key].alarmAttempts = mem.recs[e.key].alarmAttempts
      BY <1>2, <2>1, ShapeRecords
    <3> QED
      BY <1>2, <3>1 DEF RecordsKept
  <2>5. Alarms'
    <3>1. PICK t, b :
              /\ Evicted(t, mem) /\ (b = disk.base \/ Evicted(b, mem))
              /\ o.mem = IF o.res = "ok" THEN Apply(t, e) ELSE t
              /\ o.disk.base = b \/ (Applies(b, e) /\ o.disk.base = Apply(b, e))
              /\ o.disk.ext \in {disk.ext, b, Apply(b, e)}
      BY <1>2, <2>1, ShapeCases
    <3>2. IsStore(t) /\ IsStore(b)
      BY <2>1, <3>1, EvictedStore DEF IsDisk
    <3>3. /\ AlarmGood(t, alarmed) /\ Plain(t) /\ AlarmGood(b, alarmed) /\ Plain(b)
      BY <2>1, <3>1, AlarmsEvicted DEF Alarms
    <3>4. /\ AlarmGood(Apply(t, e), alarmed) /\ Plain(Apply(t, e))
          /\ AlarmGood(Apply(b, e), alarmed) /\ Plain(Apply(b, e))
      BY <3>2, <3>3, AlarmsApply
    <3>5. AlarmGood(o.mem, alarmed) /\ Plain(o.mem)
      BY <3>1, <3>3, <3>4
    <3>6. AlarmGood(o.disk.base, alarmed) /\ Plain(o.disk.base)
      BY <3>1, <3>3, <3>4
    <3>7. AlarmGood(o.disk.ext, alarmed) /\ Plain(o.disk.ext)
      BY <3>1, <3>3, <3>4 DEF Alarms
    <3> QED
      BY <2>1, <3>5, <3>6, <3>7 DEF Alarms
  <2> QED
    BY <2>1, <2>2, <2>3, <2>4, <2>5
<1> QED
  BY <1>1, <1>2 DEF Op

\* EnqueueWithEvidence is such a call.
LEMMA EnqueueOp ==
    ASSUME StoreTypes, Plain(mem), NEW k \in Key, NEW res, Enqueue(k, res)
    PROVE  /\ Op(EventEntry(k, NewRecord(k)), res) /\ up
           /\ Rightly(EventEntry(k, NewRecord(k)), alarmed)
           /\ EventEntry(k, NewRecord(k)).op = "event" /\ EventEntry(k, NewRecord(k)).key = k
           /\ res = "exists" => k \in DOMAIN mem.recs
           /\ res = "ok" => k \in DOMAIN mem'.recs
           /\ res = "dropped" => Stream[k].phase = "UPDATE"
           /\ k \in DOMAIN mem.recs => mem' = mem /\ disk' = disk
<1>1. up /\ \E o \in EnqueueOutcomes(k) : o.res = res /\ Becomes(o)
  BY DEF Enqueue
<1>2. PICK o \in EnqueueOutcomes(k) : o.res = res /\ Becomes(o)
  BY <1>1
<1>3. /\ Shape(o, mem, disk, EventEntry(k, NewRecord(k)))
      /\ o.res = "exists" => k \in DOMAIN mem.recs
      /\ k \in DOMAIN mem.recs => o.mem = mem /\ o.disk = disk
      /\ o.res = "dropped" => Stream[k].phase = "UPDATE"
  BY EnqueueShape DEF StoreTypes
<1>4. PICK e : e = EventEntry(k, NewRecord(k))
  OBVIOUS
<1>5. e.op = "event" /\ e.key = k /\ e.record = NewRecord(k)
  BY <1>4 DEF EventEntry
<1>6. Rightly(e, alarmed) /\ IsEntry(e)
  BY <1>5, RightlyIsEntry DEF Rightly
<1>7. mem' = o.mem /\ disk' = o.disk /\ file' = o.file /\ UNCHANGED <<up, limit>>
  BY <1>2 DEF Becomes
<1>8. Op(e, res)
  <2>1. CASE k \in DOMAIN mem.recs
    <3>1. file' \in {"open", "nil"}
      BY <1>3, <1>4, <1>6, <1>7, ShapeTypes DEF StoreTypes
    <3> QED
      BY <1>3, <1>7, <2>1, <3>1 DEF Op
  <2>2. CASE k \notin DOMAIN mem.recs
    BY <1>2, <1>3, <1>4, <1>5, <2>2 DEF Op
  <2> QED
    BY <2>1, <2>2
<1>9. res = "ok" => k \in DOMAIN mem'.recs
  <2> SUFFICES ASSUME res = "ok" PROVE k \in DOMAIN o.mem.recs
    BY <1>7
  <2>1. PICK t : Evicted(t, mem) /\ o.mem = Apply(t, e)
    BY <1>2, <1>3, <1>4, ShapeCases DEF StoreTypes
  <2>2. IsStore(t)
    BY <2>1, EvictedStore DEF StoreTypes
  <2> QED
    BY <1>5, <2>1, <2>2, ApplyEvent
<1> QED
  BY <1>1, <1>2, <1>3, <1>4, <1>5, <1>6, <1>7, <1>8, <1>9

\* So are Ack and the Mark operations.
LEMMA AckOp ==
    ASSUME StoreTypes, NEW c, NEW res, Ack(c, res)
    PROVE  Op(AckEntry(c), res) /\ up
<1>1. CASE UNCHANGED storeVars
  BY <1>1 DEF Op, storeVars, StoreTypes, Ack
<1>2. ASSUME NEW o \in AppendLocked(AckEntry(c)), o.res = res, Becomes(o)
      PROVE  Op(AckEntry(c), res)
  <2>1. Shape(o, mem, disk, AckEntry(c))
    BY <1>2, LockedShape DEF StoreTypes
  <2>2. AckEntry(c).op = "ack"
    BY DEF AckEntry
  <2> QED
    BY <1>2, <2>1, <2>2 DEF Op
<1> QED
  BY <1>1, <1>2 DEF Ack

\* A Mark operation on a key.
LEMMA MarkOp ==
    ASSUME StoreTypes, NEW k, NEW e, e.op # "event", NEW res, Mark(k, e, res)
    PROVE  Op(e, res) /\ up /\ (k \notin DOMAIN mem.recs => UNCHANGED storeVars)
<1>1. CASE UNCHANGED storeVars
  BY <1>1 DEF Op, storeVars, StoreTypes, Mark
<1>2. ASSUME NEW o \in AppendLocked(e), o.res = res, Becomes(o)
      PROVE  Op(e, res)
  <2>1. Shape(o, mem, disk, e)
    BY <1>2, LockedShape DEF StoreTypes
  <2> QED
    BY <1>2, <2>1 DEF Op
<1> QED
  BY <1>1, <1>2 DEF Mark

-----------------------------------------------------------------------------
(* The goroutines *)

\* The first entry of a snapshot is one of it.
LEMMA FirstIsOne ==
    ASSUME NEW list, list \in SUBSET (Key \X Nat), list # {}
    PROVE  First(list) \in list
<1>1. PICK T : T = {r[1] : r \in list}
  OBVIOUS
<1>2. T \subseteq Nat /\ T # {}
  BY <1>1, Keys
<1>3. PICK x \in T : \A y \in T : ~(<<y, x>> \in OpToRel(<, Nat))
  BY <1>2, NatLessThanWellFounded, WFMin
<1>4. \A y \in T : x <= y
  <2> SUFFICES ASSUME NEW y \in T PROVE x <= y
    OBVIOUS
  <2>1. x \in Nat /\ y \in Nat
    BY <1>2
  <2>2. ~(<<y, x>> \in OpToRel(<, Nat))
    BY <1>3
  <2>3. ~(y < x)
    BY <2>1, <2>2 DEF OpToRel
  <2> QED
    BY <2>1, <2>3
<1>5. PICK r \in list : x = r[1]
  BY <1>1
<1>6. \A q \in list : r[1] <= q[1]
  BY <1>1, <1>4, <1>5
<1> QED
  BY <1>6 DEF First

\* Failures are counted within their bound.
LEMMA ReturnsType ==
    ASSUME faults \in 0..MaxFaults, NEW res, NEW refused, Returns(res, refused)
    PROVE  faults' \in 0..MaxFaults
  BY DeliveryAssumption DEF Returns

\* What the alarm loop carries stays as it is through the calls of the others.
LEMMA HandKept ==
    ASSUME AlarmHand, NEW e, RecordsKept(e), e.op # "alarm_state",
           e.op \in {"event", "ack", "evidence_state"}, alarm' = alarm, alarmed' = alarmed
    PROVE  AlarmHand'
<1>1. ASSUME NEW r \in Carried(alarm)
      PROVE  /\ r[1] \in DOMAIN mem'.recs
             /\ mem'.recs[r[1]].alarm = "pending"
             /\ mem'.recs[r[1]].alarmAttempts = r[2]
  <2>1. /\ r[1] \in DOMAIN mem.recs /\ mem.recs[r[1]].alarm = "pending"
        /\ mem.recs[r[1]].alarmAttempts = r[2]
    BY <1>1 DEF AlarmHand
  <2>2. r[1] \in DOMAIN mem'.recs
    BY <2>1 DEF RecordsKept, Terminal
  <2> QED
    BY <2>1, <2>2 DEF RecordsKept
<1>2. Carried(alarm') = Carried(alarm)
  OBVIOUS
<1> QED
  BY <1>1, <1>2 DEF AlarmHand

\* A call of ingest or of the evidence loop.
LEMMA OpStep ==
    ASSUME IndInv, up, NEW e, Rightly(e, alarmed), e.op # "alarm_state", NEW res, Op(e, res),
           UNCHANGED <<alarm, uploaded, alarmed>>, staged' \in SUBSET Key,
           faults' \in 0..MaxFaults, ingest' \in IngestType,
           evidence' \in LoopType({"idle", "next", "mark", "remove"}),
           evidence'.pc = "next" => evidence'.list # {}, Position'
    PROVE  IndInv'
<1>1. StoreTypes /\ Alarms
  BY DEF IndInv, Types, StoreTypes
<1>2. /\ StoreTypes' /\ Alarms' /\ RecordsKept(e) /\ up' = up
  BY <1>1, OpKept
<1>3. Types'
  BY <1>2 DEF IndInv, Types, StoreTypes
<1>4. Running'
  BY <1>2 DEF IndInv, Running
<1>5. AlarmHand'
  BY <1>2, HandKept DEF IndInv, Rightly
<1> QED
  BY <1>2, <1>3, <1>4, <1>5 DEF IndInv

\* A step that does not call the outbox.
LEMMA QuietStep ==
    ASSUME IndInv, UNCHANGED storeVars, up, UNCHANGED <<alarm, alarmed>>,
           uploaded' \in SUBSET Key, faults' \in 0..MaxFaults,
           staged' \in SUBSET Key, ingest' \in IngestType,
           evidence' \in LoopType({"idle", "next", "mark", "remove"}),
           evidence'.pc = "next" => evidence'.list # {}, Position'
    PROVE  IndInv'
<1>1. Types' /\ Running'
  BY DEF IndInv, Types, Running, storeVars
<1>2. Alarms'
  BY DEF IndInv, Alarms, storeVars
<1>3. AlarmHand'
  BY DEF IndInv, AlarmHand, Carried, storeVars
<1> QED
  BY <1>1, <1>2, <1>3 DEF IndInv

\* An event of the stream is one.
LEMMA EventType ==
    ASSUME NEW k \in Key
    PROVE  Stream[k] \in [id : STRING, phase : {"START", "UPDATE", "END"}, evidence : BOOLEAN]
<1>1. PICK T : T = [id : STRING, phase : {"START", "UPDATE", "END"}, evidence : BOOLEAN]
  OBVIOUS
<1>2. Stream \in Seq(T)
  BY <1>1, StreamAssumption
<1>3. k \in 1..Len(Stream)
  BY Keys
<1>4. Stream[k] \in T
  BY <1>2, <1>3
<1> QED
  BY <1>1, <1>4

\* ingest begins an event and stages its evidence.
LEMMA BeginStep ==
    ASSUME IndInv, Begin \/ StageOk \/ StageFails
    PROVE  IndInv'
<1>0. /\ ingest \in IngestType /\ staged \in SUBSET Key
      /\ evidence \in LoopType({"idle", "next", "mark", "remove"})
      /\ evidence.pc = "next" => evidence.list # {}
      /\ ~up => ingest.pc = "off"
      /\ uploaded \in SUBSET Key /\ faults \in 0..MaxFaults
  BY DEF IndInv, Types, Running
<1>1. CASE Begin
  <2> DEFINE k == mem.ack + 1
             needed == /\ EvidenceEnabled
                       /\ Stream[k].phase = "START"
                       /\ Stream[k].evidence
                       /\ k \in DOMAIN mem.recs =>
                              mem.recs[k].evidence \notin {"sent", "dead"}
  <2>1. /\ up /\ k \in Key /\ UNCHANGED storeVars
        /\ UNCHANGED <<alarm, evidence, staged, uploaded, alarmed, faults>>
        /\ ingest' = [IngestIdle EXCEPT !.pc = IF needed THEN "stage" ELSE "store",
                                        !.key = k, !.required = needed]
    BY <1>1 DEF Begin
  <2>2. /\ ingest'.pc = IF needed THEN "stage" ELSE "store"
        /\ ingest'.key = k /\ ingest'.required = needed /\ ingest'.stageErr = FALSE
        /\ ingest'.attempts = 0 /\ mem'.ack = mem.ack
        /\ DOMAIN ingest' = {"pc", "key", "required", "stageErr", "attempts"}
        /\ ingest' = [pc |-> IF needed THEN "stage" ELSE "store", key |-> k,
                      required |-> needed, stageErr |-> FALSE, attempts |-> 0]
    BY <2>1 DEF IngestIdle, storeVars
  <2>3. needed \in BOOLEAN /\ (needed => Stream[k].phase = "START")
    <3>1. Stream[k] \in [id : STRING, phase : {"START", "UPDATE", "END"}, evidence : BOOLEAN]
      BY <2>1, EventType
    <3>2. Stream[k].evidence \in BOOLEAN
      BY <3>1
    <3> QED
      BY <3>2, OutboxAssumption
  <2> HIDE DEF needed
  <2>3a. PICK n, pc : n = needed /\ pc = IF needed THEN "stage" ELSE "store"
    OBVIOUS
  <2>3b. ingest' = [pc |-> pc, key |-> mem.ack + 1, required |-> n, stageErr |-> FALSE,
                    attempts |-> 0]
    BY <2>2, <2>3a
  <2>3c. n \in BOOLEAN /\ pc \in {"stage", "store"} /\ mem.ack + 1 \in Key
    BY <2>1, <2>3, <2>3a
  <2>4. ingest' \in IngestType
    BY <2>3b, <2>3c DEF IngestType, Busy
  <2>5. Position'
    BY <2>1, <2>2, <2>3 DEF Position, Busy
  <2> QED
    BY <1>0, <2>1, <2>4, <2>5, QuietStep
<1>2. CASE StageOk \/ StageFails
  <2>1. /\ ingest.pc = "stage" /\ UNCHANGED storeVars
        /\ UNCHANGED <<alarm, evidence, uploaded, alarmed, faults>>
        /\ staged' = staged \/ staged' = staged \cup {ingest.key}
        /\ \/ ingest' = [ingest EXCEPT !.pc = "store"]
           \/ ingest' = [ingest EXCEPT !.pc = "store", !.stageErr = TRUE]
    BY <1>2 DEF StageOk, StageFails
  <2>2. up /\ ingest.key \in Key /\ ingest.key = mem.ack + 1 /\ ingest.required
        /\ Stream[ingest.key].phase = "START"
    BY <1>0, <2>1 DEF IndInv, Position, Busy
  <2>3. ingest' \in IngestType
    BY <1>0, <2>1 DEF IngestType, Busy
  <2>4. /\ ingest'.pc = "store" /\ ingest'.key = ingest.key /\ ingest'.required
        /\ mem' = mem
    BY <1>0, <2>1, <2>2 DEF IngestType, storeVars
  <2>5. Position'
    BY <2>2, <2>4 DEF Position, Busy
  <2> QED
    BY <1>0, <2>1, <2>2, <2>3, <2>5, QuietStep
<1> QED
  BY <1>1, <1>2

\* ingest stores the event.
LEMMA StoreStep ==
    ASSUME IndInv, StoreDrops \/ \E res \in Result : StoreEvent(res) \/ StoreFails(res)
    PROVE  IndInv'
<1>0. /\ ingest \in IngestType /\ staged \in SUBSET Key /\ faults \in 0..MaxFaults
      /\ evidence \in LoopType({"idle", "next", "mark", "remove"})
      /\ evidence.pc = "next" => evidence.list # {}
      /\ StoreTypes /\ Plain(mem) /\ Alarms
  BY DEF IndInv, Types, Running, StoreTypes, Alarms
<1>1. PICK k : k = ingest.key
  OBVIOUS
<1>2. /\ ingest.pc = "store" /\ UNCHANGED <<alarm, evidence, staged, uploaded, alarmed>>
      /\ \E res \in Result :
            /\ Enqueue(k, res)
            /\ \/ /\ res \in {"ok", "exists"} /\ faults' = faults
                  /\ \E st, n : /\ ingest' = [ingest EXCEPT !.pc = AfterStore(res = "ok", st),
                                                            !.attempts = n]
                                /\ n = mem'.recs[k].evidenceAttempts
               \/ /\ res = "dropped" /\ faults' = faults
                  /\ ingest' = [ingest EXCEPT !.pc = "ack"]
               \/ /\ res \in {"capacity", "error"} /\ Returns(res, Closed)
                  /\ ingest' = Resume(res)
  BY <1>1 DEF StoreDrops, StoreEvent, StoreFails, Result
<1>3. PICK res \in Result :
          /\ Enqueue(k, res)
          /\ \/ /\ res \in {"ok", "exists"} /\ faults' = faults
                /\ \E st, n : /\ ingest' = [ingest EXCEPT !.pc = AfterStore(res = "ok", st),
                                                          !.attempts = n]
                              /\ n = mem'.recs[k].evidenceAttempts
             \/ /\ res = "dropped" /\ faults' = faults
                /\ ingest' = [ingest EXCEPT !.pc = "ack"]
             \/ /\ res \in {"capacity", "error"} /\ Returns(res, Closed)
                /\ ingest' = Resume(res)
  BY <1>2
<1>4. k \in Key /\ k = mem.ack + 1 /\ (ingest.required => Stream[k].phase = "START")
      /\ (ingest.stageErr => ingest.required)
  BY <1>1, <1>2 DEF IndInv, Position, Busy
<1>5. PICK e : e = EventEntry(k, NewRecord(k))
  OBVIOUS
<1>6. /\ Op(e, res) /\ up /\ Rightly(e, alarmed) /\ e.op = "event"
      /\ res = "exists" => k \in DOMAIN mem.recs
      /\ res = "ok" => k \in DOMAIN mem'.recs
      /\ k \in DOMAIN mem.recs => mem' = mem
  <2>1. k \in Key /\ Enqueue(k, res) /\ StoreTypes /\ Plain(mem)
    BY <1>0, <1>3, <1>4
  <2>2. /\ Op(EventEntry(k, NewRecord(k)), res) /\ up
        /\ Rightly(EventEntry(k, NewRecord(k)), alarmed)
        /\ EventEntry(k, NewRecord(k)).op = "event"
        /\ res = "exists" => k \in DOMAIN mem.recs
        /\ res = "ok" => k \in DOMAIN mem'.recs
        /\ k \in DOMAIN mem.recs => mem' = mem
    BY <2>1, EnqueueOp
  <2> QED
    BY <1>5, <2>2
<1>7. StoreTypes' /\ mem'.ack = mem.ack
  BY <1>0, <1>2, <1>6, OpKept
<1>8. faults' \in 0..MaxFaults
  BY <1>0, <1>3, ReturnsType
<1>9. ingest' \in IngestType /\ Position'
  <2>1. CASE res \in {"ok", "exists"}
    <3>1. PICK st, n : /\ ingest' = [ingest EXCEPT !.pc = AfterStore(res = "ok", st),
                                                   !.attempts = n]
                       /\ n = mem'.recs[k].evidenceAttempts
      BY <1>3, <2>1
    <3>2. k \in DOMAIN mem'.recs
      BY <1>6, <2>1
    <3>3. mem'.recs[k] \in Record
      BY <1>7, <3>2 DEF StoreTypes, IsStore
    <3>4. n \in Nat
      BY <3>1, <3>3 DEF Record
    <3>5. PICK pc : pc = AfterStore(res = "ok", st)
      OBVIOUS
    <3>6. /\ pc \in {"fail", "requeue", "ack"} /\ (pc = "fail" => ingest.stageErr)
          /\ pc = "requeue" => ingest.required /\ ~ingest.stageErr
      BY <3>5 DEF AfterStore
    <3>7. ingest' = [ingest EXCEPT !.pc = pc, !.attempts = n]
      BY <3>1, <3>5
    <3>8. ingest' \in IngestType
      BY <1>0, <3>4, <3>6, <3>7 DEF IngestType, Busy
    <3>9. /\ ingest'.pc = pc /\ ingest'.key = k /\ ingest'.required = ingest.required
          /\ ingest'.stageErr = ingest.stageErr
      BY <1>0, <1>1, <3>7 DEF IngestType
    <3> QED
      BY <1>4, <1>7, <3>6, <3>8, <3>9 DEF Position, Busy
  <2>2. CASE res = "dropped"
    <3>1. ingest' = [ingest EXCEPT !.pc = "ack"]
      BY <1>3, <2>2
    <3>2. ingest' \in IngestType
      BY <1>0, <3>1 DEF IngestType, Busy
    <3>3. /\ ingest'.pc = "ack" /\ ingest'.key = k /\ ingest'.required = ingest.required
          /\ ingest'.stageErr = ingest.stageErr
      BY <1>0, <1>1, <3>1 DEF IngestType
    <3> QED
      BY <1>4, <1>7, <3>2, <3>3 DEF Position, Busy
  <2>3. CASE res \in {"capacity", "error"}
    <3>1. ingest' = Resume(res)
      BY <1>3, <2>3
    <3> QED
      BY <3>1 DEF Resume, IngestIdle, IngestType, Position, Busy
  <2> QED
    BY <2>1, <2>2, <2>3 DEF Result
<1> QED
  BY <1>0, <1>2, <1>6, <1>8, <1>9, OpStep

\* A Mark operation on a record's evidence.
LEMMA MarkStep ==
    ASSUME IndInv, NEW k, NEW state \in EvidenceState, NEW n,
           k \in DOMAIN mem.recs => n \in Nat,
           k \in DOMAIN mem.recs /\ state = "staging" => Stream[k].phase # "UPDATE",
           NEW res, Mark(k, EvidenceEntry(k, state, n), res),
           UNCHANGED <<alarm, staged, uploaded, alarmed>>,
           faults' \in 0..MaxFaults, ingest' \in IngestType,
           evidence' \in LoopType({"idle", "next", "mark", "remove"}),
           evidence'.pc = "next" => evidence'.list # {},
           mem'.ack = mem.ack => Position'
    PROVE  IndInv'
<1>0. StoreTypes /\ Alarms /\ staged \in SUBSET Key /\ uploaded \in SUBSET Key
  BY DEF IndInv, Types, StoreTypes
<1>1. PICK e : e = EvidenceEntry(k, state, n)
  OBVIOUS
<1>2. e.op = "evidence_state" /\ e.key = k /\ e.state = state /\ e.attempts = n
  BY <1>1 DEF EvidenceEntry
<1>3. Op(e, res) /\ up /\ (k \notin DOMAIN mem.recs => UNCHANGED storeVars)
  BY <1>0, <1>1, <1>2, MarkOp
<1>4. CASE k \notin DOMAIN mem.recs
  <2>1. UNCHANGED storeVars /\ mem' = mem
    BY <1>3, <1>4 DEF storeVars
  <2> QED
    BY <1>0, <1>3, <2>1, QuietStep
<1>5. CASE k \in DOMAIN mem.recs
  <2>1. k \in Key
    BY <1>0, <1>5 DEF StoreTypes, IsStore
  <2>2. Rightly(e, alarmed)
    BY <1>2, <1>5, <2>1 DEF Rightly
  <2>3. mem'.ack = mem.ack
    BY <1>0, <1>2, <1>3, <2>2, OpKept
  <2> QED
    BY <1>0, <1>2, <1>3, <2>2, <2>3, OpStep
<1> QED
  BY <1>4, <1>5

\* ingest between two events.
LEMMA Resumed ==
    ASSUME NEW res, ingest' = Resume(res)
    PROVE  ingest' \in IngestType /\ Position'
<1>1. PICK pc : pc = IF res = "capacity" THEN "off" ELSE "idle"
  OBVIOUS
<1>2. ingest' = [pc |-> pc, key |-> 0, required |-> FALSE, stageErr |-> FALSE, attempts |-> 0]
  BY <1>1 DEF Resume, IngestIdle
<1>3. pc \in {"off", "idle"}
  BY <1>1
<1>4. ingest' \in IngestType
  BY <1>2, <1>3 DEF IngestType, Busy
<1>5. ingest'.pc = pc /\ ingest'.required = FALSE /\ ingest'.stageErr = FALSE
  BY <1>2
<1>6. Position'
  BY <1>3, <1>5 DEF Position, Busy
<1> QED
  BY <1>4, <1>6

\* ingest records what has become of the evidence, and acknowledges the event.
LEMMA FinishStep ==
    ASSUME IndInv, NEW res, Requeue(res) \/ FailStaging(res) \/ AckEvent(res)
    PROVE  IndInv'
<1>0. /\ ingest \in IngestType /\ faults \in 0..MaxFaults /\ staged \in SUBSET Key
      /\ evidence \in LoopType({"idle", "next", "mark", "remove"})
      /\ evidence.pc = "next" => evidence.list # {}
      /\ StoreTypes
  BY DEF IndInv, Types, Running, StoreTypes
<1>1. PICK k : k = ingest.key
  OBVIOUS
<1>2. ingest.pc \in {"requeue", "fail", "ack"} /\ UNCHANGED <<alarm, evidence, staged, uploaded, alarmed>>
  BY DEF Requeue, FailStaging, AckEvent
<1>3. k \in Key /\ k = mem.ack + 1 /\ (ingest.required => Stream[k].phase = "START")
      /\ (ingest.stageErr => ingest.required)
      /\ (ingest.pc = "fail" => ingest.stageErr)
  BY <1>1, <1>2 DEF IndInv, Position, Busy
<1>4. faults' \in 0..MaxFaults
  BY <1>0, ReturnsType DEF Requeue, FailStaging, AckEvent
<1>5. k \in DOMAIN mem.recs =>
         /\ mem.recs[k].evidenceAttempts \in Nat /\ mem.recs[k].evidenceAttempts + 1 \in Nat
  <2> SUFFICES ASSUME k \in DOMAIN mem.recs
               PROVE  mem.recs[k].evidenceAttempts \in Nat
    OBVIOUS
  <2>1. mem.recs[k] \in Record
    BY <1>0 DEF StoreTypes, IsStore
  <2> QED
    BY <2>1 DEF Record
<1>6. ASSUME ingest' = [ingest EXCEPT !.pc = "ack"] \/ ingest' = Resume(res)
      PROVE  ingest' \in IngestType /\ (mem'.ack = mem.ack => Position')
  <2>1. CASE ingest' = [ingest EXCEPT !.pc = "ack"]
    <3>1. ingest' \in IngestType
      BY <1>0, <2>1 DEF IngestType, Busy
    <3>2. /\ ingest'.pc = "ack" /\ ingest'.key = k /\ ingest'.required = ingest.required
          /\ ingest'.stageErr = ingest.stageErr
      BY <1>0, <1>1, <2>1 DEF IngestType
    <3> QED
      BY <1>3, <3>1, <3>2 DEF Position, Busy
  <2>2. CASE ingest' = Resume(res)
    BY <2>2, Resumed
  <2> QED
    BY <1>6, <2>1, <2>2
<1>7. CASE Requeue(res)
  <2>1. /\ Mark(k, EvidenceEntry(k, "pending", mem.recs[k].evidenceAttempts), res)
        /\ ingest' = [ingest EXCEPT !.pc = "ack"] \/ ingest' = Resume(res)
    BY <1>1, <1>7 DEF Requeue, MarkEvidenceState
  <2>2. "pending" \in EvidenceState
    BY DEF EvidenceState
  <2> QED
    BY <1>0, <1>2, <1>4, <1>5, <1>6, <2>1, <2>2, MarkStep
<1>8. CASE FailStaging(res)
  <2>1. PICK state : state = IF ingest.attempts + 1 >= MaxAttempts THEN "dead" ELSE "staging"
    OBVIOUS
  <2>2. /\ Mark(k, EvidenceEntry(k, state, mem.recs[k].evidenceAttempts + 1), res)
        /\ ingest' = [ingest EXCEPT !.pc = "ack"] \/ ingest' = Resume(res)
    BY <1>1, <1>8, <2>1 DEF FailStaging, MarkEvidenceStagingFailure
  <2>3. state \in EvidenceState
    BY <2>1 DEF EvidenceState
  <2>4. Stream[k].phase # "UPDATE"
    BY <1>3, <1>8 DEF FailStaging
  <2> QED
    BY <1>0, <1>2, <1>4, <1>5, <1>6, <2>2, <2>3, <2>4, MarkStep
<1>9. CASE AckEvent(res)
  <2>1. Ack(k, res) /\ ingest' = Resume(res)
    BY <1>1, <1>9 DEF AckEvent
  <2>2. PICK e : e = AckEntry(k)
    OBVIOUS
  <2>3. e.op = "ack" /\ e.cursor = k
    BY <2>2 DEF AckEntry
  <2>4. Op(e, res) /\ up
    BY <1>0, <2>1, <2>2, AckOp
  <2>5. Rightly(e, alarmed)
    BY <1>3, <2>3 DEF Rightly
  <2>6. ingest' \in IngestType /\ Position'
    BY <2>1, Resumed
  <2> QED
    BY <1>0, <1>2, <1>4, <2>3, <2>4, <2>5, <2>6, OpStep
<1> QED
  BY <1>7, <1>8, <1>9

\* An entry of a snapshot is a pair.
LEMMA Pair ==
    ASSUME NEW r \in Key \X Nat
    PROVE  r[1] \in Key /\ r[2] \in Nat /\ r = <<r[1], r[2]>>
  OBVIOUS

\* A snapshot is a set of such pairs.
LEMMA SnapshotType ==
    ASSUME NEW loop, NEW pcs, loop \in LoopType(pcs), "next" \in pcs, NEW K, K \subseteq Key,
           NEW f, f \in [K -> Nat]
    PROVE  /\ Snapshot(loop, f) \in LoopType(pcs)
           /\ Snapshot(loop, f).pc = "next"
           /\ Snapshot(loop, f).list = {<<k, f[k]>> : k \in K}
<1>1. PICK L : L = {<<k, f[k]>> : k \in DOMAIN f}
  OBVIOUS
<1>2. L \in SUBSET (Key \X Nat) /\ L = {<<k, f[k]>> : k \in K}
  BY <1>1
<1>3. PICK s : s = [loop EXCEPT !.pc = "next", !.list = L]
  OBVIOUS
<1>4. s = Snapshot(loop, f)
  BY <1>1, <1>3 DEF Snapshot
<1>5. s \in LoopType(pcs) /\ s.pc = "next" /\ s.list = L
  BY <1>2, <1>3 DEF LoopType
<1> QED
  BY <1>2, <1>4, <1>5

\* A loop that has taken its first record.
LEMMA TakeFirstType ==
    ASSUME NEW loop, NEW pcs, loop \in LoopType(pcs), "mark" \in pcs, loop.list # {},
           NEW ok \in BOOLEAN
    PROVE  /\ TakeFirst(loop, ok) \in LoopType(pcs)
           /\ TakeFirst(loop, ok).pc = "mark" /\ TakeFirst(loop, ok).ok = ok
           /\ TakeFirst(loop, ok).list = loop.list \ {First(loop.list)}
           /\ TakeFirst(loop, ok).key = First(loop.list)[1]
           /\ TakeFirst(loop, ok).attempts = First(loop.list)[2]
           /\ First(loop.list) \in loop.list /\ First(loop.list)[1] \in Key
           /\ First(loop.list) = <<First(loop.list)[1], First(loop.list)[2]>>
<1>1. PICK r : r = First(loop.list)
  OBVIOUS
<1>2. loop.list \in SUBSET (Key \X Nat)
  BY DEF LoopType
<1>3. r \in loop.list
  BY <1>1, <1>2, FirstIsOne
<1>4. r[1] \in Key /\ r[2] \in Nat /\ r = <<r[1], r[2]>>
  BY <1>2, <1>3, Pair
<1>5. PICK L : L = loop.list \ {r}
  OBVIOUS
<1>6. L \in SUBSET (Key \X Nat)
  BY <1>2, <1>5
<1>7. PICK s : s = [pc |-> "mark", list |-> L, key |-> r[1], attempts |-> r[2], ok |-> ok]
  OBVIOUS
<1>8. s = TakeFirst(loop, ok)
  BY <1>1, <1>5, <1>7 DEF TakeFirst
<1>9. /\ s \in LoopType(pcs) /\ s.pc = "mark" /\ s.ok = ok /\ s.list = L /\ s.key = r[1]
      /\ s.attempts = r[2]
  BY <1>4, <1>6, <1>7 DEF LoopType
<1> QED
  BY <1>1, <1>3, <1>4, <1>5, <1>8, <1>9

\* A loop that is done with its record.
LEMMA DoneType ==
    ASSUME NEW loop, NEW pcs, loop \in LoopType(pcs), {"idle", "next"} \subseteq pcs
    PROVE  /\ Done(loop) \in LoopType(pcs) /\ Done(loop).list = loop.list
           /\ Done(loop).pc = IF loop.list = {} THEN "idle" ELSE "next"
<1>1. PICK pc : pc = IF loop.list = {} THEN "idle" ELSE "next"
  OBVIOUS
<1>2. PICK L : L = loop.list
  OBVIOUS
<1>3. pc \in pcs /\ L \in SUBSET (Key \X Nat)
  BY <1>1, <1>2 DEF LoopType
<1>4. PICK i : i = LoopIdle
  OBVIOUS
<1>5. i \in LoopType(pcs)
  <2>1. {} \in SUBSET (Key \X Nat)
    OBVIOUS
  <2> QED
    BY <1>4, <2>1 DEF LoopType, LoopIdle
<1>6. PICK s : s = [i EXCEPT !.pc = pc, !.list = L]
  OBVIOUS
<1>7. s = Done(loop)
  BY <1>1, <1>2, <1>4, <1>6 DEF Done
<1>8. s \in LoopType(pcs) /\ s.list = L /\ s.pc = pc
  BY <1>3, <1>5, <1>6 DEF LoopType
<1> QED
  BY <1>1, <1>2, <1>7, <1>8

\* The alarm loop takes its snapshot and sends an alarm.
LEMMA AlarmSendStep ==
    ASSUME IndInv, AlarmSnapshot \/ \E ok \in BOOLEAN : AlarmSend(ok)
    PROVE  IndInv'
<1>0. /\ alarm \in LoopType({"idle", "next", "mark"}) /\ alarmed \in SUBSET Key
      /\ alarm.pc = "next" => alarm.list # {}
      /\ ~up => alarm = LoopIdle
      /\ IsStore(mem)
      /\ UNCHANGED <<storeVars, ingest, evidence, staged, uploaded, faults>>
      /\ UNCHANGED <<up, limit, mem, file, disk>>
  BY DEF IndInv, Types, Running, AlarmSnapshot, AlarmSend, storeVars
<1>1. up
  BY <1>0 DEF AlarmSnapshot, AlarmSend, LoopIdle
<1>2. SUFFICES /\ alarm' \in LoopType({"idle", "next", "mark"}) /\ alarmed' \in SUBSET Key
               /\ alarmed \subseteq alarmed' /\ (alarm'.pc = "next" => alarm'.list # {})
               /\ AlarmHand'
  <2> SUFFICES ASSUME /\ alarm' \in LoopType({"idle", "next", "mark"}) /\ alarmed' \in SUBSET Key
                      /\ alarmed \subseteq alarmed' /\ (alarm'.pc = "next" => alarm'.list # {})
                      /\ AlarmHand'
               PROVE  IndInv'
    OBVIOUS
  <2>1. Types'
    BY <1>0 DEF IndInv, Types
  <2>2. Running' /\ Position'
    BY <1>0, <1>1 DEF IndInv, Running, Position
  <2>3. Alarms'
    BY <1>0 DEF IndInv, Alarms, AlarmGood
  <2> QED
    BY <2>1, <2>2, <2>3 DEF IndInv
<1>3. CASE AlarmSnapshot
  <2>1. PICK K : K = PendingAlarms
    OBVIOUS
  <2>2. PICK f : f = [k \in K |-> mem.recs[k].alarmAttempts]
    OBVIOUS
  <2>3. K \subseteq Key /\ K \subseteq DOMAIN mem.recs /\ K # {}
    BY <1>0, <1>3, <2>1 DEF PendingAlarms, IsStore, AlarmSnapshot
  <2>4. f \in [K -> Nat]
    <3> SUFFICES ASSUME NEW k \in K PROVE mem.recs[k].alarmAttempts \in Nat
      BY <2>2
    <3>1. mem.recs[k] \in Record
      BY <1>0, <2>3 DEF IsStore
    <3> QED
      BY <3>1 DEF Record
  <2>5. alarm' = Snapshot(alarm, f) /\ alarmed' = alarmed
    BY <1>3, <2>1, <2>2 DEF AlarmSnapshot
  <2>6. /\ alarm' \in LoopType({"idle", "next", "mark"}) /\ alarm'.pc = "next"
        /\ alarm'.list = {<<k, f[k]>> : k \in K}
    BY <1>0, <2>3, <2>4, <2>5, SnapshotType
  <2>7. AlarmHand'
    <3>1. Carried(alarm') = alarm'.list
      BY <2>6 DEF Carried
    <3>2. ASSUME NEW r \in alarm'.list
          PROVE  /\ r[1] \in DOMAIN mem.recs /\ mem.recs[r[1]].alarm = "pending"
                 /\ mem.recs[r[1]].alarmAttempts = r[2]
      <4>1. PICK k \in K : r = <<k, f[k]>>
        BY <2>6, <3>2
      <4>2. r[1] = k /\ r[2] = mem.recs[k].alarmAttempts
        BY <2>2, <4>1
      <4> QED
        BY <2>1, <4>2 DEF PendingAlarms
    <3> QED
      BY <1>0, <2>6, <3>1, <3>2 DEF AlarmHand
  <2>8. alarm'.list # {}
    BY <2>3, <2>6
  <2> QED
    BY <1>0, <2>5, <2>6, <2>7, <2>8
<1>4. ASSUME NEW ok \in BOOLEAN, AlarmSend(ok)
      PROVE  /\ alarm' \in LoopType({"idle", "next", "mark"}) /\ alarmed' \in SUBSET Key
             /\ alarmed \subseteq alarmed' /\ (alarm'.pc = "next" => alarm'.list # {})
             /\ AlarmHand'
  <2>1. PICK r : r = First(alarm.list)
    OBVIOUS
  <2>2. /\ alarm.pc = "next" /\ alarm' = TakeFirst(alarm, ok)
        /\ \/ alarmed' = alarmed \cup {r[1]}
           \/ ~ok /\ alarmed' = alarmed
    BY <1>4, <2>1 DEF AlarmSend
  <2>3. /\ alarm' \in LoopType({"idle", "next", "mark"})
        /\ alarm'.pc = "mark" /\ alarm'.ok = ok
        /\ alarm'.list = alarm.list \ {r} /\ alarm'.key = r[1] /\ alarm'.attempts = r[2]
        /\ r \in alarm.list /\ r[1] \in Key /\ r = <<r[1], r[2]>>
    BY <1>0, <2>1, <2>2, TakeFirstType
  <2>4. \A q \in alarm.list :
            /\ q[1] \in DOMAIN mem.recs /\ mem.recs[q[1]].alarm = "pending"
            /\ mem.recs[q[1]].alarmAttempts = q[2]
    BY DEF IndInv, AlarmHand, Carried
  <2>5. Carried(alarm') \subseteq alarm.list
    BY <2>3 DEF Carried
  <2>6. \A q \in alarm'.list : q[1] # r[1]
    <3> SUFFICES ASSUME NEW q \in alarm.list, q[1] = r[1] PROVE q = r
      BY <2>3
    <3>1. q = <<q[1], q[2]>>
      BY <1>0, Pair DEF LoopType
    <3>2. q[2] = r[2]
      BY <2>3, <2>4
    <3> QED
      BY <2>3, <3>1, <3>2
  <2>7. AlarmHand'
    BY <1>0, <2>2, <2>3, <2>4, <2>5, <2>6 DEF AlarmHand
  <2> QED
    BY <1>0, <2>2, <2>3, <2>7
<1> QED
  BY <1>3, <1>4

\* The entry of AlarmMark is for a record that is still pending.
LEMMA AlarmMarkEntry ==
    ASSUME IndInv, NEW res, AlarmMark(res)
    PROVE  /\ alarm.key \in DOMAIN mem.recs /\ mem.recs[alarm.key].alarm = "pending"
           /\ \A r \in alarm.list : /\ r[1] # alarm.key /\ r[1] \in DOMAIN mem.recs
                                    /\ mem.recs[r[1]].alarm = "pending"
                                    /\ mem.recs[r[1]].alarmAttempts = r[2]
           /\ \E e : /\ Mark(alarm.key, e, res) /\ e.op = "alarm_state" /\ e.key = alarm.key
                     /\ Rightly(e, alarmed)
<1>0. /\ alarm \in LoopType({"idle", "next", "mark"}) /\ faults \in 0..MaxFaults
      /\ StoreTypes /\ Alarms /\ AlarmGood(mem, alarmed)
  BY DEF IndInv, Types, StoreTypes, Alarms
<1>1. PICK k, n : k = alarm.key /\ n = mem.recs[k].alarmAttempts
  OBVIOUS
<1>2. /\ alarm.pc = "mark" /\ alarm' = Done(alarm) /\ faults' \in 0..MaxFaults
      /\ UNCHANGED <<ingest, evidence, staged, uploaded, alarmed>>
  BY <1>0, ReturnsType DEF AlarmMark
<1>3. /\ k \in DOMAIN mem.recs /\ mem.recs[k].alarm = "pending" /\ n = alarm.attempts
      /\ \A r \in alarm.list : r[1] # k /\ r[1] \in DOMAIN mem.recs
                               /\ mem.recs[r[1]].alarm = "pending"
                               /\ mem.recs[r[1]].alarmAttempts = r[2]
      /\ alarm.ok => k \in alarmed
  <2>1. /\ \A r \in Carried(alarm) : /\ r[1] \in DOMAIN mem.recs
                                     /\ mem.recs[r[1]].alarm = "pending"
                                     /\ mem.recs[r[1]].alarmAttempts = r[2]
        /\ \A r \in alarm.list : r[1] # k
        /\ alarm.ok => k \in alarmed
    BY <1>1, <1>2 DEF IndInv, AlarmHand
  <2>2. <<k, alarm.attempts>> \in Carried(alarm) /\ alarm.list \subseteq Carried(alarm)
    BY <1>1, <1>2 DEF Carried
  <2>3. k \in DOMAIN mem.recs /\ mem.recs[k].alarm = "pending" /\ n = alarm.attempts
    BY <1>1, <2>1, <2>2
  <2> QED
    BY <2>1, <2>2, <2>3
<1>4. k \in Key /\ n \in Nat /\ n < MaxAttempts /\ n + 1 <= MaxAttempts
  <2>1. k \in Key /\ mem.recs[k] \in Record
    BY <1>0, <1>3 DEF StoreTypes, IsStore
  <2>2. n \in Nat
    BY <1>1, <2>1 DEF Record
  <2>3. n < MaxAttempts
    BY <1>0, <1>1, <1>3 DEF AlarmGood
  <2> QED
    BY <2>1, <2>2, <2>3, Attempts
<1>5. PICK e : /\ Mark(k, e, res) /\ e.op = "alarm_state" /\ e.key = k
               /\ Rightly(e, alarmed)
  <2>1. CASE alarm.ok
    <3>1. PICK e : e = AlarmEntry(k, "sent", n)
      OBVIOUS
    <3>2. Mark(k, e, res)
      BY <1>1, <2>1, <3>1 DEF AlarmMark, MarkAlarmSent
    <3>3. e.op = "alarm_state" /\ e.key = k /\ e.state = "sent" /\ e.attempts = n
      BY <3>1 DEF AlarmEntry
    <3>4. Rightly(e, alarmed)
      BY <1>3, <1>4, <2>1, <3>3, Attempts DEF Rightly
    <3> QED
      BY <3>2, <3>3, <3>4
  <2>2. CASE ~alarm.ok
    <3>0. PICK state : state = IF n + 1 >= MaxAttempts THEN "dead" ELSE "pending"
      OBVIOUS
    <3>1. PICK e : e = AlarmEntry(k, state, n + 1)
      OBVIOUS
    <3>2. Mark(k, e, res)
      BY <1>1, <1>3, <2>2, <3>0, <3>1 DEF AlarmMark, MarkAlarmAttempt
    <3>3. e.op = "alarm_state" /\ e.key = k /\ e.state = state /\ e.attempts = n + 1
      BY <3>1 DEF AlarmEntry
    <3>4. Rightly(e, alarmed)
      BY <1>4, <3>0, <3>3, Attempts DEF Rightly
    <3> QED
      BY <3>2, <3>3, <3>4
  <2> QED
    BY <2>1, <2>2
<1> QED
  BY <1>1, <1>3, <1>5

\* The alarm loop records the outcome.
LEMMA AlarmMarkStep ==
    ASSUME IndInv, NEW res, AlarmMark(res)
    PROVE  IndInv'
<1>0. /\ alarm \in LoopType({"idle", "next", "mark"}) /\ faults \in 0..MaxFaults
      /\ StoreTypes /\ Alarms
  BY DEF IndInv, Types, StoreTypes
<1>1. PICK k : k = alarm.key
  OBVIOUS
<1>2. /\ alarm.pc = "mark" /\ alarm' = Done(alarm) /\ faults' \in 0..MaxFaults
      /\ UNCHANGED <<ingest, evidence, staged, uploaded, alarmed>>
  BY <1>0, ReturnsType DEF AlarmMark
<1>3. \A r \in alarm.list : r[1] # k /\ r[1] \in DOMAIN mem.recs
                             /\ mem.recs[r[1]].alarm = "pending"
                             /\ mem.recs[r[1]].alarmAttempts = r[2]
  BY <1>1, AlarmMarkEntry
<1>5. PICK e : /\ Mark(k, e, res) /\ e.op = "alarm_state" /\ e.key = k
               /\ Rightly(e, alarmed)
  BY <1>1, AlarmMarkEntry
<1>6. Op(e, res) /\ up
  BY <1>0, <1>5, MarkOp
<1>7. StoreTypes' /\ Alarms' /\ RecordsKept(e) /\ up' = up /\ mem'.ack = mem.ack
  BY <1>0, <1>2, <1>5, <1>6, OpKept
<1>8. /\ alarm' \in LoopType({"idle", "next", "mark"}) /\ alarm'.list = alarm.list
      /\ alarm'.pc = IF alarm.list = {} THEN "idle" ELSE "next"
  BY <1>0, <1>2, DoneType
<1>9. AlarmHand'
  <2>1. Carried(alarm') = alarm.list
    BY <1>8 DEF Carried
  <2>2. \A r \in alarm.list : /\ r[1] \in DOMAIN mem'.recs /\ mem'.recs[r[1]].alarm = "pending"
                              /\ mem'.recs[r[1]].alarmAttempts = r[2]
    BY <1>3, <1>5, <1>7 DEF RecordsKept, Terminal
  <2> QED
    BY <1>8, <2>1, <2>2 DEF AlarmHand
<1>10. Types'
  BY <1>2, <1>7, <1>8 DEF IndInv, Types, StoreTypes
<1>11. Running' /\ Position'
  BY <1>2, <1>6, <1>7, <1>8 DEF IndInv, Running, Position
<1> QED
  BY <1>7, <1>9, <1>10, <1>11 DEF IndInv

\* The evidence loop takes its snapshot, uploads, and removes files.
LEMMA EvidenceSendStep ==
    ASSUME IndInv, EvidenceSnapshot \/ EvidenceRemove \/ \E ok \in BOOLEAN : EvidenceSend(ok)
    PROVE  IndInv'
<1> DEFINE pcs == {"idle", "next", "mark", "remove"}
<1>0. /\ evidence \in LoopType(pcs) /\ uploaded \in SUBSET Key /\ staged \in SUBSET Key
      /\ evidence.pc = "next" => evidence.list # {}
      /\ ~up => evidence = LoopIdle
      /\ IsStore(mem) /\ faults \in 0..MaxFaults /\ ingest \in IngestType
      /\ UNCHANGED <<storeVars, ingest, alarm, alarmed, faults>> /\ mem' = mem
  BY DEF IndInv, Types, Running, EvidenceSnapshot, EvidenceSend, EvidenceRemove, storeVars
<1>1. up
  BY <1>0 DEF EvidenceSnapshot, EvidenceSend, EvidenceRemove, LoopIdle
<1>2. Position'
  BY <1>0 DEF IndInv, Position
<1>3. SUFFICES /\ evidence' \in LoopType(pcs) /\ uploaded' \in SUBSET Key
               /\ staged' \in SUBSET Key
               /\ evidence'.pc = "next" => evidence'.list # {}
  BY <1>0, <1>1, <1>2, QuietStep
<1>4. CASE EvidenceSnapshot
  <2>1. PICK K : K = PendingEvidence
    OBVIOUS
  <2>2. PICK f : f = [k \in K |-> mem.recs[k].evidenceAttempts]
    OBVIOUS
  <2>3. K \subseteq Key /\ K \subseteq DOMAIN mem.recs /\ K # {}
    BY <1>0, <1>4, <2>1 DEF PendingEvidence, IsStore, EvidenceSnapshot
  <2>4. f \in [K -> Nat]
    <3> SUFFICES ASSUME NEW k \in K PROVE mem.recs[k].evidenceAttempts \in Nat
      BY <2>2
    <3>1. mem.recs[k] \in Record
      BY <1>0, <2>3 DEF IsStore
    <3> QED
      BY <3>1 DEF Record
  <2>5. evidence' = Snapshot(evidence, f) /\ uploaded' = uploaded /\ staged' = staged
    BY <1>4, <2>1, <2>2 DEF EvidenceSnapshot
  <2>6. evidence' \in LoopType(pcs) /\ evidence'.list = {<<k, f[k]>> : k \in K}
    BY <1>0, <2>3, <2>4, <2>5, SnapshotType
  <2> QED
    BY <1>0, <2>3, <2>5, <2>6
<1>5. CASE EvidenceRemove
  <2>1. evidence' = Done(evidence) /\ uploaded' = uploaded /\ staged' \subseteq staged
    BY <1>5 DEF EvidenceRemove
  <2>2. /\ evidence' \in LoopType(pcs) /\ evidence'.list = evidence.list
        /\ evidence'.pc = IF evidence.list = {} THEN "idle" ELSE "next"
    BY <1>0, <2>1, DoneType
  <2> QED
    BY <1>0, <2>1, <2>2
<1>6. ASSUME NEW ok \in BOOLEAN, EvidenceSend(ok)
      PROVE  /\ evidence' \in LoopType(pcs) /\ uploaded' \in SUBSET Key
             /\ staged' \in SUBSET Key
             /\ evidence'.pc = "next" => evidence'.list # {}
  <2>1. PICK r : r = First(evidence.list)
    OBVIOUS
  <2>2. /\ evidence.pc = "next" /\ evidence' = TakeFirst(evidence, ok) /\ staged' = staged
        /\ uploaded' = uploaded \cup {r[1]} \/ uploaded' = uploaded
    BY <1>6, <2>1 DEF EvidenceSend
  <2>3. evidence' \in LoopType(pcs) /\ evidence'.pc = "mark" /\ r[1] \in Key
    BY <1>0, <2>1, <2>2, TakeFirstType
  <2> QED
    BY <1>0, <2>2, <2>3
<1> QED
  BY <1>4, <1>5, <1>6

\* The evidence loop records the outcome.
LEMMA EvidenceMarkStep ==
    ASSUME IndInv, NEW res, EvidenceMark(res)
    PROVE  IndInv'
<1> DEFINE pcs == {"idle", "next", "mark", "remove"}
<1>0. /\ evidence \in LoopType(pcs) /\ faults \in 0..MaxFaults /\ ingest \in IngestType
      /\ IsStore(mem)
  BY DEF IndInv, Types
<1>1. PICK k, terminal :
          k = evidence.key /\ terminal = (evidence.attempts + 1 >= MaxAttempts)
  OBVIOUS
<1>2. /\ evidence.pc = "mark" /\ faults' \in 0..MaxFaults
      /\ evidence' = [evidence EXCEPT !.pc = "remove"] \/ evidence' = Done(evidence)
      /\ UNCHANGED <<ingest, alarm, staged, uploaded, alarmed>>
  BY <1>0, ReturnsType DEF EvidenceMark
<1>3. evidence' \in LoopType(pcs) /\ (evidence'.pc = "next" => evidence'.list # {})
  <2>1. CASE evidence' = [evidence EXCEPT !.pc = "remove"]
    BY <1>0, <2>1 DEF LoopType
  <2>2. CASE evidence' = Done(evidence)
    BY <1>0, <2>2, DoneType
  <2> QED
    BY <1>2, <2>1, <2>2
<1>4. mem'.ack = mem.ack => Position'
  BY <1>2 DEF IndInv, Position
<1>5. PICK state, n :
          state \in EvidenceState
          /\ Mark(k, EvidenceEntry(k, state, n), res) /\ state # "staging"
          /\ (n = mem.recs[k].evidenceAttempts \/ n = mem.recs[k].evidenceAttempts + 1)
  BY <1>1 DEF EvidenceMark, MarkEvidenceSent, MarkEvidenceAttempt, EvidenceState
<1>6. k \in DOMAIN mem.recs => n \in Nat
  <2> SUFFICES ASSUME k \in DOMAIN mem.recs PROVE mem.recs[k].evidenceAttempts \in Nat
    BY <1>5
  <2>1. mem.recs[k] \in Record
    BY <1>0 DEF IsStore
  <2> QED
    BY <2>1 DEF Record
<1> HIDE DEF pcs
<1> QED
  BY <1>0, <1>2, <1>3, <1>4, <1>5, <1>6, MarkStep DEF pcs

-----------------------------------------------------------------------------
(* Start and stop *)

\* An idle loop carries nothing.
LEMMA IdleLoop ==
    /\ LoopIdle.pc = "idle" /\ Carried(LoopIdle) = {}
    /\ \A pcs : "idle" \in pcs => LoopIdle \in LoopType(pcs)
<1>1. PICK i : i = LoopIdle
  OBVIOUS
<1>2. i.pc = "idle" /\ i.list = {}
  BY <1>1 DEF LoopIdle
<1>3. ASSUME NEW pcs, "idle" \in pcs PROVE i \in LoopType(pcs)
  <2>1. {} \in SUBSET (Key \X Nat)
    OBVIOUS
  <2> QED
    BY <1>1, <1>3, <2>1 DEF LoopType, LoopIdle
<1> QED
  BY <1>1, <1>2, <1>3 DEF Carried

\* An ingest goroutine that carries nothing.
LEMMA IdleIngest ==
    ASSUME NEW i, i = IngestIdle \/ i = [IngestIdle EXCEPT !.pc = "off"]
    PROVE  /\ i \in IngestType /\ i.pc \in {"idle", "off"} /\ i.required = FALSE
           /\ i.stageErr = FALSE
           /\ i = [IngestIdle EXCEPT !.pc = "off"] => i.pc = "off"
<1>1. PICK j : j = IngestIdle
  OBVIOUS
<1>2. j \in IngestType /\ j.pc = "idle" /\ j.required = FALSE /\ j.stageErr = FALSE
  BY <1>1 DEF IngestIdle, IngestType, Busy
<1>3. PICK h : h = [j EXCEPT !.pc = "off"]
  OBVIOUS
<1>4. h \in IngestType /\ h.pc = "off" /\ h.required = FALSE /\ h.stageErr = FALSE
  BY <1>2, <1>3 DEF IngestType
<1> QED
  BY <1>1, <1>2, <1>3, <1>4

\* The initial states.
LEMMA InitStep == Init => IndInv
<1> SUFFICES ASSUME Init PROVE IndInv
  OBVIOUS
<1>1. /\ up = FALSE /\ limit \in Limits /\ mem = EmptyStore /\ file = "nil" /\ disk = EmptyDisk
      /\ ingest = [IngestIdle EXCEPT !.pc = "off"] /\ alarm = LoopIdle /\ evidence = LoopIdle
      /\ staged = {} /\ uploaded = {} /\ alarmed = {} /\ faults = 0
  BY DEF Init, StoreInit
<1>2. faults \in 0..MaxFaults
  BY <1>1, DeliveryAssumption
<1>3. Types
  BY <1>1, <1>2, EmptyTypes, IdleLoop, IdleIngest DEF Types
<1>4. Running /\ Position /\ AlarmHand
  BY <1>1, IdleLoop, IdleIngest DEF Running, Position, AlarmHand, Busy
<1>5. AlarmGood(EmptyStore, alarmed) /\ Plain(EmptyStore)
  BY EmptyTypes DEF AlarmGood, Plain
<1>6. Alarms
  BY <1>1, <1>5, EmptyTypes DEF Alarms
<1> QED
  BY <1>3, <1>4, <1>6 DEF IndInv

\* The daemon starts.
LEMMA StartStep ==
    ASSUME IndInv, Start
    PROVE  IndInv'
<1>0. Types /\ Running /\ Alarms /\ IsDisk(disk) /\ staged \in SUBSET Key
  BY DEF IndInv, Types
<1>1. PICK l \in Limits : Open(l)
  BY DEF Start
<1>2. /\ ~up /\ ingest' = IngestIdle /\ UNCHANGED <<alarm, evidence, uploaded, alarmed, faults>>
      /\ staged' \subseteq staged
      /\ up' = TRUE /\ limit' = l /\ mem' = Loaded(disk) /\ file' = "open"
      /\ disk' = Recovered(disk) \/ disk' = Compacted(Loaded(disk))
  BY <1>1 DEF Start, Open
<1>3. alarm = LoopIdle /\ evidence = LoopIdle
  BY <1>0, <1>2 DEF Running
<1>4. IsStore(mem') /\ AlarmGood(mem', alarmed) /\ Plain(mem')
  BY <1>0, <1>2, RecoveredFields DEF Alarms
<1>5. /\ IsDisk(disk')
      /\ disk'.base \in {disk.base, mem'} /\ disk'.ext \in {disk.ext, mem'}
  BY <1>0, <1>2, <1>4, RecoveredFields, CompactedSize
<1>6. Alarms'
  BY <1>0, <1>2, <1>4, <1>5 DEF Alarms
<1>7. Types'
  BY <1>0, <1>1, <1>2, <1>4, <1>5, IdleIngest DEF Types
<1>8. Running' /\ Position' /\ AlarmHand'
  BY <1>2, <1>3, IdleLoop, IdleIngest DEF Running, Position, AlarmHand, Busy
<1> QED
  BY <1>6, <1>7, <1>8 DEF IndInv

\* The daemon stops.
LEMMA StopStep ==
    ASSUME IndInv, Close \/ Crash
    PROVE  IndInv'
<1>0. Types /\ Position /\ Alarms
  BY DEF IndInv
<1>1. /\ up' = FALSE /\ mem' = EmptyStore /\ file' = "nil" /\ UNCHANGED <<limit, disk>>
      /\ alarm' = LoopIdle /\ evidence' = LoopIdle
      /\ UNCHANGED <<staged, uploaded, alarmed>>
      /\ \/ ingest' = ingest /\ ingest.pc = "off" /\ faults' = faults
         \/ /\ ingest' = [IngestIdle EXCEPT !.pc = "off"] /\ faults < MaxFaults
            /\ faults' = faults + 1
  BY DEF Close, Crash, Stop
<1>2. faults' \in 0..MaxFaults
  BY <1>0, <1>1, DeliveryAssumption DEF Types
<1>3. ingest' \in IngestType /\ ingest'.pc = "off"
  BY <1>0, <1>1, IdleIngest DEF Types
<1>4. Types'
  BY <1>0, <1>1, <1>2, <1>3, EmptyTypes, IdleLoop DEF Types
<1>5. Running' /\ AlarmHand'
  BY <1>1, <1>3, IdleLoop DEF Running, AlarmHand
<1>6. Position'
  <2>1. CASE ingest' = ingest
    BY <1>0, <1>3, <2>1 DEF Position, Busy
  <2>2. CASE ingest' = [IngestIdle EXCEPT !.pc = "off"]
    BY <1>3, <2>2, IdleIngest DEF Position, Busy
  <2> QED
    BY <1>1, <2>1, <2>2
<1>7. Alarms'
  <2>1. AlarmGood(EmptyStore, alarmed) /\ Plain(EmptyStore)
    BY EmptyTypes DEF AlarmGood, Plain
  <2> QED
    BY <1>0, <1>1, <2>1 DEF Alarms
<1> QED
  BY <1>4, <1>5, <1>6, <1>7 DEF IndInv

-----------------------------------------------------------------------------
(* The theorems on alarms *)

\* Every step keeps the invariant.
LEMMA NextStep == IndInv /\ [Next]_vars => IndInv'
<1> SUFFICES ASSUME IndInv, [Next]_vars PROVE IndInv'
  OBVIOUS
<1>1. CASE IngestStep
  BY <1>1, BeginStep, StoreStep, FinishStep DEF IngestStep
<1>2. CASE AlarmStep
  BY <1>2, AlarmSendStep, AlarmMarkStep DEF AlarmStep
<1>3. CASE EvidenceStep
  BY <1>3, EvidenceSendStep, EvidenceMarkStep DEF EvidenceStep
<1>4. CASE Start
  BY <1>4, StartStep
<1>5. CASE Close \/ Crash
  BY <1>5, StopStep
<1>6. CASE UNCHANGED vars
  <2>1. UNCHANGED <<up, limit, mem, file, disk, ingest, alarm, evidence, staged, uploaded,
                    alarmed, faults>>
    BY <1>6 DEF vars, storeVars, deliveryVars
  <2> QED
    BY <2>1 DEF IndInv, Types, Running, Position, Alarms, AlarmHand
<1> QED
  BY <1>1, <1>2, <1>3, <1>4, <1>5, <1>6 DEF Next

\* The invariant of the delivery service: types, where each goroutine is, and
\* that what the alarm loop carries is never stale.
THEOREM AlarmHandIsFresh == Spec => []IndInv
  BY InitStep, NextStep, PTL DEF Spec

\* The types, and with them the bound on an alarm's attempts: a record is tried
\* at most Config.MaxAttempts times however snapshots, replays and restarts
\* interleave.
THEOREM AttemptsStayBounded == Spec => []TypeOK
<1>1. IndInv => TypeOK
  <2> SUFFICES ASSUME IndInv PROVE TypeOK
    OBVIOUS
  <2>1. /\ ingest.pc \in {"off", "idle", "stage", "store", "requeue", "fail", "ack"}
        /\ ingest.key \in Key \cup {0}
    BY DEF IndInv, Types, IngestType, Busy
  <2>2. alarm.pc \in {"idle", "next", "mark"}
    BY DEF IndInv, Types, LoopType
  <2>3. evidence.pc \in {"idle", "next", "mark", "remove"}
    BY DEF IndInv, Types, LoopType
  <2>4. \A k \in DOMAIN mem.recs : mem.recs[k].alarmAttempts <= MaxAttempts
    BY DEF IndInv, Alarms, AlarmGood
  <2> QED
    BY <2>1, <2>2, <2>3, <2>4 DEF IndInv, Types, TypeOK
<1> QED
  BY <1>1, AlarmHandIsFresh, PTL

\* An alarm marked sent was accepted by the platform, and one marked dead was
\* tried MaxAttempts times, whatever becomes of evidence, restarts and replays.
THEOREM AlarmsAreSettledRightly == Spec => []AlarmSettledRightly
<1>1. IndInv => AlarmSettledRightly
  BY DEF IndInv, Alarms, AlarmGood, AlarmSettledRightly
<1> QED
  BY <1>1, AlarmHandIsFresh, PTL

\* A step of a running daemon leaves a settled alarm alone: the entry of
\* AlarmMark is for a record that is still pending, because no other goroutine
\* settles alarms, and every other entry keeps the alarm fields.
THEOREM SettledAlarmsStay == Spec => AlarmFinal
<1> DEFINE Stays == up /\ up' => \A k \in DOMAIN mem.recs \cap DOMAIN mem'.recs :
            mem.recs[k].alarm # "pending" => mem'.recs[k].alarm = mem.recs[k].alarm
<1>1. ASSUME StoreTypes, Alarms, NEW e, Rightly(e, alarmed), e.op # "alarm_state", NEW res,
             Op(e, res), alarmed' = alarmed
      PROVE  Stays
  <2>1. RecordsKept(e)
    BY <1>1, OpKept
  <2> QED
    BY <1>1, <2>1 DEF RecordsKept, Rightly
<1>2. ASSUME IndInv, Next PROVE Stays
  <2>0. StoreTypes /\ Alarms /\ Plain(mem)
    BY <1>2 DEF IndInv, Types, StoreTypes, Alarms
  <2>1. CASE mem' = mem
    BY <2>1
  <2>2. ASSUME NEW k, NEW state \in EvidenceState, NEW n, NEW res, alarmed' = alarmed,
               k \in DOMAIN mem.recs => n \in Nat,
               k \in DOMAIN mem.recs /\ state = "staging" => Stream[k].phase # "UPDATE",
               Mark(k, EvidenceEntry(k, state, n), res)
        PROVE  Stays
    <3>1. PICK e : e = EvidenceEntry(k, state, n)
      OBVIOUS
    <3>2. e.op = "evidence_state" /\ e.key = k /\ e.state = state /\ e.attempts = n
      BY <3>1 DEF EvidenceEntry
    <3>3. Op(e, res) /\ (k \notin DOMAIN mem.recs => mem' = mem)
      BY <2>0, <2>2, <3>1, <3>2, MarkOp DEF storeVars
    <3>4. CASE k \in DOMAIN mem.recs
      <4>1. k \in Key
        BY <2>0, <3>4 DEF StoreTypes, IsStore
      <4>2. Rightly(e, alarmed)
        BY <2>2, <3>2, <3>4, <4>1 DEF Rightly
      <4> QED
        BY <1>1, <2>0, <2>2, <3>2, <3>3, <4>2
    <3> QED
      BY <2>1, <3>3, <3>4
  <2>3. \A k \in DOMAIN mem.recs : /\ mem.recs[k].evidenceAttempts \in Nat
                                   /\ mem.recs[k].evidenceAttempts + 1 \in Nat
    <3> SUFFICES ASSUME NEW k \in DOMAIN mem.recs PROVE mem.recs[k].evidenceAttempts \in Nat
      OBVIOUS
    <3>1. mem.recs[k] \in Record
      BY <2>0 DEF StoreTypes, IsStore
    <3> QED
      BY <3>1 DEF Record
  <2>4. ingest.pc \in Busy => /\ ingest.key \in Key
                              /\ ingest.stageErr => Stream[ingest.key].phase = "START"
                              /\ ingest.pc = "fail" => ingest.stageErr
    BY <1>2 DEF IndInv, Position
  <2>5. ASSUME NEW res, Enqueue(ingest.key, res), ingest.pc = "store", alarmed' = alarmed
        PROVE  Stays
    <3>1. PICK e : e = EventEntry(ingest.key, NewRecord(ingest.key))
      OBVIOUS
    <3>2. ingest.key \in Key /\ StoreTypes /\ Plain(mem)
      BY <2>0, <2>4, <2>5 DEF Busy
    <3>3. LET entry == EventEntry(ingest.key, NewRecord(ingest.key))
          IN  Op(entry, res) /\ Rightly(entry, alarmed) /\ entry.op = "event"
      BY <2>5, <3>2, EnqueueOp
    <3>4. Op(e, res) /\ Rightly(e, alarmed) /\ e.op = "event"
      BY <3>1, <3>3
    <3> QED
      BY <1>1, <2>0, <2>5, <3>4
  <2>6. ASSUME NEW res, StoreEvent(res) \/ StoreFails(res) PROVE Stays
    BY <2>5, <2>6 DEF StoreEvent, StoreFails
  <2>7. CASE StoreDrops
    BY <2>5, <2>7 DEF StoreDrops
  <2>8. ASSUME NEW res, Requeue(res) PROVE Stays
    BY <2>2, <2>3, <2>8 DEF Requeue, MarkEvidenceState, EvidenceState
  <2>9. ASSUME NEW res, FailStaging(res) PROVE Stays
    <3>1. PICK state : state = IF ingest.attempts + 1 >= MaxAttempts THEN "dead" ELSE "staging"
      OBVIOUS
    <3>2. /\ Mark(ingest.key, EvidenceEntry(ingest.key, state,
                                            mem.recs[ingest.key].evidenceAttempts + 1), res)
          /\ alarmed' = alarmed /\ ingest.pc = "fail"
      BY <2>9, <3>1 DEF FailStaging, MarkEvidenceStagingFailure
    <3>3. state \in EvidenceState
      BY <3>1 DEF EvidenceState
    <3>4. Stream[ingest.key].phase # "UPDATE"
      BY <2>4, <3>2 DEF Busy
    <3> QED
      BY <2>2, <2>3, <3>2, <3>3, <3>4
  <2>10. ASSUME NEW res, AckEvent(res) PROVE Stays
    <3>1. PICK e : e = AckEntry(ingest.key)
      OBVIOUS
    <3>2. e.op = "ack" /\ e.cursor = ingest.key /\ ingest.key \in Key
      BY <2>4, <2>10, <3>1 DEF AckEntry, AckEvent, Busy
    <3>3. Op(e, res) /\ Rightly(e, alarmed) /\ alarmed' = alarmed
      BY <2>0, <2>10, <3>1, <3>2, AckOp DEF AckEvent, Rightly
    <3> QED
      BY <1>1, <2>0, <3>2, <3>3
  <2>11. ASSUME NEW res, AlarmMark(res) PROVE Stays
    <3>1. PICK k : k = alarm.key
      OBVIOUS
    <3>2. mem.recs[k].alarm = "pending" /\ alarmed' = alarmed
      BY <1>2, <2>11, <3>1, AlarmMarkEntry DEF AlarmMark
    <3>3. PICK e : Mark(k, e, res) /\ e.op = "alarm_state" /\ e.key = k /\ Rightly(e, alarmed)
      BY <1>2, <2>11, <3>1, AlarmMarkEntry
    <3>4. Op(e, res)
      BY <2>0, <3>3, MarkOp
    <3>5. RecordsKept(e)
      BY <2>0, <3>2, <3>3, <3>4, OpKept
    <3> QED
      BY <3>2, <3>3, <3>5 DEF RecordsKept
  <2>12. ASSUME NEW res, EvidenceMark(res) PROVE Stays
    <3>1. PICK state, n :
              /\ state \in EvidenceState
              /\ Mark(evidence.key, EvidenceEntry(evidence.key, state, n), res)
              /\ state # "staging" /\ alarmed' = alarmed
              /\ \/ n = mem.recs[evidence.key].evidenceAttempts
                 \/ n = mem.recs[evidence.key].evidenceAttempts + 1
      BY <2>12 DEF EvidenceMark, MarkEvidenceSent, MarkEvidenceAttempt, EvidenceState
    <3> QED
      BY <2>2, <2>3, <3>1
  <2>13. CASE Start \/ Close \/ Crash
    BY <2>13 DEF Start, Open, Close, Crash, Stop
  <2>14. CASE \/ Begin \/ StageOk \/ StageFails \/ AlarmSnapshot \/ EvidenceSnapshot
              \/ EvidenceRemove \/ \E ok \in BOOLEAN : AlarmSend(ok) \/ EvidenceSend(ok)
    BY <2>1, <2>14 DEF Begin, StageOk, StageFails, AlarmSnapshot, EvidenceSnapshot,
                       EvidenceRemove, AlarmSend, EvidenceSend, storeVars
  <2> HIDE DEF Stays
  <2> QED
    BY <1>2, <2>6, <2>7, <2>8, <2>9, <2>10, <2>11, <2>12, <2>13, <2>14
       DEF Next, IngestStep, AlarmStep, EvidenceStep
<1>3. IndInv /\ [Next]_vars => [Stays]_vars
  BY <1>2
<1> QED
  BY <1>3, AlarmHandIsFresh, PTL DEF Spec, AlarmFinal

-----------------------------------------------------------------------------
(* The evidence of acknowledged events, where a write is whole or nothing *)

\* The evidence of the record k is the same in r and in s.
Same(r, s, k) ==
    /\ k \in DOMAIN s.recs
    /\ r.recs[k].evidence = s.recs[k].evidence
    /\ r.recs[k].evidenceAttempts = s.recs[k].evidenceAttempts

\* The evidence of the record k in r is what the entry e says.
FromEntry(r, k, e) ==
    \/ /\ e.op = "evidence_state" /\ k = e.key
       /\ r.recs[k].evidence = e.state /\ r.recs[k].evidenceAttempts = e.attempts
    \/ e.op = "event" /\ k = e.key /\ r.recs[k] = NewRecord(k)

\* An entry that loses no evidence.
Fits(e) ==
    /\ e.op = "event" => e.key = mem.ack + 1 /\ e.key \notin DOMAIN mem.recs
    /\ e.op = "ack" =>
           /\ e.cursor = mem.ack + 1
           /\ Wanted(e.cursor) => /\ e.cursor \in DOMAIN mem.recs
                                  /\ Kept(mem, e.cursor, uploaded \cup staged)
    /\ e.op \in {"alarm_state", "evidence_state"} => e.key \in DOMAIN mem.recs
    /\ e.op = "evidence_state" =>
           /\ mem.recs[e.key].evidenceAttempts <= e.attempts
           /\ Wanted(e.key) => /\ e.state \in {"pending", "staging", "sent", "dead"}
                               /\ e.state = "sent" => e.key \in uploaded
                               /\ e.state = "dead" => e.attempts >= MaxAttempts

\* A call writes the entry e and returns res.
Turn(e, res) ==
    /\ up' = up /\ disk'.tail = "clean"
    /\ file' = "open" => DOMAIN mem'.recs \subseteq DOMAIN disk'.base.recs
    /\ e.op # "event" => DOMAIN mem.recs \subseteq DOMAIN mem'.recs
    /\ \E t, b :
          /\ Evicted(t, mem) /\ (b = disk.base \/ Evicted(b, mem))
          /\ mem' = IF res = "ok" THEN Apply(t, e) ELSE t
          /\ \/ disk'.base = b /\ res # "ok"
             \/ Applies(b, e) /\ disk'.base = Apply(b, e)

\* Keys and attempts are numbers.
LEMMA RecordNumbers ==
    ASSUME NEW s, IsStore(s)
    PROVE  /\ s.ack \in Nat
           /\ \A k \in DOMAIN s.recs : /\ k \in Key /\ k \in Nat /\ 1 <= k
                                       /\ s.recs[k].evidenceAttempts \in Nat
<1>1. s.ack \in Nat
  BY Keys DEF IsStore
<1>2. ASSUME NEW k \in DOMAIN s.recs
      PROVE  k \in Key /\ k \in Nat /\ 1 <= k /\ s.recs[k].evidenceAttempts \in Nat
  <2>1. k \in Key /\ s.recs[k] \in Record
    BY <1>2 DEF IsStore
  <2>2. s.recs[k].evidenceAttempts \in Nat
    BY <2>1 DEF Record
  <2> QED
    BY <2>1, <2>2, Keys
<1> QED
  BY <1>1, <1>2

\* The evidence fields after an entry.
LEMMA ApplyView ==
    ASSUME NEW s, IsStore(s), NEW e, NEW told, Rightly(e, told), NEW r, r = Apply(s, e)
    PROVE  /\ \A k \in DOMAIN r.recs : Same(r, s, k) \/ FromEntry(r, k, e)
           /\ r.ack = IF e.op = "ack" /\ e.cursor > s.ack THEN e.cursor ELSE s.ack
           /\ e.op = "evidence_state" /\ e.key \in DOMAIN s.recs =>
                  r.recs[e.key].evidenceAttempts = e.attempts
           /\ DOMAIN r.recs = DOMAIN s.recs \cup (IF e.op = "event" THEN {e.key} ELSE {})
           /\ \A k \in DOMAIN s.recs : k # e.key => Same(r, s, k)
<1>0. DOMAIN r.recs = DOMAIN s.recs \cup (IF e.op = "event" THEN {e.key} ELSE {})
  BY ApplyKeys, RightlyIsEntry
<1>2. CASE e.op = "event"
  BY <1>0, <1>2, ApplyEvent DEF Rightly, Same, FromEntry
<1>3. CASE e.op = "ack"
  BY <1>0, <1>3, ApplyAck DEF Same
<1>4. CASE e.op = "alarm_state"
  <2>1. e.state \in AlarmState /\ e.attempts \in Nat
    BY <1>4, Attempts DEF Rightly, AlarmState
  <2> QED
    BY <1>0, <1>4, <2>1, ApplyAlarm DEF Same
<1>5. CASE e.op = "evidence_state"
  <2>1. e.state \in EvidenceState /\ e.attempts \in Nat
    BY <1>5 DEF Rightly
  <2> QED
    BY <1>0, <1>5, <2>1, ApplyEvidence DEF Same, FromEntry
<1> QED
  BY <1>2, <1>3, <1>4, <1>5 DEF Rightly

\* Where the records of the store and of the log come from.
LEMMA TurnView ==
    ASSUME StoreTypes, NEW e, Rightly(e, alarmed), Fits(e), NEW res, Turn(e, res)
    PROVE  /\ \A k \in DOMAIN mem'.recs : Same(mem', mem, k) \/ FromEntry(mem', k, e)
           /\ \A k \in DOMAIN disk'.base.recs :
                 \/ Same(disk'.base, disk.base, k) /\ disk.base.ack <= disk'.base.ack
                 \/ Same(disk'.base, mem, k)
                 \/ FromEntry(disk'.base, k, e)
           /\ mem.ack <= mem'.ack
           /\ e.op # "ack" => mem'.ack = mem.ack /\ disk'.base.ack \in {mem.ack, disk.base.ack}
           /\ e.op = "ack" => disk'.base.ack \in {mem.ack, disk.base.ack, e.cursor}
           /\ res = "ok" /\ e.op = "evidence_state" =>
                 /\ e.key \in DOMAIN mem'.recs => mem'.recs[e.key].evidenceAttempts = e.attempts
                 /\ e.key \in DOMAIN disk'.base.recs =>
                        disk'.base.recs[e.key].evidenceAttempts = e.attempts
<1>1. PICK t, b :
          /\ Evicted(t, mem) /\ (b = disk.base \/ Evicted(b, mem))
          /\ mem' = IF res = "ok" THEN Apply(t, e) ELSE t
          /\ \/ disk'.base = b /\ res # "ok"
             \/ Applies(b, e) /\ disk'.base = Apply(b, e)
  BY DEF Turn
<1>2. /\ IsStore(mem) /\ IsStore(t) /\ IsStore(b) /\ IsStore(disk.base)
      /\ t.ack = mem.ack /\ b.ack \in {mem.ack, disk.base.ack}
  BY <1>1, EvictedStore DEF StoreTypes, IsDisk, Evicted
<1>3. PICK tt, bb : tt = Apply(t, e) /\ bb = Apply(b, e)
  OBVIOUS
<1>4. /\ \A k \in DOMAIN tt.recs : Same(tt, t, k) \/ FromEntry(tt, k, e)
      /\ tt.ack = IF e.op = "ack" /\ e.cursor > t.ack THEN e.cursor ELSE t.ack
      /\ e.op = "evidence_state" /\ e.key \in DOMAIN t.recs =>
             tt.recs[e.key].evidenceAttempts = e.attempts
      /\ DOMAIN tt.recs = DOMAIN t.recs \cup (IF e.op = "event" THEN {e.key} ELSE {})
  BY <1>2, <1>3, ApplyView
<1>5. /\ \A k \in DOMAIN bb.recs : Same(bb, b, k) \/ FromEntry(bb, k, e)
      /\ bb.ack = IF e.op = "ack" /\ e.cursor > b.ack THEN e.cursor ELSE b.ack
      /\ e.op = "evidence_state" /\ e.key \in DOMAIN b.recs =>
             bb.recs[e.key].evidenceAttempts = e.attempts
      /\ DOMAIN bb.recs = DOMAIN b.recs \cup (IF e.op = "event" THEN {e.key} ELSE {})
  BY <1>2, <1>3, ApplyView
<1>6. mem' \in {t, tt} /\ (res = "ok" => mem' = tt)
      /\ disk'.base \in {b, bb} /\ (res = "ok" => disk'.base = bb)
  BY <1>1, <1>3
<1>7. \A k \in DOMAIN t.recs : Same(t, mem, k)
  BY <1>1 DEF Evicted, Same
<1>8. (b = disk.base /\ \A k \in DOMAIN b.recs : Same(b, disk.base, k))
      \/ \A k \in DOMAIN b.recs : Same(b, mem, k)
  BY <1>1 DEF Evicted, Same
<1>9. \A k \in DOMAIN mem'.recs : Same(mem', mem, k) \/ FromEntry(mem', k, e)
  BY <1>4, <1>6, <1>7 DEF Same
<1>10. mem.ack \in Nat /\ disk.base.ack \in Nat /\ (e.op = "ack" => e.cursor \in Nat)
  BY <1>2, RecordNumbers, Keys DEF Rightly
<1>11. mem.ack <= mem'.ack /\ b.ack <= disk'.base.ack
  BY <1>2, <1>4, <1>5, <1>6, <1>10
<1>12. \A k \in DOMAIN disk'.base.recs :
          \/ Same(disk'.base, disk.base, k) /\ disk.base.ack <= disk'.base.ack
          \/ Same(disk'.base, mem, k)
          \/ FromEntry(disk'.base, k, e)
  BY <1>5, <1>6, <1>8, <1>11 DEF Same
<1>13. /\ e.op # "ack" => mem'.ack = mem.ack /\ disk'.base.ack \in {mem.ack, disk.base.ack}
       /\ e.op = "ack" => disk'.base.ack \in {mem.ack, disk.base.ack, e.cursor}
  BY <1>2, <1>4, <1>5, <1>6
<1>14. res = "ok" /\ e.op = "evidence_state" =>
          /\ e.key \in DOMAIN mem'.recs => mem'.recs[e.key].evidenceAttempts = e.attempts
          /\ e.key \in DOMAIN disk'.base.recs =>
                 disk'.base.recs[e.key].evidenceAttempts = e.attempts
  BY <1>4, <1>5, <1>6
<1> QED
  BY <1>9, <1>11, <1>12, <1>13, <1>14

\* The log stays whole and ahead of the store.
LEMMA TurnWhole ==
    ASSUME StoreTypes, up, LogWhole, NEW e, Rightly(e, alarmed), Fits(e), NEW res, Turn(e, res)
    PROVE  LogWhole'
<1>1. PICK t, b :
          /\ Evicted(t, mem) /\ (b = disk.base \/ Evicted(b, mem))
          /\ mem' = IF res = "ok" THEN Apply(t, e) ELSE t
          /\ \/ disk'.base = b /\ res # "ok"
             \/ Applies(b, e) /\ disk'.base = Apply(b, e)
  BY DEF Turn
<1>2. /\ IsStore(mem) /\ IsStore(t) /\ IsStore(b) /\ IsStore(disk.base)
      /\ t.ack = mem.ack /\ b.ack \in {mem.ack, disk.base.ack}
      /\ DOMAIN t.recs \subseteq DOMAIN mem.recs
  BY <1>1, EvictedStore DEF StoreTypes, IsDisk, Evicted
<1>3. PICK tt, bb : tt = Apply(t, e) /\ bb = Apply(b, e)
  OBVIOUS
<1>4. /\ tt.ack = IF e.op = "ack" /\ e.cursor > t.ack THEN e.cursor ELSE t.ack
      /\ e.op = "evidence_state" /\ e.key \in DOMAIN t.recs =>
             tt.recs[e.key].evidenceAttempts = e.attempts
      /\ DOMAIN tt.recs = DOMAIN t.recs \cup (IF e.op = "event" THEN {e.key} ELSE {})
      /\ \A k \in DOMAIN t.recs : k # e.key => Same(tt, t, k)
      /\ \A k \in DOMAIN tt.recs : Same(tt, t, k) \/ FromEntry(tt, k, e)
  BY <1>2, <1>3, ApplyView
<1>5. /\ bb.ack = IF e.op = "ack" /\ e.cursor > b.ack THEN e.cursor ELSE b.ack
      /\ e.op = "evidence_state" /\ e.key \in DOMAIN b.recs =>
             bb.recs[e.key].evidenceAttempts = e.attempts
      /\ DOMAIN bb.recs = DOMAIN b.recs \cup (IF e.op = "event" THEN {e.key} ELSE {})
      /\ \A k \in DOMAIN b.recs : k # e.key => Same(bb, b, k)
      /\ \A k \in DOMAIN bb.recs : Same(bb, b, k) \/ FromEntry(bb, k, e)
  BY <1>2, <1>3, ApplyView
<1>6. mem' \in {t, tt} /\ (res = "ok" => mem' = tt) /\ (res # "ok" => mem' = t)
      /\ disk'.base \in {b, bb} /\ (res = "ok" => disk'.base = bb)
  BY <1>1, <1>3
<1>7. /\ mem.ack \in Nat /\ disk.base.ack \in Nat
      /\ \A k \in DOMAIN mem.recs : k \in Nat /\ 1 <= k /\ mem.recs[k].evidenceAttempts \in Nat
      /\ \A k \in DOMAIN t.recs : t.recs[k].evidenceAttempts \in Nat
      /\ \A k \in DOMAIN b.recs : k \in Nat /\ 1 <= k /\ b.recs[k].evidenceAttempts \in Nat
      /\ e.op = "ack" => e.cursor = mem.ack + 1
      /\ e.op = "event" => e.key = mem.ack + 1
      /\ e.op = "evidence_state" => e.attempts \in Nat
  BY <1>2, RecordNumbers DEF Fits, Rightly
<1>8. /\ disk.tail = "clean"
      /\ DOMAIN disk.base.recs \subseteq 1..disk.base.ack + 1
      /\ DOMAIN mem.recs \subseteq 1..mem.ack + 1
      /\ mem.ack <= disk.base.ack /\ disk.base.ack <= mem.ack + 1
      /\ \A k \in DOMAIN mem.recs \cap DOMAIN disk.base.recs :
            mem.recs[k].evidenceAttempts <= disk.base.recs[k].evidenceAttempts
  BY DEF LogWhole
<1>9. mem'.ack <= disk'.base.ack /\ disk'.base.ack <= mem'.ack + 1
      /\ mem.ack <= mem'.ack /\ mem'.ack <= mem.ack + 1
      /\ mem'.ack \in Nat /\ disk'.base.ack \in Nat /\ b.ack <= disk'.base.ack
  BY <1>2, <1>4, <1>5, <1>6, <1>7, <1>8
<1>10. DOMAIN mem'.recs \subseteq 1..mem'.ack + 1
  BY <1>2, <1>4, <1>6, <1>7, <1>8, <1>9
<1>11. DOMAIN disk'.base.recs \subseteq 1..disk'.base.ack + 1
  <2>1. DOMAIN b.recs \subseteq 1..b.ack + 1
    BY <1>1, <1>8 DEF Evicted
  <2>2. b.ack \in Nat /\ mem.ack <= b.ack
    BY <1>2, <1>7, <1>8
  <2> QED
    BY <1>5, <1>6, <1>7, <1>9, <2>1, <2>2
<1>12. \A k \in DOMAIN t.recs \cap DOMAIN b.recs :
          t.recs[k].evidenceAttempts <= b.recs[k].evidenceAttempts
  BY <1>1, <1>7, <1>8 DEF Evicted
<1>13. ASSUME NEW k \in DOMAIN mem'.recs \cap DOMAIN disk'.base.recs
       PROVE  mem'.recs[k].evidenceAttempts <= disk'.base.recs[k].evidenceAttempts
  <2>1. CASE e.op = "event" /\ k = e.key
    <3>1. k \notin DOMAIN t.recs
      BY <1>2, <2>1 DEF Fits
    <3>2. mem' = tt /\ disk'.base = bb
      BY <1>6, <1>13, <3>1
    <3>3. mem'.recs[k] = NewRecord(k)
      BY <1>3, <1>2, <2>1, <3>2, ApplyEvent DEF Rightly
    <3>4. disk'.base.recs[k] = NewRecord(k)
      BY <1>3, <1>2, <2>1, <3>2, ApplyEvent DEF Rightly
    <3> QED
      BY <3>3, <3>4, NewRecordType
  <2>2. CASE e.op = "evidence_state" /\ k = e.key
    <3>1. k \in DOMAIN t.recs /\ k \in DOMAIN b.recs /\ t.recs[k].evidenceAttempts <= e.attempts
      BY <1>1, <1>4, <1>5, <1>6, <1>13, <2>2 DEF Fits, Evicted
    <3>2. CASE res = "ok"
      BY <1>4, <1>5, <1>6, <1>7, <2>2, <3>1, <3>2
    <3>3. CASE res # "ok"
      BY <1>5, <1>6, <1>7, <1>12, <2>2, <3>1, <3>3
    <3> QED
      BY <3>2, <3>3
  <2>3. CASE ~(e.op = "event" /\ k = e.key) /\ ~(e.op = "evidence_state" /\ k = e.key)
    <3>1. k \in DOMAIN t.recs /\ mem'.recs[k].evidenceAttempts = t.recs[k].evidenceAttempts
      BY <1>4, <1>6, <1>13, <2>3 DEF Same, FromEntry
    <3>2. k \in DOMAIN b.recs /\ disk'.base.recs[k].evidenceAttempts = b.recs[k].evidenceAttempts
      BY <1>5, <1>6, <1>13, <2>3 DEF Same, FromEntry
    <3> QED
      BY <1>12, <3>1, <3>2
  <2> QED
    BY <2>1, <2>2, <2>3
<1> QED
  BY <1>9, <1>10, <1>11, <1>13 DEF LogWhole, Turn

\* The new store and log are ones.
LEMMA TurnTypes ==
    ASSUME StoreTypes, NEW e, Rightly(e, alarmed), NEW res, Turn(e, res)
    PROVE  IsStore(mem') /\ IsStore(disk'.base)
<1>1. PICK t, b :
          /\ Evicted(t, mem) /\ (b = disk.base \/ Evicted(b, mem))
          /\ mem' = IF res = "ok" THEN Apply(t, e) ELSE t
          /\ \/ disk'.base = b /\ res # "ok"
             \/ Applies(b, e) /\ disk'.base = Apply(b, e)
  BY DEF Turn
<1>2. IsStore(t) /\ IsStore(b)
  BY <1>1, EvictedStore DEF StoreTypes, IsDisk
<1> QED
  BY <1>1, <1>2, ApplyStore, RightlyIsEntry

\* No call loses the evidence of an acknowledged event.
LEMMA TurnSafe ==
    ASSUME StoreTypes, up, LogWhole, EvidenceSafe, NEW e, Rightly(e, alarmed), Fits(e),
           NEW res, Turn(e, res), uploaded' = uploaded, staged' = staged
    PROVE  EvidenceSafe'
<1>0. PICK here, m, d, mm, dd : /\ here = uploaded \cup staged /\ m = mem /\ d = disk.base
                                /\ mm = mem' /\ dd = disk'.base
  OBVIOUS
<1>1. /\ \A k \in DOMAIN mm.recs : Same(mm, m, k) \/ FromEntry(mm, k, e)
      /\ \A k \in DOMAIN dd.recs : \/ Same(dd, d, k) /\ d.ack <= dd.ack
                                   \/ Same(dd, m, k) \/ FromEntry(dd, k, e)
      /\ m.ack <= mm.ack
      /\ e.op # "ack" => mm.ack = m.ack /\ dd.ack \in {m.ack, d.ack}
      /\ e.op = "ack" => dd.ack \in {m.ack, d.ack, e.cursor}
  BY <1>0, TurnView
<1>2. IsStore(m) /\ IsStore(d)
  BY <1>0 DEF StoreTypes, IsDisk
<1>3. /\ m.ack \in Nat /\ d.ack \in Nat
      /\ \A k \in DOMAIN m.recs : k \in Nat /\ m.recs[k].evidenceAttempts \in Nat
      /\ \A k \in DOMAIN d.recs : k \in Nat /\ d.recs[k].evidenceAttempts \in Nat
  BY <1>2, RecordNumbers
<1>4. /\ m.ack <= d.ack /\ d.ack <= m.ack + 1
      /\ \A k \in DOMAIN m.recs \cap DOMAIN d.recs :
            m.recs[k].evidenceAttempts <= d.recs[k].evidenceAttempts
  BY <1>0 DEF LogWhole
<1>5. /\ \A k \in DOMAIN d.recs : Wanted(k) /\ k <= d.ack => Kept(d, k, here)
      /\ \A k \in 1..d.ack : Wanted(k) =>
            /\ k \in DOMAIN m.recs => Kept(m, k, here)
            /\ k \in DOMAIN m.recs \/ k <= m.ack
      /\ EvidenceGood(m) /\ EvidenceGood(d)
  BY <1>0 DEF EvidenceSafe
<1>6. /\ e.op = "event" => e.key = m.ack + 1 /\ e.key \notin DOMAIN m.recs
      /\ e.op = "ack" => /\ e.cursor = m.ack + 1
                         /\ Wanted(e.cursor) => e.cursor \in DOMAIN m.recs /\ Kept(m, e.cursor, here)
      /\ e.op = "evidence_state" =>
            /\ e.key \in DOMAIN m.recs
            /\ m.recs[e.key].evidenceAttempts <= e.attempts /\ e.attempts \in Nat
            /\ Wanted(e.key) => /\ e.state \in {"pending", "staging", "sent", "dead"}
                                /\ e.state = "sent" => e.key \in uploaded
                                /\ e.state = "dead" => e.attempts >= MaxAttempts
  BY <1>0 DEF Fits, Rightly
<1>7. EvidenceGood(mm) /\ EvidenceGood(dd)
  <2>1. ASSUME NEW s \in {mm, dd}, NEW k \in DOMAIN s.recs, Wanted(k)
        PROVE  /\ s.recs[k].evidence \in {"pending", "staging", "sent", "dead"}
               /\ s.recs[k].evidence = "sent" => k \in uploaded
               /\ s.recs[k].evidence = "dead" => s.recs[k].evidenceAttempts >= MaxAttempts
    <3>1. Same(s, m, k) \/ Same(s, d, k) \/ FromEntry(s, k, e)
      BY <1>1, <2>1
    <3>2. CASE Same(s, m, k) \/ Same(s, d, k)
      BY <1>5, <2>1, <3>2 DEF Same, EvidenceGood
    <3>3. CASE FromEntry(s, k, e) /\ e.op = "evidence_state"
      BY <1>6, <2>1, <3>3 DEF FromEntry
    <3>4. CASE FromEntry(s, k, e) /\ e.op = "event"
      BY <2>1, <3>4 DEF FromEntry, Wanted
    <3> QED
      BY <3>1, <3>2, <3>3, <3>4 DEF FromEntry
  <2> QED
    BY <2>1 DEF EvidenceGood
<1>8. ASSUME NEW k \in Nat, 1 <= k, k <= dd.ack, Wanted(k)
      PROVE  /\ k <= d.ack \/ (e.op = "ack" /\ k = e.cursor)
             /\ k \in DOMAIN m.recs => Kept(m, k, here)
             /\ k \in DOMAIN m.recs \/ k <= m.ack
             /\ e.op = "event" => k # e.key
  <2>1. k <= d.ack \/ (e.op = "ack" /\ k = e.cursor)
    BY <1>1, <1>3, <1>4, <1>6, <1>8
  <2>2. CASE k <= d.ack
    <3>1. k \in 1..d.ack
      BY <1>3, <1>8, <2>2
    <3>2. (k \in DOMAIN m.recs => Kept(m, k, here)) /\ (k \in DOMAIN m.recs \/ k <= m.ack)
      BY <1>5, <1>8, <3>1
    <3> QED
      BY <1>3, <1>6, <2>2, <3>2
  <2>3. CASE e.op = "ack" /\ k = e.cursor
    BY <1>6, <1>8, <2>3
  <2> QED
    BY <2>1, <2>2, <2>3
<1>9. ASSUME NEW k \in DOMAIN dd.recs, Wanted(k), k <= dd.ack
      PROVE  Kept(dd, k, here)
  <2>0. k \in Nat /\ 1 <= k
    <3>1. IsStore(dd)
      BY <1>0, TurnTypes
    <3> QED
      BY <3>1, RecordNumbers
  <2>1. CASE Same(dd, d, k)
    <3>1. CASE k <= d.ack
      BY <1>5, <1>9, <2>1, <3>1 DEF Same, Kept
    <3>2. CASE e.op = "ack" /\ k = e.cursor
      <4>1. k \in DOMAIN m.recs /\ Kept(m, k, here)
        BY <1>6, <1>9, <3>2
      <4>2. m.recs[k].evidenceAttempts <= d.recs[k].evidenceAttempts /\ k \in DOMAIN d.recs
        BY <1>4, <2>1, <4>1 DEF Same
      <4> QED
        BY <1>3, <2>1, <4>1, <4>2, Attempts DEF Same, Kept
    <3> QED
      BY <1>8, <1>9, <2>0, <3>1, <3>2
  <2>2. CASE Same(dd, m, k)
    BY <1>8, <1>9, <2>0, <2>2 DEF Same, Kept
  <2>3. CASE FromEntry(dd, k, e)
    <3>1. e.op = "evidence_state" /\ k = e.key /\ dd.recs[k].evidenceAttempts = e.attempts
      BY <1>8, <1>9, <2>0, <2>3 DEF FromEntry
    <3>2. Kept(m, k, here)
      BY <1>6, <1>8, <1>9, <2>0, <3>1
    <3> QED
      BY <1>3, <1>6, <3>1, <3>2, Attempts DEF Kept
  <2> QED
    BY <1>1, <2>1, <2>2, <2>3
<1>10. ASSUME NEW k \in 1..dd.ack, Wanted(k)
       PROVE  /\ k \in DOMAIN mm.recs => Kept(mm, k, here)
              /\ k \in DOMAIN mm.recs \/ k <= mm.ack
  <2>0. k \in Nat /\ 1 <= k /\ k <= dd.ack
    <3>1. dd.ack \in Nat
      BY <1>1, <1>3, <1>6
    <3> QED
      BY <3>1
  <2>1. ASSUME k \in DOMAIN mm.recs PROVE Kept(mm, k, here)
    <3>1. CASE Same(mm, m, k)
      BY <1>8, <1>10, <2>0, <3>1 DEF Same, Kept
    <3>2. CASE FromEntry(mm, k, e)
      <4>1. e.op = "evidence_state" /\ k = e.key /\ mm.recs[k].evidenceAttempts = e.attempts
        BY <1>8, <1>10, <2>0, <3>2 DEF FromEntry
      <4>2. Kept(m, k, here)
        BY <1>6, <1>8, <1>10, <2>0, <4>1
      <4> QED
        BY <1>3, <1>6, <4>1, <4>2, Attempts DEF Kept
    <3> QED
      BY <1>1, <2>1, <3>1, <3>2
  <2>2. k \in DOMAIN mm.recs \/ k <= mm.ack
    <3>1. CASE e.op # "event"
      <4>1. DOMAIN m.recs \subseteq DOMAIN mm.recs
        BY <1>0, <3>1 DEF Turn
      <4>2. mm.ack \in Nat
        BY <1>0, TurnTypes, RecordNumbers
      <4> QED
        BY <1>1, <1>3, <1>8, <1>10, <2>0, <4>1, <4>2
    <3>2. CASE e.op = "event"
      <4>1. k # e.key /\ mm.ack = m.ack /\ k <= d.ack
        BY <1>1, <1>8, <1>10, <2>0, <3>2
      <4> QED
        BY <1>3, <1>4, <1>6, <2>0, <3>2, <4>1
    <3> QED
      BY <3>1, <3>2
  <2> QED
    BY <2>1, <2>2
<1> QED
  BY <1>0, <1>7, <1>9, <1>10 DEF EvidenceSafe, EvidenceGood

\* A key the evidence loop carries with n attempts is in the store with as many
\* or more, or it is behind the cursor.
Held(s, j, n) ==
    /\ j \in DOMAIN s.recs => n <= s.recs[j].evidenceAttempts
    /\ j \in DOMAIN s.recs \/ j <= s.ack

\* A carried key stays so: no event can bring it back, because the event to come
\* is beyond the cursor.
LEMMA HeldKept ==
    ASSUME StoreTypes, up, LogWhole, NEW e, Rightly(e, alarmed), Fits(e), NEW res, Turn(e, res),
           NEW j \in Nat, NEW n \in Nat, Held(mem, j, n)
    PROVE  /\ Held(mem', j, n)
           /\ (j \in DOMAIN disk.base.recs => n <= disk.base.recs[j].evidenceAttempts) =>
              (j \in DOMAIN disk'.base.recs => n <= disk'.base.recs[j].evidenceAttempts)
<1>0. PICK m, d, mm, dd : m = mem /\ d = disk.base /\ mm = mem' /\ dd = disk'.base
  OBVIOUS
<1>1. /\ \A k \in DOMAIN mm.recs : Same(mm, m, k) \/ FromEntry(mm, k, e)
      /\ \A k \in DOMAIN dd.recs : \/ Same(dd, d, k)
                                   \/ Same(dd, m, k) \/ FromEntry(dd, k, e)
      /\ m.ack <= mm.ack
  BY <1>0, TurnView
<1>2. IsStore(m) /\ IsStore(d) /\ IsStore(mm)
  BY <1>0, TurnTypes DEF StoreTypes, IsDisk
<1>3. /\ m.ack \in Nat /\ mm.ack \in Nat
      /\ \A k \in DOMAIN m.recs : k \in Nat /\ m.recs[k].evidenceAttempts \in Nat
  BY <1>2, RecordNumbers
<1>4. /\ e.op = "event" => e.key = m.ack + 1 /\ e.key \notin DOMAIN m.recs
      /\ e.op = "evidence_state" =>
            /\ e.key \in DOMAIN m.recs
            /\ m.recs[e.key].evidenceAttempts <= e.attempts /\ e.attempts \in Nat
  BY <1>0 DEF Fits, Rightly
<1>5. /\ j \in DOMAIN m.recs => n <= m.recs[j].evidenceAttempts
      /\ j \in DOMAIN m.recs \/ j <= m.ack
      /\ DOMAIN m.recs \subseteq 1..m.ack + 1
  BY <1>0 DEF Held, LogWhole
<1>6. e.op = "event" => j # e.key /\ j <= m.ack
  BY <1>3, <1>4, <1>5
<1>7. ASSUME NEW s, FromEntry(s, j, e) PROVE n <= s.recs[j].evidenceAttempts
  <2>1. e.op = "evidence_state" /\ j = e.key /\ s.recs[j].evidenceAttempts = e.attempts
    BY <1>6, <1>7 DEF FromEntry
  <2> QED
    BY <1>3, <1>4, <1>5, <2>1
<1>8. j \in DOMAIN mm.recs => n <= mm.recs[j].evidenceAttempts
  BY <1>1, <1>5, <1>7 DEF Same
<1>9. j \in DOMAIN mm.recs \/ j <= mm.ack
  <2>1. CASE e.op = "event"
    BY <1>1, <1>3, <1>6, <2>1
  <2>2. CASE e.op # "event"
    <3>1. DOMAIN m.recs \subseteq DOMAIN mm.recs
      BY <1>0, <2>2 DEF Turn
    <3> QED
      BY <1>1, <1>3, <1>5, <3>1
  <2> QED
    BY <2>1, <2>2
<1>10. ASSUME j \in DOMAIN d.recs => n <= d.recs[j].evidenceAttempts, j \in DOMAIN dd.recs
       PROVE  n <= dd.recs[j].evidenceAttempts
  BY <1>1, <1>5, <1>7, <1>10 DEF Same
<1> QED
  BY <1>0, <1>8, <1>9, <1>10 DEF Held

\* The records the evidence loop carries through any call.
LEMMA CarriedKept ==
    ASSUME IndInv, up, LogWhole, EvidenceHand, NEW e, Rightly(e, alarmed), Fits(e),
           NEW res, Turn(e, res)
    PROVE  \A r \in Carried(evidence) :
               /\ r[1] \in DOMAIN mem'.recs => mem'.recs[r[1]].evidenceAttempts >= r[2]
               /\ r[1] \in DOMAIN mem'.recs \/ r[1] <= mem'.ack
<1>0. /\ StoreTypes /\ MaxAttempts \in Nat
      /\ evidence \in LoopType({"idle", "next", "mark", "remove"})
  BY Attempts DEF IndInv, Types, StoreTypes
<1>1. /\ evidence.key \in Nat /\ evidence.attempts \in Nat
      /\ evidence.list \subseteq Key \X Nat
  <2>1. evidence.key \in Key \cup {0} /\ evidence.attempts \in Nat
        /\ evidence.list \in SUBSET (Key \X Nat)
    BY <1>0 DEF LoopType
  <2> QED
    BY <2>1, Keys
<1>2. ASSUME NEW r \in Carried(evidence)
      PROVE  /\ r[1] \in DOMAIN mem'.recs => mem'.recs[r[1]].evidenceAttempts >= r[2]
             /\ r[1] \in DOMAIN mem'.recs \/ r[1] <= mem'.ack
  <2>1. r[1] \in Nat /\ r[2] \in Nat
    <3>1. CASE r \in evidence.list
      BY <1>1, <3>1, Pair, Keys
    <3>2. CASE r = <<evidence.key, evidence.attempts>>
      BY <1>1, <3>2
    <3> QED
      BY <1>2, <3>1, <3>2 DEF Carried
  <2>2. PICK j, n : j = r[1] /\ n = r[2]
    OBVIOUS
  <2>3. /\ j \in Nat /\ n \in Nat
        /\ j \in DOMAIN mem.recs => mem.recs[j].evidenceAttempts >= n
        /\ j \in DOMAIN mem.recs \/ j <= mem.ack
    BY <1>2, <2>1, <2>2 DEF EvidenceHand
  <2>4. Held(mem, j, n)
    BY <1>0, <2>3, RecordNumbers DEF Held, StoreTypes
  <2>5. Held(mem', j, n)
    BY <1>0, <2>3, <2>4, HeldKept
  <2>6. j \in DOMAIN mem'.recs => mem'.recs[j].evidenceAttempts \in Nat
    BY <1>0, TurnTypes, RecordNumbers
  <2>7. /\ j \in DOMAIN mem'.recs => mem'.recs[j].evidenceAttempts >= n
        /\ j \in DOMAIN mem'.recs \/ j <= mem'.ack
    BY <2>3, <2>5, <2>6 DEF Held
  <2> QED
    BY <2>2, <2>7
<1> QED
  BY <1>2

\* What the evidence loop carries through a call of another goroutine.
LEMMA EvidenceHandKept ==
    ASSUME IndInv, up, LogWhole, EvidenceHand, NEW e, Rightly(e, alarmed), Fits(e),
           NEW res, Turn(e, res), evidence' = evidence, uploaded' = uploaded
    PROVE  EvidenceHand'
<1>0. /\ StoreTypes /\ MaxAttempts \in Nat
      /\ evidence \in LoopType({"idle", "next", "mark", "remove"})
  BY Attempts DEF IndInv, Types, StoreTypes
<1>1. /\ evidence.key \in Nat /\ evidence.attempts \in Nat
      /\ evidence.list \subseteq Key \X Nat
  <2>1. evidence.key \in Key \cup {0} /\ evidence.attempts \in Nat
        /\ evidence.list \in SUBSET (Key \X Nat)
    BY <1>0 DEF LoopType
  <2> QED
    BY <2>1, Keys
<1>2. \A r \in Carried(evidence) :
          /\ r[1] \in DOMAIN mem'.recs => mem'.recs[r[1]].evidenceAttempts >= r[2]
          /\ r[1] \in DOMAIN mem'.recs \/ r[1] <= mem'.ack
  BY CarriedKept
<1>3. CASE evidence.pc = "remove" /\ evidence.key \notin uploaded
  <2>1. PICK j : j = evidence.key
    OBVIOUS
  <2>2. /\ j \in Nat
        /\ j \in DOMAIN mem.recs => mem.recs[j].evidenceAttempts >= MaxAttempts
        /\ j \in DOMAIN disk.base.recs => disk.base.recs[j].evidenceAttempts >= MaxAttempts
        /\ j \in DOMAIN mem.recs \/ j <= mem.ack
    BY <1>1, <1>3, <2>1 DEF EvidenceHand
  <2>3. /\ Held(mem, j, MaxAttempts)
        /\ j \in DOMAIN disk.base.recs => MaxAttempts <= disk.base.recs[j].evidenceAttempts
    <3>1. IsStore(mem) /\ IsStore(disk.base)
      BY <1>0 DEF StoreTypes, IsDisk
    <3> QED
      BY <1>0, <2>2, <3>1, RecordNumbers DEF Held
  <2>4. /\ Held(mem', j, MaxAttempts)
        /\ j \in DOMAIN disk'.base.recs => MaxAttempts <= disk'.base.recs[j].evidenceAttempts
    BY <1>0, <2>2, <2>3, HeldKept
  <2>5. /\ j \in DOMAIN mem'.recs => mem'.recs[j].evidenceAttempts >= MaxAttempts
        /\ j \in DOMAIN disk'.base.recs => disk'.base.recs[j].evidenceAttempts >= MaxAttempts
        /\ j \in DOMAIN mem'.recs \/ j <= mem'.ack
    <3>1. IsStore(mem') /\ IsStore(disk'.base)
      BY <1>0, TurnTypes
    <3> QED
      BY <1>0, <2>4, <3>1, RecordNumbers DEF Held
  <2>6. /\ \A s \in {mem', disk'.base} :
              evidence.key \in DOMAIN s.recs =>
                  s.recs[evidence.key].evidenceAttempts >= MaxAttempts
        /\ evidence.key \in DOMAIN mem'.recs \/ evidence.key <= mem'.ack
    BY <2>1, <2>5
  <2> QED
    BY <1>2, <1>3, <2>6 DEF EvidenceHand
<1>4. CASE ~(evidence.pc = "remove" /\ evidence.key \notin uploaded)
  BY <1>2, <1>4 DEF EvidenceHand
<1> QED
  BY <1>3, <1>4

\* Where ingest is through a call of a delivery loop.
LEMMA IngestKept ==
    ASSUME IndInv, up, LogWhole, IngestSafe, NEW e, Rightly(e, alarmed), Fits(e),
           e.op \in {"alarm_state", "evidence_state"}, NEW res, Turn(e, res),
           ingest' = ingest, uploaded' = uploaded, staged' = staged
    PROVE  IngestSafe'
<1>0. StoreTypes /\ MaxAttempts \in Nat /\ ingest \in IngestType
  BY Attempts DEF IndInv, Types, StoreTypes
<1>1. PICK k : k = ingest.key
  OBVIOUS
<1>2. DOMAIN mem.recs \subseteq DOMAIN mem'.recs
  BY DEF Turn
<1>3. k \in DOMAIN mem.recs =>
          /\ k \in DOMAIN mem'.recs
          /\ mem.recs[k].evidenceAttempts <= mem'.recs[k].evidenceAttempts
          /\ mem.recs[k].evidenceAttempts \in Nat /\ mem'.recs[k].evidenceAttempts \in Nat
  <2> SUFFICES ASSUME k \in DOMAIN mem.recs
               PROVE  /\ mem.recs[k].evidenceAttempts <= mem'.recs[k].evidenceAttempts
                      /\ mem.recs[k].evidenceAttempts \in Nat
                      /\ mem'.recs[k].evidenceAttempts \in Nat
    BY <1>2
  <2>1. IsStore(mem) /\ IsStore(mem') /\ k \in DOMAIN mem'.recs
    BY <1>0, <1>2, TurnTypes DEF StoreTypes
  <2>2. mem.recs[k].evidenceAttempts \in Nat /\ mem'.recs[k].evidenceAttempts \in Nat
    BY <2>1, RecordNumbers
  <2>3. Same(mem', mem, k) \/ FromEntry(mem', k, e)
    BY <1>0, <2>1, TurnView
  <2> QED
    BY <2>2, <2>3 DEF Same, FromEntry, Fits
<1>4. ingest.attempts \in Nat
  BY <1>0 DEF IngestType
<1>5. /\ ingest.pc \in {"requeue", "fail"} => k \in DOMAIN mem'.recs
      /\ ingest.pc = "fail" => ingest.attempts <= mem'.recs[k].evidenceAttempts
  BY <1>1, <1>2, <1>3, <1>4 DEF IngestSafe
<1>6. ingest.pc \in {"store", "requeue"} /\ ~ingest.stageErr /\ Wanted(k) =>
           \/ k \in uploaded \cup staged
           \/ k \in DOMAIN mem'.recs /\ mem'.recs[k].evidenceAttempts >= MaxAttempts
  BY <1>0, <1>1, <1>3 DEF IngestSafe
<1>7. ingest.pc = "ack" /\ Wanted(k) =>
           k \in DOMAIN mem'.recs /\ Kept(mem', k, uploaded \cup staged)
  BY <1>0, <1>1, <1>3 DEF IngestSafe, Kept
<1>8. ingest.required => Wanted(k)
  BY <1>1 DEF IngestSafe
<1> QED
  BY <1>1, <1>5, <1>6, <1>7, <1>8 DEF IngestSafe, Kept

\* The operations of the outbox are such calls.
LEMMA EnqueueTurn ==
    ASSUME "partial" \notin Faults, StoreTypes, Plain(mem), LogWhole, up,
           NEW k \in Key, NEW res, Enqueue(k, res)
    PROVE  /\ k \in DOMAIN mem.recs => UNCHANGED storeVars
           /\ k \notin DOMAIN mem.recs => Turn(EventEntry(k, NewRecord(k)), res)
<1>1. PICK o \in EnqueueOutcomes(k) : o.res = res /\ Becomes(o)
  BY DEF Enqueue
<1>2. mem' = o.mem /\ disk' = o.disk /\ file' = o.file /\ UNCHANGED <<up, limit>>
  BY <1>1 DEF Becomes
<1>3. disk.tail = "clean" /\ (file = "open" => Covers(mem, disk))
  BY DEF LogWhole, Covers
<1>4. /\ o.disk.tail = "clean" /\ (o.file = "open" => Covers(o.mem, o.disk))
      /\ k \in DOMAIN mem.recs => o.file = file
  BY <1>3, EnqueueCovers DEF StoreTypes
<1>5. PICK e : e = EventEntry(k, NewRecord(k))
  OBVIOUS
<1>6. /\ Shape(o, mem, disk, e)
      /\ k \in DOMAIN mem.recs => o.mem = mem /\ o.disk = disk
  BY <1>5, EnqueueShape DEF StoreTypes
<1>7. PICK t, b :
          /\ Evicted(t, mem) /\ (b = disk.base \/ Evicted(b, mem))
          /\ o.mem = IF o.res = "ok" THEN Apply(t, e) ELSE t
          /\ o.disk.base = b \/ (Applies(b, e) /\ o.disk.base = Apply(b, e))
          /\ o.res = "ok" /\ o.disk.tail = "clean" => Applies(b, e) /\ o.disk.base = Apply(b, e)
  BY <1>6, ShapeCases DEF StoreTypes
<1>8. e.op = "event"
  BY <1>5 DEF EventEntry
<1>9. Turn(e, res)
  BY <1>1, <1>2, <1>4, <1>7, <1>8 DEF Turn, Covers
<1> QED
  BY <1>2, <1>4, <1>5, <1>6, <1>9 DEF storeVars

\* An append of a state entry or of an ack.
LEMMA LockedTurn ==
    ASSUME "partial" \notin Faults, StoreTypes, LogWhole, up, NEW e, IsEntry(e), Applies(mem, e),
           e.op # "event", NEW res, NEW o \in AppendLocked(e), o.res = res, Becomes(o)
    PROVE  Turn(e, res)
<1>2. mem' = o.mem /\ disk' = o.disk /\ file' = o.file /\ UNCHANGED <<up, limit>>
  BY DEF Becomes
<1>3. disk.tail = "clean" /\ (file = "open" => Covers(mem, disk))
  BY DEF LogWhole, Covers
<1>4. /\ o.disk.tail = "clean" /\ (o.file = "open" => Covers(o.mem, o.disk))
      /\ DOMAIN mem.recs \subseteq DOMAIN o.mem.recs
  BY <1>3, LockedCovers DEF StoreTypes
<1>6. Shape(o, mem, disk, e)
  BY LockedShape DEF StoreTypes
<1>7. PICK t, b :
          /\ Evicted(t, mem) /\ (b = disk.base \/ Evicted(b, mem))
          /\ o.mem = IF o.res = "ok" THEN Apply(t, e) ELSE t
          /\ o.disk.base = b \/ (Applies(b, e) /\ o.disk.base = Apply(b, e))
          /\ o.res = "ok" /\ o.disk.tail = "clean" => Applies(b, e) /\ o.disk.base = Apply(b, e)
  BY <1>6, ShapeCases DEF StoreTypes
<1> QED
  BY <1>2, <1>4, <1>7 DEF Turn, Covers

\* A Mark operation.
LEMMA MarkTurn ==
    ASSUME "partial" \notin Faults, StoreTypes, LogWhole, up, NEW e, IsEntry(e), e.op # "event",
           NEW k, e.key = k, NEW res, Mark(k, e, res), k \in DOMAIN mem.recs
    PROVE  Turn(e, res)
<1>1. PICK o \in AppendLocked(e) : o.res = res /\ Becomes(o)
  BY DEF Mark
<1>2. Applies(mem, e)
  BY DEF Applies
<1> QED
  BY <1>1, <1>2, LockedTurn

\* Ack of the event behind the cursor.
LEMMA AckTurn ==
    ASSUME "partial" \notin Faults, StoreTypes, LogWhole, up, NEW c \in Key, c = mem.ack + 1,
           NEW res, Ack(c, res)
    PROVE  Turn(AckEntry(c), res)
<1>0. PICK e : e = AckEntry(c)
  OBVIOUS
<1>1. e.op = "ack" /\ e.cursor = c
  BY <1>0 DEF AckEntry
<1>2. ~(c <= mem.ack)
  BY RecordNumbers DEF StoreTypes
<1>3. PICK o \in AppendLocked(e) : o.res = res /\ Becomes(o)
  BY <1>0, <1>2 DEF Ack
<1>4. Applies(mem, e) /\ IsEntry(e)
  BY <1>1, Keys DEF Applies, IsEntry
<1> QED
  BY <1>0, <1>1, <1>3, <1>4, LockedTurn

-----------------------------------------------------------------------------
(* The goroutines keep the evidence *)

\* Which events carry evidence.
LEMMA WantedMeans ==
    ASSUME NEW k \in Key
    PROVE  Wanted(k) <=> /\ EvidenceEnabled /\ Stream[k].phase = "START"
                         /\ Stream[k].evidence
  BY DEF Wanted, NewRecord

\* A call of ingest or of the alarm loop.
LEMMA CallKeeps ==
    ASSUME IndInv, EvidenceInv, up, NEW e, Rightly(e, alarmed), Fits(e), NEW res, Turn(e, res),
           UNCHANGED <<evidence, uploaded, staged>>
    PROVE  LogWhole' /\ EvidenceSafe' /\ EvidenceHand'
<1>1. StoreTypes /\ LogWhole /\ EvidenceSafe /\ EvidenceHand
  BY DEF IndInv, EvidenceInv, Types, StoreTypes
<1> QED
  BY <1>1, TurnWhole, TurnSafe, EvidenceHandKept

\* A step without a call that only adds to what is staged and uploaded.
LEMMA QuietSafe ==
    ASSUME EvidenceInv, UNCHANGED storeVars, uploaded \subseteq uploaded', staged \subseteq staged'
    PROVE  LogWhole' /\ EvidenceSafe'
<1>1. UNCHANGED <<up, mem, file, disk>>
  BY DEF storeVars
<1>2. LogWhole'
  BY <1>1 DEF EvidenceInv, LogWhole
<1>3. EvidenceGood(mem)' /\ EvidenceGood(disk.base)'
  BY <1>1 DEF EvidenceInv, EvidenceSafe, EvidenceGood
<1>4. \A s, k : Kept(s, k, uploaded \cup staged) => Kept(s, k, uploaded' \cup staged')
  BY DEF Kept
<1> QED
  BY <1>1, <1>2, <1>3, <1>4 DEF EvidenceInv, EvidenceSafe

\* The same while the evidence loop does nothing.
LEMMA QuietKeeps ==
    ASSUME EvidenceInv, UNCHANGED storeVars, UNCHANGED <<evidence, uploaded>>,
           staged \subseteq staged'
    PROVE  LogWhole' /\ EvidenceSafe' /\ EvidenceHand'
<1>1. UNCHANGED <<up, mem, file, disk>>
  BY DEF storeVars
<1>2. EvidenceHand'
  BY <1>1 DEF EvidenceInv, EvidenceHand, Carried
<1> QED
  BY <1>2, QuietSafe

\* ingest between two events has nothing to lose.
LEMMA ResumedSafe ==
    ASSUME ingest'.pc \in {"off", "idle"}, ingest'.required = FALSE
    PROVE  IngestSafe'
  BY DEF IngestSafe

\* ingest begins an event: evidence that need not be staged is uploaded or given
\* up already.
LEMMA BeginKeeps ==
    ASSUME IndInv, EvidenceInv, Begin
    PROVE  EvidenceInv'
<1>1. PICK k : k = mem.ack + 1
  OBVIOUS
<1>2. PICK needed : needed = /\ EvidenceEnabled
                             /\ Stream[k].phase = "START"
                             /\ Stream[k].evidence
                             /\ k \in DOMAIN mem.recs =>
                                    mem.recs[k].evidence \notin {"sent", "dead"}
  OBVIOUS
<1>3. /\ k \in Key /\ UNCHANGED storeVars
      /\ UNCHANGED <<evidence, staged, uploaded>>
      /\ ingest' = [IngestIdle EXCEPT !.pc = IF needed THEN "stage" ELSE "store",
                                      !.key = k, !.required = needed]
  BY <1>1, <1>2 DEF Begin
<1>4. /\ ingest'.pc = IF needed THEN "stage" ELSE "store"
      /\ ingest'.key = k /\ ingest'.required = needed /\ mem' = mem
  BY <1>3 DEF IngestIdle, storeVars
<1>5. needed => Wanted(k)
  BY <1>2, <1>3, WantedMeans
<1>6. ~needed /\ Wanted(k) =>
         k \in uploaded \/ (k \in DOMAIN mem.recs /\ mem.recs[k].evidenceAttempts >= MaxAttempts)
  <2> SUFFICES ASSUME ~needed, Wanted(k)
               PROVE  \/ k \in uploaded
                      \/ k \in DOMAIN mem.recs /\ mem.recs[k].evidenceAttempts >= MaxAttempts
    OBVIOUS
  <2>1. k \in DOMAIN mem.recs /\ mem.recs[k].evidence \in {"sent", "dead"}
    BY <1>2, <1>3, WantedMeans
  <2> QED
    BY <2>1 DEF EvidenceInv, EvidenceSafe, EvidenceGood
<1>7. IngestSafe'
  BY <1>3, <1>4, <1>5, <1>6 DEF IngestSafe
<1> QED
  BY <1>3, <1>7, QuietKeeps DEF EvidenceInv

\* ingest stages the evidence.
LEMMA StageKeeps ==
    ASSUME IndInv, EvidenceInv, StageOk \/ StageFails
    PROVE  EvidenceInv'
<1>0. ingest \in IngestType
  BY DEF IndInv, Types
<1>1. /\ ingest.pc = "stage" /\ UNCHANGED storeVars /\ UNCHANGED <<evidence, uploaded>>
      /\ staged \subseteq staged'
      /\ \/ ingest' = [ingest EXCEPT !.pc = "store"] /\ ingest.key \in staged'
         \/ ingest' = [ingest EXCEPT !.pc = "store", !.stageErr = TRUE]
  BY DEF StageOk, StageFails
<1>2. /\ ingest'.pc = "store" /\ ingest'.key = ingest.key /\ ingest'.required = ingest.required
      /\ ingest'.stageErr = TRUE \/ ingest.key \in staged'
  BY <1>0, <1>1 DEF IngestType
<1>3. IngestSafe'
  BY <1>1, <1>2 DEF EvidenceInv, IngestSafe
<1> QED
  BY <1>1, <1>3, QuietKeeps DEF EvidenceInv

\* EnqueueWithEvidence keeps the evidence of every other event.
LEMMA EnqueueKeeps ==
    ASSUME "partial" \notin Faults, IndInv, EvidenceInv, ingest.pc = "store", NEW res,
           Enqueue(ingest.key, res), UNCHANGED <<evidence, uploaded, staged>>
    PROVE  LogWhole' /\ EvidenceSafe' /\ EvidenceHand'
<1>0. StoreTypes /\ Plain(mem) /\ LogWhole /\ up
  BY DEF IndInv, Types, StoreTypes, Alarms, EvidenceInv, Enqueue
<1>1. PICK k : k = ingest.key
  OBVIOUS
<1>2. k \in Key /\ k = mem.ack + 1
  BY <1>1 DEF IndInv, Position, Busy
<1>3. PICK e : e = EventEntry(k, NewRecord(k))
  OBVIOUS
<1>4. e.op = "event" /\ e.key = k /\ Rightly(e, alarmed)
  BY <1>3, <1>2 DEF EventEntry, Rightly
<1>5. CASE k \in DOMAIN mem.recs
  <2>1. UNCHANGED storeVars
    BY <1>0, <1>1, <1>2, <1>5, EnqueueTurn
  <2> QED
    BY <2>1, QuietKeeps
<1>6. CASE k \notin DOMAIN mem.recs
  <2>1. Turn(e, res)
    BY <1>0, <1>1, <1>2, <1>3, <1>6, EnqueueTurn
  <2>2. Fits(e)
    BY <1>2, <1>4, <1>6 DEF Fits
  <2> QED
    BY <1>0, <1>4, <2>1, <2>2, CallKeeps
<1> QED
  BY <1>5, <1>6

\* ingest stores the event.
LEMMA StoreKeeps ==
    ASSUME "partial" \notin Faults, IndInv, EvidenceInv,
           StoreDrops \/ \E res \in Result : StoreEvent(res) \/ StoreFails(res)
    PROVE  EvidenceInv'
<1>0. /\ ingest \in IngestType /\ StoreTypes /\ Plain(mem) /\ Alarms
  BY DEF IndInv, Types, StoreTypes, Alarms
<1>1. PICK k : k = ingest.key
  OBVIOUS
<1>2. PICK res \in Result :
          /\ ingest.pc = "store" /\ UNCHANGED <<evidence, uploaded, staged>>
          /\ Enqueue(k, res) /\ alarmed' = alarmed
          /\ \/ /\ res \in {"ok", "exists"}
                /\ \E st, n : /\ ingest' = [ingest EXCEPT !.pc = AfterStore(res = "ok", st),
                                                          !.attempts = n]
                              /\ n = mem'.recs[k].evidenceAttempts
             \/ res = "dropped" /\ ingest' = [ingest EXCEPT !.pc = "ack"]
             \/ ingest' = Resume(res)
  BY <1>1 DEF StoreDrops, StoreEvent, StoreFails, Result
<1>3. k \in Key
  BY <1>1, <1>2 DEF IndInv, Position, Busy
<1>4. LogWhole' /\ EvidenceSafe' /\ EvidenceHand'
  BY <1>1, <1>2, EnqueueKeeps
<1>5. PICK e : e = EventEntry(k, NewRecord(k))
  OBVIOUS
<1>6. /\ Op(e, res) /\ Rightly(e, alarmed)
      /\ res = "exists" => k \in DOMAIN mem.recs
      /\ res = "ok" => k \in DOMAIN mem'.recs
      /\ k \in DOMAIN mem.recs => mem' = mem
      /\ res = "dropped" => Stream[k].phase = "UPDATE"
  <2>1. Enqueue(k, res) /\ StoreTypes /\ Plain(mem)
    BY <1>0, <1>2
  <2>2. /\ Op(EventEntry(k, NewRecord(k)), res)
        /\ Rightly(EventEntry(k, NewRecord(k)), alarmed)
        /\ res = "exists" => k \in DOMAIN mem.recs
        /\ res = "ok" => k \in DOMAIN mem'.recs
        /\ k \in DOMAIN mem.recs => mem' = mem
        /\ res = "dropped" => Stream[k].phase = "UPDATE"
    BY <1>3, <2>1, EnqueueOp
  <2> QED
    BY <1>5, <2>2
<1>7. StoreTypes'
  BY <1>0, <1>2, <1>6, OpKept
<1>8. IngestSafe'
  <2>1. CASE ingest' = Resume(res)
    <3>1. ingest'.pc \in {"off", "idle"} /\ ingest'.required = FALSE
      BY <2>1 DEF Resume, IngestIdle
    <3> QED
      BY <3>1, ResumedSafe
  <2>2. CASE res = "dropped" /\ ingest' = [ingest EXCEPT !.pc = "ack"]
    <3>1. ingest'.pc = "ack" /\ ingest'.key = k /\ ingest'.required = ingest.required
      BY <1>0, <1>1, <2>2 DEF IngestType
    <3>2. ~Wanted(k)
      BY <1>3, <1>6, <2>2, WantedMeans
    <3> QED
      BY <1>1, <3>1, <3>2 DEF EvidenceInv, IngestSafe
  <2>3. CASE res \in {"ok", "exists"} /\ ingest' # Resume(res)
    <3>1. PICK st, n : /\ ingest' = [ingest EXCEPT !.pc = AfterStore(res = "ok", st),
                                                   !.attempts = n]
                       /\ n = mem'.recs[k].evidenceAttempts
      BY <1>2, <2>3
    <3>2. k \in DOMAIN mem'.recs
      BY <1>6, <2>3
    <3>3. n \in Nat
      BY <1>7, <3>1, <3>2, RecordNumbers DEF StoreTypes
    <3>4. PICK pc : pc = AfterStore(res = "ok", st)
      OBVIOUS
    <3>5. pc \in {"fail", "requeue", "ack"} /\ (pc # "fail" => ~ingest.stageErr)
      BY <3>4 DEF AfterStore
    <3>6. /\ ingest'.pc = pc /\ ingest'.key = k /\ ingest'.required = ingest.required
          /\ ingest'.attempts = n /\ ingest'.stageErr = ingest.stageErr
      BY <1>0, <1>1, <3>1, <3>4 DEF IngestType
    <3>7. ~ingest.stageErr /\ Wanted(k) =>
              k \in uploaded \cup staged \/ mem'.recs[k].evidenceAttempts >= MaxAttempts
      BY <1>1, <1>2, <1>6 DEF EvidenceInv, IngestSafe
    <3>8. /\ ingest'.required => Wanted(k)
          /\ n <= mem'.recs[k].evidenceAttempts
      BY <1>1, <3>1, <3>3, <3>6 DEF EvidenceInv, IngestSafe
    <3> QED
      BY <1>2, <3>2, <3>5, <3>6, <3>7, <3>8 DEF IngestSafe, Kept
  <2> QED
    BY <1>2, <2>1, <2>2, <2>3
<1> QED
  BY <1>4, <1>8 DEF EvidenceInv

\* ingest makes the evidence pending again, or counts a failure to stage it.
LEMMA RequeueKeeps ==
    ASSUME "partial" \notin Faults, IndInv, EvidenceInv, NEW res,
           Requeue(res) \/ FailStaging(res)
    PROVE  EvidenceInv'
<1>0. /\ ingest \in IngestType /\ StoreTypes /\ LogWhole /\ IsStore(mem)
      /\ MaxAttempts \in Nat
  BY Attempts DEF IndInv, Types, StoreTypes, EvidenceInv
<1>1. PICK k, m, a : k = ingest.key /\ m = mem.recs[k].evidenceAttempts /\ a = ingest.attempts
  OBVIOUS
<1>2. /\ ingest.pc \in {"requeue", "fail"}
      /\ UNCHANGED <<evidence, uploaded, staged, alarmed>>
  BY DEF Requeue, FailStaging
<1>3. /\ k \in Key /\ k \in DOMAIN mem.recs /\ ingest.required /\ Wanted(k)
      /\ ingest.pc = "requeue" => ~ingest.stageErr
      /\ Stream[k].phase = "START"
      /\ ingest.pc = "fail" => a <= m
  BY <1>1, <1>2 DEF IndInv, Position, Busy, EvidenceInv, IngestSafe
<1>4. m \in Nat /\ a \in Nat
  <2>1. m \in Nat
    BY <1>0, <1>1, <1>3, RecordNumbers
  <2> QED
    BY <1>0, <1>1, <2>1 DEF IngestType
<1>5. PICK state, n :
          /\ Mark(k, EvidenceEntry(k, state, n), res) /\ n \in {m, m + 1}
          /\ state \in {"pending", "staging", "dead"} /\ (state = "dead" => n >= MaxAttempts)
          /\ \/ ingest' = Resume(res)
             \/ /\ ingest' = [ingest EXCEPT !.pc = "ack"] /\ res = "ok"
                /\ ingest.pc = "requeue" \/ n >= MaxAttempts
  <2>1. CASE Requeue(res)
    <3>1. /\ Mark(k, EvidenceEntry(k, "pending", m), res) /\ ingest.pc = "requeue"
          /\ ingest' = Resume(res) \/ (ingest' = [ingest EXCEPT !.pc = "ack"] /\ res = "ok")
      BY <1>1, <2>1 DEF Requeue, MarkEvidenceState
    <3> QED
      BY <3>1
  <2>2. CASE FailStaging(res)
    <3>1. PICK state : state = IF a + 1 >= MaxAttempts THEN "dead" ELSE "staging"
      OBVIOUS
    <3>2. /\ Mark(k, EvidenceEntry(k, state, m + 1), res) /\ ingest.pc = "fail"
          /\ \/ ingest' = Resume(res)
             \/ ingest' = [ingest EXCEPT !.pc = "ack"] /\ res = "ok" /\ a + 1 >= MaxAttempts
      BY <1>1, <2>2, <3>1 DEF FailStaging, MarkEvidenceStagingFailure
    <3>3. a + 1 >= MaxAttempts => m + 1 >= MaxAttempts
      BY <1>0, <1>3, <1>4, <3>2
    <3>4. /\ state \in {"pending", "staging", "dead"}
          /\ state = "dead" => m + 1 >= MaxAttempts
      BY <3>1, <3>3
    <3> QED
      BY <3>2, <3>3, <3>4
  <2> QED
    BY <2>1, <2>2
<1>6. PICK e : e = EvidenceEntry(k, state, n)
  OBVIOUS
<1>7. e.op = "evidence_state" /\ e.key = k /\ e.state = state /\ e.attempts = n
  BY <1>6 DEF EvidenceEntry
<1>8. n \in Nat /\ m <= n
  BY <1>4, <1>5
<1>9. Rightly(e, alarmed)
  BY <1>3, <1>5, <1>7, <1>8 DEF Rightly, EvidenceState
<1>10. Fits(e)
  BY <1>1, <1>3, <1>5, <1>7, <1>8 DEF Fits
<1>11. Turn(e, res) /\ up
  <2>1. IsEntry(e) /\ up
    BY <1>5, <1>9, RightlyIsEntry DEF Mark
  <2> QED
    BY <1>0, <1>3, <1>5, <1>6, <1>7, <2>1, MarkTurn
<1>12. LogWhole' /\ EvidenceSafe' /\ EvidenceHand'
  BY <1>2, <1>9, <1>10, <1>11, CallKeeps
<1>13. CASE ingest' = Resume(res)
  <2>1. ingest'.pc \in {"off", "idle"} /\ ingest'.required = FALSE
    BY <1>13 DEF Resume, IngestIdle
  <2> QED
    BY <1>12, <2>1, ResumedSafe DEF EvidenceInv
<1>14. CASE ingest' = [ingest EXCEPT !.pc = "ack"] /\ res = "ok"
            /\ (ingest.pc = "requeue" \/ n >= MaxAttempts)
  <2>1. ingest'.pc = "ack" /\ ingest'.key = k /\ ingest'.required = ingest.required
    BY <1>0, <1>1, <1>14 DEF IngestType
  <2>2. k \in DOMAIN mem'.recs
    BY <1>3, <1>7, <1>11 DEF Turn
  <2>3. mem'.recs[k].evidenceAttempts = n
    BY <1>0, <1>7, <1>9, <1>10, <1>11, <1>14, <2>2, TurnView
  <2>4. Kept(mem', k, uploaded \cup staged)
    <3>1. CASE n >= MaxAttempts
      BY <2>3, <3>1 DEF Kept
    <3>2. CASE ingest.pc = "requeue"
      <4>1. k \in uploaded \cup staged \/ m >= MaxAttempts
        BY <1>1, <1>3, <3>2 DEF EvidenceInv, IngestSafe
      <4> QED
        BY <1>0, <1>4, <1>8, <2>3, <4>1 DEF Kept
    <3> QED
      BY <1>14, <3>1, <3>2
  <2>5. IngestSafe'
    BY <1>2, <1>3, <2>1, <2>2, <2>4 DEF IngestSafe
  <2> QED
    BY <1>12, <2>5 DEF EvidenceInv
<1> QED
  BY <1>5, <1>13, <1>14

\* ingest acknowledges the event.
LEMMA AckKeeps ==
    ASSUME "partial" \notin Faults, IndInv, EvidenceInv, NEW res, AckEvent(res)
    PROVE  EvidenceInv'
<1>0. StoreTypes /\ LogWhole
  BY DEF IndInv, Types, StoreTypes, EvidenceInv
<1>1. PICK k : k = ingest.key
  OBVIOUS
<1>2. /\ ingest.pc = "ack" /\ Ack(k, res) /\ ingest' = Resume(res) /\ up
      /\ UNCHANGED <<evidence, uploaded, staged>>
  BY <1>1 DEF AckEvent, Ack
<1>3. k \in Key /\ k = mem.ack + 1
  BY <1>1, <1>2 DEF IndInv, Position, Busy
<1>4. PICK e : e = AckEntry(k)
  OBVIOUS
<1>5. e.op = "ack" /\ e.cursor = k
  BY <1>4 DEF AckEntry
<1>6. Rightly(e, alarmed)
  BY <1>3, <1>5 DEF Rightly
<1>7. Fits(e)
  BY <1>1, <1>2, <1>3, <1>5 DEF Fits, EvidenceInv, IngestSafe
<1>8. Turn(e, res)
  BY <1>0, <1>2, <1>3, <1>4, AckTurn
<1>9. LogWhole' /\ EvidenceSafe' /\ EvidenceHand'
  BY <1>2, <1>6, <1>7, <1>8, CallKeeps
<1>10. ingest'.pc \in {"off", "idle"} /\ ingest'.required = FALSE
  BY <1>2 DEF Resume, IngestIdle
<1> QED
  BY <1>9, <1>10, ResumedSafe DEF EvidenceInv

\* The alarm loop leaves evidence alone.
LEMMA AlarmKeeps ==
    ASSUME "partial" \notin Faults, IndInv, EvidenceInv,
           \/ AlarmSnapshot
           \/ \E ok \in BOOLEAN : AlarmSend(ok)
           \/ \E res \in Result : AlarmMark(res)
    PROVE  EvidenceInv'
<1>1. CASE AlarmSnapshot \/ \E ok \in BOOLEAN : AlarmSend(ok)
  <2>1. UNCHANGED <<storeVars, ingest, evidence, staged, uploaded>>
    BY <1>1 DEF AlarmSnapshot, AlarmSend
  <2>2. LogWhole' /\ EvidenceSafe' /\ EvidenceHand'
    BY <2>1, QuietKeeps
  <2>3. IngestSafe'
    BY <2>1 DEF EvidenceInv, IngestSafe, storeVars
  <2> QED
    BY <2>2, <2>3 DEF EvidenceInv
<1>2. ASSUME NEW res \in Result, AlarmMark(res) PROVE EvidenceInv'
  <2>0. StoreTypes /\ LogWhole /\ IngestSafe
    BY DEF IndInv, Types, StoreTypes, EvidenceInv
  <2>1. PICK k : k = alarm.key
    OBVIOUS
  <2>2. PICK e : /\ Mark(k, e, res) /\ e.op = "alarm_state" /\ e.key = k
                 /\ Rightly(e, alarmed)
    BY <1>2, <2>1, AlarmMarkEntry
  <2>3. k \in DOMAIN mem.recs /\ UNCHANGED <<ingest, evidence, uploaded, staged>> /\ up
    BY <1>2, <2>1, <2>2, AlarmMarkEntry DEF AlarmMark, Mark
  <2>4. Fits(e)
    BY <2>2, <2>3 DEF Fits
  <2>5. Turn(e, res)
    BY <2>0, <2>2, <2>3, RightlyIsEntry, MarkTurn
  <2>6. LogWhole' /\ EvidenceSafe' /\ EvidenceHand'
    BY <2>2, <2>3, <2>4, <2>5, CallKeeps
  <2>7. IngestSafe'
    BY <2>0, <2>2, <2>3, <2>4, <2>5, IngestKept
  <2> QED
    BY <2>6, <2>7 DEF EvidenceInv
<1> QED
  BY <1>1, <1>2

\* The evidence loop takes its snapshot and uploads.
LEMMA EvidenceSendKeeps ==
    ASSUME IndInv, EvidenceInv, EvidenceSnapshot \/ \E ok \in BOOLEAN : EvidenceSend(ok)
    PROVE  EvidenceInv'
<1> DEFINE pcs == {"idle", "next", "mark", "remove"}
<1>0. /\ evidence \in LoopType(pcs) /\ IsStore(mem)
      /\ evidence.pc = "next" => evidence.list # {}
  BY DEF IndInv, Types, Running
<1>1. /\ UNCHANGED <<storeVars, ingest, staged>> /\ uploaded \subseteq uploaded'
      /\ UNCHANGED <<up, mem, file, disk>>
  BY DEF EvidenceSnapshot, EvidenceSend, storeVars
<1>2. LogWhole' /\ EvidenceSafe'
  BY <1>1, QuietSafe
<1>3. IngestSafe'
  BY <1>1 DEF EvidenceInv, IngestSafe, Kept
<1>4. CASE EvidenceSnapshot
  <2>1. PICK K : K = PendingEvidence
    OBVIOUS
  <2>2. PICK f : f = [k \in K |-> mem.recs[k].evidenceAttempts]
    OBVIOUS
  <2>3. K \subseteq Key /\ K \subseteq DOMAIN mem.recs
    BY <1>0, <2>1 DEF PendingEvidence, IsStore
  <2>4. f \in [K -> Nat]
    BY <1>0, <2>2, <2>3, RecordNumbers
  <2>5. evidence' = Snapshot(evidence, f)
    BY <1>4, <2>1, <2>2 DEF EvidenceSnapshot
  <2>6. evidence'.pc = "next" /\ evidence'.list = {<<k, f[k]>> : k \in K}
    BY <1>0, <2>3, <2>4, <2>5, SnapshotType
  <2>7. Carried(evidence') = evidence'.list
    BY <2>6 DEF Carried
  <2>8. ASSUME NEW r \in evidence'.list
        PROVE  r[1] \in DOMAIN mem.recs /\ mem.recs[r[1]].evidenceAttempts >= r[2]
    <3>1. PICK k \in K : r = <<k, f[k]>>
      BY <2>6, <2>8
    <3>2. r[1] = k /\ r[2] = mem.recs[k].evidenceAttempts
      BY <2>2, <3>1
    <3>3. mem.recs[k].evidenceAttempts \in Nat
      BY <1>0, <2>3, RecordNumbers
    <3> QED
      BY <2>3, <3>2, <3>3
  <2>9. EvidenceHand'
    BY <1>1, <2>6, <2>7, <2>8 DEF EvidenceHand
  <2> QED
    BY <1>2, <1>3, <2>9 DEF EvidenceInv
<1>5. ASSUME NEW ok \in BOOLEAN, EvidenceSend(ok) PROVE EvidenceInv'
  <2>1. PICK r : r = First(evidence.list)
    OBVIOUS
  <2>2. /\ evidence.pc = "next" /\ evidence' = TakeFirst(evidence, ok)
        /\ ok => uploaded' = uploaded \cup {r[1]}
    BY <1>5, <2>1 DEF EvidenceSend
  <2>3. /\ evidence'.pc = "mark" /\ evidence'.ok = ok
        /\ evidence'.list = evidence.list \ {r} /\ evidence'.key = r[1]
        /\ evidence'.attempts = r[2] /\ r \in evidence.list /\ r = <<r[1], r[2]>>
    BY <1>0, <2>1, <2>2, TakeFirstType
  <2>4. Carried(evidence') \subseteq Carried(evidence)
    BY <2>3 DEF Carried
  <2>5. EvidenceHand'
    BY <1>1, <2>2, <2>3, <2>4 DEF EvidenceInv, EvidenceHand
  <2> QED
    BY <1>2, <1>3, <2>5 DEF EvidenceInv
<1> QED
  BY <1>4, <1>5

\* The evidence loop records the outcome.
LEMMA EvidenceMarkKeeps ==
    ASSUME "partial" \notin Faults, IndInv, EvidenceInv, NEW res, EvidenceMark(res)
    PROVE  EvidenceInv'
<1> DEFINE pcs == {"idle", "next", "mark", "remove"}
<1>0. /\ evidence \in LoopType(pcs) /\ StoreTypes /\ IsStore(mem) /\ MaxAttempts \in Nat
      /\ LogWhole /\ EvidenceSafe /\ IngestSafe /\ EvidenceHand
  BY Attempts DEF IndInv, Types, StoreTypes, EvidenceInv
<1>1. PICK k, m, a :
          k = evidence.key /\ m = mem.recs[k].evidenceAttempts /\ a = evidence.attempts
  OBVIOUS
<1>2. /\ evidence.pc = "mark" /\ a \in Nat
      /\ UNCHANGED <<ingest, staged, uploaded, alarmed>>
  BY <1>0, <1>1 DEF EvidenceMark, LoopType
<1>3. <<k, a>> \in Carried(evidence) /\ evidence.list \subseteq Carried(evidence)
  BY <1>1, <1>2 DEF Carried
<1>4. /\ k \in DOMAIN mem.recs => m >= a
      /\ evidence.ok => k \in uploaded
  BY <1>0, <1>1, <1>2, <1>3 DEF EvidenceHand
<1>5. PICK state, n :
          /\ Mark(k, EvidenceEntry(k, state, n), res) /\ n \in {m, m + 1}
          /\ state \in {"pending", "sent", "dead"}
          /\ state = "sent" => evidence.ok
          /\ state = "dead" => a + 1 >= MaxAttempts /\ n = m + 1
          /\ \/ evidence' = Done(evidence)
             \/ /\ evidence' = [evidence EXCEPT !.pc = "remove"] /\ res = "ok"
                /\ evidence.ok \/ (a + 1 >= MaxAttempts /\ n = m + 1)
  <2>1. CASE evidence.ok
    <3>1. Mark(k, EvidenceEntry(k, "sent", m), res)
          /\ (evidence' = Done(evidence)
              \/ (evidence' = [evidence EXCEPT !.pc = "remove"] /\ res = "ok"))
      BY <1>1, <2>1 DEF EvidenceMark, MarkEvidenceSent
    <3> QED
      BY <2>1, <3>1
  <2>2. CASE ~evidence.ok
    <3>1. PICK state : state = IF a + 1 >= MaxAttempts THEN "dead" ELSE "pending"
      OBVIOUS
    <3>2. /\ Mark(k, EvidenceEntry(k, state, m + 1), res)
          /\ \/ evidence' = Done(evidence)
             \/ /\ evidence' = [evidence EXCEPT !.pc = "remove"] /\ res = "ok"
                /\ a + 1 >= MaxAttempts
      BY <1>1, <2>2, <3>1 DEF EvidenceMark, MarkEvidenceAttempt
    <3>3. /\ state \in {"pending", "sent", "dead"} /\ state # "sent"
          /\ state = "dead" => a + 1 >= MaxAttempts
      BY <3>1
    <3> QED
      BY <3>2, <3>3
  <2> QED
    BY <2>1, <2>2
<1>6. PICK e : e = EvidenceEntry(k, state, n)
  OBVIOUS
<1>7. e.op = "evidence_state" /\ e.key = k /\ e.state = state /\ e.attempts = n
  BY <1>6 DEF EvidenceEntry
<1>8. /\ evidence' = Done(evidence) => evidence'.list = evidence.list /\ evidence'.pc \in {"idle", "next"}
      /\ evidence' = [evidence EXCEPT !.pc = "remove"] =>
             /\ evidence'.list = evidence.list /\ evidence'.pc = "remove" /\ evidence'.key = k
  <2>1. evidence' = Done(evidence) => evidence'.list = evidence.list /\ evidence'.pc \in {"idle", "next"}
    BY <1>0, DoneType
  <2>2. evidence' = [evidence EXCEPT !.pc = "remove"] =>
             /\ evidence'.list = evidence.list /\ evidence'.pc = "remove" /\ evidence'.key = k
    BY <1>0, <1>1 DEF LoopType
  <2> QED
    BY <2>1, <2>2
<1>9. Carried(evidence') \subseteq Carried(evidence)
  BY <1>3, <1>5, <1>8 DEF Carried
<1>10. CASE k \notin DOMAIN mem.recs
  <2>1. UNCHANGED storeVars /\ res = "error"
    BY <1>5, <1>10 DEF Mark
  <2>2. UNCHANGED <<up, mem, file, disk>>
    BY <2>1 DEF storeVars
  <2>3. LogWhole' /\ EvidenceSafe'
    BY <1>2, <2>1, QuietSafe
  <2>4. IngestSafe'
    BY <1>0, <1>2, <2>2 DEF IngestSafe
  <2>5. evidence'.pc \in {"idle", "next"}
    BY <1>5, <1>8, <2>1
  <2>6. EvidenceHand'
    BY <1>0, <1>9, <2>2, <2>5 DEF EvidenceHand
  <2> QED
    BY <2>3, <2>4, <2>6 DEF EvidenceInv
<1>11. CASE k \in DOMAIN mem.recs
  <2>1. k \in Key /\ m \in Nat /\ n \in Nat /\ m <= n /\ (n = m + 1 /\ a + 1 >= MaxAttempts => n >= MaxAttempts)
    BY <1>0, <1>1, <1>2, <1>4, <1>5, <1>11, RecordNumbers
  <2>2. Rightly(e, alarmed)
    BY <1>5, <1>7, <2>1 DEF Rightly, EvidenceState
  <2>3. Fits(e)
    BY <1>1, <1>4, <1>5, <1>7, <1>11, <2>1 DEF Fits
  <2>4. up /\ IsEntry(e)
    BY <1>5, <2>2, RightlyIsEntry DEF Mark
  <2>5. Turn(e, res)
    BY <1>0, <1>5, <1>6, <1>7, <1>11, <2>4, MarkTurn
  <2>6. LogWhole' /\ EvidenceSafe'
    BY <1>0, <1>2, <2>2, <2>3, <2>4, <2>5, TurnWhole, TurnSafe
  <2>7. IngestSafe'
    BY <1>0, <1>2, <1>7, <2>2, <2>3, <2>4, <2>5, IngestKept
  <2>8. \A r \in Carried(evidence) :
            /\ r[1] \in DOMAIN mem'.recs => mem'.recs[r[1]].evidenceAttempts >= r[2]
            /\ r[1] \in DOMAIN mem'.recs \/ r[1] <= mem'.ack
    BY <1>0, <2>2, <2>3, <2>4, <2>5, CarriedKept
  <2>9. evidence'.pc = "remove" =>
            \/ k \in uploaded
            \/ /\ \A s \in {mem', disk'.base} :
                     k \in DOMAIN s.recs => s.recs[k].evidenceAttempts >= MaxAttempts
               /\ k \in DOMAIN mem'.recs
    <3> SUFFICES ASSUME evidence'.pc = "remove", k \notin uploaded
                 PROVE  /\ \A s \in {mem', disk'.base} :
                              k \in DOMAIN s.recs => s.recs[k].evidenceAttempts >= MaxAttempts
                        /\ k \in DOMAIN mem'.recs
      OBVIOUS
    <3>1. res = "ok" /\ n >= MaxAttempts
      BY <1>4, <1>5, <1>8, <2>1
    <3>2. k \in DOMAIN mem'.recs
      BY <1>7, <1>11, <2>5 DEF Turn
    <3>3. /\ k \in DOMAIN mem'.recs => mem'.recs[k].evidenceAttempts = n
          /\ k \in DOMAIN disk'.base.recs => disk'.base.recs[k].evidenceAttempts = n
      BY <1>0, <1>7, <2>2, <2>3, <2>5, <3>1, TurnView
    <3> QED
      BY <3>1, <3>2, <3>3
  <2>10. evidence'.pc \in {"idle", "next", "remove"} /\ (evidence'.pc = "remove" => evidence'.key = k)
    BY <1>5, <1>8
  <2>11. EvidenceHand'
    BY <1>2, <1>9, <2>8, <2>9, <2>10 DEF EvidenceHand
  <2> QED
    BY <2>6, <2>7, <2>11 DEF EvidenceInv
<1> QED
  BY <1>10, <1>11

\* The evidence loop removes the files of a record that is uploaded or given up,
\* in the store and in the log.
LEMMA RemoveKeeps ==
    ASSUME IndInv, EvidenceInv, EvidenceRemove
    PROVE  EvidenceInv'
<1> DEFINE pcs == {"idle", "next", "mark", "remove"}
<1>0. /\ evidence \in LoopType(pcs) /\ StoreTypes /\ MaxAttempts \in Nat
      /\ LogWhole /\ EvidenceSafe /\ IngestSafe /\ EvidenceHand
  BY Attempts DEF IndInv, Types, StoreTypes, EvidenceInv
<1>1. PICK j : j = evidence.key
  OBVIOUS
<1>2. /\ evidence.pc = "remove" /\ staged' = staged \ {j} /\ evidence' = Done(evidence)
      /\ UNCHANGED <<storeVars, ingest, uploaded>> /\ UNCHANGED <<up, mem, file, disk>>
  BY <1>1 DEF EvidenceRemove, storeVars
<1>3. \/ j \in uploaded
      \/ /\ j \in DOMAIN mem.recs => mem.recs[j].evidenceAttempts >= MaxAttempts
         /\ j \in DOMAIN disk.base.recs => disk.base.recs[j].evidenceAttempts >= MaxAttempts
         /\ j \in DOMAIN mem.recs \/ j <= mem.ack
  BY <1>0, <1>1, <1>2 DEF EvidenceHand
<1>4. /\ \A k \in DOMAIN mem.recs :
             Kept(mem, k, uploaded \cup staged) => Kept(mem, k, uploaded \cup staged')
      /\ \A k \in DOMAIN disk.base.recs :
             Kept(disk.base, k, uploaded \cup staged) => Kept(disk.base, k, uploaded \cup staged')
  BY <1>2, <1>3 DEF Kept
<1>5. LogWhole'
  BY <1>0, <1>2 DEF LogWhole
<1>6. EvidenceSafe'
  <2>1. EvidenceGood(mem)' /\ EvidenceGood(disk.base)'
    BY <1>0, <1>2 DEF EvidenceSafe, EvidenceGood
  <2>2. \A k \in DOMAIN disk.base.recs :
            Wanted(k) /\ k <= disk.base.ack => Kept(disk.base, k, uploaded \cup staged')
    BY <1>0, <1>4 DEF EvidenceSafe
  <2>3. up => \A k \in 1..disk.base.ack : Wanted(k) =>
                /\ k \in DOMAIN mem.recs => Kept(mem, k, uploaded \cup staged')
                /\ k \in DOMAIN mem.recs \/ k <= mem.ack
    BY <1>0, <1>4 DEF EvidenceSafe
  <2> QED
    BY <1>2, <2>1, <2>2, <2>3 DEF EvidenceSafe
<1>7. IngestSafe'
  <2>1. PICK k : k = ingest.key
    OBVIOUS
  <2>2. ingest.pc \in Busy /\ k = j => k = mem.ack + 1 /\ mem.ack \in Nat
    BY <1>0, <2>1, RecordNumbers DEF IndInv, Position, StoreTypes
  <2>3. ingest.pc \in {"store", "requeue"} /\ ~ingest.stageErr /\ Wanted(k) =>
           \/ k \in uploaded \cup staged'
           \/ k \in DOMAIN mem.recs /\ mem.recs[k].evidenceAttempts >= MaxAttempts
    <3> SUFFICES ASSUME ingest.pc \in {"store", "requeue"}, ~ingest.stageErr, Wanted(k)
                 PROVE  \/ k \in uploaded \cup staged'
                        \/ k \in DOMAIN mem.recs /\ mem.recs[k].evidenceAttempts >= MaxAttempts
      OBVIOUS
    <3>1. \/ k \in uploaded \cup staged
          \/ k \in DOMAIN mem.recs /\ mem.recs[k].evidenceAttempts >= MaxAttempts
      BY <1>0, <2>1 DEF IngestSafe
    <3>2. CASE k = j
      BY <1>3, <2>2, <3>2 DEF Busy
    <3>3. CASE k # j
      BY <1>2, <3>1, <3>3
    <3> QED
      BY <3>2, <3>3
  <2>4. ingest.pc = "ack" /\ Wanted(k) =>
           k \in DOMAIN mem.recs /\ Kept(mem, k, uploaded \cup staged')
    BY <1>0, <1>4, <2>1 DEF IngestSafe
  <2> QED
    BY <1>0, <1>2, <2>1, <2>3, <2>4 DEF IngestSafe
<1>8. EvidenceHand'
  <2>1. evidence'.list = evidence.list /\ evidence'.pc \in {"idle", "next"}
    BY <1>0, <1>2, DoneType
  <2>2. Carried(evidence') \subseteq Carried(evidence)
    BY <2>1 DEF Carried
  <2> QED
    BY <1>0, <1>2, <2>1, <2>2 DEF EvidenceHand
<1> QED
  BY <1>5, <1>6, <1>7, <1>8 DEF EvidenceInv

\* The daemon starts: what the log stands for is the store, and no file that a
\* record still waits for is removed.
LEMMA StartKeeps ==
    ASSUME IndInv, EvidenceInv, Start
    PROVE  EvidenceInv'
<1>0. /\ Running /\ IsDisk(disk) /\ disk.tail = "clean" /\ LogWhole /\ EvidenceSafe
      /\ IsStore(disk.base)
  BY DEF IndInv, Types, EvidenceInv, LogWhole, IsDisk
<1>1. PICK l \in Limits : Open(l)
  BY DEF Start
<1>2. PICK s : s = disk.base
  OBVIOUS
<1>3. /\ Recovered(disk).base = s /\ Recovered(disk).tail = "clean" /\ Loaded(disk) = s
      /\ Compacted(s).base = s /\ Compacted(s).tail = "clean"
  BY <1>0, <1>2, RecoveredFields, CompactedSize
<1>4. /\ ~up /\ ingest' = IngestIdle /\ UNCHANGED <<evidence, uploaded>>
      /\ staged' = staged \cap {k \in DOMAIN mem'.recs :
                                    mem'.recs[k].evidence \in {"pending", "staging"}}
      /\ up' = TRUE /\ mem' = s /\ disk'.base = s /\ disk'.tail = "clean"
  BY <1>1, <1>3 DEF Start, Open
<1>5. /\ s.ack \in Nat
      /\ \A k \in DOMAIN s.recs : s.recs[k].evidenceAttempts \in Nat
  BY <1>0, <1>2, RecordNumbers
<1>6. LogWhole'
  BY <1>0, <1>2, <1>4, <1>5 DEF LogWhole
<1>7. EvidenceGood(s)
  BY <1>0, <1>2 DEF EvidenceSafe
<1>8. \A k \in DOMAIN s.recs :
          Wanted(k) /\ k <= s.ack => Kept(s, k, uploaded \cup staged')
  <2> SUFFICES ASSUME NEW k \in DOMAIN s.recs, Wanted(k), k <= s.ack
               PROVE  Kept(s, k, uploaded \cup staged')
    OBVIOUS
  <2>1. Kept(s, k, uploaded \cup staged)
    BY <1>0, <1>2 DEF EvidenceSafe
  <2>2. /\ s.recs[k].evidence \in {"pending", "staging", "sent", "dead"}
        /\ s.recs[k].evidence = "sent" => k \in uploaded
        /\ s.recs[k].evidence = "dead" => s.recs[k].evidenceAttempts >= MaxAttempts
    BY <1>7 DEF EvidenceGood
  <2> QED
    BY <1>4, <2>1, <2>2 DEF Kept
<1>9. EvidenceSafe'
  <2>1. EvidenceGood(mem)' /\ EvidenceGood(disk.base)'
    BY <1>4, <1>7 DEF EvidenceGood
  <2>2. \A k \in 1..s.ack : k <= s.ack
    BY <1>5
  <2> QED
    BY <1>4, <1>8, <2>1, <2>2 DEF EvidenceSafe
<1>10. evidence = LoopIdle
  BY <1>0, <1>4 DEF Running
<1>11. EvidenceHand'
  BY <1>4, <1>10, IdleLoop DEF EvidenceHand
<1>12. IngestSafe'
  BY <1>4, IdleIngest, ResumedSafe
<1> QED
  BY <1>6, <1>9, <1>11, <1>12 DEF EvidenceInv

\* The daemon stops.
LEMMA StopKeeps ==
    ASSUME IndInv, EvidenceInv, Close \/ Crash
    PROVE  EvidenceInv'
<1>1. /\ up' = FALSE /\ mem' = EmptyStore /\ UNCHANGED disk
      /\ evidence' = LoopIdle /\ UNCHANGED <<staged, uploaded>>
      /\ \/ ingest' = ingest /\ ingest.pc = "off"
         \/ ingest' = [IngestIdle EXCEPT !.pc = "off"]
  BY DEF Close, Crash, Stop
<1>2. LogWhole'
  BY <1>1 DEF EvidenceInv, LogWhole
<1>3. EvidenceSafe'
  <2>1. EvidenceGood(mem)' /\ EvidenceGood(disk.base)'
    BY <1>1, EmptyTypes DEF EvidenceInv, EvidenceSafe, EvidenceGood
  <2> QED
    BY <1>1, <2>1 DEF EvidenceInv, EvidenceSafe
<1>4. EvidenceHand'
  BY <1>1, IdleLoop DEF EvidenceHand
<1>5. IngestSafe'
  <2>1. CASE ingest' = ingest /\ ingest.pc = "off"
    BY <2>1 DEF EvidenceInv, IngestSafe
  <2>2. CASE ingest' = [IngestIdle EXCEPT !.pc = "off"]
    BY <2>2, IdleIngest, ResumedSafe
  <2> QED
    BY <1>1, <2>1, <2>2
<1> QED
  BY <1>2, <1>3, <1>4, <1>5 DEF EvidenceInv

\* The initial states.
LEMMA InitEvidence == Init => EvidenceInv
<1> SUFFICES ASSUME Init PROVE EvidenceInv
  OBVIOUS
<1>1. /\ up = FALSE /\ mem = EmptyStore /\ disk = EmptyDisk
      /\ ingest = [IngestIdle EXCEPT !.pc = "off"] /\ evidence = LoopIdle
  BY DEF Init, StoreInit
<1>2. LogWhole
  BY <1>1, EmptyTypes DEF LogWhole
<1>3. EvidenceSafe
  BY <1>1, EmptyTypes DEF EvidenceSafe, EvidenceGood
<1>4. IngestSafe
  BY <1>1, IdleIngest DEF IngestSafe
<1>5. EvidenceHand
  BY <1>1, IdleLoop DEF EvidenceHand
<1> QED
  BY <1>2, <1>3, <1>4, <1>5 DEF EvidenceInv

\* Every step keeps the evidence.
LEMMA NextKeeps ==
    ASSUME "partial" \notin Faults, IndInv, EvidenceInv, [Next]_vars
    PROVE  EvidenceInv'
<1>1. CASE IngestStep
  BY <1>1, BeginKeeps, StageKeeps, StoreKeeps, RequeueKeeps, AckKeeps DEF IngestStep
<1>2. CASE AlarmStep
  BY <1>2, AlarmKeeps DEF AlarmStep
<1>3. CASE EvidenceStep
  BY <1>3, EvidenceSendKeeps, EvidenceMarkKeeps, RemoveKeeps DEF EvidenceStep
<1>4. CASE Start
  BY <1>4, StartKeeps
<1>5. CASE Close \/ Crash
  BY <1>5, StopKeeps
<1>6. CASE UNCHANGED vars
  <2>1. UNCHANGED <<up, limit, mem, file, disk, ingest, alarm, evidence, staged, uploaded,
                    alarmed, faults>>
    BY <1>6 DEF vars, storeVars, deliveryVars
  <2>2. LogWhole' /\ EvidenceSafe'
    BY <2>1, QuietSafe DEF storeVars
  <2>3. IngestSafe' /\ EvidenceHand'
    BY <2>1 DEF EvidenceInv, IngestSafe, EvidenceHand
  <2> QED
    BY <2>2, <2>3 DEF EvidenceInv
<1> QED
  BY <1>1, <1>2, <1>3, <1>4, <1>5, <1>6 DEF Next

\* The evidence of an acknowledged START is uploaded, or still staged, or was
\* tried MaxAttempts times, on a disk that writes a line whole or not at all: a
\* line written in part can swallow the line behind it, and with it the record.
THEOREM AcknowledgedEvidenceIsKept ==
    ASSUME "partial" \notin Faults
    PROVE  Spec => []AckedEvidenceKept
<1>1. Init => IndInv /\ EvidenceInv
  BY InitStep, InitEvidence
<1>2. IndInv /\ EvidenceInv /\ [Next]_vars => (IndInv /\ EvidenceInv)'
  BY NextStep, NextKeeps
<1>3. IndInv /\ EvidenceInv => AckedEvidenceKept
  <2> SUFFICES ASSUME IndInv, EvidenceInv, up, NEW k \in 1..mem.ack \cap DOMAIN mem.recs,
                      NewRecord(k).evidence = "pending"
               PROVE  \/ k \in uploaded
                      \/ k \in staged
                      \/ mem.recs[k].evidenceAttempts >= MaxAttempts
    BY DEF AckedEvidenceKept
  <2>1. IsStore(mem) /\ IsStore(disk.base)
    BY DEF IndInv, Types, IsDisk
  <2>2. mem.ack \in Nat /\ disk.base.ack \in Nat /\ mem.ack <= disk.base.ack
    BY <2>1, RecordNumbers DEF EvidenceInv, LogWhole
  <2>3. k \in 1..disk.base.ack /\ Wanted(k)
    BY <2>2 DEF Wanted
  <2> QED
    BY <2>3 DEF EvidenceInv, EvidenceSafe, Kept
<1> QED
  BY <1>1, <1>2, <1>3, PTL DEF Spec

=============================================================================
