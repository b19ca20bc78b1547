----------------------- MODULE OutboxDurabilityProofs -----------------------
(***************************************************************************)
(* Proofs about OutboxDurability for any stream of events, any limits and  *)
(* any number of attempts: the log stays within its size, nothing a sink   *)
(* waits for is evicted, what callers were told survives a restart, and no *)
(* acknowledged START or END is lost to a sink.                            *)
(***************************************************************************)
EXTENDS OutboxDurability, OutboxProofs

Sink == {"alarm", "evidence"}

\* What callers see in m is in b as well, should the daemon restart.
Behind(m, b) ==
    /\ m.ack <= b.ack
    /\ DOMAIN m.recs \ Terminal(m) \subseteq DOMAIN b.recs
    /\ \A k \in DOMAIN m.recs \cap DOMAIN b.recs :
          /\ m.recs[k].alarm # "pending" => b.recs[k].alarm = m.recs[k].alarm
          /\ m.recs[k].evidence # "pending" => b.recs[k].evidence = m.recs[k].evidence

\* The event k has reached the sinks that want it, or is pending for them in s.
SafeFor(s, k, dn) ==
    \A sink \in Sink :
        Stream[k].phase # "UPDATE" /\ NewRecord(k)[sink] = "pending" =>
            \/ <<sink, k>> \in dn
            \/ k \in DOMAIN s.recs /\ s.recs[k][sink] = "pending"

\* So has every event that s acknowledges.
Covered(s, dn) == \A k \in 1..s.ack : SafeFor(s, k, dn)

\* A sink of a record is settled by a delivery or by giving up, records wait for
\* no staging, and only a sink that is settled has had all its attempts.
Sound(s, dn) ==
    \A k \in DOMAIN s.recs :
        /\ \A sink \in Sink : NewRecord(k)[sink] = "pending" /\ s.recs[k][sink] # "pending"
                                  => <<sink, k>> \in dn
        /\ s.recs[k].evidence # "staging"
        /\ s.recs[k].alarmAttempts <= MaxAttempts
        /\ s.recs[k].evidenceAttempts <= MaxAttempts
        /\ s.recs[k].alarm = "pending" => s.recs[k].alarmAttempts < MaxAttempts
        /\ s.recs[k].evidence = "pending" => s.recs[k].evidenceAttempts < MaxAttempts

Types ==
    /\ up \in BOOLEAN
    /\ limit \in Limits
    /\ IsStore(mem)
    /\ file \in {"open", "nil"}
    /\ IsDisk(disk)
    /\ running \in BOOLEAN
    /\ handled \in Key \cup {0}
    /\ done \in SUBSET ({"alarm", "evidence"} \X Key)
    /\ aligned \in BOOLEAN

Sounds == Sound(mem, done) /\ Sound(disk.base, done) /\ Sound(disk.ext, done)

\* ingest is at the event behind the last acknowledged one.
Ingest ==
    /\ running => up
    /\ handled # 0 => running /\ handled = mem.ack + 1

Aligned ==
    aligned => disk.tail \in (IF up THEN {"clean"} ELSE {"clean", "torn", "noeol"})

Safe ==
    aligned =>
        /\ Covered(disk.base, done)
        /\ disk.tail = "noeol" => Covered(disk.ext, done)
        /\ up => /\ Behind(mem, disk.base) /\ Covered(mem, done)
                 /\ handled # 0 => /\ SafeFor(mem, handled, done)
                                   /\ SafeFor(disk.base, handled, done)

IndInv == Types /\ LogBounded /\ Sounds /\ Ingest /\ Aligned /\ Safe

-----------------------------------------------------------------------------
(* The entries the daemon writes *)

\* An entry that keeps records sound: a new record is the one of its event, and a
\* sink leaves "pending" only when it is done.
Honest(e, dn) ==
    \/ e.op = "event" /\ e.key \in Key /\ e.record = NewRecord(e.key)
    \/ e.op = "ack" /\ e.cursor \in Key
    \/ /\ e.op = "alarm_state" /\ e.key \in Key /\ e.state \in {"pending", "sent", "dead"}
       /\ e.attempts \in 0..MaxAttempts
       /\ IF e.state = "pending" THEN e.attempts < MaxAttempts
                                 ELSE <<"alarm", e.key>> \in dn
    \/ /\ e.op = "evidence_state" /\ e.key \in Key /\ e.state \in {"pending", "sent", "dead"}
       /\ e.attempts \in 0..MaxAttempts
       /\ IF e.state = "pending" THEN e.attempts < MaxAttempts
                                 ELSE <<"evidence", e.key>> \in dn

\* An entry that tells nothing a caller knows otherwise: its event is not stored,
\* or its sink is pending.
Fresh(e, m) ==
    /\ e.op = "event" => e.key \notin DOMAIN m.recs
    /\ e.op = "alarm_state" => e.key \in DOMAIN m.recs /\ m.recs[e.key].alarm = "pending"
    /\ e.op = "evidence_state" => e.key \in DOMAIN m.recs /\ m.recs[e.key].evidence = "pending"

\* An acknowledgement is of the next event, which is safe.
Acks(e, s, dn) == e.op = "ack" => e.cursor <= s.ack + 1 /\ SafeFor(s, e.cursor, dn)

\* Honest entries are well-formed.
LEMMA HonestIsEntry ==
    ASSUME NEW e, NEW dn, Honest(e, dn)
    PROVE  IsEntry(e)
<1>1. CASE e.op = "event"
  BY <1>1, NewRecordType DEF Honest, IsEntry
<1>2. CASE e.op = "ack"
  BY <1>2, Keys DEF Honest, IsEntry
<1>3. CASE e.op \in {"alarm_state", "evidence_state"}
  BY <1>3, AttemptsAssumption DEF Honest, IsEntry, AlarmState, EvidenceState
<1> QED
  BY <1>1, <1>2, <1>3 DEF Honest

-----------------------------------------------------------------------------
(* Sound *)

\* Records stay sound when some are evicted.
LEMMA SoundEvicted ==
    ASSUME NEW m, NEW t, Evicted(t, m), NEW dn, Sound(m, dn)
    PROVE  Sound(t, dn)
  BY DEF Sound, Evicted

\* More deliveries leave them sound.
LEMMA SoundMore ==
    ASSUME NEW s, NEW dn, NEW dm, dn \subseteq dm, Sound(s, dn)
    PROVE  Sound(s, dm)
  BY DEF Sound

\* So does an honest entry.
LEMMA SoundApply ==
    ASSUME NEW s, IsStore(s), NEW dn, Sound(s, dn), NEW e, Honest(e, dn)
    PROVE  Sound(Apply(s, e), dn)
<1>1. PICK r : r = Apply(s, e)
  OBVIOUS
<1>2. MaxAttempts \in Nat /\ 0 < MaxAttempts /\ 0 <= MaxAttempts
  BY AttemptsAssumption
<1>3. CASE e.op = "event"
  <2>1. /\ DOMAIN r.recs = DOMAIN s.recs \cup {e.key} /\ r.recs[e.key] = NewRecord(e.key)
        /\ \A k \in DOMAIN s.recs : k # e.key => r.recs[k] = s.recs[k]
    BY <1>1, <1>3, ApplyEvent DEF Honest
  <2> QED
    BY <1>1, <1>2, <2>1, NewRecordType DEF Sound
<1>4. CASE e.op = "ack"
  <2>1. r.recs = s.recs
    BY <1>1, <1>4, ApplyAck
  <2> QED
    BY <1>1, <2>1 DEF Sound
<1>5. CASE e.op = "alarm_state"
  <2>0. /\ e.state \in AlarmState /\ e.attempts \in Nat /\ e.attempts <= MaxAttempts
        /\ IF e.state = "pending" THEN e.attempts < MaxAttempts
                                  ELSE <<"alarm", e.key>> \in dn
    BY <1>2, <1>5 DEF Honest, AlarmState
  <2>1. /\ DOMAIN r.recs = DOMAIN s.recs
        /\ e.key \in DOMAIN s.recs =>
               /\ r.recs[e.key].alarm = e.state /\ r.recs[e.key].alarmAttempts = e.attempts
               /\ r.recs[e.key].evidence = s.recs[e.key].evidence
               /\ r.recs[e.key].evidenceAttempts = s.recs[e.key].evidenceAttempts
        /\ \A k \in DOMAIN s.recs : k # e.key => r.recs[k] = s.recs[k]
    BY <1>1, <1>5, <2>0, ApplyAlarm
  <2> QED
    BY <1>1, <2>0, <2>1 DEF Sound, Sink
<1>6. CASE e.op = "evidence_state"
  <2>0. /\ e.state \in EvidenceState /\ e.attempts \in Nat /\ e.attempts <= MaxAttempts
        /\ e.state # "staging"
        /\ IF e.state = "pending" THEN e.attempts < MaxAttempts
                                  ELSE <<"evidence", e.key>> \in dn
    BY <1>2, <1>6 DEF Honest, EvidenceState
  <2>1. /\ DOMAIN r.recs = DOMAIN s.recs
        /\ e.key \in DOMAIN s.recs =>
               /\ r.recs[e.key].evidence = e.state /\ r.recs[e.key].evidenceAttempts = e.attempts
               /\ r.recs[e.key].alarm = s.recs[e.key].alarm
               /\ r.recs[e.key].alarmAttempts = s.recs[e.key].alarmAttempts
        /\ \A k \in DOMAIN s.recs : k # e.key => r.recs[k] = s.recs[k]
    BY <1>1, <1>6, <2>0, ApplyEvidence
  <2> QED
    BY <1>1, <2>0, <2>1 DEF Sound, Sink
<1> QED
  BY <1>3, <1>4, <1>5, <1>6 DEF Honest

\* Every operation keeps the store and the log sound.
LEMMA ShapeSound ==
    ASSUME NEW m, IsStore(m), NEW d, IsDisk(d), NEW dn, NEW e, Honest(e, dn),
           NEW o, Shape(o, m, d, e), Sound(m, dn), Sound(d.base, dn), Sound(d.ext, dn)
    PROVE  Sound(o.mem, dn) /\ Sound(o.disk.base, dn) /\ Sound(o.disk.ext, dn)
<1>1. PICK t, b :
          /\ Evicted(t, m) /\ (b = d.base \/ Evicted(b, m))
          /\ o.mem = IF o.res = "ok" THEN Apply(t, e) ELSE t
          /\ o.disk.base = b \/ (Applies(b, e) /\ o.disk.base = Apply(b, e))
          /\ o.disk.ext \in {d.ext, b, Apply(b, e)}
  BY ShapeCases
<1>2. IsStore(t) /\ IsStore(b)
  BY <1>1, EvictedStore DEF IsDisk
<1>3. Sound(t, dn) /\ Sound(b, dn)
  BY <1>1, SoundEvicted
<1>4. Sound(Apply(t, e), dn) /\ Sound(Apply(b, e), dn)
  BY <1>2, <1>3, SoundApply
<1> QED
  BY <1>1, <1>3, <1>4

-----------------------------------------------------------------------------
(* SafeFor and Covered *)

\* A sound record is safe: each sink is pending in it or done.
LEMMA StoredIsSafe ==
    ASSUME NEW s, NEW dn, Sound(s, dn), NEW k \in DOMAIN s.recs
    PROVE  SafeFor(s, k, dn)
  BY DEF Sound, SafeFor

\* Eviction takes only records that no sink waits for.
LEMMA SafeEvicted ==
    ASSUME NEW m, NEW t, Evicted(t, m), NEW dn, Sound(m, dn), NEW k, SafeFor(m, k, dn)
    PROVE  SafeFor(t, k, dn)
<1>1. CASE k \in DOMAIN t.recs
  BY <1>1 DEF SafeFor, Evicted
<1>2. CASE k \in DOMAIN m.recs \ DOMAIN t.recs
  <2>1. m.recs[k].alarm # "pending" /\ m.recs[k].evidence # "pending"
    BY <1>2 DEF Evicted, Terminal
  <2>2. \A sink \in Sink : m.recs[k][sink] # "pending"
    BY <2>1 DEF Sink
  <2> QED
    BY <1>2, <2>2 DEF SafeFor, Sound
<1>3. CASE k \notin DOMAIN m.recs
  BY <1>3 DEF SafeFor
<1> QED
  BY <1>1, <1>2, <1>3

\* More deliveries leave an event safe.
LEMMA SafeMore ==
    ASSUME NEW s, NEW k, NEW dn, NEW dm, dn \subseteq dm, SafeFor(s, k, dn)
    PROVE  SafeFor(s, k, dm)
  BY DEF SafeFor

\* So does an honest entry.
LEMMA SafeApply ==
    ASSUME NEW s, IsStore(s), NEW dn, NEW e, Honest(e, dn), NEW k, SafeFor(s, k, dn)
    PROVE  SafeFor(Apply(s, e), k, dn)
<1>1. PICK r : r = Apply(s, e)
  OBVIOUS
<1>3. CASE e.op = "event"
  <2>1. /\ DOMAIN r.recs = DOMAIN s.recs \cup {e.key} /\ r.recs[e.key] = NewRecord(e.key)
        /\ \A j \in DOMAIN s.recs : j # e.key => r.recs[j] = s.recs[j]
    BY <1>1, <1>3, ApplyEvent DEF Honest
  <2> QED
    BY <1>1, <2>1 DEF SafeFor
<1>4. CASE e.op = "ack"
  <2>1. r.recs = s.recs
    BY <1>1, <1>4, ApplyAck
  <2> QED
    BY <1>1, <2>1 DEF SafeFor
<1>5. CASE e.op = "alarm_state"
  <2>0. /\ e.state \in AlarmState /\ e.attempts \in Nat
        /\ e.state # "pending" => <<"alarm", e.key>> \in dn
    BY <1>5, AttemptsAssumption DEF Honest, AlarmState
  <2>1. /\ DOMAIN r.recs = DOMAIN s.recs
        /\ e.key \in DOMAIN s.recs =>
               /\ r.recs[e.key].alarm = e.state
               /\ r.recs[e.key].evidence = s.recs[e.key].evidence
        /\ \A j \in DOMAIN s.recs : j # e.key => r.recs[j] = s.recs[j]
    BY <1>1, <1>5, <2>0, ApplyAlarm
  <2> QED
    BY <1>1, <2>0, <2>1 DEF SafeFor, Sink
<1>6. CASE e.op = "evidence_state"
  <2>0. /\ e.state \in EvidenceState /\ e.attempts \in Nat
        /\ e.state # "pending" => <<"evidence", e.key>> \in dn
    BY <1>6, AttemptsAssumption DEF Honest, EvidenceState
  <2>1. /\ DOMAIN r.recs = DOMAIN s.recs
        /\ e.key \in DOMAIN s.recs =>
               /\ r.recs[e.key].evidence = e.state
               /\ r.recs[e.key].alarm = s.recs[e.key].alarm
        /\ \A j \in DOMAIN s.recs : j # e.key => r.recs[j] = s.recs[j]
    BY <1>1, <1>6, <2>0, ApplyEvidence
  <2> QED
    BY <1>1, <2>0, <2>1 DEF SafeFor, Sink
<1> QED
  BY <1>3, <1>4, <1>5, <1>6 DEF Honest

\* The store acknowledges only safe events after an honest entry.
LEMMA CoveredApply ==
    ASSUME NEW s, IsStore(s), NEW dn, NEW e, Honest(e, dn), Acks(e, s, dn), Covered(s, dn)
    PROVE  Covered(Apply(s, e), dn)
<1>1. PICK r : r = Apply(s, e)
  OBVIOUS
<1>2. s.ack \in Nat
  BY Keys DEF IsStore
<1>3. \A k \in 1..r.ack : SafeFor(s, k, dn)
  <2>1. CASE e.op = "ack"
    <3>1. r.ack = IF e.cursor > s.ack THEN e.cursor ELSE s.ack
      BY <1>1, <2>1, ApplyAck
    <3>2. e.cursor \in Nat /\ e.cursor <= s.ack + 1 /\ SafeFor(s, e.cursor, dn)
      BY <2>1, Keys DEF Honest, Acks
    <3>3. \A k \in 1..r.ack : k \in 1..s.ack \/ k = e.cursor
      BY <1>2, <3>1, <3>2
    <3> QED
      BY <3>2, <3>3 DEF Covered
  <2>2. CASE e.op # "ack"
    <3>1. r.ack = s.ack
      BY <1>1, <2>2, ApplyEvent, ApplyAlarm, ApplyEvidence, HonestIsEntry DEF IsEntry
    <3> QED
      BY <3>1 DEF Covered
  <2> QED
    BY <2>1, <2>2
<1>4. \A k \in 1..r.ack : SafeFor(r, k, dn)
  BY <1>1, <1>3, SafeApply
<1> QED
  BY <1>1, <1>4 DEF Covered

\* So it does after evictions.
LEMMA CoveredEvicted ==
    ASSUME NEW m, NEW t, Evicted(t, m), NEW dn, Sound(m, dn), Covered(m, dn)
    PROVE  Covered(t, dn)
<1>1. t.ack = m.ack
  BY DEF Evicted
<1> QED
  BY <1>1, SafeEvicted DEF Covered

-----------------------------------------------------------------------------
(* Behind *)

\* A store is not ahead of itself.
LEMMA BehindSame ==
    ASSUME NEW s, IsStore(s)
    PROVE  Behind(s, s)
<1>1. s.ack \in Nat
  BY Keys DEF IsStore
<1> QED
  BY <1>1 DEF Behind

\* Evictions from the store, or from it and from the log, leave the log not behind.
LEMMA BehindEvicted ==
    ASSUME NEW m, IsStore(m), NEW t, Evicted(t, m), NEW c, Behind(m, c),
           NEW b, b = c \/ Evicted(b, m)
    PROVE  Behind(t, b)
<1>1. m.ack \in Nat
  BY Keys DEF IsStore
<1>2. t.ack = m.ack /\ t.ack <= b.ack
  BY <1>1 DEF Behind, Evicted
<1>3. DOMAIN t.recs \ Terminal(t) \subseteq DOMAIN b.recs
  BY DEF Behind, Evicted, Terminal
<1>4. CASE b = c
  BY <1>2, <1>3, <1>4 DEF Behind, Evicted
<1>5. CASE Evicted(b, m)
  BY <1>2, <1>3, <1>5 DEF Behind, Evicted
<1> QED
  BY <1>4, <1>5

\* An entry applied to the log alone, as when its sync fails.
LEMMA BehindWritten ==
    ASSUME NEW m, NEW t, IsStore(t), NEW b, IsStore(b), Evicted(t, m), Behind(t, b),
           NEW e, IsEntry(e), Fresh(e, m)
    PROVE  Behind(t, Apply(b, e))
<1>1. PICK r : r = Apply(b, e)
  OBVIOUS
<1>2. t.ack \in Nat /\ b.ack \in Nat
  BY Keys DEF IsStore
<1>3. CASE e.op = "event"
  <2>1. /\ DOMAIN r.recs = DOMAIN b.recs \cup {e.key} /\ r.ack = b.ack
        /\ \A j \in DOMAIN b.recs : j # e.key => r.recs[j] = b.recs[j]
    BY <1>1, <1>3, ApplyEvent
  <2>2. e.key \notin DOMAIN t.recs
    BY <1>3 DEF Fresh, Evicted
  <2> QED
    BY <1>1, <2>1, <2>2 DEF Behind
<1>4. CASE e.op = "ack"
  <2>1. r.recs = b.recs /\ r.ack = IF e.cursor > b.ack THEN e.cursor ELSE b.ack
    BY <1>1, <1>4, ApplyAck
  <2>2. e.cursor \in Nat
    BY <1>4, Keys DEF IsEntry
  <2>3. t.ack <= r.ack
    BY <1>2, <2>1, <2>2 DEF Behind
  <2> QED
    BY <1>1, <2>1, <2>3 DEF Behind
<1>5. CASE e.op = "alarm_state"
  <2>1. /\ DOMAIN r.recs = DOMAIN b.recs /\ r.ack = b.ack
        /\ e.key \in DOMAIN b.recs =>
               r.recs[e.key].evidence = b.recs[e.key].evidence
        /\ \A j \in DOMAIN b.recs : j # e.key => r.recs[j] = b.recs[j]
    BY <1>1, <1>5, ApplyAlarm DEF IsEntry
  <2>2. e.key \in DOMAIN t.recs => t.recs[e.key].alarm = "pending"
    BY <1>5 DEF Fresh, Evicted
  <2> QED
    BY <1>1, <2>1, <2>2 DEF Behind
<1>6. CASE e.op = "evidence_state"
  <2>1. /\ DOMAIN r.recs = DOMAIN b.recs /\ r.ack = b.ack
        /\ e.key \in DOMAIN b.recs =>
               r.recs[e.key].alarm = b.recs[e.key].alarm
        /\ \A j \in DOMAIN b.recs : j # e.key => r.recs[j] = b.recs[j]
    BY <1>1, <1>6, ApplyEvidence DEF IsEntry
  <2>2. e.key \in DOMAIN t.recs => t.recs[e.key].evidence = "pending"
    BY <1>6 DEF Fresh, Evicted
  <2> QED
    BY <1>1, <2>1, <2>2 DEF Behind
<1> QED
  BY <1>3, <1>4, <1>5, <1>6 DEF IsEntry

\* An entry applied to both.
LEMMA BehindBoth ==
    ASSUME NEW t, IsStore(t), NEW b, IsStore(b), Behind(t, b),
           NEW e, IsEntry(e), Applies(b, e)
    PROVE  Behind(Apply(t, e), Apply(b, e))
<1>1. PICK r : r = Apply(b, e)
  OBVIOUS
<1>2. PICK n : n = Apply(t, e)
  OBVIOUS
<1>3. t.ack \in Nat /\ b.ack \in Nat
  BY Keys DEF IsStore
<1>4. CASE e.op = "event"
  <2>1. /\ DOMAIN r.recs = DOMAIN b.recs \cup {e.key} /\ r.ack = b.ack
        /\ r.recs[e.key] = e.record
        /\ \A j \in DOMAIN b.recs : j # e.key => r.recs[j] = b.recs[j]
    BY <1>1, <1>4, ApplyEvent
  <2>2. /\ DOMAIN n.recs = DOMAIN t.recs \cup {e.key} /\ n.ack = t.ack
        /\ n.recs[e.key] = e.record
        /\ \A j \in DOMAIN t.recs : j # e.key => n.recs[j] = t.recs[j]
    BY <1>2, <1>4, ApplyEvent
  <2>3. DOMAIN n.recs \ Terminal(n) \subseteq DOMAIN r.recs
    BY <2>1, <2>2 DEF Behind, Terminal
  <2> QED
    BY <1>1, <1>2, <2>1, <2>2, <2>3 DEF Behind
<1>5. CASE e.op = "ack"
  <2>1. r.recs = b.recs /\ r.ack = IF e.cursor > b.ack THEN e.cursor ELSE b.ack
    BY <1>1, <1>5, ApplyAck
  <2>2. n.recs = t.recs /\ n.ack = IF e.cursor > t.ack THEN e.cursor ELSE t.ack
    BY <1>2, <1>5, ApplyAck
  <2>3. e.cursor \in Nat
    BY <1>5, Keys DEF IsEntry
  <2>4. n.ack <= r.ack
    BY <1>3, <2>1, <2>2, <2>3 DEF Behind
  <2> QED
    BY <1>1, <1>2, <2>1, <2>2, <2>4 DEF Behind, Terminal
<1>6. CASE e.op = "alarm_state"
  <2>0. e.key \in DOMAIN b.recs
    BY <1>6 DEF Applies
  <2>1. /\ DOMAIN r.recs = DOMAIN b.recs /\ r.ack = b.ack
        /\ r.recs[e.key].alarm = e.state
        /\ r.recs[e.key].evidence = b.recs[e.key].evidence
        /\ \A j \in DOMAIN b.recs : j # e.key => r.recs[j] = b.recs[j]
    BY <1>1, <1>6, <2>0, ApplyAlarm DEF IsEntry
  <2>2. /\ DOMAIN n.recs = DOMAIN t.recs /\ n.ack = t.ack
        /\ e.key \in DOMAIN t.recs =>
               /\ n.recs[e.key].alarm = e.state
               /\ n.recs[e.key].evidence = t.recs[e.key].evidence
        /\ \A j \in DOMAIN t.recs : j # e.key => n.recs[j] = t.recs[j]
    BY <1>2, <1>6, ApplyAlarm DEF IsEntry
  <2>3. DOMAIN n.recs \ Terminal(n) \subseteq DOMAIN r.recs
    BY <2>0, <2>1, <2>2 DEF Behind, Terminal
  <2> QED
    BY <1>1, <1>2, <2>1, <2>2, <2>3 DEF Behind
<1>7. CASE e.op = "evidence_state"
  <2>0. e.key \in DOMAIN b.recs
    BY <1>7 DEF Applies
  <2>1. /\ DOMAIN r.recs = DOMAIN b.recs /\ r.ack = b.ack
        /\ r.recs[e.key].evidence = e.state
        /\ r.recs[e.key].alarm = b.recs[e.key].alarm
        /\ \A j \in DOMAIN b.recs : j # e.key => r.recs[j] = b.recs[j]
    BY <1>1, <1>7, <2>0, ApplyEvidence DEF IsEntry
  <2>2. /\ DOMAIN n.recs = DOMAIN t.recs /\ n.ack = t.ack
        /\ e.key \in DOMAIN t.recs =>
               /\ n.recs[e.key].evidence = e.state
               /\ n.recs[e.key].alarm = t.recs[e.key].alarm
        /\ \A j \in DOMAIN t.recs : j # e.key => n.recs[j] = t.recs[j]
    BY <1>2, <1>7, ApplyEvidence DEF IsEntry
  <2>3. DOMAIN n.recs \ Terminal(n) \subseteq DOMAIN r.recs
    BY <2>0, <2>1, <2>2 DEF Behind, Terminal
  <2> QED
    BY <1>1, <1>2, <2>1, <2>2, <2>3 DEF Behind
<1> QED
  BY <1>4, <1>5, <1>6, <1>7 DEF IsEntry

-----------------------------------------------------------------------------
(* One operation *)

\* An operation that leaves a clean log leaves it not behind the store, and both
\* acknowledge only safe events.
LEMMA ShapeSafe ==
    ASSUME NEW m, IsStore(m), NEW d, IsDisk(d), NEW dn, NEW e, Honest(e, dn), Fresh(e, m),
           NEW o, Shape(o, m, d, e), Sound(m, dn), Behind(m, d.base), Covered(m, dn),
           Covered(d.base, dn), Acks(e, m, dn), Acks(e, d.base, dn), o.disk.tail = "clean"
    PROVE  Covered(o.mem, dn) /\ Covered(o.disk.base, dn) /\ Behind(o.mem, o.disk.base)
<1>1. PICK t, b :
          /\ Evicted(t, m) /\ (b = d.base \/ Evicted(b, m))
          /\ o.mem = IF o.res = "ok" THEN Apply(t, e) ELSE t
          /\ o.disk.base = b \/ (Applies(b, e) /\ o.disk.base = Apply(b, e))
          /\ o.disk.ext \in {d.ext, b, Apply(b, e)}
          /\ o.res = "ok" /\ o.disk.tail = "clean" =>
                 Applies(b, e) /\ o.disk.base = Apply(b, e)
  BY ShapeCases
<1>2. IsStore(t) /\ IsStore(b) /\ IsEntry(e)
  BY <1>1, EvictedStore, HonestIsEntry DEF IsDisk
<1>3. \A s : Evicted(s, m) => Covered(s, dn) /\ Acks(e, s, dn)
  BY CoveredEvicted, SafeEvicted DEF Acks, Evicted
<1>4. Covered(t, dn) /\ Covered(b, dn) /\ Acks(e, t, dn) /\ Acks(e, b, dn)
  BY <1>1, <1>3
<1>5. Covered(Apply(t, e), dn) /\ Covered(Apply(b, e), dn)
  BY <1>2, <1>4, CoveredApply
<1>6. Behind(t, b)
  BY <1>1, BehindEvicted
<1>7. Behind(t, Apply(b, e)) /\ (Applies(b, e) => Behind(Apply(t, e), Apply(b, e)))
  BY <1>1, <1>2, <1>6, BehindWritten, BehindBoth
<1> QED
  BY <1>1, <1>4, <1>5, <1>6, <1>7

\* What was safe stays so.
LEMMA ShapeSafeFor ==
    ASSUME NEW m, IsStore(m), NEW d, IsDisk(d), NEW dn, NEW e, Honest(e, dn),
           NEW o, Shape(o, m, d, e), Sound(m, dn),
           NEW k, SafeFor(m, k, dn), SafeFor(d.base, k, dn)
    PROVE  SafeFor(o.mem, k, dn) /\ SafeFor(o.disk.base, k, dn)
<1>1. PICK t, b :
          /\ Evicted(t, m) /\ (b = d.base \/ Evicted(b, m))
          /\ o.mem = IF o.res = "ok" THEN Apply(t, e) ELSE t
          /\ o.disk.base = b \/ (Applies(b, e) /\ o.disk.base = Apply(b, e))
  BY ShapeCases
<1>2. IsStore(t) /\ IsStore(b)
  BY <1>1, EvictedStore DEF IsDisk
<1>3. SafeFor(t, k, dn) /\ SafeFor(b, k, dn)
  BY <1>1, SafeEvicted
<1>4. SafeFor(Apply(t, e), k, dn) /\ SafeFor(Apply(b, e), k, dn)
  BY <1>2, <1>3, SafeApply
<1> QED
  BY <1>1, <1>3, <1>4

\* An event that is told to be stored is safe in the store and in a clean log.
LEMMA ShapeStored ==
    ASSUME NEW m, IsStore(m), NEW d, IsDisk(d), NEW dn, NEW e, Honest(e, dn), e.op = "event",
           NEW o, Shape(o, m, d, e), o.res = "ok", o.disk.tail = "clean"
    PROVE  SafeFor(o.mem, e.key, dn) /\ SafeFor(o.disk.base, e.key, dn)
<1>1. PICK t, b :
          /\ Evicted(t, m) /\ (b = d.base \/ Evicted(b, m))
          /\ o.mem = IF o.res = "ok" THEN Apply(t, e) ELSE t
          /\ o.res = "ok" /\ o.disk.tail = "clean" =>
                 Applies(b, e) /\ o.disk.base = Apply(b, e)
  BY ShapeCases
<1>2. IsStore(t) /\ IsStore(b)
  BY <1>1, EvictedStore DEF IsDisk
<1>3. ASSUME NEW s, IsStore(s)
      PROVE  SafeFor(Apply(s, e), e.key, dn)
  <2>1. PICK r : r = Apply(s, e)
    OBVIOUS
  <2>2. e.key \in DOMAIN r.recs /\ r.recs[e.key] = NewRecord(e.key)
    BY <1>3, <2>1, ApplyEvent DEF Honest
  <2> QED
    BY <2>1, <2>2 DEF SafeFor
<1> QED
  BY <1>1, <1>2, <1>3

\* Eviction under Sound needs no more than Sound.
LEMMA SoundIsPlain ==
    ASSUME NEW s, NEW dn, Sound(s, dn)
    PROVE  Plain(s)
  BY DEF Sound, Plain

\* What every operation of a running daemon keeps.
Kept ==
    /\ up' /\ limit' \in Limits /\ IsStore(mem') /\ file' \in {"open", "nil"}
    /\ IsDisk(disk') /\ aligned' \in BOOLEAN
    /\ LogBounded' /\ Sounds' /\ Aligned'
    /\ aligned' => /\ Covered(disk'.base, done') /\ Covered(mem', done')
                   /\ Behind(mem', disk'.base) /\ disk'.tail = "clean"
                   /\ \A k : SafeFor(mem, k, done) /\ SafeFor(disk.base, k, done) =>
                             SafeFor(mem', k, done') /\ SafeFor(disk'.base, k, done')

\* A call of Enqueue, Ack or Mark* that writes an honest and fresh entry keeps it.
LEMMA OperationKept ==
    ASSUME IndInv, up, NEW e, Honest(e, done'), Fresh(e, mem), done \subseteq done',
           aligned => Acks(e, mem, done) /\ Acks(e, disk.base, done),
           NEW o, Shape(o, mem, disk, e), Becomes(o), Noted
    PROVE  Kept
<1>0. /\ IsStore(mem) /\ IsDisk(disk) /\ limit \in Limits /\ aligned \in BOOLEAN
      /\ up \in BOOLEAN
      /\ mem' = o.mem /\ disk' = o.disk /\ file' = o.file /\ up' = up /\ limit' = limit
      /\ aligned' = (aligned /\ (up' => disk'.tail = "clean"))
  BY DEF IndInv, Types, Becomes, Noted
<1>1. IsStore(mem') /\ IsDisk(disk') /\ file' \in {"open", "nil"}
  BY <1>0, HonestIsEntry, ShapeTypes
<1>2. LogBounded'
  BY <1>0 DEF IndInv, LogBounded, Shape, Size
<1>3. /\ Sound(mem, done') /\ Sound(disk.base, done') /\ Sound(disk.ext, done')
  BY SoundMore DEF IndInv, Sounds
<1>4. Sounds'
  BY <1>0, <1>3, ShapeSound DEF Sounds
<1>5. Aligned'
  BY <1>0 DEF Aligned
<1>6. ASSUME aligned'
      PROVE  /\ Covered(disk'.base, done') /\ Covered(mem', done')
             /\ Behind(mem', disk'.base) /\ disk'.tail = "clean"
  <2>1. aligned /\ o.disk.tail = "clean"
    BY <1>0, <1>6
  <2>2. Covered(disk.base, done) /\ Behind(mem, disk.base) /\ Covered(mem, done)
    BY <2>1 DEF IndInv, Safe
  <2>3. Covered(disk.base, done') /\ Covered(mem, done')
    BY <2>2, SafeMore DEF Covered
  <2>4. Acks(e, mem, done') /\ Acks(e, disk.base, done')
    BY <2>1, SafeMore DEF Acks
  <2> QED
    BY <1>0, <1>3, <2>1, <2>2, <2>3, <2>4, ShapeSafe
<1>7. ASSUME NEW k, SafeFor(mem, k, done), SafeFor(disk.base, k, done)
      PROVE  SafeFor(mem', k, done') /\ SafeFor(disk'.base, k, done')
  <2>1. SafeFor(mem, k, done') /\ SafeFor(disk.base, k, done')
    BY <1>7, SafeMore
  <2> QED
    BY <1>0, <1>3, <2>1, ShapeSafeFor
<1> QED
  BY <1>0, <1>1, <1>2, <1>4, <1>5, <1>6, <1>7 DEF Kept

\* An operation that finds nothing to do keeps it as well.
LEMMA IdleKept ==
    ASSUME IndInv, up, up' = up, limit' = limit, mem' = mem, disk' = disk,
           file' \in {"open", "nil"}, done \subseteq done', Noted
    PROVE  Kept
<1>1. /\ IsStore(mem) /\ IsDisk(disk) /\ limit \in Limits /\ aligned \in BOOLEAN
      /\ up \in BOOLEAN /\ aligned' = (aligned /\ (up' => disk'.tail = "clean"))
  BY DEF IndInv, Types, Noted
<1>2. LogBounded' /\ Aligned'
  BY <1>1 DEF IndInv, LogBounded, Aligned, Size
<1>3. Sounds'
  BY SoundMore DEF IndInv, Sounds
<1>4. \A k : SafeFor(mem, k, done) /\ SafeFor(disk.base, k, done) =>
             SafeFor(mem', k, done') /\ SafeFor(disk'.base, k, done')
  BY SafeMore
<1>5. aligned' => /\ Covered(disk'.base, done') /\ Covered(mem', done')
                  /\ Behind(mem', disk'.base) /\ disk'.tail = "clean"
  BY <1>1, SafeMore DEF IndInv, Safe, Covered
<1> QED
  BY <1>1, <1>2, <1>3, <1>4, <1>5 DEF Kept

\* From what an operation keeps to the invariant.
LEMMA KeptIndInv ==
    ASSUME Kept, running' \in BOOLEAN, handled' \in Key \cup {0},
           done' \in SUBSET ({"alarm", "evidence"} \X Key),
           handled' # 0 => running' /\ handled' = mem'.ack + 1,
           aligned' /\ handled' # 0 => /\ SafeFor(mem', handled', done')
                                       /\ SafeFor(disk'.base, handled', done')
    PROVE  IndInv'
<1>1. Types'
  BY DEF Kept, Types
<1>2. Ingest'
  BY DEF Kept, Ingest
<1>3. Safe'
  BY DEF Kept, Safe
<1> QED
  BY <1>1, <1>2, <1>3 DEF Kept, IndInv

-----------------------------------------------------------------------------
(* The actions *)

\* ingest stores the next event.
LEMMA StoreStep ==
    ASSUME IndInv, NEW res \in Result, Store(res)
    PROVE  IndInv'
<1> DEFINE k == mem.ack + 1
           e == EventEntry(k, NewRecord(k))
<1>0. /\ IsStore(mem) /\ IsDisk(disk) /\ limit \in Limits /\ file \in {"open", "nil"}
      /\ done \in SUBSET ({"alarm", "evidence"} \X Key)
      /\ Sound(mem, done) /\ Sound(disk.base, done)
  BY DEF IndInv, Types, Sounds
<1>1. /\ running /\ handled = 0 /\ k \in Key /\ up /\ Noted /\ done' = done
      /\ handled' = IF res \in {"ok", "exists", "dropped"} THEN k ELSE 0
      /\ running' = (res # "capacity")
  BY DEF Store, Enqueue
<1>2. PICK o \in EnqueueOutcomes(k) : o.res = res /\ Becomes(o)
  BY DEF Store, Enqueue
<1>3. /\ Shape(o, mem, disk, e)
      /\ o.res = "exists" => k \in DOMAIN mem.recs
      /\ k \in DOMAIN mem.recs => o.mem = mem /\ o.disk = disk
      /\ o.res = "dropped" => Stream[k].phase = "UPDATE"
  BY <1>0, <1>1, <1>2, SoundIsPlain, EnqueueShape
<1>4. e.op = "event" /\ e.key = k /\ e.record = NewRecord(k)
  BY DEF EventEntry
<1> HIDE DEF e
<1>5. Honest(e, done') /\ IsEntry(e)
  BY <1>1, <1>4, HonestIsEntry DEF Honest
<1>6. mem' = o.mem /\ disk' = o.disk /\ file' = o.file /\ up' = up /\ limit' = limit
  BY <1>2 DEF Becomes
<1>7. Kept
  <2>1. CASE k \in DOMAIN mem.recs
    <3>1. mem' = mem /\ disk' = disk /\ file' \in {"open", "nil"}
      BY <1>0, <1>3, <1>5, <1>6, <2>1, ShapeTypes
    <3> QED
      BY <1>1, <1>6, <3>1, IdleKept
  <2>2. CASE k \notin DOMAIN mem.recs
    <3>1. Fresh(e, mem) /\ Acks(e, mem, done) /\ Acks(e, disk.base, done)
      BY <1>4, <2>2 DEF Fresh, Acks
    <3> QED
      BY <1>1, <1>2, <1>3, <1>5, <3>1, OperationKept
  <2> QED
    BY <2>1, <2>2
<1>8. mem'.ack = mem.ack
  BY <1>0, <1>3, <1>4, <1>5, <1>6, ShapeAck
<1>9. ASSUME aligned', handled' # 0
      PROVE  SafeFor(mem', handled', done') /\ SafeFor(disk'.base, handled', done')
  <2>1. handled' = k /\ res \in {"ok", "exists", "dropped"}
    BY <1>1, <1>9
  <2>2. CASE res = "ok"
    <3>1. o.disk.tail = "clean"
      BY <1>6, <1>7, <1>9 DEF Kept
    <3> QED
      BY <1>0, <1>2, <1>3, <1>4, <1>5, <1>6, <2>1, <2>2, <3>1, ShapeStored
  <2>3. CASE res = "exists"
    <3>1. k \in DOMAIN mem.recs /\ mem' = mem /\ disk' = disk
      BY <1>2, <1>3, <1>6, <2>3
    <3>2. SafeFor(mem, k, done)
      BY <1>0, <3>1, StoredIsSafe
    <3>3. Behind(mem, disk.base)
      BY <1>7, <1>9, <3>1 DEF Kept
    <3>4. SafeFor(disk.base, k, done)
      <4>1. CASE k \in DOMAIN disk.base.recs
        BY <1>0, <4>1, StoredIsSafe
      <4>2. CASE k \notin DOMAIN disk.base.recs
        <5>1. mem.recs[k].alarm # "pending" /\ mem.recs[k].evidence # "pending"
          BY <3>1, <3>3, <4>2 DEF Behind, Terminal
        <5>2. \A sink \in Sink : mem.recs[k][sink] # "pending"
          BY <5>1 DEF Sink
        <5> QED
          BY <1>0, <3>1, <5>2 DEF SafeFor, Sound
      <4> QED
        BY <4>1, <4>2
    <3> QED
      BY <1>1, <2>1, <3>1, <3>2, <3>4
  <2>4. CASE res = "dropped"
    <3>1. Stream[k].phase = "UPDATE"
      BY <1>2, <1>3, <2>4
    <3> QED
      BY <2>1, <3>1 DEF SafeFor
  <2> QED
    BY <2>1, <2>2, <2>3, <2>4
<1>10. handled' # 0 => running' /\ handled' = mem'.ack + 1
  BY <1>1, <1>8
<1> QED
  BY <1>0, <1>1, <1>7, <1>9, <1>10, KeptIndInv

\* ingest acknowledges it.
LEMMA AcknowledgeStep ==
    ASSUME IndInv, NEW res \in Result, Acknowledge(res)
    PROVE  IndInv'
<1> DEFINE e == AckEntry(handled)
<1>0. /\ IsStore(mem) /\ IsDisk(disk) /\ limit \in Limits /\ file \in {"open", "nil"}
      /\ handled \in Key /\ handled = mem.ack + 1
      /\ done \in SUBSET ({"alarm", "evidence"} \X Key)
  BY DEF IndInv, Types, Ingest, Acknowledge
<1>1. /\ up /\ Noted /\ done' = done /\ handled' = 0 /\ running' = (res # "capacity")
      /\ Ack(handled, res)
  BY DEF Acknowledge, Ack
<1>2. CASE file = "open" /\ handled <= mem.ack
  <2>1. UNCHANGED storeVars
    BY <1>1, <1>2 DEF Ack
  <2>2. Kept
    BY <1>0, <1>1, <2>1, IdleKept DEF storeVars
  <2> QED
    BY <1>0, <1>1, <2>2, KeptIndInv
<1>3. CASE ~(file = "open" /\ handled <= mem.ack)
  <2>1. PICK o \in AppendLocked(e) : o.res = res /\ Becomes(o)
    BY <1>1, <1>3 DEF Ack
  <2>2. e.op = "ack" /\ e.cursor = handled
    BY DEF AckEntry
  <2> HIDE DEF e
  <2>3. Shape(o, mem, disk, e)
    BY <1>0, LockedShape
  <2>4. Honest(e, done') /\ Fresh(e, mem)
    BY <1>0, <2>2 DEF Honest, Fresh
  <2>5. ASSUME aligned
        PROVE  Acks(e, mem, done) /\ Acks(e, disk.base, done)
    <3>1. /\ Behind(mem, disk.base) /\ SafeFor(mem, handled, done)
          /\ SafeFor(disk.base, handled, done)
      BY <1>0, <1>1, <2>5, Keys DEF IndInv, Safe
    <3>2. mem.ack \in Nat /\ disk.base.ack \in Nat /\ mem.ack <= disk.base.ack
      BY <1>0, <3>1, Keys DEF IsStore, IsDisk, Behind
    <3>3. handled <= mem.ack + 1 /\ handled <= disk.base.ack + 1
      BY <1>0, <3>2
    <3> QED
      BY <2>2, <3>1, <3>3 DEF Acks
  <2>6. Kept
    BY <1>1, <2>1, <2>3, <2>4, <2>5, OperationKept
  <2> QED
    BY <1>0, <1>1, <2>6, KeptIndInv
<1> QED
  BY <1>2, <1>3

\* A delivery loop reports what became of a pending sink.
LEMMA MarkStep ==
    ASSUME IndInv, NEW k \in DOMAIN mem.recs, NEW e, NEW res, Mark(k, e, res),
           Honest(e, done'), Fresh(e, mem), e.op # "ack", done \subseteq done',
           done' \in SUBSET ({"alarm", "evidence"} \X Key), Noted,
           UNCHANGED <<running, handled>>
    PROVE  IndInv'
<1>0. /\ IsStore(mem) /\ IsDisk(disk) /\ limit \in Limits /\ file \in {"open", "nil"}
      /\ running \in BOOLEAN /\ handled \in Key \cup {0}
  BY DEF IndInv, Types
<1>1. up
  BY DEF Mark
<1>2. PICK o \in AppendLocked(e) : o.res = res /\ Becomes(o)
  BY DEF Mark
<1>3. Shape(o, mem, disk, e)
  BY <1>0, LockedShape
<1>4. Acks(e, mem, done) /\ Acks(e, disk.base, done)
  BY DEF Acks
<1>5. Kept
  BY <1>1, <1>2, <1>3, <1>4, OperationKept
<1>6. mem'.ack = mem.ack
  BY <1>0, <1>2, <1>3, HonestIsEntry, ShapeAck DEF Becomes
<1>7. handled' # 0 => running' /\ handled' = mem'.ack + 1
  BY <1>6 DEF IndInv, Ingest
<1>8. ASSUME aligned', handled' # 0
      PROVE  SafeFor(mem', handled', done') /\ SafeFor(disk'.base, handled', done')
  <2>1. aligned
    BY <1>8 DEF Noted
  <2>2. SafeFor(mem, handled, done) /\ SafeFor(disk.base, handled, done)
    BY <1>1, <1>8, <2>1 DEF IndInv, Safe
  <2> QED
    BY <1>5, <1>8, <2>2 DEF Kept
<1> QED
  BY <1>0, <1>5, <1>7, <1>8, KeptIndInv

\* The alarm went out.
LEMMA AlarmSentStep ==
    ASSUME IndInv, NEW k \in Key, NEW res \in Result, AlarmSent(k, res)
    PROVE  IndInv'
<1> DEFINE e == AlarmEntry(k, "sent", mem.recs[k].alarmAttempts)
<1>1. /\ k \in DOMAIN mem.recs /\ mem.recs[k].alarm = "pending" /\ Mark(k, e, res)
      /\ done' = done \cup {<<"alarm", k>>} /\ Noted /\ UNCHANGED <<running, handled>>
  BY DEF AlarmSent, PendingAlarms, MarkAlarmSent
<1>2. /\ e.op = "alarm_state" /\ e.key = k /\ e.state = "sent"
      /\ e.attempts = mem.recs[k].alarmAttempts
  BY DEF AlarmEntry
<1>3. mem.recs[k].alarmAttempts \in 0..MaxAttempts
  <2>1. mem.recs[k] \in Record /\ mem.recs[k].alarmAttempts <= MaxAttempts
    BY <1>1 DEF IndInv, Types, Sounds, Sound, IsStore
  <2> QED
    BY <2>1, AttemptsAssumption DEF Record
<1>4. done' \in SUBSET ({"alarm", "evidence"} \X Key) /\ <<"alarm", k>> \in done'
  BY <1>1 DEF IndInv, Types
<1> HIDE DEF e
<1>5. Honest(e, done') /\ Fresh(e, mem)
  BY <1>1, <1>2, <1>3, <1>4 DEF Honest, Fresh
<1> QED
  BY <1>1, <1>2, <1>4, <1>5, MarkStep

\* The alarm did not go out.
LEMMA AlarmFailedStep ==
    ASSUME IndInv, NEW k \in Key, NEW res \in Result, AlarmFailed(k, res)
    PROVE  IndInv'
<1> DEFINE terminal == mem.recs[k].alarmAttempts + 1 >= MaxAttempts
           e == AlarmEntry(k, IF terminal THEN "dead" ELSE "pending",
                           mem.recs[k].alarmAttempts + 1)
<1>1. /\ k \in DOMAIN mem.recs /\ mem.recs[k].alarm = "pending" /\ Mark(k, e, res)
      /\ done' = IF terminal THEN done \cup {<<"alarm", k>>} ELSE done
      /\ Noted /\ UNCHANGED <<running, handled>>
  BY DEF AlarmFailed, PendingAlarms, MarkAlarmAttempt
<1>2. /\ e.op = "alarm_state" /\ e.key = k /\ e.state = IF terminal THEN "dead" ELSE "pending"
      /\ e.attempts = mem.recs[k].alarmAttempts + 1
  BY DEF AlarmEntry
<1>3. mem.recs[k].alarmAttempts \in Nat /\ mem.recs[k].alarmAttempts < MaxAttempts
  <2>1. mem.recs[k] \in Record /\ mem.recs[k].alarmAttempts < MaxAttempts
    BY <1>1 DEF IndInv, Types, Sounds, Sound, IsStore
  <2> QED
    BY <2>1 DEF Record
<1>4. /\ e.attempts \in 0..MaxAttempts
      /\ ~terminal => e.attempts < MaxAttempts
  BY <1>2, <1>3, AttemptsAssumption
<1>5. /\ done' \in SUBSET ({"alarm", "evidence"} \X Key) /\ done \subseteq done'
      /\ terminal => <<"alarm", k>> \in done'
  BY <1>1 DEF IndInv, Types
<1> HIDE DEF e, terminal
<1>6. Honest(e, done') /\ Fresh(e, mem)
  BY <1>1, <1>2, <1>4, <1>5 DEF Honest, Fresh
<1> QED
  BY <1>1, <1>2, <1>5, <1>6, MarkStep

\* The evidence went out.
LEMMA EvidenceSentStep ==
    ASSUME IndInv, NEW k \in Key, NEW res \in Result, EvidenceSent(k, res)
    PROVE  IndInv'
<1> DEFINE e == EvidenceEntry(k, "sent", mem.recs[k].evidenceAttempts)
<1>1. /\ k \in DOMAIN mem.recs /\ mem.recs[k].evidence = "pending" /\ Mark(k, e, res)
      /\ done' = done \cup {<<"evidence", k>>} /\ Noted /\ UNCHANGED <<running, handled>>
  BY DEF EvidenceSent, PendingEvidence, MarkEvidenceSent
<1>2. /\ e.op = "evidence_state" /\ e.key = k /\ e.state = "sent"
      /\ e.attempts = mem.recs[k].evidenceAttempts
  BY DEF EvidenceEntry
<1>3. mem.recs[k].evidenceAttempts \in 0..MaxAttempts
  <2>1. mem.recs[k] \in Record /\ mem.recs[k].evidenceAttempts <= MaxAttempts
    BY <1>1 DEF IndInv, Types, Sounds, Sound, IsStore
  <2> QED
    BY <2>1, AttemptsAssumption DEF Record
<1>4. done' \in SUBSET ({"alarm", "evidence"} \X Key) /\ <<"evidence", k>> \in done'
  BY <1>1 DEF IndInv, Types
<1> HIDE DEF e
<1>5. Honest(e, done') /\ Fresh(e, mem)
  BY <1>1, <1>2, <1>3, <1>4 DEF Honest, Fresh
<1> QED
  BY <1>1, <1>2, <1>4, <1>5, MarkStep

\* The evidence did not go out.
LEMMA EvidenceFailedStep ==
    ASSUME IndInv, NEW k \in Key, NEW res \in Result, EvidenceFailed(k, res)
    PROVE  IndInv'
<1> DEFINE terminal == mem.recs[k].evidenceAttempts + 1 >= MaxAttempts
           e == EvidenceEntry(k, IF terminal THEN "dead" ELSE "pending",
                              mem.recs[k].evidenceAttempts + 1)
<1>1. /\ k \in DOMAIN mem.recs /\ mem.recs[k].evidence = "pending" /\ Mark(k, e, res)
      /\ done' = IF terminal THEN done \cup {<<"evidence", k>>} ELSE done
      /\ Noted /\ UNCHANGED <<running, handled>>
  BY DEF EvidenceFailed, PendingEvidence, MarkEvidenceAttempt
<1>2. /\ e.op = "evidence_state" /\ e.key = k
      /\ e.state = IF terminal THEN "dead" ELSE "pending"
      /\ e.attempts = mem.recs[k].evidenceAttempts + 1
  BY DEF EvidenceEntry
<1>3. mem.recs[k].evidenceAttempts \in Nat /\ mem.recs[k].evidenceAttempts < MaxAttempts
  <2>1. mem.recs[k] \in Record /\ mem.recs[k].evidenceAttempts < MaxAttempts
    BY <1>1 DEF IndInv, Types, Sounds, Sound, IsStore
  <2> QED
    BY <2>1 DEF Record
<1>4. /\ e.attempts \in 0..MaxAttempts
      /\ ~terminal => e.attempts < MaxAttempts
  BY <1>2, <1>3, AttemptsAssumption
<1>5. /\ done' \in SUBSET ({"alarm", "evidence"} \X Key) /\ done \subseteq done'
      /\ terminal => <<"evidence", k>> \in done'
  BY <1>1 DEF IndInv, Types
<1> HIDE DEF e, terminal
<1>6. Honest(e, done') /\ Fresh(e, mem)
  BY <1>1, <1>2, <1>4, <1>5 DEF Honest, Fresh
<1> QED
  BY <1>1, <1>2, <1>5, <1>6, MarkStep

\* A store without records is sound and acknowledges nothing.
LEMMA EmptyFacts ==
    ASSUME NEW dn
    PROVE  IsStore(EmptyStore) /\ Sound(EmptyStore, dn) /\ Covered(EmptyStore, dn)
<1>1. DOMAIN EmptyStore.recs = {} /\ EmptyStore.ack = 0 /\ DOMAIN EmptyStore = {"recs", "ack"}
  BY DEF EmptyStore
<1>2. 0 \in 0..Len(Stream) /\ 1..0 = {}
  BY Keys
<1> QED
  BY <1>1, <1>2 DEF IsStore, Sound, Covered

\* A start takes over what the log says.
LEMMA StartStep ==
    ASSUME IndInv, Start
    PROVE  IndInv'
<1>0. /\ IsDisk(disk) /\ Sound(disk.base, done) /\ Sound(disk.ext, done)
      /\ aligned \in BOOLEAN /\ done \in SUBSET ({"alarm", "evidence"} \X Key)
  BY DEF IndInv, Types, Sounds
<1>1. PICK l \in Limits : Open(l)
  BY DEF Start
<1>2. PICK s : s = Loaded(disk)
  OBVIOUS
<1>3. PICK d : d = Recovered(disk)
  OBVIOUS
<1>4. /\ ~up /\ up' = TRUE /\ limit' = l /\ mem' = s /\ file' = "open"
      /\ \/ Size(d) <= l.bytes /\ disk' = d
         \/ SnapshotSize(s) <= l.bytes /\ disk' = Compacted(s)
  BY <1>1, <1>2, <1>3 DEF Open
<1>5. /\ running' = TRUE /\ handled' = 0 /\ done' = done
      /\ aligned' = (aligned /\ (up' => disk'.tail = "clean"))
  BY DEF Start, Noted
<1>6. /\ IsDisk(d) /\ IsStore(s) /\ d.base = disk.base /\ d.ext = disk.ext
      /\ d.tail = IF disk.tail = "noeol" THEN "noeol" ELSE "clean"
      /\ s = IF disk.tail = "noeol" THEN disk.ext ELSE disk.base
  BY <1>0, <1>2, <1>3, RecoveredFields
<1>7. /\ Size(Compacted(s)) = SnapshotSize(s) /\ IsDisk(Compacted(s))
      /\ Compacted(s).base = s /\ Compacted(s).ext = s
  BY <1>6, CompactedSize
<1>8. IsDisk(disk') /\ Size(disk') <= l.bytes
  BY <1>4, <1>6, <1>7
<1>9. Types'
  BY <1>0, <1>4, <1>5, <1>6, <1>8 DEF Types
<1>10. LogBounded'
  BY <1>4, <1>8 DEF LogBounded, Size
<1>11. Sounds'
  BY <1>0, <1>4, <1>5, <1>6, <1>7 DEF Sounds
<1>12. Ingest' /\ Aligned'
  BY <1>4, <1>5 DEF Ingest, Aligned
<1>13. Safe'
  <2> SUFFICES ASSUME aligned'
               PROVE  /\ Covered(disk'.base, done') /\ Covered(mem', done')
                      /\ Behind(mem', disk'.base) /\ disk'.tail # "noeol"
    BY <1>5 DEF Safe
  <2>1. aligned /\ disk'.tail = "clean"
    BY <1>4, <1>5
  <2>2. Covered(s, done)
    BY <1>6, <2>1 DEF IndInv, Safe
  <2>3. disk'.base = s
    BY <1>4, <1>6, <1>7, <2>1
  <2> QED
    BY <1>4, <1>5, <1>6, <2>1, <2>2, <2>3, BehindSame
<1> QED
  BY <1>9, <1>10, <1>11, <1>12, <1>13 DEF IndInv

\* A start that fails may have cut the tail off or compacted the log.
LEMMA StartFailsStep ==
    ASSUME IndInv, StartFails
    PROVE  IndInv'
<1>0. /\ IsDisk(disk) /\ Sound(disk.base, done) /\ Sound(disk.ext, done)
      /\ aligned \in BOOLEAN
  BY DEF IndInv, Types, Sounds
<1>1. PICK l \in Limits : OpenFails(l)
  BY DEF StartFails
<1>2. PICK s : s = Loaded(disk)
  OBVIOUS
<1>3. PICK d : d = Recovered(disk)
  OBVIOUS
<1>4. /\ ~up /\ disk' \in {disk, d, Compacted(s)}
      /\ UNCHANGED <<up, limit, mem, file, running, handled, done>>
      /\ aligned' = (aligned /\ (up' => disk'.tail = "clean"))
  BY <1>1, <1>2, <1>3 DEF OpenFails, StartFails, Noted
<1>5. aligned' = aligned
  BY <1>0, <1>4
<1>6. /\ IsDisk(d) /\ IsStore(s) /\ d.base = disk.base /\ d.ext = disk.ext
      /\ d.tail = IF disk.tail = "noeol" THEN "noeol" ELSE "clean"
      /\ s = IF disk.tail = "noeol" THEN disk.ext ELSE disk.base
  BY <1>0, <1>2, <1>3, RecoveredFields
<1>7. /\ IsDisk(Compacted(s)) /\ Compacted(s).tail = "clean"
      /\ Compacted(s).base = s /\ Compacted(s).ext = s
  BY <1>6, CompactedSize
<1>8. Types'
  BY <1>0, <1>4, <1>5, <1>6, <1>7 DEF IndInv, Types
<1>9. LogBounded'
  BY <1>4 DEF LogBounded
<1>10. Sounds'
  BY <1>0, <1>4, <1>6, <1>7 DEF IndInv, Sounds
<1>11. Ingest'
  BY <1>4 DEF IndInv, Ingest
<1>12. ~up'
  BY <1>4
<1>13. ASSUME aligned
       PROVE  /\ disk'.tail \in {"clean", "torn", "noeol"} /\ Covered(disk'.base, done)
              /\ disk'.tail = "noeol" => Covered(disk'.ext, done)
  <2>1. /\ disk.tail \in {"clean", "torn", "noeol"} /\ Covered(disk.base, done)
        /\ disk.tail = "noeol" => Covered(disk.ext, done)
    BY <1>4, <1>13 DEF IndInv, Aligned, Safe
  <2>2. CASE disk' = disk
    BY <2>1, <2>2
  <2>3. CASE disk' = d
    BY <1>6, <2>1, <2>3
  <2>4. CASE disk' = Compacted(s)
    BY <1>6, <1>7, <2>1, <2>4
  <2> QED
    BY <1>4, <2>2, <2>3, <2>4
<1>14. Aligned' /\ Safe'
  BY <1>4, <1>5, <1>12, <1>13 DEF Aligned, Safe
<1> QED
  BY <1>8, <1>9, <1>10, <1>11, <1>14 DEF IndInv

\* The entries that are cut short by a power loss are honest, and safe to read.
LEMMA InFlightHonest ==
    ASSUME IndInv, up, NEW e \in InFlight
    PROVE  Honest(e, done) /\ (aligned => Acks(e, disk.base, done))
<1>0. IsStore(mem) /\ IsDisk(disk)
  BY DEF IndInv, Types
<1>1. ASSUME handled # 0, e = AckEntry(handled)
      PROVE  Honest(e, done) /\ (aligned => Acks(e, disk.base, done))
  <2>1. e.op = "ack" /\ e.cursor = handled
    BY <1>1 DEF AckEntry
  <2>2. handled \in Key /\ handled = mem.ack + 1
    BY <1>1 DEF IndInv, Types, Ingest
  <2>3. ASSUME aligned
        PROVE  SafeFor(disk.base, handled, done) /\ handled <= disk.base.ack + 1
    <3>1. Behind(mem, disk.base) /\ SafeFor(disk.base, handled, done)
      BY <1>1, <2>3 DEF IndInv, Safe
    <3>2. mem.ack \in Nat /\ disk.base.ack \in Nat /\ mem.ack <= disk.base.ack
      BY <1>0, <3>1, Keys DEF IsStore, IsDisk, Behind
    <3> QED
      BY <2>2, <3>1, <3>2
  <2> QED
    BY <2>1, <2>2, <2>3 DEF Honest, Acks
<1>2. ASSUME NEW k \in Key, e = EventEntry(k, NewRecord(k))
      PROVE  Honest(e, done) /\ Acks(e, disk.base, done)
  <2>1. e.op = "event" /\ e.key = k /\ e.record = NewRecord(k)
    BY <1>2 DEF EventEntry
  <2> QED
    BY <2>1 DEF Honest, Acks
<1>3. ASSUME NEW k \in PendingAlarms, mem.recs[k].alarmAttempts + 1 < MaxAttempts,
             e = AlarmEntry(k, "pending", mem.recs[k].alarmAttempts + 1)
      PROVE  Honest(e, done) /\ Acks(e, disk.base, done)
  <2>1. /\ e.op = "alarm_state" /\ e.key = k /\ e.state = "pending"
        /\ e.attempts = mem.recs[k].alarmAttempts + 1
    BY <1>3 DEF AlarmEntry
  <2>2. k \in Key /\ mem.recs[k] \in Record
    BY <1>0, <1>3 DEF IsStore, PendingAlarms
  <2>3. mem.recs[k].alarmAttempts \in Nat
    BY <2>2 DEF Record
  <2>4. e.attempts \in 0..MaxAttempts /\ e.attempts < MaxAttempts
    BY <1>3, <2>1, <2>3, AttemptsAssumption
  <2> QED
    BY <2>1, <2>2, <2>4 DEF Honest, Acks
<1> QED
  BY <1>1, <1>2, <1>3 DEF InFlight

\* The daemon stops, or the power goes inside an append.
LEMMA EndStep ==
    ASSUME IndInv, End
    PROVE  IndInv'
<1>0. /\ IsDisk(disk) /\ Sound(disk.base, done) /\ Sound(disk.ext, done)
      /\ aligned \in BOOLEAN
  BY DEF IndInv, Types, Sounds
<1>1. /\ up /\ up' = FALSE /\ mem' = EmptyStore /\ file' = "nil" /\ limit' = limit
      /\ running' = FALSE /\ handled' = 0 /\ done' = done
      /\ aligned' = (aligned /\ (up' => disk'.tail = "clean"))
  BY DEF End, Stop, StopInAppend, Noted
<1>2. \/ disk' = disk
      \/ \E e \in InFlight : disk' \in {WithPart(disk), WithoutNewline(disk, e)}
  BY DEF End, Stop, StopInAppend
<1>3. aligned' = aligned
  BY <1>0, <1>1
<1>4. /\ IsDisk(disk') /\ Sound(disk'.base, done) /\ Sound(disk'.ext, done)
      /\ aligned => /\ disk'.tail \in {"clean", "torn", "noeol"}
                    /\ Covered(disk'.base, done)
                    /\ disk'.tail = "noeol" => Covered(disk'.ext, done)
  <2>0. aligned => disk.tail = "clean" /\ Covered(disk.base, done)
    BY <1>1 DEF IndInv, Aligned, Safe
  <2>1. CASE disk' = disk
    BY <1>0, <2>0, <2>1
  <2>2. ASSUME NEW e \in InFlight, disk' \in {WithPart(disk), WithoutNewline(disk, e)}
        PROVE  /\ IsDisk(disk') /\ Sound(disk'.base, done) /\ Sound(disk'.ext, done)
               /\ aligned => /\ disk'.tail \in {"clean", "torn", "noeol"}
                             /\ Covered(disk'.base, done)
                             /\ disk'.tail = "noeol" => Covered(disk'.ext, done)
    <3>1. Honest(e, done) /\ IsEntry(e) /\ (aligned => Acks(e, disk.base, done))
      BY <1>1, InFlightHonest, HonestIsEntry
    <3>2. IsStore(disk.base)
      BY <1>0 DEF IsDisk
    <3>3. Sound(Apply(disk.base, e), done)
      BY <1>0, <3>1, <3>2, SoundApply
    <3>4. aligned => Covered(Apply(disk.base, e), done)
      BY <2>0, <3>1, <3>2, CoveredApply
    <3>5. PICK w : w = disk'
      OBVIOUS
    <3>6. IsDisk(w)
      BY <1>0, <2>2, <3>1, <3>5, WrittenDisk
    <3>7. CASE w = WithPart(disk)
      <4>1. /\ w.base = disk.base /\ w.ext = disk.ext /\ w.tail \in {"torn", "poisoned"}
            /\ disk.tail \notin {"glued", "poisoned"} => w.tail = "torn"
        BY <1>0, <3>7, PartFields
      <4> QED
        BY <1>0, <2>0, <3>5, <3>6, <4>1
    <3>8. CASE w = WithoutNewline(disk, e)
      <4>1. /\ w.base = disk.base
            /\ disk.tail = "clean" => w.tail = "noeol" /\ w.ext = Apply(disk.base, e)
            /\ disk.tail # "clean" => w.tail # "noeol" /\ w.ext = disk.ext
        BY <1>0, <3>8, NoNewlineFields
      <4> QED
        BY <1>0, <2>0, <3>3, <3>4, <3>5, <3>6, <4>1
    <3> QED
      BY <2>2, <3>5, <3>7, <3>8
  <2> QED
    BY <1>2, <2>1, <2>2
<1>5. Types' /\ LogBounded' /\ Sounds' /\ Ingest'
  BY <1>0, <1>1, <1>3, <1>4, EmptyFacts DEF IndInv, Types, LogBounded, Sounds, Ingest
<1>6. Aligned' /\ Safe'
  BY <1>1, <1>3, <1>4 DEF Aligned, Safe
<1> QED
  BY <1>5, <1>6 DEF IndInv

-----------------------------------------------------------------------------
(* The theorems *)

\* The invariant holds in the initial states.
LEMMA InitIndInv ==
    ASSUME Init
    PROVE  IndInv
<1>1. /\ up = FALSE /\ limit \in Limits /\ mem = EmptyStore /\ file = "nil"
      /\ disk = EmptyDisk /\ running = FALSE /\ handled = 0 /\ done = {} /\ aligned = TRUE
  BY DEF Init, StoreInit
<1>2. /\ DOMAIN disk = {"base", "ext", "tail", "used", "line"} /\ disk.base = EmptyStore
      /\ disk.ext = EmptyStore /\ disk.tail = "clean" /\ disk.used = 0 /\ disk.line = 0
  BY <1>1 DEF EmptyDisk
<1>3. IsDisk(disk)
  BY <1>2, EmptyFacts DEF IsDisk, TailStatus
<1>4. Types /\ LogBounded /\ Sounds /\ Ingest /\ Aligned
  BY <1>1, <1>2, <1>3, EmptyFacts DEF Types, LogBounded, Sounds, Ingest, Aligned
<1>5. Safe
  BY <1>1, <1>2, EmptyFacts DEF Safe
<1> QED
  BY <1>4, <1>5 DEF IndInv

\* Every step of the daemon keeps it.
LEMMA NextIndInv ==
    ASSUME IndInv, [Next]_vars
    PROVE  IndInv'
<1>1. CASE UNCHANGED vars
  <2>1. UNCHANGED <<up, limit, mem, file, disk, running, handled, done, aligned>>
    BY <1>1 DEF vars
  <2> QED
    BY <2>1 DEF IndInv, Types, LogBounded, Size, Sounds, Ingest, Aligned, Safe
<1>2. CASE Next
  BY <1>2, StoreStep, AcknowledgeStep, AlarmSentStep, AlarmFailedStep, EvidenceSentStep,
     EvidenceFailedStep, StartStep, StartFailsStep, EndStep DEF Next
<1> QED
  BY <1>1, <1>2

\* The invariant holds throughout.
THEOREM Inductive == Spec => []IndInv
<1>1. Init => IndInv
  BY InitIndInv
<1>2. IndInv /\ [Next]_vars => IndInv'
  BY NextIndInv
<1> QED
  BY <1>1, <1>2, PTL DEF Spec

\* Every variable has its type and no sink is tried more often than configured.
THEOREM AttemptsAreBounded == Spec => []TypeOK
<1>1. IndInv => TypeOK
  BY DEF IndInv, Types, Sounds, Sound, TypeOK
<1> QED
  BY <1>1, Inductive, PTL

\* appendLocked and Open keep the log of a running daemon within maxBytes.
THEOREM LogStaysBounded == Spec => []LogBounded
<1>1. IndInv => LogBounded
  BY DEF IndInv
<1> QED
  BY <1>1, Inductive, PTL

\* "Every mutation is synced before it becomes visible to callers" (outbox.go:104),
\* whatever fails, as long as the log ends with a newline when appends start and
\* load accepts its longest line.
THEOREM VisibleIsDurable == Spec => []VisibleDurable
<1>1. ASSUME IndInv, up, aligned
      PROVE  /\ Loaded(disk) = disk.base /\ Behind(mem, disk.base)
             /\ Legible(disk) => Loads(disk)
  BY <1>1 DEF IndInv, Aligned, Safe, Loaded, Loads
<1>2. IndInv => VisibleDurable
  BY <1>1 DEF VisibleDurable, Behind
<1> QED
  BY <1>2, Inductive, PTL

\* No START or END that the log acknowledges is lost to a sink, under the same
\* conditions.
THEOREM AcknowledgedIsSafe == Spec => []NoSilentLoss
<1>1. ASSUME IndInv, aligned
      PROVE  Covered(Loaded(disk), done) /\ (Legible(disk) => Loads(disk))
  BY <1>1 DEF IndInv, Aligned, Safe, Loaded, Loads
<1>2. IndInv => NoSilentLoss
  BY <1>1 DEF NoSilentLoss, AckedRecoverable, Covered, SafeFor, Sink
<1> QED
  BY <1>2, Inductive, PTL

-----------------------------------------------------------------------------
(* What a running daemon does to its store *)

\* An operation of the outbox writes one well-formed entry.
Operation == \E e, o : IsEntry(e) /\ Shape(o, mem, disk, e) /\ Becomes(o)

\* A step of a running daemon is an operation, or leaves the store alone.
LEMMA StepIsOperation ==
    ASSUME IndInv, Next, up, up'
    PROVE  Operation \/ UNCHANGED <<mem, disk>>
<1>0. /\ IsStore(mem) /\ IsDisk(disk) /\ limit \in Limits /\ file \in {"open", "nil"}
      /\ Plain(mem)
  BY SoundIsPlain DEF IndInv, Types, Sounds
<1>1. ASSUME NEW res \in Result, Store(res)
      PROVE  Operation \/ UNCHANGED <<mem, disk>>
  <2>1. PICK k : k = mem.ack + 1
    OBVIOUS
  <2>2. PICK e : e = EventEntry(k, NewRecord(k))
    OBVIOUS
  <2>3. k \in Key /\ \E o \in EnqueueOutcomes(k) : Becomes(o)
    BY <1>1, <2>1 DEF Store, Enqueue
  <2>4. IsEntry(e)
    BY <2>2, <2>3, NewRecordType DEF IsEntry, EventEntry
  <2> QED
    BY <1>0, <2>2, <2>3, <2>4, EnqueueShape DEF Operation
<1>2. ASSUME NEW res \in Result, Acknowledge(res)
      PROVE  Operation \/ UNCHANGED <<mem, disk>>
  <2>1. PICK e : e = AckEntry(handled)
    OBVIOUS
  <2>2. handled \in Key
    BY <1>2 DEF IndInv, Types, Acknowledge
  <2>3. IsEntry(e)
    BY <2>1, <2>2, Keys DEF IsEntry, AckEntry
  <2>4. UNCHANGED <<mem, disk>> \/ \E o \in AppendLocked(e) : Becomes(o)
    BY <1>2, <2>1 DEF Acknowledge, Ack, storeVars
  <2> QED
    BY <1>0, <2>3, <2>4, LockedShape DEF Operation
<1>3. ASSUME NEW k \in Key, NEW e, NEW res, k \in DOMAIN mem.recs => IsEntry(e), Mark(k, e, res)
      PROVE  Operation \/ UNCHANGED <<mem, disk>>
  <2>1. CASE k \in DOMAIN mem.recs
    <3>1. \E o \in AppendLocked(e) : Becomes(o)
      BY <1>3, <2>1 DEF Mark
    <3> QED
      BY <1>0, <1>3, <2>1, <3>1, LockedShape DEF Operation
  <2>2. CASE k \notin DOMAIN mem.recs
    BY <1>3, <2>2 DEF Mark, storeVars
  <2> QED
    BY <2>1, <2>2
<1>4. ASSUME NEW k \in DOMAIN mem.recs
      PROVE  k \in Key /\ mem.recs[k].alarmAttempts \in Nat /\ mem.recs[k].evidenceAttempts \in Nat
  <2>1. k \in Key /\ mem.recs[k] \in Record
    BY <1>0, <1>4 DEF IsStore
  <2> QED
    BY <2>1 DEF Record
<1>5. ASSUME NEW k \in Key, NEW res \in Result, AlarmSent(k, res) \/ AlarmFailed(k, res)
      PROVE  Operation \/ UNCHANGED <<mem, disk>>
  <2>1. \E st \in {"sent", "dead", "pending"}, n \in {mem.recs[k].alarmAttempts,
                                                      mem.recs[k].alarmAttempts + 1} :
            Mark(k, AlarmEntry(k, st, n), res)
    BY <1>5 DEF AlarmSent, AlarmFailed, MarkAlarmSent, MarkAlarmAttempt
  <2>2. \A st \in {"sent", "dead", "pending"}, n \in Nat : IsEntry(AlarmEntry(k, st, n))
    BY <1>5 DEF IsEntry, AlarmEntry, AlarmState
  <2>3. k \in DOMAIN mem.recs => /\ mem.recs[k].alarmAttempts \in Nat
                                 /\ mem.recs[k].alarmAttempts + 1 \in Nat
    BY <1>4
  <2> QED
    BY <1>3, <2>1, <2>2, <2>3
<1>6. ASSUME NEW k \in Key, NEW res \in Result, EvidenceSent(k, res) \/ EvidenceFailed(k, res)
      PROVE  Operation \/ UNCHANGED <<mem, disk>>
  <2>1. \E st \in {"sent", "dead", "pending"}, n \in {mem.recs[k].evidenceAttempts,
                                                      mem.recs[k].evidenceAttempts + 1} :
            Mark(k, EvidenceEntry(k, st, n), res)
    BY <1>6 DEF EvidenceSent, EvidenceFailed, MarkEvidenceSent, MarkEvidenceAttempt
  <2>2. \A st \in {"sent", "dead", "pending"}, n \in Nat : IsEntry(EvidenceEntry(k, st, n))
    BY <1>6 DEF IsEntry, EvidenceEntry, EvidenceState
  <2>3. k \in DOMAIN mem.recs => /\ mem.recs[k].evidenceAttempts \in Nat
                                 /\ mem.recs[k].evidenceAttempts + 1 \in Nat
    BY <1>4
  <2> QED
    BY <1>3, <2>1, <2>2, <2>3
<1>7. ~Start /\ ~StartFails /\ ~End
  BY DEF Start, Open, StartFails, OpenFails, End, Stop, StopInAppend
<1> QED
  BY <1>1, <1>2, <1>5, <1>6, <1>7 DEF Next

\* The records that leave the store in a step of a running daemon are terminal.
LEMMA StepKeeps ==
    ASSUME IndInv, Next, up, up'
    PROVE  DOMAIN mem.recs \ DOMAIN mem'.recs \subseteq Terminal(mem)
<1>1. IsStore(mem) /\ IsDisk(disk)
  BY DEF IndInv, Types
<1>2. ASSUME NEW e, NEW o, IsEntry(e), Shape(o, mem, disk, e), Becomes(o)
      PROVE  DOMAIN mem.recs \ DOMAIN mem'.recs \subseteq Terminal(mem)
  <2>1. mem' = o.mem
    BY <1>2 DEF Becomes
  <2> QED
    BY <1>1, <1>2, <2>1, ShapeKeeps
<1> QED
  BY <1>2, StepIsOperation DEF Operation

\* Eviction for a boundary, for want of bytes, and the coalescing of UPDATEs only
\* take records that every sink is done with.
THEOREM PendingIsProtected == Spec => PendingProtected
<1>1. IndInv /\ [Next]_vars =>
          [up /\ up' => \A k \in DOMAIN mem.recs \ DOMAIN mem'.recs :
                /\ mem.recs[k].alarm # "pending"
                /\ mem.recs[k].evidence \notin {"pending", "staging"}]_vars
  BY StepKeeps DEF Terminal
<1> QED
  BY <1>1, Inductive, PTL DEF Spec, PendingProtected

-----------------------------------------------------------------------------
(* Logs configured to at most the longest line load accepts *)

\* The snapshot line is no longer than some configured log.
LineFits == \E l \in Limits : disk.line <= l.bytes

\* compactLocked is the only one to write a snapshot, and refuses one over maxBytes.
LEMMA LineStep ==
    ASSUME IndInv, LineFits, [Next]_vars
    PROVE  LineFits'
<1>0. IsStore(mem) /\ IsDisk(disk) /\ limit \in Limits
  BY DEF IndInv, Types
<1>1. CASE UNCHANGED vars
  BY <1>1 DEF LineFits, vars
<1>2. ASSUME Next, up, up'
      PROVE  LineFits'
  <2>1. ASSUME NEW e, NEW o, Shape(o, mem, disk, e), Becomes(o)
        PROVE  disk'.line = disk.line \/ disk'.line <= limit.bytes
    BY <1>0, <2>1, ShapeLine DEF Becomes
  <2>2. disk'.line = disk.line \/ disk'.line <= limit.bytes
    BY <1>2, <2>1, StepIsOperation DEF Operation
  <2> QED
    BY <1>0, <2>2 DEF LineFits
<1>3. ASSUME NEW l \in Limits, Open(l) \/ OpenFails(l)
      PROVE  LineFits'
  <2>1. \/ disk' \in {disk, Recovered(disk)}
        \/ disk' = Compacted(Loaded(disk)) /\ SnapshotSize(Loaded(disk)) <= l.bytes
    BY <1>3 DEF Open, OpenFails
  <2>2. disk'.line = disk.line \/ disk'.line <= l.bytes
    BY <1>0, <2>1, RecoveredFields, CompactedSize
  <2> QED
    BY <2>2 DEF LineFits
<1>4. CASE End
  <2>1. disk' = disk \/ \E e : disk' \in {WithPart(disk), WithoutNewline(disk, e)}
    BY <1>4 DEF End, Stop, StopInAppend
  <2>2. disk'.line = disk.line
    BY <1>0, <2>1, PartFields, NoNewlineFields
  <2> QED
    BY <2>2 DEF LineFits
<1>5. ASSUME Next, ~(up /\ up')
      PROVE  Start \/ StartFails \/ End
  BY <1>5 DEF Next, Store, Acknowledge, AlarmSent, AlarmFailed, EvidenceSent, EvidenceFailed,
     Enqueue, Ack, MarkAlarmSent, MarkAlarmAttempt, MarkEvidenceSent, MarkEvidenceAttempt,
     Mark, Becomes, storeVars
<1> QED
  BY <1>1, <1>2, <1>3, <1>4, <1>5 DEF Start, StartFails

\* If no log is configured larger than the longest line load accepts, compaction
\* never writes a log that a start refuses for its snapshot line, and no START or
\* END that the log acknowledges is lost to a sink as long as no append was cut
\* short.  The default of 16 MiB (config.go:144) is not such a log.
THEOREM SmallLogsStayLegible ==
    ASSUME \A l \in Limits : l.bytes <= MaxLine
    PROVE  Spec => [](Legible(disk) /\ (aligned => AckedRecoverable))
<1>1. Init => LineFits
  <2>1. \A l \in Limits : 0 <= l.bytes
    BY OutboxAssumption
  <2> QED
    BY <2>1 DEF Init, StoreInit, EmptyDisk, LineFits
<1>2. IndInv /\ LineFits /\ [Next]_vars => LineFits'
  BY LineStep
<1>3. IndInv /\ LineFits => Legible(disk)
  <2> SUFFICES ASSUME IndInv, LineFits PROVE Legible(disk)
    OBVIOUS
  <2>1. PICK l \in Limits : disk.line <= l.bytes
    BY DEF LineFits
  <2>2. disk.line \in Nat /\ l.bytes \in Nat /\ MaxLine \in Nat /\ l.bytes <= MaxLine
    BY OutboxAssumption DEF IndInv, Types, IsDisk
  <2> QED
    BY <2>1, <2>2 DEF Legible
<1>4. Legible(disk) /\ NoSilentLoss => (aligned => AckedRecoverable)
  BY DEF NoSilentLoss
<1>5. Spec => []LineFits
  BY <1>1, <1>2, Inductive, PTL DEF Spec
<1> QED
  BY <1>3, <1>4, <1>5, Inductive, AcknowledgedIsSafe, PTL

=============================================================================
