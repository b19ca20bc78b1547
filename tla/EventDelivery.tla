--------------------------- MODULE EventDelivery ---------------------------
(***************************************************************************)
(* The delivery service of gb28181_daemon                                  *)
(* (src/gb28181_daemon/internal/delivery): three goroutines that share the *)
(* outbox and the directory of staged evidence files.                      *)
(*                                                                         *)
(*   ingest         takes the producer's events in order: looks the event  *)
(*                  up, stages its evidence, stores it, requeues or fails  *)
(*                  its evidence, acknowledges it;                         *)
(*   alarm loop     works through a snapshot of the pending alarms;        *)
(*   evidence loop  works through a snapshot of the pending evidence.      *)
(*                                                                         *)
(* Each outbox call is one step, because it holds the store's lock, and so *)
(* is each use of the evidence directory; everything a goroutine carries   *)
(* from one step to the next may be stale by then.  Retry times are left   *)
(* out: a record that is not due yet is a loop that runs later.            *)
(***************************************************************************)
EXTENDS Outbox

CONSTANTS
    MaxAttempts,   \* Config.MaxAttempts
    MaxFaults      \* bound: failing outbox calls and stops in one behaviour

ASSUME DeliveryAssumption ==
    /\ MaxAttempts \in Nat \ {0}
    /\ MaxFaults \in Nat

VARIABLES
    ingest,    \* the ingest goroutine: pc and its local variables
    alarm,     \* the alarm loop: pc, the snapshot, the record in hand
    evidence,  \* the evidence loop, likewise
    staged,    \* the keys whose files are in the evidence outbox directory
    uploaded,  \* history: keys whose evidence the server has accepted
    alarmed,   \* history: keys whose alarm the platform has accepted
    faults     \* outbox calls that have failed, and stops, so far

deliveryVars == <<ingest, alarm, evidence, staged, uploaded, alarmed, faults>>
vars == <<storeVars, deliveryVars>>

\* ingest between two events: nothing is carried over.
IngestIdle == [pc |-> "idle", key |-> 0, required |-> FALSE,
               stageErr |-> FALSE, attempts |-> 0]

\* A delivery loop waiting for its ticker or its wake channel.
LoopIdle == [pc |-> "idle", list |-> {}, key |-> 0, attempts |-> 0,
             ok |-> FALSE]

Init ==
    /\ StoreInit
    /\ ingest = [IngestIdle EXCEPT !.pc = "off"]
    /\ alarm = LoopIdle
    /\ evidence = LoopIdle
    /\ staged = {}
    /\ uploaded = {}
    /\ alarmed = {}
    /\ faults = 0

\* The outbox call of the step returns res; an error is a fault, unless the
\* store refuses the call as it stands.
Returns(res, refused) ==
    LET fault == res = "error" /\ ~refused
    IN  /\ fault => faults < MaxFaults
        /\ faults' = IF fault THEN faults + 1 ELSE faults

Closed == file = "nil"
Unmarkable(k) == Closed \/ k \notin DOMAIN mem.recs

\* ingest has returned to Run: ErrCapacity ends Run, which stops the loops;
\* another error has it subscribe again.
Resume(res) == [IngestIdle EXCEPT !.pc = IF res = "capacity" THEN "off" ELSE "idle"]

-----------------------------------------------------------------------------
(* ingest *)

\* The subscription delivers the event behind the last acknowledged one, and
\* ingest looks it up to decide whether its evidence has to be staged.
Begin ==
    LET k == mem.ack + 1
        needed == /\ EvidenceEnabled
                  /\ Stream[k].phase = "START"
                  /\ Stream[k].evidence
                  /\ k \in DOMAIN mem.recs =>
                         mem.recs[k].evidence \notin {"sent", "dead"}
    IN  /\ up
        /\ ingest.pc = "idle"
        /\ k \in Key
        /\ ingest' = [IngestIdle EXCEPT !.pc = IF needed THEN "stage" ELSE "store",
                                        !.key = k, !.required = needed]
        /\ UNCHANGED <<storeVars, alarm, evidence, staged, uploaded, alarmed, faults>>

\* stageEvidence succeeds: the files are there already, or are copied now.
StageOk ==
    /\ ingest.pc = "stage"
    /\ staged' = staged \cup {ingest.key}
    /\ ingest' = [ingest EXCEPT !.pc = "store"]
    /\ UNCHANGED <<storeVars, alarm, evidence, uploaded, alarmed, faults>>

\* stageEvidence fails: no valid copy, and none could be made because the
\* source is missing or invalid, the directory full, or an I/O call failed.  A
\* copy that is there is taken to verify.
StageFails ==
    /\ ingest.pc = "stage"
    /\ ingest.key \notin staged
    /\ ingest' = [ingest EXCEPT !.pc = "store", !.stageErr = TRUE]
    /\ UNCHANGED <<storeVars, alarm, evidence, staged, uploaded, alarmed, faults>>

\* Mutant of AfterStore: evidence staged on a replay is not requeued.
AfterStoreNoRequeue(added, s) == IF ingest.stageErr THEN "fail" ELSE "ack"

\* Where ingest goes once the event is stored with evidence state s.
AfterStore(added, s) ==
    IF ingest.stageErr THEN "fail"
    ELSE IF ingest.required /\ ~added /\ s \in {"dead", "staging", "ignored"}
         THEN "requeue" ELSE "ack"

\* EnqueueWithEvidence returns the record, old or new.
StoreEvent(res) ==
    /\ ingest.pc = "store"
    /\ res \in {"ok", "exists"}
    /\ Enqueue(ingest.key, res)
    /\ LET r == mem'.recs[ingest.key]
       IN  ingest' = [ingest EXCEPT !.pc = AfterStore(res = "ok", r.evidence),
                                    !.attempts = r.evidenceAttempts]
    /\ UNCHANGED <<alarm, evidence, staged, uploaded, alarmed, faults>>

\* The UPDATE is dropped under pressure and acknowledged all the same.
StoreDrops ==
    /\ ingest.pc = "store"
    /\ Enqueue(ingest.key, "dropped")
    /\ ingest' = [ingest EXCEPT !.pc = "ack"]
    /\ UNCHANGED <<alarm, evidence, staged, uploaded, alarmed, faults>>

\* ErrCapacity ends Service.Run; another error reconnects.
StoreFails(res) ==
    /\ ingest.pc = "store"
    /\ res \in {"capacity", "error"}
    /\ Returns(res, Closed)
    /\ Enqueue(ingest.key, res)
    /\ ingest' = Resume(res)
    /\ UNCHANGED <<alarm, evidence, staged, uploaded, alarmed>>

\* Evidence staged on a replay makes its record pending again.
Requeue(res) ==
    /\ ingest.pc = "requeue"
    /\ Returns(res, Unmarkable(ingest.key))
    /\ MarkEvidenceState(ingest.key, "pending", res)
    /\ ingest' = IF res = "ok" THEN [ingest EXCEPT !.pc = "ack"] ELSE Resume(res)
    /\ UNCHANGED <<alarm, evidence, staged, uploaded, alarmed>>

\* Mutant of FailStaging: the event is acknowledged after any failure.
FailStagingAcks(res) ==
    /\ ingest.pc = "fail"
    /\ Returns(res, Unmarkable(ingest.key))
    /\ MarkEvidenceStagingFailure(ingest.key,
                                  ingest.attempts + 1 >= MaxAttempts, res)
    /\ ingest' = IF res = "ok" THEN [ingest EXCEPT !.pc = "ack"] ELSE Resume(res)
    /\ UNCHANGED <<alarm, evidence, staged, uploaded, alarmed>>

\* Mutant of FailStaging: a repeated failure is not recorded.
FailStagingForever(res) ==
    /\ ingest.pc = "fail"
    /\ IF mem.recs[ingest.key].evidence = "staging"
       THEN res = "ok" /\ UNCHANGED <<storeVars, faults>>
       ELSE /\ Returns(res, Unmarkable(ingest.key))
            /\ MarkEvidenceStagingFailure(ingest.key, FALSE, res)
    /\ ingest' = Resume(res)
    /\ UNCHANGED <<alarm, evidence, staged, uploaded, alarmed>>

\* The staging failure is recorded; the last one gives the evidence up and
\* acknowledges the event, an earlier one has it replayed.
FailStaging(res) ==
    LET terminal == ingest.attempts + 1 >= MaxAttempts
    IN  /\ ingest.pc = "fail"
        /\ Returns(res, Unmarkable(ingest.key))
        /\ MarkEvidenceStagingFailure(ingest.key, terminal, res)
        /\ ingest' = IF res = "ok" /\ terminal
                     THEN [ingest EXCEPT !.pc = "ack"] ELSE Resume(res)
        /\ UNCHANGED <<alarm, evidence, staged, uploaded, alarmed>>

AckEvent(res) ==
    /\ ingest.pc = "ack"
    /\ Returns(res, Closed)
    /\ Ack(ingest.key, res)
    /\ ingest' = Resume(res)
    /\ UNCHANGED <<alarm, evidence, staged, uploaded, alarmed>>

-----------------------------------------------------------------------------
(* The delivery loops *)

\* The loop takes its snapshot of the pending records.
Snapshot(loop, attempts) ==
    [loop EXCEPT !.pc = "next", !.list = {<<k, attempts[k]>> : k \in DOMAIN attempts}]

\* The entry of the snapshot with the smallest cursor.
First(list) == CHOOSE r \in list : \A q \in list : r[1] <= q[1]

\* The loop takes the first record in hand with the outcome of its delivery.
TakeFirst(loop, ok) ==
    LET r == First(loop.list)
    IN  [pc |-> "mark", list |-> loop.list \ {r}, key |-> r[1],
         attempts |-> r[2], ok |-> ok]

\* The loop is done with the record in hand.
Done(loop) ==
    [LoopIdle EXCEPT !.pc = IF loop.list = {} THEN "idle" ELSE "next",
                     !.list = loop.list]

AlarmSnapshot ==
    /\ up
    /\ alarm.pc = "idle"
    /\ PendingAlarms # {}
    /\ alarm' = Snapshot(alarm, [k \in PendingAlarms |-> mem.recs[k].alarmAttempts])
    /\ UNCHANGED <<storeVars, ingest, evidence, staged, uploaded, alarmed, faults>>

\* SendMessage reports success, or an error: the platform may have the alarm
\* then as well, because the answer can be lost.
AlarmSend(ok) ==
    /\ alarm.pc = "next"
    /\ alarm' = TakeFirst(alarm, ok)
    /\ \/ alarmed' = alarmed \cup {First(alarm.list)[1]}
       \/ ~ok /\ UNCHANGED alarmed
    /\ UNCHANGED <<storeVars, ingest, evidence, staged, uploaded, faults>>

\* Mutant of AlarmMark: the error of SendMessage is not looked at.
AlarmMarkAlwaysSent(res) ==
    /\ alarm.pc = "mark"
    /\ Returns(res, Unmarkable(alarm.key))
    /\ MarkAlarmSent(alarm.key, res)
    /\ alarm' = Done(alarm)
    /\ UNCHANGED <<ingest, evidence, staged, uploaded, alarmed>>

\* Mutant of AlarmMark: attempts are not counted.
AlarmMarkForever(res) ==
    /\ alarm.pc = "mark"
    /\ Returns(res, Unmarkable(alarm.key))
    /\ IF alarm.ok THEN MarkAlarmSent(alarm.key, res)
                   ELSE res = "ok" /\ UNCHANGED storeVars
    /\ alarm' = Done(alarm)
    /\ UNCHANGED <<ingest, evidence, staged, uploaded, alarmed>>

\* The outcome is recorded; the last attempt gives the alarm up.
AlarmMark(res) ==
    /\ alarm.pc = "mark"
    /\ Returns(res, Unmarkable(alarm.key))
    /\ IF alarm.ok
       THEN MarkAlarmSent(alarm.key, res)
       ELSE MarkAlarmAttempt(alarm.key, alarm.attempts + 1 >= MaxAttempts, res)
    /\ alarm' = Done(alarm)
    /\ UNCHANGED <<ingest, evidence, staged, uploaded, alarmed>>

EvidenceSnapshot ==
    /\ up
    /\ EvidenceEnabled
    /\ evidence.pc = "idle"
    /\ PendingEvidence # {}
    /\ evidence' = Snapshot(evidence,
                            [k \in PendingEvidence |-> mem.recs[k].evidenceAttempts])
    /\ UNCHANGED <<storeVars, ingest, alarm, staged, uploaded, alarmed, faults>>

\* loadEvidence and Upload: without the staged files nothing is uploaded.
EvidenceSend(ok) ==
    LET k == First(evidence.list)[1]
    IN  /\ evidence.pc = "next"
        /\ ok => k \in staged
        /\ evidence' = TakeFirst(evidence, ok)
        /\ \/ k \in staged /\ uploaded' = uploaded \cup {k}
           \/ ~ok /\ UNCHANGED uploaded
        /\ UNCHANGED <<storeVars, ingest, alarm, staged, alarmed, faults>>

\* The outcome is recorded; files are removed once it is final.
EvidenceMark(res) ==
    LET terminal == evidence.attempts + 1 >= MaxAttempts
    IN  /\ evidence.pc = "mark"
        /\ Returns(res, Unmarkable(evidence.key))
        /\ IF evidence.ok
           THEN MarkEvidenceSent(evidence.key, res)
           ELSE MarkEvidenceAttempt(evidence.key, terminal, res)
        /\ evidence' = IF res = "ok" /\ (evidence.ok \/ terminal)
                       THEN [evidence EXCEPT !.pc = "remove"]
                       ELSE Done(evidence)
        /\ UNCHANGED <<ingest, alarm, staged, uploaded, alarmed>>

EvidenceRemove ==
    /\ evidence.pc = "remove"
    /\ staged' = staged \ {evidence.key}
    /\ evidence' = Done(evidence)
    /\ UNCHANGED <<storeVars, ingest, alarm, uploaded, alarmed, faults>>

-----------------------------------------------------------------------------
(* Start and stop *)

\* New opens the outbox and removes the staged files no record waits for.
Start ==
    /\ \E l \in Limits : Open(l)
    /\ staged' = staged \cap {k \in DOMAIN mem'.recs :
                                  mem'.recs[k].evidence \in {"pending", "staging"}}
    /\ ingest' = IngestIdle
    /\ UNCHANGED <<alarm, evidence, uploaded, alarmed, faults>>

\* Run ends after an ErrCapacity: the loops finish the record in hand, and the
\* store is closed.
Close ==
    /\ up
    /\ ingest.pc = "off"
    /\ alarm.pc \in {"idle", "next"}
    /\ evidence.pc \in {"idle", "next"}
    /\ Stop
    /\ alarm' = LoopIdle
    /\ evidence' = LoopIdle
    /\ UNCHANGED <<ingest, staged, uploaded, alarmed, faults>>

\* The daemon stops or crashes wherever its goroutines are.
Crash ==
    /\ faults < MaxFaults
    /\ Stop
    /\ faults' = faults + 1
    /\ ingest' = [IngestIdle EXCEPT !.pc = "off"]
    /\ alarm' = LoopIdle
    /\ evidence' = LoopIdle
    /\ UNCHANGED <<staged, uploaded, alarmed>>

Result == {"ok", "exists", "dropped", "capacity", "error"}

IngestStep ==
    \/ Begin \/ StageOk \/ StageFails \/ StoreDrops
    \/ \E res \in Result : \/ StoreEvent(res) \/ StoreFails(res) \/ Requeue(res)
                           \/ FailStaging(res) \/ AckEvent(res)

AlarmStep ==
    \/ AlarmSnapshot
    \/ \E ok \in BOOLEAN : AlarmSend(ok)
    \/ \E res \in Result : AlarmMark(res)

EvidenceStep ==
    \/ EvidenceSnapshot \/ EvidenceRemove
    \/ \E ok \in BOOLEAN : EvidenceSend(ok)
    \/ \E res \in Result : EvidenceMark(res)

Next == IngestStep \/ AlarmStep \/ EvidenceStep \/ Start \/ Close \/ Crash

Spec == Init /\ [][Next]_vars

(***************************************************************************)
(* Each goroutine keeps running while the daemon does: the loops have a    *)
(* ticker and the subscription is retried for ever.  The daemon is started *)
(* again after it has stopped.                                             *)
(***************************************************************************)
Fairness ==
    /\ WF_vars(IngestStep)
    /\ WF_vars(AlarmStep)
    /\ WF_vars(EvidenceStep)
    /\ WF_vars(Start)
    /\ WF_vars(Close)

FairSpec == Spec /\ Fairness

-----------------------------------------------------------------------------
(* Properties *)

\* Every variable has its type, and no alarm is tried more than MaxAttempts
\* times.
TypeOK ==
    /\ up \in BOOLEAN
    /\ IsStore(mem)
    /\ \A k \in DOMAIN mem.recs : mem.recs[k].alarmAttempts <= MaxAttempts
    /\ IsDisk(disk)
    /\ ingest.pc \in {"off", "idle", "stage", "store", "requeue", "fail", "ack"}
    /\ ingest.key \in Key \cup {0}
    /\ alarm.pc \in {"idle", "next", "mark"}
    /\ evidence.pc \in {"idle", "next", "mark", "remove"}
    /\ staged \cup uploaded \cup alarmed \subseteq Key
    /\ faults \in 0..MaxFaults

\* An alarm marked sent has been accepted by the platform, and one given up
\* has been tried MaxAttempts times: nothing else settles an alarm, whatever
\* becomes of the event's evidence (docs/people-flow-alarm/spec.md:178).
AlarmSettledRightly ==
    up => \A k \in DOMAIN mem.recs :
        /\ mem.recs[k].alarm = "sent" => k \in alarmed
        /\ mem.recs[k].alarm = "dead" => mem.recs[k].alarmAttempts >= MaxAttempts

\* A settled alarm stays settled while the daemon runs: a replay of its event
\* or a stale snapshot never sends it again.
AlarmFinal ==
    [][up /\ up' => \A k \in DOMAIN mem.recs \cap DOMAIN mem'.recs :
            mem.recs[k].alarm # "pending" => mem'.recs[k].alarm = mem.recs[k].alarm]_vars

\* The evidence of an acknowledged START, which the producer will not replay,
\* is uploaded, or still staged on this side, or was tried MaxAttempts times
\* (src/gb28181_daemon/README.md:71-75).
AckedEvidenceKept ==
    up => \A k \in 1..mem.ack \cap DOMAIN mem.recs :
        NewRecord(k).evidence = "pending" =>
            \/ k \in uploaded
            \/ k \in staged
            \/ mem.recs[k].evidenceAttempts >= MaxAttempts

\* The log has no room for an entry even after a compaction.
Full == SnapshotSize(mem) >= limit.bytes

\* The outbox takes nothing: a failed reopen has closed it under a daemon that
\* goes on retrying (outbox.go:496-503), it is full, or no start can load it.
Unusable == IF up THEN Closed \/ Full ELSE ~Loads(disk)

\* ErrCapacity has ended Run, and with it the loops.
Ended == up /\ ingest.pc = "off"

\* Only this is excused from progress: an outbox that stays unusable, and a
\* daemon whose Run ends time and again before the loops have made room.
Stuck == <>[]Unusable \/ []<>Ended

\* Every event of the stream is acknowledged in the end, however often its
\* evidence cannot be staged.
IngestProgress == Stuck \/ <>[](up /\ mem.ack = Len(Stream))

\* Every alarm is sent or given up in the end, and stays so.
AlarmSettles == Stuck \/ <>[](up /\ PendingAlarms = {})

\* The staging failure of k is in the log although its append reported an error.
Misled(k) ==
    /\ up
    /\ k \in DOMAIN mem.recs \cap DOMAIN Loaded(disk).recs
    /\ mem.recs[k].evidence # "staging"
    /\ Loaded(disk).recs[k].evidence = "staging"

\* No evidence waits for ever.  A record may keep the state staging in two
\* cases, when a restart finds its event acknowledged and has nothing replayed:
\* the server has the evidence, and a replay that could no longer stage it has
\* overwritten sent (delivery.go:251); or the daemon was misled by a failed append.
EvidenceSettles ==
    Stuck \/ \A k \in {j \in Key : NewRecord(j).evidence = "pending"} :
        \/ <>Misled(k)
        \/ <>[](up /\ (k \in DOMAIN mem.recs =>
                         \/ mem.recs[k].evidence \notin {"pending", "staging"}
                         \/ mem.recs[k].evidence = "staging" /\ k \in uploaded))

=============================================================================
