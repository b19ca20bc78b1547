-------------------------- MODULE OutboxDurability --------------------------
(***************************************************************************)
(* The outbox under the callers that matter to its durability: the         *)
(* goroutine that stores and acknowledges the producer's events one after  *)
(* the other, and the two delivery loops that report what became of them   *)
(* (src/gb28181_daemon/internal/delivery/delivery.go).  Staging of         *)
(* evidence files and the loops' stale snapshots are in EventDelivery.     *)
(***************************************************************************)
EXTENDS Outbox

CONSTANT MaxAttempts   \* Config.MaxAttempts

ASSUME AttemptsAssumption == MaxAttempts \in Nat \ {0}

VARIABLES
    running,  \* FALSE once Service.Run gives up on an ErrCapacity
    handled,  \* the cursor whose Enqueue has returned and whose Ack has not
    done,     \* history: <<sink, key>> delivered, or given up on
    aligned   \* history: the log of a running daemon always ended with a
              \* newline, so that every append has started a line of its own

vars == <<up, limit, mem, file, disk, running, handled, done, aligned>>

Init ==
    /\ StoreInit
    /\ running = FALSE
    /\ handled = 0
    /\ done = {}
    /\ aligned = TRUE

\* The history of every step.
Noted == aligned' = (aligned /\ (up' => disk'.tail = "clean"))

-----------------------------------------------------------------------------
\* Mutant of Store: the event is acknowledged whatever Enqueue returned.
StoreAlwaysHandled(res) ==
    /\ running
    /\ handled = 0
    /\ mem.ack + 1 \in Key
    /\ Enqueue(mem.ack + 1, res)
    /\ handled' = mem.ack + 1
    /\ running' = TRUE
    /\ Noted
    /\ UNCHANGED done

\* ingest stores the event after the last acknowledged one.  ErrCapacity ends
\* Service.Run; any other error reconnects and the event is replayed.
Store(res) ==
    /\ running
    /\ handled = 0
    /\ mem.ack + 1 \in Key
    /\ Enqueue(mem.ack + 1, res)
    /\ handled' = IF res \in {"ok", "exists", "dropped"} THEN mem.ack + 1 ELSE 0
    /\ running' = (res # "capacity")
    /\ Noted
    /\ UNCHANGED done

\* ingest acknowledges it.
Acknowledge(res) ==
    /\ running
    /\ handled # 0
    /\ Ack(handled, res)
    /\ handled' = 0
    /\ running' = (res # "capacity")
    /\ Noted
    /\ UNCHANGED done

\* deliverOne: the alarm went out and is marked sent.
AlarmSent(k, res) ==
    /\ k \in PendingAlarms
    /\ MarkAlarmSent(k, res)
    /\ done' = done \cup {<<"alarm", k>>}
    /\ Noted
    /\ UNCHANGED <<running, handled>>

\* deliverOne: the alarm did not go out; the last attempt gives it up.
AlarmFailed(k, res) ==
    /\ k \in PendingAlarms
    /\ LET terminal == mem.recs[k].alarmAttempts + 1 >= MaxAttempts
       IN  /\ MarkAlarmAttempt(k, terminal, res)
           /\ done' = IF terminal THEN done \cup {<<"alarm", k>>} ELSE done
    /\ Noted
    /\ UNCHANGED <<running, handled>>

\* deliverEvidenceOne, in the same two ways.
EvidenceSent(k, res) ==
    /\ k \in PendingEvidence
    /\ MarkEvidenceSent(k, res)
    /\ done' = done \cup {<<"evidence", k>>}
    /\ Noted
    /\ UNCHANGED <<running, handled>>

EvidenceFailed(k, res) ==
    /\ k \in PendingEvidence
    /\ LET terminal == mem.recs[k].evidenceAttempts + 1 >= MaxAttempts
       IN  /\ MarkEvidenceAttempt(k, terminal, res)
           /\ done' = IF terminal THEN done \cup {<<"evidence", k>>} ELSE done
    /\ Noted
    /\ UNCHANGED <<running, handled>>

Start ==
    /\ \E l \in Limits : Open(l)
    /\ running' = TRUE
    /\ handled' = 0
    /\ Noted
    /\ UNCHANGED done

StartFails ==
    /\ \E l \in Limits : OpenFails(l)
    /\ Noted
    /\ UNCHANGED <<running, handled, done>>

\* The entries a goroutine may be appending when the power goes.
InFlight ==
    {AckEntry(c) : c \in {handled} \ {0}}
    \cup {EventEntry(k, NewRecord(k)) : k \in {mem.ack + 1} \cap Key}
    \cup {AlarmEntry(k, "pending", mem.recs[k].alarmAttempts + 1) :
              k \in {j \in PendingAlarms :
                        mem.recs[j].alarmAttempts + 1 < MaxAttempts}}

\* The daemon stops or crashes, between two operations or inside an append.
End ==
    /\ Stop \/ \E e \in InFlight : StopInAppend(e)
    /\ running' = FALSE
    /\ handled' = 0
    /\ Noted
    /\ UNCHANGED done

Result == {"ok", "exists", "dropped", "capacity", "error"}

Next ==
    \/ \E res \in Result : Store(res) \/ Acknowledge(res)
    \/ \E k \in Key, res \in Result :
           AlarmSent(k, res) \/ AlarmFailed(k, res)
           \/ EvidenceSent(k, res) \/ EvidenceFailed(k, res)
    \/ Start
    \/ StartFails
    \/ End

Spec == Init /\ [][Next]_vars

-----------------------------------------------------------------------------
(* Properties *)

\* Every variable has its type, and no sink is tried more often than the
\* configured number of attempts.
TypeOK ==
    /\ up \in BOOLEAN
    /\ limit \in Limits
    /\ IsStore(mem)
    /\ \A k \in DOMAIN mem.recs : /\ mem.recs[k].alarmAttempts <= MaxAttempts
                                  /\ mem.recs[k].evidenceAttempts <= MaxAttempts
    /\ file \in {"open", "nil"}
    /\ IsDisk(disk)
    /\ running \in BOOLEAN
    /\ handled \in Key \cup {0}
    /\ done \subseteq {"alarm", "evidence"} \X Key
    /\ aligned \in BOOLEAN

\* "Every mutation is synced before it becomes visible to callers"
\* (outbox.go:104-105), as long as no append was cut short and the snapshot
\* line is not too long for load (it never is in a log of at most 8 MiB, see
\* SmallLogsStayLegible): a restart at any moment finds every record some
\* sink still waits for, no sink back in an earlier state than the one
\* callers were told, and a producer cursor that is not behind theirs.  (A
\* delivered record may be gone: a failed reopen restores it in memory only.)
VisibleDurable ==
    up /\ aligned /\ Legible(disk) =>
          /\ Loads(disk)
          /\ mem.ack <= Loaded(disk).ack
          /\ DOMAIN mem.recs \ Terminal(mem) \subseteq DOMAIN Loaded(disk).recs
          /\ \A k \in DOMAIN mem.recs \cap DOMAIN Loaded(disk).recs :
                /\ mem.recs[k].alarm # "pending" =>
                       Loaded(disk).recs[k].alarm = mem.recs[k].alarm
                /\ mem.recs[k].evidence # "pending" =>
                       Loaded(disk).recs[k].evidence = mem.recs[k].evidence

\* The log of a running daemon stays within the configured size: an append
\* that would not fit compacts first, or is refused.
LogBounded == up => Size(disk) <= limit.bytes

\* "After a crash behind the durable receipt the outbox resumes delivery"
\* (docs/people-flow-alarm/spec.md:177): a START or END whose cursor the log
\* acknowledges, so that the producer will not replay it, has each of its
\* sinks delivered, given up on, or pending in a log that can be loaded.
AckedRecoverable ==
    \A k \in 1..Loaded(disk).ack, sink \in {"alarm", "evidence"} :
        (Stream[k].phase # "UPDATE" /\ NewRecord(k)[sink] = "pending") =>
            \/ <<sink, k>> \in done
            \/ /\ Loads(disk)
               /\ k \in DOMAIN Loaded(disk).recs
               /\ Loaded(disk).recs[k][sink] = "pending"

\* No acknowledged START or END is lost to a sink, as long as no append was
\* cut short and the snapshot line is not too long for load.
NoSilentLoss == aligned /\ Legible(disk) => AckedRecoverable

\* A record that leaves the store of a running daemon was not waiting for a
\* sink: eviction and coalescing only take delivered records
\* (docs/people-flow-alarm/spec.md:178).
PendingProtected ==
    [][up /\ up' => \A k \in DOMAIN mem.recs \ DOMAIN mem'.recs :
            /\ mem.recs[k].alarm # "pending"
            /\ mem.recs[k].evidence \notin {"pending", "staging"}]_vars

=============================================================================
