----------------------------- MODULE EventStream -----------------------------
(***************************************************************************)
(* The event stream from media_engine to gb28181_daemon: the worker thread *)
(* journals an event and hands it to the main loop (engine.c), which sends *)
(* it to the subscriber (ipc/ipc_server.c); ConsumeEvents (media/rpc.go)   *)
(* and Run (delivery/delivery.go) store it, acknowledge it and reconnect   *)
(* from the acknowledged cursor.                                           *)
(*                                                                         *)
(* Abstractions.  The journal is what EventJournal shows of it: appended   *)
(* records, of which UPDATEs may be evicted later.  No cursor is given out *)
(* twice, although a restart may do that (README).  An append takes one    *)
(* step, a failed one has no cursor and is left out.  The outbox is the    *)
(* set of stored cursors and the durable acknowledgement.  A message goes  *)
(* through the socket as a whole; the cut line a closed connection may end *)
(* with is not delivered.  The server keeps no other client: a connection  *)
(* the daemon has left is closed before it matters.  The reply to a        *)
(* successful ack_events changes nothing in the daemon and is left out.    *)
(***************************************************************************)
EXTENDS Integers, Sequences, FiniteSets, SequencesExt

CONSTANTS
    SocketSize,     \* messages the socket takes before a write would block
    MaxCursor,      \* bound: events of a behaviour
    MaxFaults       \* bound: shutdowns, crashes, failing ingests, other events

ASSUME StreamAssumption ==
    {SocketSize, MaxCursor, MaxFaults} \subseteq Nat

VARIABLES
    phase,      \* phase of each cursor given out by the journal
    kept,       \* cursors whose record is still in the journal
    open,       \* the event engine has an open event
    hand,       \* cursor journaled by the worker and not handed over, or 0
    loop,       \* the main thread: "run", "deinit", "drain" or "down"
    queue,      \* cursors of the deliveries queued in the main context
    conn,       \* the connection of the subscriber
    daemon,     \* the delivery service: where it is and the event in hand
    stored,     \* cursors in the outbox (durable)
    acked,      \* the acknowledged cursor (durable)
    faults,     \* faults so far
    overtaken   \* history: an event was sent before one queued earlier

engineVars == <<phase, kept, open, hand, loop, queue>>
daemonVars == <<daemon, stored, acked>>
vars == <<engineVars, conn, daemonVars, faults, overtaken>>

Event(c) == [type |-> "event", cursor |-> c]
SubscribeResult(gap) == [type |-> "result", gap |-> gap]
Error == [type |-> "error"]
OtherEvent == [type |-> "other"]

\* served: the server's end is open; out is the client's output queue and wire
\* what the socket holds; requests go the other way.
NoConn == [served |-> FALSE, subscribed |-> FALSE, requests |-> <<>>,
           out |-> <<>>, wire |-> <<>>]

Idle(pc) == [pc |-> pc, cursor |-> 0]

Boundaries == {c \in DOMAIN phase : phase[c] \in {"START", "END"}}

Init ==
    /\ phase = <<>>
    /\ kept = {}
    /\ open = FALSE
    /\ hand = 0
    /\ loop = "down"
    /\ queue = <<>>
    /\ conn = NoConn
    /\ daemon = Idle("off")
    /\ stored = {}
    /\ acked = 0
    /\ faults = 0
    /\ overtaken = FALSE

Fault ==
    /\ faults < MaxFaults
    /\ faults' = faults + 1

-----------------------------------------------------------------------------
(* The connection on the server's side *)

\* ipc_client_send: as much as the socket takes when nothing waits before it,
\* the rest into the output queue, which has no bound.
Sent(c, messages) ==
    LET room == IF c.out = <<>> THEN SocketSize - Len(c.wire) ELSE 0
        direct == IF room < Len(messages) THEN room ELSE Len(messages)
    IN  [c EXCEPT !.wire = @ \o SubSeq(messages, 1, direct),
                  !.out = @ \o SubSeq(messages, direct + 1, Len(messages))]

\* ipc_server_broadcast_analytics_event
Broadcast(cursor) ==
    IF conn.subscribed THEN Sent(conn, <<Event(cursor)>>) ELSE conn

\* Mutant of Flush: what the socket did not take is dropped.
FlushUnarmed ==
    /\ loop \in {"run", "drain"}
    /\ conn.out # <<>>
    /\ Len(conn.wire) < SocketSize
    /\ conn' = [conn EXCEPT !.wire = Append(@, Head(conn.out)), !.out = <<>>]
    /\ UNCHANGED <<engineVars, daemonVars, faults, overtaken>>

\* The socket is writable and the output queue is flushed.
Flush ==
    /\ loop \in {"run", "drain"}
    /\ conn.out # <<>>
    /\ Len(conn.wire) < SocketSize
    /\ conn' = [Sent([conn EXCEPT !.out = <<>>], conn.out) EXCEPT
                    !.requests = conn.requests]
    /\ UNCHANGED <<engineVars, daemonVars, faults, overtaken>>

\* The cursors of S from the oldest to the newest.
Ascending(S) ==
    CHOOSE q \in [1..Cardinality(S) -> S] :
        \A i, j \in 1..Cardinality(S) : i < j => q[i] < q[j]

\* Mutant of SnapshotAfter: the first record is taken for the acknowledged one.
SnapshotBehind(after) == Ascending({c \in kept : c > after + 1})

SnapshotAfter(after) == Ascending({c \in kept : c > after})

ReplayGap(after) ==
    LET records == <<after>> \o SnapshotAfter(after)
    IN  \E i \in 2..Len(records) : records[i] - records[i - 1] > 1

\* Mutant of Replay: the gap between two records is not looked at.
ReplaySilently(after) ==
    LET records == SnapshotAfter(after)
    IN  <<SubscribeResult(FALSE)>>
            \o [i \in DOMAIN records |-> Event(records[i])]

Replay(after) ==
    LET records == SnapshotAfter(after)
    IN  <<SubscribeResult(ReplayGap(after))>>
            \o [i \in DOMAIN records |-> Event(records[i])]

\* ipc_handle_subscribe_events: the flag, the result and the replay in one turn
\* of the main loop.  Once the journal is closed the answer is an error.
HandleSubscribe(after) ==
    LET rest == [conn EXCEPT !.requests = Tail(@)]
    IN  \/ /\ loop = "run"
           /\ conn' = Sent([rest EXCEPT !.subscribed = TRUE], Replay(after))
        \/ /\ loop = "drain"
           /\ conn' = Sent(rest, <<Error>>)

\* ipc_handle_ack_events: without the journal every cursor is beyond its tail.
HandleAck ==
    LET rest == [conn EXCEPT !.requests = Tail(@)]
    IN  \/ loop = "run" /\ conn' = rest
        \/ loop = "drain" /\ conn' = Sent(rest, <<Error>>)

Handle ==
    /\ conn.served
    /\ conn.requests # <<>>
    /\ LET request == Head(conn.requests)
       IN  \/ request.type = "subscribe" /\ HandleSubscribe(request.after)
           \/ request.type = "ack" /\ HandleAck
    /\ UNCHANGED <<engineVars, daemonVars, faults, overtaken>>

\* ipc_server_broadcast_event: the events of a live session go to every client,
\* subscribed or not.
BroadcastOther ==
    /\ loop = "run"
    /\ conn.served
    /\ Fault
    /\ conn' = Sent(conn, <<OtherEvent>>)
    /\ UNCHANGED <<engineVars, daemonVars, overtaken>>

-----------------------------------------------------------------------------
(* The worker thread and the main loop *)

\* The k oldest UPDATE records of the journal.
OldestUpdates(k) ==
    LET updates == kept \ Boundaries
    IN  {c \in updates : Cardinality({d \in updates : d <= c}) <= k}

\* The event engine emits an event and the journal keeps it, in the place of
\* old UPDATEs when it is full.
Journaled(p) ==
    /\ Len(phase) < MaxCursor
    /\ (p = "START") = ~open
    /\ open' = (p # "END")
    /\ phase' = Append(phase, p)
    /\ \E k \in 0..Cardinality(kept \ Boundaries) :
           kept' = (kept \ OldestUpdates(k)) \cup {Len(phase')}

\* The RockIVA thread has the event journaled ...
Emit(p) ==
    /\ loop \in {"run", "deinit"}
    /\ hand = 0
    /\ Journaled(p)
    /\ hand' = Len(phase')
    /\ UNCHANGED <<loop, queue, conn, daemonVars, faults, overtaken>>

\* ... and invokes its delivery in the main context: the delivery is queued
\* while the main loop owns the context, and made on the spot by the calling
\* thread when nobody does.
Invoke ==
    /\ hand # 0
    /\ hand' = 0
    /\ \/ /\ loop = "run"
          /\ queue' = Append(queue, hand)
          /\ UNCHANGED <<conn, overtaken>>
       \/ /\ loop = "deinit"
          /\ conn' = Broadcast(hand)
          /\ overtaken' = (overtaken \/ queue # <<>>)
          /\ UNCHANGED queue
    /\ UNCHANGED <<phase, kept, open, loop, daemonVars, faults>>

\* deliver_analytics_event, in the main loop or while main drains the context.
Dispatch ==
    /\ loop \in {"run", "drain"}
    /\ queue # <<>>
    /\ conn' = Broadcast(Head(queue))
    /\ queue' = Tail(queue)
    /\ UNCHANGED <<phase, kept, open, hand, loop, daemonVars, faults, overtaken>>

\* SIGTERM ends the main loop.
Shutdown ==
    /\ loop = "run"
    /\ Fault
    /\ loop' = "deinit"
    /\ UNCHANGED <<phase, kept, open, hand, queue, conn, daemonVars, overtaken>>

\* engine_deinit, after the RockIVA thread is gone: the open event is closed,
\* its END delivered on the spot, and the journal closed.
CloseEngine ==
    /\ loop = "deinit"
    /\ hand = 0
    /\ loop' = "drain"
    /\ \/ /\ open
          /\ Journaled("END")
          /\ conn' = Broadcast(Len(phase'))
          /\ overtaken' = (overtaken \/ queue # <<>>)
       \/ /\ ~open \/ Len(phase) = MaxCursor
          /\ open' = FALSE
          /\ UNCHANGED <<phase, kept, conn, overtaken>>
    /\ UNCHANGED <<hand, queue, daemonVars, faults>>

\* The server's end is closed: what the socket holds can still be read.
Cut(c) == [NoConn EXCEPT !.wire = c.wire]

\* The context is drained; ipc_server_deinit closes the clients with what is
\* left in their output queues.
Exit ==
    /\ loop = "drain"
    /\ queue = <<>>
    /\ conn.out = <<>> \/ Len(conn.wire) = SocketSize
    /\ loop' = "down"
    /\ conn' = Cut(conn)
    /\ UNCHANGED <<phase, kept, open, hand, queue, daemonVars, faults, overtaken>>

EngineCrash ==
    /\ loop # "down"
    /\ Fault
    /\ loop' = "down"
    /\ open' = FALSE
    /\ hand' = 0
    /\ queue' = <<>>
    /\ conn' = Cut(conn)
    /\ UNCHANGED <<phase, kept, daemonVars, overtaken>>

Boot ==
    /\ loop = "down"
    /\ loop' = "run"
    /\ UNCHANGED <<phase, kept, open, hand, queue, conn, daemonVars, faults,
                   overtaken>>

-----------------------------------------------------------------------------
(* The delivery service *)

\* ConsumeEvents connects and subscribes from the durable acknowledgement.
Dial ==
    /\ daemon.pc = "off"
    /\ loop # "down"
    /\ daemon' = Idle("wait")
    /\ conn' = [NoConn EXCEPT
                    !.served = TRUE,
                    !.requests = <<[type |-> "subscribe", after |-> acked]>>]
    /\ UNCHANGED <<engineVars, stored, acked, faults, overtaken>>

\* ConsumeEvents returns and closes the connection.
Hangup(pc) ==
    /\ daemon' = Idle(pc)
    /\ conn' = NoConn

Receive ==
    /\ daemon.pc \in {"wait", "live"}
    /\ conn.wire # <<>>
    /\ LET m == Head(conn.wire)
           rest == [conn EXCEPT !.wire = Tail(@)]
       IN  \/ /\ m.type \in {"error", "other"}
              /\ Hangup("off")
           \/ /\ m.type = "result"
              /\ IF m.gap THEN Hangup("stopped")
                          ELSE daemon' = Idle("live") /\ conn' = rest
           \/ /\ m.type = "event"
              /\ daemon' = [pc |-> "store", cursor |-> m.cursor]
              /\ conn' = rest
    /\ UNCHANGED <<engineVars, stored, acked, faults, overtaken>>

\* The stream has ended: the server closed its end and everything is read.
EndOfStream ==
    /\ daemon.pc \in {"wait", "live"}
    /\ ~conn.served
    /\ conn.wire = <<>>
    /\ Hangup("off")
    /\ UNCHANGED <<engineVars, stored, acked, faults, overtaken>>

\* ingest stores the event, or drops an UPDATE for want of room.
Store ==
    /\ daemon.pc = "store"
    /\ \/ stored' = stored \cup {daemon.cursor}
       \/ daemon.cursor \notin Boundaries /\ UNCHANGED stored
    /\ daemon' = [daemon EXCEPT !.pc = "ack"]
    /\ UNCHANGED <<engineVars, conn, acked, faults, overtaken>>

\* Mutant of StoreFails: the error is logged and the event acknowledged.
StoreFailsAcked ==
    /\ daemon.pc = "store"
    /\ Fault
    /\ daemon' = [daemon EXCEPT !.pc = "ack"]
    /\ UNCHANGED <<engineVars, conn, stored, acked, overtaken>>

\* The outbox fails, or the evidence of a stored event cannot be staged yet:
\* the subscription ends without an acknowledgement.
StoreFails ==
    /\ daemon.pc = "store"
    /\ Fault
    /\ stored' \in {stored, stored \cup {daemon.cursor}}
    /\ Hangup("off")
    /\ UNCHANGED <<engineVars, acked, overtaken>>

\* The outbox is full of what may not be evicted, or the event is invalid: Run
\* returns as it does after a replay gap.
StoreRefused ==
    /\ daemon.pc = "store"
    /\ Fault
    /\ Hangup("stopped")
    /\ UNCHANGED <<engineVars, stored, acked, overtaken>>

\* Ack of the outbox, which keeps the larger cursor, and media.ack_events; the
\* write fails when the server has closed its end, and what the socket still
\* holds is not read any more.
Ack ==
    /\ daemon.pc = "ack"
    /\ acked' = IF daemon.cursor > acked THEN daemon.cursor ELSE acked
    /\ \/ /\ conn.served
          /\ conn' = [conn EXCEPT !.requests = Append(@, [type |-> "ack"])]
          /\ daemon' = Idle("live")
       \/ /\ ~conn.served
          /\ Hangup("off")
    /\ UNCHANGED <<engineVars, stored, faults, overtaken>>

\* The daemon dies, or is restarted after Run has returned.
DaemonCrash ==
    /\ daemon.pc # "off"
    /\ Fault
    /\ Hangup("off")
    /\ UNCHANGED <<engineVars, stored, acked, overtaken>>

-----------------------------------------------------------------------------
EngineStep ==
    \/ \E p \in {"START", "UPDATE", "END"} : Emit(p)
    \/ Invoke \/ Dispatch \/ Handle \/ Flush \/ BroadcastOther
    \/ Shutdown \/ CloseEngine \/ Exit \/ EngineCrash \/ Boot

DaemonStep ==
    Dial \/ Receive \/ EndOfStream \/ Store \/ Ack

Next == EngineStep \/ DaemonStep \/ StoreFails \/ StoreRefused \/ DaemonCrash

Spec == Init /\ [][Next]_vars

(***************************************************************************)
(* The worker finishes the event it has in hand, the main loop serves each *)
(* of its sources and the shutdown, the daemon reads what it is sent and   *)
(* dials again after every end of a subscription, and the engine is        *)
(* started again.                                                          *)
(***************************************************************************)
Fairness ==
    /\ WF_vars(Invoke)
    /\ WF_vars(Dispatch)
    /\ WF_vars(Handle)
    /\ WF_vars(Flush)
    /\ WF_vars(CloseEngine)
    /\ WF_vars(Exit)
    /\ WF_vars(Boot)
    /\ WF_vars(DaemonStep)

FairSpec == Spec /\ Fairness

-----------------------------------------------------------------------------
(* Properties *)

Message == {Error, OtherEvent}
               \cup {SubscribeResult(gap) : gap \in BOOLEAN}
               \cup {Event(c) : c \in DOMAIN phase}

\* Every variable has its type.
TypeOK ==
    /\ Len(phase) <= MaxCursor
    /\ Range(phase) \subseteq {"START", "UPDATE", "END"}
    /\ Boundaries \subseteq kept /\ kept \subseteq DOMAIN phase
    /\ open \in BOOLEAN
    /\ hand \in {0} \cup DOMAIN phase
    /\ loop \in {"run", "deinit", "drain", "down"}
    /\ Range(queue) \subseteq DOMAIN phase
    /\ conn.served \in BOOLEAN
    /\ conn.subscribed \in BOOLEAN
    /\ Range(conn.wire) \cup Range(conn.out) \subseteq Message
    /\ Len(conn.wire) <= SocketSize
    /\ daemon.pc \in {"off", "wait", "live", "store", "ack", "stopped"}
    /\ daemon.cursor \in {0} \cup DOMAIN phase
    /\ stored \subseteq DOMAIN phase
    /\ acked \in {0} \cup DOMAIN phase
    /\ faults \in 0..MaxFaults
    /\ overtaken \in BOOLEAN

\* What is on its way to the daemon over the connection it has.
Coming ==
    {daemon.cursor}
        \cup {m.cursor : m \in {n \in Range(conn.wire) \cup Range(conn.out) :
                                    n.type = "event"}}
        \cup IF conn.subscribed THEN Range(queue) \cup {hand} ELSE {}

\* The acknowledged cursor never covers a START or END that is not in the
\* outbox, through disconnections, failing ingests, crashes of both processes
\* and duplicates, as long as no delivery has overtaken a queued one: a
\* reconnect from it misses nothing (delivery.go:142-144).
AckCoversStored ==
    ~overtaken => \A c \in Boundaries : c <= acked => c \in stored

\* While the daemon is subscribed, every START and END beyond its
\* acknowledgement is stored or on its way: nothing falls between the replay
\* of subscribe_events and the deliveries queued before, during and after it.
NothingBetween ==
    conn.subscribed =>
        \A c \in Boundaries : c > acked => c \in stored \cup Coming

\* An UPDATE that was evicted before the daemon acknowledged it stops delivery
\* instead of being passed over: a daemon never acknowledges beyond a cursor
\* it was not sent (gb28181_daemon/README.md:78).
GapStops ==
    [][acked' > acked /\ ~overtaken =>
           \A c \in (acked + 1)..acked' : c \in kept \/ c = daemon.cursor
                                              \/ c \in stored]_vars

\* Every START and END that is journaled is stored in the end, through every
\* end of a subscription that Run retries, unless Run returned (after a replay
\* gap or a refusal of the outbox) or a delivery was overtaken.
BoundaryArrives ==
    \A c \in 1..MaxCursor :
        (c \in Boundaries) ~> (\/ c \in stored
                               \/ overtaken
                               \/ daemon.pc = "stopped")

\* "If the daemon crashes before the durable receipt, the producer replays"
\* (docs/people-flow-alarm/spec.md:177): a START or END that is not stored is
\* beyond the acknowledgement, or still on its way.
NoBoundaryLost ==
    \A c \in Boundaries : c \in stored \/ c > acked \/ c \in Coming

=============================================================================
