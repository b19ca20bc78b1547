---------------------------- MODULE LiveSession ----------------------------
(***************************************************************************)
(* A live view from INVITE to BYE: the SIP handlers and loops of           *)
(* gb28181_daemon (src/gb28181_daemon/internal/sipua/ua.go, app/app.go,    *)
(* session/manager.go, media/rpc.go) against the session of media_engine.  *)
(*                                                                         *)
(* The handlers that touch media hold mediaMu from beginning to end, their *)
(* RPCs included, so one job at a time is under way; only the shutdown     *)
(* loop does not take the lock.  Each RPC has a connection of its own: the *)
(* engine serves them in the order they connected, and serves a request    *)
(* whose caller has given up or died all the same.                         *)
(***************************************************************************)
EXTENDS MediaSession

CONSTANTS
    Foreign,   \* sessions other clients of the control socket start
    MaxFaults  \* bound: failing stops, failed RPCs, GStreamer faults and
               \* process ends in one behaviour

\* A reply to a status is a Call-ID or one of these words.
ASSUME LiveAssumption ==
    /\ Foreign \subseteq Call /\ MaxFaults \in Nat
    /\ Call \cap {"none", "ok", "error", "idle"} = {}

VARIABLES
    proc,    \* the daemon: "down", "reconcile", "running" or "stopping"
    live,    \* session.Manager: the state of each Call-ID
    dialog,  \* the goroutine of handleInvite, by Call-ID
    bye,     \* the goroutine of handleBye, by Call-ID
    job,     \* the critical section of mediaMu that is under way
    todo,    \* the sessions the shutdown loop has still to stop
    queue,   \* requests the engine has not served yet
    reply,   \* what the RPC of "job" and of "main" has returned
    faults   \* faults so far

daemonVars == <<proc, live, dialog, bye, job, todo>>
rpcVars == <<queue, reply>>
vars == <<mediaVars, daemonVars, rpcVars, faults>>

NoJob == [kind |-> "none", call |-> None, step |-> "none"]

Own == Call \ Foreign

Entries == {c \in Call : live[c] # "none"}

Init ==
    /\ MediaInit
    /\ proc = "down"
    /\ live = [c \in Call |-> "none"]
    /\ dialog = [c \in Call |-> "none"]
    /\ bye = [c \in Call |-> "none"]
    /\ job = NoJob
    /\ todo = {}
    /\ queue = <<>>
    /\ reply = [job |-> "none", main |-> "none"]
    /\ faults = 0

Fault == faults < MaxFaults /\ faults' = faults + 1
Fine == UNCHANGED faults
FaultUnless(ok) == IF ok THEN Fine ELSE Fault

-----------------------------------------------------------------------------
(* RPC *)

Send(who, op, c) ==
    /\ queue' = Append(queue, [op |-> op, call |-> c, from |-> who])
    /\ reply' = [reply EXCEPT ![who] = "none"]

Received(who) ==
    /\ UNCHANGED queue
    /\ reply' = [reply EXCEPT ![who] = "none"]

\* The RPC of who is over, with the answer r.
Answered(who, r) == reply[who] = r

\* What the caller of a request that has been served is told.
Serve(r) ==
    /\ queue' = Tail(queue)
    /\ reply' = IF Head(queue).from = "gone" THEN reply
                ELSE [reply EXCEPT ![Head(queue).from] = r]

\* RPC.call times out or fails.  The request is in the engine's socket by
\* then, or never got there.
CallFails(who) ==
    /\ Fault
    /\ \E i \in DOMAIN queue :
          /\ queue[i].from = who
          /\ \/ queue' = [queue EXCEPT ![i].from = "gone"]
             \/ queue' = SubSeq(queue, 1, i - 1) \o SubSeq(queue, i + 1, Len(queue))
    /\ reply' = [reply EXCEPT ![who] = "error"]
    /\ UNCHANGED <<mediaVars, daemonVars>>

\* ipc_handle_line of the request at the head of the queue.
Serving(op) == queue # <<>> /\ Head(queue).op = op

HandleStatus ==
    /\ Serving("status")
    /\ Serve(IF sessions = {} THEN "idle" ELSE CHOOSE c \in sessions : TRUE)
    /\ Fine
    /\ UNCHANGED <<mediaVars, daemonVars>>

HandleStart ==
    /\ Serving("start")
    /\ SessionStart(Head(queue).call)
    /\ Serve("ok")
    /\ Fine
    /\ UNCHANGED daemonVars

\* The slot or the branch is taken, or starting the branch failed.
HandleStartRefused ==
    /\ Serving("start")
    /\ FaultUnless(sessions # {} \/ ~ready \/ phase # "idle")
    /\ Serve("error")
    /\ UNCHANGED <<mediaVars, daemonVars>>

HandleStop(ok) ==
    /\ Serving("stop")
    /\ SessionStop(Head(queue).call, ok)
    /\ FaultUnless(ok)
    /\ Serve(IF ok THEN "ok" ELSE "error")
    /\ UNCHANGED <<fresh, branch, ready, daemonVars>>

HandleKeepalive ==
    /\ Serving("keepalive")
    /\ IF Head(queue).call \in sessions
       THEN SessionTouch(Head(queue).call) /\ Serve("ok")
       ELSE UNCHANGED mediaVars /\ Serve("error")
    /\ Fine
    /\ UNCHANGED daemonVars

Handle ==
    \/ HandleStatus \/ HandleStart \/ HandleStartRefused \/ HandleKeepalive
    \/ \E ok \in BOOLEAN : HandleStop(ok)

-----------------------------------------------------------------------------
(* The critical sections of mediaMu *)

Up == proc \in {"running", "stopping"}

\* A job takes mediaMu and starts with an RPC.
Lock(kind, c, op) ==
    /\ Up
    /\ job = NoJob
    /\ job' = [kind |-> kind, call |-> c, step |-> op]
    /\ Send("job", op, c)

\* The job goes on with another RPC.
GoOn(step, op, c) ==
    /\ job' = [job EXCEPT !.step = step]
    /\ Send("job", op, c)

Unlock == job' = NoJob /\ Received("job")

At(kind, step) ==
    /\ job.kind = kind
    /\ job.step = step
    /\ ~Answered("job", "none")
    /\ Fine
    /\ UNCHANGED <<mediaVars, proc, todo>>

\* handleInvite: PrepareInvite asks the engine for its status.
Invite(c) ==
    /\ c \in Own
    /\ dialog[c] = "none"
    /\ Lock("prepare", c, "status")
    /\ dialog' = [dialog EXCEPT ![c] = "prepare"]
    /\ Fine
    /\ UNCHANGED <<mediaVars, proc, live, bye, todo>>

Rejected == [dialog EXCEPT ![job.call] = "ended"]

\* Mutant of Reserve: the table is not asked.
ReserveUnasked ==
    LET free == Answered("job", "idle")
    IN  /\ live' = IF free THEN [live EXCEPT ![job.call] = "pending"] ELSE live
        /\ dialog' = IF free THEN [dialog EXCEPT ![job.call] = "wait"] ELSE Rejected
        /\ Unlock

\* PrepareInvite with its final status: a running session is busy and so is
\* a table that is not empty; otherwise the call is reserved and handleInvite
\* answers 200.
Reserve ==
    LET free == Answered("job", "idle") /\ Entries = {}
    IN  /\ live' = IF free THEN [live EXCEPT ![job.call] = "pending"] ELSE live
        /\ dialog' = IF free THEN [dialog EXCEPT ![job.call] = "wait"] ELSE Rejected
        /\ Unlock

\* PrepareInvite: a running session that has no entry is stopped first.
PrepareStatus ==
    /\ At("prepare", "status")
    /\ LET orphan == {c \in Call : Answered("job", c) /\ live[c] = "none"}
       IN  \/ orphan = {} /\ Reserve
           \/ /\ \E c \in orphan : GoOn("orphan", "stop", c)
              /\ UNCHANGED <<live, dialog>>
    /\ UNCHANGED bye

PrepareOrphan ==
    /\ At("prepare", "orphan")
    /\ IF Answered("job", "ok")
       THEN GoOn("again", "status", None) /\ UNCHANGED dialog
       ELSE Unlock /\ dialog' = Rejected
    /\ UNCHANGED <<live, bye>>

PrepareAgain ==
    /\ At("prepare", "again")
    /\ Reserve
    /\ UNCHANGED bye

\* handleInvite: the ACK arrives.
Ack(c) ==
    /\ Up
    /\ dialog[c] = "wait"
    /\ dialog' = [dialog EXCEPT ![c] = "accept"]
    /\ Fine
    /\ UNCHANGED <<mediaVars, rpcVars, proc, live, bye, job, todo>>

\* handleInvite: it does not, or the 200 could not be sent.
AckTimeout(c) ==
    /\ Up
    /\ dialog[c] = "wait"
    /\ dialog' = [dialog EXCEPT ![c] = "fail"]
    /\ Fine
    /\ UNCHANGED <<mediaVars, rpcVars, proc, live, bye, job, todo>>

\* Mutant of Accept: the reservation is not looked at again.
AcceptAny(c) ==
    /\ dialog[c] = "accept"
    /\ Lock("accept", c, "start")
    /\ dialog' = [dialog EXCEPT ![c] = "start"]
    /\ Fine
    /\ UNCHANGED <<mediaVars, proc, live, bye, todo>>

\* InviteAccepted starts the media of a reservation that is still pending.
Accept(c) ==
    /\ dialog[c] = "accept"
    /\ live[c] = "pending"
    /\ Lock("accept", c, "start")
    /\ dialog' = [dialog EXCEPT ![c] = "start"]
    /\ Fine
    /\ UNCHANGED <<mediaVars, proc, live, bye, todo>>

\* InviteAccepted: the reservation was cancelled before the ACK.
AcceptCancelled(c) ==
    /\ Up
    /\ job = NoJob
    /\ dialog[c] = "accept"
    /\ live[c] # "pending"
    /\ dialog' = [dialog EXCEPT ![c] = "fail"]
    /\ Fine
    /\ UNCHANGED <<mediaVars, rpcVars, proc, live, bye, job, todo>>

\* InviteAccepted: Activate after a start, or MarkCleanup should the call not
\* be pending any more; StopLive after a failure that may have started the
\* media all the same.
AcceptStarted ==
    /\ At("accept", "start")
    /\ LET c == job.call
       IN  IF Answered("job", "ok")
           THEN /\ live' = [live EXCEPT ![c] = CASE @ = "pending" -> "active"
                                                [] @ = "none" -> "none"
                                                [] OTHER -> "cleanup"]
                /\ dialog' = [dialog EXCEPT ![c] = IF live[c] = "pending"
                                                   THEN "ended" ELSE "fail"]
                /\ Unlock
           ELSE GoOn("undo", "stop", c) /\ UNCHANGED <<live, dialog>>
    /\ UNCHANGED bye

\* A reservation whose media could not be stopped is kept to be cleaned up.
AcceptUndone ==
    /\ At("accept", "undo")
    /\ live' = [live EXCEPT ![job.call] = IF Answered("job", "ok") THEN "none"
                                                                   ELSE "cleanup"]
    /\ dialog' = [dialog EXCEPT ![job.call] = "fail"]
    /\ Unlock
    /\ UNCHANGED bye

\* InviteFailed cancels what is still pending; the dialog is over.
InviteFailed(c) ==
    /\ Up
    /\ job = NoJob
    /\ dialog[c] = "fail"
    /\ live' = [live EXCEPT ![c] = IF @ = "pending" THEN "none" ELSE @]
    /\ dialog' = [dialog EXCEPT ![c] = "ended"]
    /\ Fine
    /\ UNCHANGED <<mediaVars, rpcVars, proc, bye, job, todo>>

\* handleBye answers 200 as soon as a BYE for a dialog arrives.
ByeReceived(c) ==
    /\ Up
    /\ c \in Own
    /\ dialog[c] \in {"wait", "accept", "start", "fail", "ended"}
    /\ bye[c] = "none"
    /\ bye' = [bye EXCEPT ![c] = "received"]
    /\ Fine
    /\ UNCHANGED <<mediaVars, rpcVars, proc, live, dialog, job, todo>>

\* Bye stops the media before the entry goes.
Bye(c) ==
    /\ bye[c] = "received"
    /\ Lock("bye", c, "stop")
    /\ bye' = [bye EXCEPT ![c] = "stopping"]
    /\ Fine
    /\ UNCHANGED <<mediaVars, proc, live, dialog, todo>>

\* The entry after a StopLive: gone, or kept for another try.
AfterStop(c) ==
    IF Answered("job", "ok") THEN "none"
    ELSE IF live[c] = "none" THEN "none" ELSE "cleanup"

ByeStopped ==
    /\ At("bye", "stop")
    /\ live' = [live EXCEPT ![job.call] = AfterStop(job.call)]
    /\ bye' = [bye EXCEPT ![job.call] = IF Answered("job", "ok") THEN "released"
                                                                 ELSE "failed"]
    /\ Unlock
    /\ UNCHANGED dialog

\* mediaLeaseLoop: an entry to clean up is stopped again.
LeaseCleanup(c) ==
    /\ live[c] = "cleanup"
    /\ Lock("release", c, "stop")
    /\ Fine
    /\ UNCHANGED <<mediaVars, proc, live, dialog, bye, todo>>

\* mediaLeaseLoop: max_live_s is over.
LeaseMaxLive(c) ==
    /\ live[c] = "active"
    /\ Lock("release", c, "stop")
    /\ Fine
    /\ UNCHANGED <<mediaVars, proc, live, dialog, bye, todo>>

\* keepaliveLoop: the third keepalive in a row failed, and whatever entry
\* there is goes, a reservation included.
PlatformLost(c) ==
    /\ live[c] # "none"
    /\ Lock("release", c, "stop")
    /\ Fine
    /\ UNCHANGED <<mediaVars, proc, live, dialog, bye, todo>>

\* Mutant of Released: a failed stop leaves the entry in a state no loop
\* looks at.
ReleasedPending ==
    /\ At("release", "stop")
    /\ live' = [live EXCEPT ![job.call] = IF Answered("job", "ok") THEN "none"
                                                                   ELSE "pending"]
    /\ Unlock
    /\ UNCHANGED <<dialog, bye>>

Released ==
    /\ At("release", "stop")
    /\ live' = [live EXCEPT ![job.call] = AfterStop(job.call)]
    /\ Unlock
    /\ UNCHANGED <<dialog, bye>>

\* mediaLeaseLoop: an active entry renews its lease.
LeaseRefresh(c) ==
    /\ live[c] = "active"
    /\ Lock("lease", c, "keepalive")
    /\ Fine
    /\ UNCHANGED <<mediaVars, proc, live, dialog, bye, todo>>

\* A keepalive that fails is followed by a status.
LeaseRefreshed ==
    /\ At("lease", "keepalive")
    /\ IF Answered("job", "ok") THEN Unlock ELSE GoOn("status", "status", None)
    /\ UNCHANGED <<live, dialog, bye>>

\* Only a status without this session gives the entry up.
LeaseStatus ==
    /\ At("lease", "status")
    /\ live' = IF reply.job \in {"error", job.call} THEN live
               ELSE [live EXCEPT ![job.call] = "none"]
    /\ Unlock
    /\ UNCHANGED <<dialog, bye>>

-----------------------------------------------------------------------------
(* The daemon process *)

\* Run asks for the status of the engine before it registers.
Start ==
    /\ proc = "down"
    /\ proc' = "reconcile"
    /\ Send("main", "status", None)
    /\ Fine
    /\ UNCHANGED <<mediaVars, live, dialog, bye, job, todo>>

\* The process is gone, with everything its goroutines were at.
Ended ==
    /\ proc' = "down"
    /\ live' = [c \in Call |-> "none"]
    /\ dialog' = [c \in Call |-> IF dialog[c] = "none" THEN "none" ELSE "ended"]
    /\ bye' = [c \in Call |-> IF bye[c] = "none" THEN "none"
                              ELSE IF bye[c] = "released" THEN "released"
                              ELSE "failed"]
    /\ job' = NoJob
    /\ todo' = {}
    /\ queue' = [i \in DOMAIN queue |-> [queue[i] EXCEPT !.from = "gone"]]
    /\ reply' = [job |-> "none", main |-> "none"]

\* Mutant of Reconcile: an orphan is left to the lease.
ReconcileLazily ==
    /\ proc = "reconcile"
    /\ reply.main \in Call \cup {"idle", "ok"}
    /\ proc' = "running"
    /\ Received("main")
    /\ Fine
    /\ UNCHANGED <<mediaVars, live, dialog, bye, job, todo>>

\* reconcileMedia: a session that is running has no owner and is stopped.
Reconcile ==
    /\ proc = "reconcile"
    /\ \/ /\ reply.main \in Call
          /\ Send("main", "stop", reply.main)
          /\ UNCHANGED proc
       \/ /\ reply.main \in {"idle", "ok"}
          /\ proc' = "running"
          /\ Received("main")
    /\ Fine
    /\ UNCHANGED <<mediaVars, live, dialog, bye, job, todo>>

\* Run returns the error of reconcileMedia.
ReconcileFails ==
    /\ proc = "reconcile"
    /\ Answered("main", "error")
    /\ Ended
    /\ Fine
    /\ UNCHANGED mediaVars

\* The context is cancelled: Run lists the sessions, without mediaMu.
Shutdown ==
    /\ proc = "running"
    /\ Fault
    /\ proc' = "stopping"
    /\ todo' = Entries
    /\ UNCHANGED <<mediaVars, rpcVars, live, dialog, bye, job>>

\* It stops one after the other, whatever the RPCs return, and exits.
ShutdownStop(c) ==
    /\ proc = "stopping"
    /\ c \in todo
    /\ todo' = todo \ {c}
    /\ Send("main", "stop", c)
    /\ Fine
    /\ UNCHANGED <<mediaVars, proc, live, dialog, bye, job>>

ShutdownExit ==
    /\ proc = "stopping"
    /\ todo = {}
    /\ \A i \in DOMAIN queue : queue[i].from # "main"
    /\ Ended
    /\ Fine
    /\ UNCHANGED mediaVars

\* The daemon dies, or fails to register.
DaemonCrash ==
    /\ proc # "down"
    /\ Fault
    /\ Ended
    /\ UNCHANGED mediaVars

-----------------------------------------------------------------------------
(* The engine on its own *)

MediaFault ==
    /\ Fault
    /\ \/ \E error, ok \in BOOLEAN : GstFault(error, ok)
       \/ GstBaseError
    /\ UNCHANGED <<daemonVars, rpcVars>>

MediaIdle ==
    /\ NullReached \/ DestroyIdle
    /\ Fine
    /\ UNCHANGED <<daemonVars, rpcVars>>

LeaseTimeout ==
    /\ LeaseRunsOut
    /\ Fine
    /\ UNCHANGED <<daemonVars, rpcVars>>

MediaReap ==
    /\ \E ok \in BOOLEAN : Reap(ok) /\ FaultUnless(ok)
    /\ UNCHANGED <<daemonVars, rpcVars>>

\* The engine restarts: its sessions and the requests in its sockets are gone.
EngineRestart ==
    /\ Fault
    /\ sessions' = {}
    /\ fresh' = FALSE
    /\ phase' = "idle"
    /\ branch' = None
    /\ ready' = TRUE
    /\ queue' = <<>>
    /\ reply' = [w \in {"job", "main"} |->
                    IF \E i \in DOMAIN queue : queue[i].from = w
                    THEN "error" ELSE reply[w]]
    /\ UNCHANGED daemonVars

\* Another client of the control socket starts a session.
ForeignStart(c) ==
    /\ c \in Foreign
    /\ dialog[c] = "none"
    /\ SessionStart(c)
    /\ dialog' = [dialog EXCEPT ![c] = "ended"]
    /\ Fine
    /\ UNCHANGED <<rpcVars, proc, live, bye, job, todo>>

-----------------------------------------------------------------------------
JobStep ==
    \/ PrepareStatus \/ PrepareOrphan \/ PrepareAgain
    \/ AcceptStarted \/ AcceptUndone \/ ByeStopped
    \/ Released \/ LeaseRefreshed \/ LeaseStatus

MainStep ==
    \/ Reconcile \/ ReconcileFails \/ ShutdownExit
    \/ \E c \in Call : ShutdownStop(c)

HandlerStep(c) ==
    \/ AckTimeout(c) \/ Accept(c) \/ AcceptCancelled(c) \/ InviteFailed(c)

Next ==
    \/ Handle \/ JobStep \/ MainStep
    \/ \E who \in {"job", "main"} : CallFails(who)
    \/ \E c \in Call :
          \/ Invite(c) \/ Ack(c) \/ HandlerStep(c) \/ ByeReceived(c) \/ Bye(c)
          \/ LeaseCleanup(c) \/ LeaseMaxLive(c) \/ LeaseRefresh(c)
          \/ PlatformLost(c) \/ ForeignStart(c)
    \/ Start \/ Shutdown \/ DaemonCrash
    \/ MediaFault \/ MediaIdle \/ LeaseTimeout \/ MediaReap \/ EngineRestart

Spec == Init /\ [][Next]_vars

(***************************************************************************)
(* The main loop of the engine and every goroutine of the daemon keep      *)
(* running.  A goroutine that waits for mediaMu gets it in the end (a Go   *)
(* mutex hands itself over after a millisecond of starvation), which is    *)
(* why what takes the lock is strongly fair.  Time passes: max_live_s is   *)
(* over at some tick of the lease loop, and the lease of a session that is *)
(* not active in a daemon runs out.  Nothing is assumed of the platform,   *)
(* and the daemon need not be started again.                               *)
(***************************************************************************)
Fairness ==
    /\ WF_vars(Handle)
    /\ WF_vars(JobStep)
    /\ WF_vars(MainStep)
    /\ WF_vars(MediaIdle)
    /\ WF_vars(MediaReap)
    /\ WF_vars(LeaseTimeout /\ \E c \in sessions : live[c] # "active")
    /\ \A c \in Call : /\ SF_vars(HandlerStep(c))
                       /\ SF_vars(Bye(c))
                       /\ SF_vars(LeaseCleanup(c))
                       /\ SF_vars(LeaseMaxLive(c))

FairSpec == Spec /\ Fairness

-----------------------------------------------------------------------------
(* Properties *)

Requests == [op : {"status", "start", "stop", "keepalive"},
             call : Call \cup {None}, from : {"job", "main", "gone"}]

\* Every variable has its type, and the single media slot has at most one
\* owner, in the engine and in the daemon.
TypeOK ==
    /\ MediaTypeOK
    /\ Cardinality(sessions) <= 1
    /\ Cardinality(Entries) <= 1
    /\ proc \in {"down", "reconcile", "running", "stopping"}
    /\ live \in [Call -> {"none", "pending", "active", "cleanup"}]
    /\ dialog \in [Call -> {"none", "prepare", "wait", "accept", "start", "fail",
                            "ended"}]
    /\ bye \in [Call -> {"none", "received", "stopping", "released", "failed"}]
    /\ job.kind \in {"none", "prepare", "accept", "bye", "release", "lease"}
    /\ job.call \in Call \cup {None}
    /\ job.step \in {"none", "status", "orphan", "again", "start", "undo", "stop",
                     "keepalive"}
    /\ todo \subseteq Call
    /\ queue \in Seq(Requests)
    /\ reply \in [{"job", "main"} -> {"none", "ok", "error", "idle"} \cup Call]
    /\ faults \in 0..MaxFaults

\* "a BYE racing with ACK cannot start an already cancelled media session"
\* (session/manager.go:5): once a BYE has released a call, the engine never
\* has a session for it again, whatever ACK, timed-out start or restart is
\* still to come.
NoStartAfterBye ==
    \A c \in Call : bye[c] = "released" => c \notin sessions

\* A registered daemon owns every session its own INVITEs have started: no
\* timeout, lost reply, failed stop or restart leaves the engine streaming to
\* a call the daemon has forgotten.
NoOrphan ==
    proc = "running" => sessions \cap Own \subseteq Entries

\* RTP is only sent for the session the engine reports as running.
StreamReported == phase = "active" => sessions = {branch}

\* Every media session ends, BYE or not: by max_live_s while the daemon is
\* there, by the lease when it is not (gb28181_daemon/README.md:54-57).
SessionEnds == \A c \in Call : c \in sessions ~> c \notin sessions

\* The daemon's slot is never held for ever: every reservation, session and
\* cleanup gives it back.
SlotFreed == \A c \in Call : live[c] # "none" ~> live[c] = "none"

=============================================================================
