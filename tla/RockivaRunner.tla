---------------------------- MODULE RockivaRunner ----------------------------
(***************************************************************************)
(* The RockIVA runner of media_engine (analytics/rockiva_runner.c): frames *)
(* go from the streaming thread of the appsink to the RockIVA SDK, which   *)
(* reports the detections and gives the frames back on threads of its own, *)
(* and me_rockiva_runner_free takes all of it down while the pipeline is   *)
(* still running (gst_runner_free).                                        *)
(*                                                                         *)
(* Abstractions.  A frame is its id, and being in the table of frames is   *)
(* holding a reference to its buffer.  Ids do not wrap around.  The label  *)
(* of a result (its stream and time) is in EvidenceCache, what becomes of  *)
(* an observation in EventEngine.  The SDK is external: it calls back only *)
(* for frames it has taken, in any order, also before PushFrame returns    *)
(* and for the result also after the release; PushFrame fails for a frame  *)
(* it has not taken, or one it has called back for, with a result, a       *)
(* failure or a release; a successful DETECT_Release ends the results and  *)
(* a successful ROCKIVA_Release waits for the callbacks and ends them.     *)
(* The appsink does not begin a call once its table of callbacks is        *)
(* replaced, but a call it has begun goes on.                              *)
(***************************************************************************)
EXTENDS Integers, FiniteSets

CONSTANT MaxFrames      \* bound: frames of a behaviour

ASSUME FramesAssumption == MaxFrames \in Nat

VARIABLES
    main,       \* where the main thread is in the life of the runner
    safe,       \* the local of me_rockiva_runner_free
    stopping,
    callbacks,  \* the appsink has the callback table of the runner
    active,     \* active_callbacks
    pending,    \* pending_frames
    next,       \* next_frame_id
    frames,     \* ids in the table of frames
    seen,       \* ids with detection_seen
    stream,     \* where the streaming thread is in new_sample_callback
    sid,        \* its frame_id
    held,       \* frames the SDK has not released
    results,    \* frames whose detection result is still to come
    detect,     \* where the detection thread of the SDK is
    misreported,  \* history: frames PushFrame returned an error for behind a
                  \* failed detection, while the SDK had not released them
    ignored     \* history: frames whose release was ignored

freeVars == <<main, safe, stopping, callbacks>>
streamVars == <<active, stream, sid, next>>
tableVars == <<pending, frames, seen>>
sdkVars == <<held, results, detect>>
history == <<misreported, ignored>>
runnerVars == <<freeVars, streamVars, tableVars, sdkVars, history>>

Id == 1..MaxFrames

RunnerInit ==
    /\ main = "new"
    /\ safe = TRUE
    /\ stopping = FALSE
    /\ callbacks = FALSE
    /\ active = 0
    /\ pending = 0
    /\ next = 0
    /\ frames = {}
    /\ seen = {}
    /\ stream = "idle"
    /\ sid = 0
    /\ held = {}
    /\ results = {}
    /\ detect = "idle"
    /\ misreported = {}
    /\ ignored = {}

\* me_rockiva_runner_new: the SDK and the callback of the appsink are set up, ...
New ==
    /\ main = "new"
    /\ main' = "run"
    /\ callbacks' = TRUE
    /\ UNCHANGED <<safe, stopping, streamVars, tableVars, sdkVars, history>>

\* ... or a call to the SDK fails, destroy_partial_runner undoes the ones before
\* and the pipeline runs without a runner.
NewFails ==
    /\ main = "new"
    /\ main' = "none"
    /\ UNCHANGED <<safe, stopping, callbacks, streamVars, tableVars, sdkVars, history>>

-----------------------------------------------------------------------------
(* new_sample_callback, on the streaming thread *)

\* The appsink calls; nothing counts the thread before it has the lock.
Call ==
    /\ callbacks
    /\ stream = "idle"
    /\ stream' = "called"
    /\ UNCHANGED <<freeVars, active, sid, next, tableVars, sdkVars, history>>

\* The first locked section: the call is counted, or returns FLUSHING.
Enter ==
    /\ stream = "called"
    /\ main # "freed"
    /\ IF stopping THEN stream' = "idle" /\ UNCHANGED active
                   ELSE stream' = "entered" /\ active' = active + 1
    /\ UNCHANGED <<freeVars, sid, next, tableVars, sdkVars, history>>

\* The runner has been freed under the thread: what it reads as stopping, and
\* whether it returns at all, is undefined.
EnterFreed ==
    /\ stream = "called"
    /\ main = "freed"
    /\ stream' \in {"idle", "lost"}
    /\ UNCHANGED <<freeVars, active, sid, next, tableVars, sdkVars, history>>

\* No sample, an unsuitable one, or the runner has been stopped meanwhile.
Reject ==
    /\ stream = "entered"
    /\ stream' = "leave"
    /\ UNCHANGED <<freeVars, active, sid, next, tableVars, sdkVars, history>>

\* next_frame_id_locked
NextId == next + 1

\* The frame enters the table with a reference to its buffer.
Register ==
    /\ stream = "entered"
    /\ ~stopping
    /\ next < MaxFrames
    /\ next' = next + 1
    /\ sid' = NextId
    /\ frames' = frames \cup {NextId}
    /\ pending' = pending + 1
    /\ stream' = "push"
    /\ UNCHANGED <<freeVars, active, seen, sdkVars, history>>

\* ROCKIVA_PushFrame takes the frame ...
Push ==
    /\ stream = "push"
    /\ held' = held \cup {sid}
    /\ results' = results \cup {sid}
    /\ stream' = "pushing"
    /\ UNCHANGED <<freeVars, active, sid, next, tableVars, detect, history>>

\* ... and returns, with success ...
PushReturns ==
    /\ stream = "pushing"
    /\ stream' = "leave"
    /\ UNCHANGED <<freeVars, active, sid, next, tableVars, sdkVars, history>>

\* ... or with an error after a callback, ...
PushFails ==
    /\ stream = "pushing"
    /\ sid \notin results \cap held
    /\ stream' = "refused"
    /\ misreported' = misreported \cup ({sid} \cap (held \ seen))
    /\ UNCHANGED <<freeVars, active, sid, next, tableVars, sdkVars, ignored>>

\* ... or refuses the frame.
PushRefused ==
    /\ stream = "push"
    /\ stream' = "refused"
    /\ UNCHANGED <<freeVars, active, sid, next, tableVars, sdkVars, history>>

Less(n) == IF n > 0 THEN n - 1 ELSE 0

\* Mutant of Drop: the frame is dropped although the SDK has reported on it.
DropSeen ==
    /\ stream = "refused"
    /\ stream' = "leave"
    /\ frames' = frames \ {sid}
    /\ pending' = IF sid \in frames THEN Less(pending) ELSE pending
    /\ UNCHANGED <<freeVars, active, sid, next, seen, sdkVars, history>>

\* Mutant of Drop: pending_frames keeps counting the frame.
DropCounted ==
    /\ stream = "refused"
    /\ stream' = "leave"
    /\ frames' = IF sid \in seen THEN frames ELSE frames \ {sid}
    /\ UNCHANGED <<freeVars, active, sid, next, pending, seen, sdkVars, history>>

\* After an error the frame is taken out of the table again, unless the SDK has
\* called back for it.
Drop ==
    /\ stream = "refused"
    /\ stream' = "leave"
    /\ \/ /\ sid \in frames \ seen
          /\ frames' = frames \ {sid}
          /\ pending' = Less(pending)
       \/ /\ sid \notin frames \ seen
          /\ UNCHANGED <<frames, pending>>
    /\ UNCHANGED <<freeVars, active, sid, next, seen, sdkVars, history>>

Leave ==
    /\ stream = "leave"
    /\ active' = Less(active)
    /\ stream' = "idle"
    /\ UNCHANGED <<freeVars, sid, next, tableVars, sdkVars, history>>

-----------------------------------------------------------------------------
(* The callbacks of the SDK *)

\* detect_callback looks the frame up, if the detection has succeeded; a failure
\* leaves no mark on the frame, ...
Detect(id) ==
    /\ detect = "idle"
    /\ id \in results
    /\ results' = results \ {id}
    /\ \/ /\ detect' = "observe"
          /\ seen' = IF id \in frames THEN seen \cup {id} ELSE seen
       \/ UNCHANGED <<detect, seen>>
    /\ UNCHANGED <<freeVars, streamVars, pending, frames, held, history>>

\* ... and calls observation_cb without the lock.
Observe ==
    /\ detect = "observe"
    /\ detect' = "idle"
    /\ UNCHANGED <<freeVars, streamVars, tableVars, held, results, history>>

\* Mutant of Release: releases are ignored once the runner is stopping.
ReleaseUnlessStopping(id) ==
    /\ main # "freed"
    /\ id \in held
    /\ held' = held \ {id}
    /\ frames' = IF stopping THEN frames ELSE frames \ {id}
    /\ seen' = IF stopping THEN seen ELSE seen \ {id}
    /\ pending' = IF id \in frames /\ ~stopping THEN Less(pending) ELSE pending
    /\ UNCHANGED <<freeVars, streamVars, results, detect, history>>

\* release_callback for one frame of its list.
Release(id) ==
    /\ main # "freed"
    /\ id \in held
    /\ held' = held \ {id}
    /\ frames' = frames \ {id}
    /\ seen' = seen \ {id}
    /\ pending' = IF id \in frames THEN Less(pending) ELSE pending
    /\ UNCHANGED <<freeVars, streamVars, results, detect, history>>

\* A release that does not match the frame, or is behind the first
\* ROCKIVA_MAX_OBJ_NUM of its list, leaves the frame in the table.
ReleaseIgnored(id) ==
    /\ main # "freed"
    /\ id \in held
    /\ held' = held \ {id}
    /\ ignored' = ignored \cup {id}
    /\ UNCHANGED <<freeVars, streamVars, tableVars, results, detect, misreported>>

-----------------------------------------------------------------------------
(* me_rockiva_runner_free, on the main thread *)

Stop ==
    /\ main = "run"
    /\ main' = "clear"
    /\ stopping' = TRUE
    /\ UNCHANGED <<safe, callbacks, streamVars, tableVars, sdkVars, history>>

ClearCallbacks ==
    /\ main = "clear"
    /\ main' = "active"
    /\ callbacks' = FALSE
    /\ UNCHANGED <<safe, stopping, streamVars, tableVars, sdkVars, history>>

\* wait_for_active_callbacks: they are gone, or five seconds are over.
WaitActive ==
    /\ main = "active"
    /\ main' = "finish"
    /\ safe' = (active = 0)
    /\ UNCHANGED <<stopping, callbacks, streamVars, tableVars, sdkVars, history>>

\* ROCKIVA_WaitFinish succeeds, is not supported, or fails.
WaitFinish ==
    /\ main = "finish"
    /\ \/ main' = "pending" /\ UNCHANGED safe
       \/ main' = "failed" /\ safe' = FALSE
    /\ UNCHANGED <<stopping, callbacks, streamVars, tableVars, sdkVars, history>>

\* Mutant of WaitPending: what wait_for_active_callbacks returned is forgotten.
WaitPendingOnly ==
    /\ main = "pending"
    /\ safe' = (pending = 0)
    /\ main' = IF safe' THEN "detection" ELSE "failed"
    /\ UNCHANGED <<stopping, callbacks, streamVars, tableVars, sdkVars, history>>

\* Mutant of WaitPending: the wait has no deadline.
WaitPendingForever ==
    /\ main = "pending"
    /\ pending = 0
    /\ main' = IF safe THEN "detection" ELSE "failed"
    /\ UNCHANGED <<safe, stopping, callbacks, streamVars, tableVars, sdkVars, history>>

\* wait_for_pending_frames; the runner and the SDK are kept unless both waits
\* have succeeded.
WaitPending ==
    /\ main = "pending"
    /\ safe' = (safe /\ pending = 0)
    /\ main' = IF safe' THEN "detection" ELSE "failed"
    /\ UNCHANGED <<stopping, callbacks, streamVars, tableVars, sdkVars, history>>

\* ROCKIVA_DETECT_Release
ReleaseDetection ==
    /\ main = "detection"
    /\ \/ main' = "final" /\ results' = {}
       \/ main' = "failed" /\ UNCHANGED results
    /\ UNCHANGED <<safe, stopping, callbacks, streamVars, tableVars, held, detect, history>>

FinalFinish ==
    /\ main = "final"
    /\ main' \in {"handle", "failed"}
    /\ UNCHANGED <<safe, stopping, callbacks, streamVars, tableVars, sdkVars, history>>

\* ROCKIVA_Release, and the runner is freed.
ReleaseHandle ==
    /\ main = "handle"
    /\ \/ main' = "freed" /\ detect = "idle"
       \/ main' = "failed"
    /\ UNCHANGED <<safe, stopping, callbacks, streamVars, tableVars, sdkVars, history>>

-----------------------------------------------------------------------------
StreamStep ==
    \/ Enter \/ EnterFreed \/ Reject \/ Register \/ Push \/ PushReturns
    \/ PushFails \/ PushRefused \/ Drop \/ Leave

FreeStep ==
    \/ ClearCallbacks \/ WaitActive \/ WaitFinish \/ WaitPending
    \/ ReleaseDetection \/ FinalFinish \/ ReleaseHandle

SdkStep ==
    (\E id \in Id : Detect(id) \/ Release(id) \/ ReleaseIgnored(id)) \/ Observe

RunnerNext == New \/ NewFails \/ Call \/ StreamStep \/ SdkStep \/ Stop \/ FreeStep

\* The main thread goes on: each of its waits has a deadline.
RunnerSpec == RunnerInit /\ [][RunnerNext]_runnerVars /\ WF_runnerVars(FreeStep)

-----------------------------------------------------------------------------
(* Properties *)

\* Every variable has its type.
RunnerTypeOK ==
    /\ main \in {"new", "none", "run", "clear", "active", "finish", "pending",
                 "detection", "final", "handle", "freed", "failed"}
    /\ safe \in BOOLEAN /\ stopping \in BOOLEAN /\ callbacks \in BOOLEAN
    /\ active \in 0..1
    /\ next \in 0..MaxFrames
    /\ pending \in 0..MaxFrames
    /\ frames \subseteq 1..next
    /\ seen \subseteq frames
    /\ stream \in {"idle", "called", "entered", "push", "pushing", "refused",
                   "leave", "lost"}
    /\ sid \in 0..next
    /\ held \subseteq 1..next
    /\ results \subseteq 1..next
    /\ detect \in {"idle", "observe"}
    /\ misreported \subseteq 1..next
    /\ ignored \subseteq 1..next

\* pending_frames counts the table, although it is changed by the streaming
\* thread and by release callbacks that may come before PushFrame returns: the
\* shutdown waits for this counter.
FramesCounted == pending = Cardinality(frames)

\* The runner keeps its reference to the buffer of every frame the SDK has not
\* released, also when PushFrame returned an error and during the shutdown
\* (docs/people-flow-alarm/spec.md:97).  The exception: an error of PushFrame
\* behind a failed detection, of which the frame bears no mark (lines 251-256),
\* is taken for a frame the SDK never had.
BufferHeld == held \subseteq frames \cup misreported

\* The streaming thread is not counted in active_callbacks.
Uncounted == {"idle", "called", "lost"}

\* Once the waits of the shutdown have succeeded, no thread is in
\* new_sample_callback behind its first locked section, and no frame is with the
\* SDK but those dropped too early (BufferHeld); and the runner is freed when no
\* result is being reported either.  Only a thread that was called and does not
\* have the lock yet can meet a freed runner.
FreedQuiet ==
    /\ main \in {"detection", "final", "handle", "freed"} =>
           stream \in Uncounted /\ held \subseteq misreported /\ frames = {}
    /\ main = "freed" => detect = "idle" /\ results = {}
    /\ stream = "lost" => main = "freed"

\* A shutdown ends, with the runner freed or kept for good, whatever becomes of
\* the frames and the streaming thread, if ROCKIVA_DETECT_Release and
\* ROCKIVA_Release return, which have no deadline.
ShutdownEnds == main = "clear" ~> main \in {"freed", "failed"}

\* Every frame's buffer is given back, also when the shutdown has given up, if
\* the SDK releases every frame it takes and PushFrame returns; a release that is
\* ignored leaves the frame in the table for good.
FrameReturned ==
    WF_runnerVars(StreamStep) /\ (\A id \in Id : WF_runnerVars(Release(id))) =>
        \A id \in Id : id \in frames ~> id \notin frames \/ id \in ignored

=============================================================================
