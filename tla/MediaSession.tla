---------------------------- MODULE MediaSession ----------------------------
(***************************************************************************)
(* The live session of media_engine: the session table with its lease      *)
(* (src/media_engine/src/session/session_mgr.c, engine/engine.c) and the   *)
(* RTP branch behind it (src/media_engine/src/gst/gst_runner.c).           *)
(*                                                                         *)
(* Everything here runs on the one GLib main loop, so every handler is one *)
(* action; the results of GStreamer are its parameters.  LiveSession       *)
(* composes these actions with the daemon that calls them.                 *)
(***************************************************************************)
EXTENDS Naturals, Sequences, FiniteSets

CONSTANTS
    Call,  \* the session ids, which are the Call-IDs of the INVITEs
    None   \* no call

ASSUME CallAssumption == None \notin Call

VARIABLES
    sessions,  \* SessionMgr.sessions
    fresh,     \* whether the lease of the session has not run out yet
    phase,     \* GstRunner.live.phase; IDLE and DESTROYED are "idle"
    branch,    \* GstRunner.live.session_id
    ready      \* GstRunner.base_ready

mediaVars == <<sessions, fresh, phase, branch, ready>>

Phase == {"idle", "active", "waiting", "drain", "failed"}

MediaTypeOK ==
    /\ sessions \subseteq Call
    /\ fresh \in BOOLEAN
    /\ phase \in Phase
    /\ branch \in Call \cup {None}
    /\ ready \in BOOLEAN

MediaInit ==
    /\ sessions = {}
    /\ fresh = FALSE
    /\ phase = "idle"
    /\ branch = None
    /\ ready = TRUE

-----------------------------------------------------------------------------
\* session_mgr_start succeeds: there is no session, no branch is left over,
\* and every GStreamer call worked.
SessionStart(c) ==
    /\ sessions = {}
    /\ ready
    /\ phase = "idle"
    /\ sessions' = {c}
    /\ fresh' = TRUE
    /\ phase' = "active"
    /\ branch' = c
    /\ UNCHANGED ready

\* session_mgr_touch, for a session that is there.
SessionTouch(c) ==
    /\ c \in sessions
    /\ fresh' = TRUE
    /\ UNCHANGED <<sessions, phase, branch, ready>>

\* gst_runner_stop_live on an active branch: whatever set_state returns, the
\* branch is off the tee; ASYNC waits for the bus, FAILURE keeps the bin.
BranchStop(ok) ==
    phase' \in IF ok THEN {"waiting", "drain"} ELSE {"failed"}

\* Mutant of SessionStop: a failing backend stop removes the session.
SessionStopForced(c, ok) ==
    \/ /\ c \notin sessions
       /\ ok
       /\ UNCHANGED <<sessions, phase>>
    \/ /\ c \in sessions
       /\ phase = "active"
       /\ UNCHANGED phase
       /\ sessions' = sessions \ {c}
    \/ /\ c \in sessions
       /\ phase # "active"
       /\ ok
       /\ sessions' = sessions \ {c}
       /\ UNCHANGED phase

\* session_mgr_stop: an unknown session is a success; a failing backend keeps
\* the session for a retry; a backend without the branch (NOT_FOUND), as after
\* such a failure, is a success.
SessionStop(c, ok) ==
    \/ /\ c \notin sessions
       /\ ok
       /\ UNCHANGED <<sessions, phase>>
    \/ /\ c \in sessions
       /\ phase = "active"
       /\ BranchStop(ok)
       /\ sessions' = IF ok THEN sessions \ {c} ELSE sessions
    \/ /\ c \in sessions
       /\ phase # "active"
       /\ ok
       /\ sessions' = sessions \ {c}
       /\ UNCHANGED phase

-----------------------------------------------------------------------------
(* Steps of the main loop that no request causes *)

\* runner_bus_cb: an ERROR or an EOS while a branch is active stops its
\* session, and an ERROR makes the base pipeline unusable for good.
GstFault(error, ok) ==
    /\ phase = "active"
    /\ SessionStop(branch, ok)
    /\ ready' = (ready /\ ~error)
    /\ UNCHANGED <<fresh, branch>>

\* runner_bus_cb: an ERROR without an active branch.
GstBaseError ==
    /\ phase # "active"
    /\ ready
    /\ ready' = FALSE
    /\ UNCHANGED <<sessions, fresh, phase, branch>>

\* runner_bus_cb: the branch has reached NULL.
NullReached ==
    /\ phase = "waiting"
    /\ phase' = "drain"
    /\ UNCHANGED <<sessions, fresh, branch, ready>>

\* live_branch_destroy_idle.
DestroyIdle ==
    /\ phase = "drain"
    /\ phase' = "idle"
    /\ branch' = None
    /\ UNCHANGED <<sessions, fresh, ready>>

\* The lease timeout passes without a keepalive.
LeaseRunsOut ==
    /\ sessions # {}
    /\ fresh
    /\ fresh' = FALSE
    /\ UNCHANGED <<sessions, phase, branch, ready>>

\* Mutant of Reap: session_mgr_expired compares the wrong way round.
ReapFresh(ok) ==
    /\ fresh
    /\ \E c \in sessions : SessionStop(c, ok)
    /\ UNCHANGED <<fresh, branch, ready>>

\* engine_reap_expired, once a second.
Reap(ok) ==
    /\ ~fresh
    /\ \E c \in sessions : SessionStop(c, ok)
    /\ UNCHANGED <<fresh, branch, ready>>

=============================================================================
