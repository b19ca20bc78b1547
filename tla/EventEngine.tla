----------------------------- MODULE EventEngine -----------------------------
(***************************************************************************)
(* The event engine of media_engine (analytics/event_engine.c with         *)
(* analytics/observation.c): the observations of the detector become       *)
(* START, UPDATE and END records, which the sink of engine.c hands to the  *)
(* journal.  The struct MeEventEngine is the record eng; every operation   *)
(* maps it to its next value, and eng.out lists what the step has emitted. *)
(*                                                                         *)
(* Abstractions.  An observation keeps its epoch, its frame number, its    *)
(* presentation time (or NoTime), for every person track whether its box   *)
(* is inside the region, outside or the track is removed (a lost track, or *)
(* one under the score threshold, is like one not listed), and the facts   *)
(* of the configured rule.  The lists of responsible tracks are left out.  *)
(* Time runs in frame periods; an enabled configuration has a frame rate,  *)
(* so that every observation has a time and NoTime stands for the valid    *)
(* flags.                                                                  *)
(***************************************************************************)
EXTENDS Integers, Sequences, FiniteSets, FiniteSetsExt

CONSTANTS
    TrackIds,       \* identities of persons
    MaxTracks,      \* ME_ANALYTICS_MAX_TRACKS, slots of the track table
    MaxSeq,         \* UINT64_MAX for event_seq,
    MaxSerial,      \*   for next_event_serial
    MaxVersion,     \*   and for config_version
    Configs,        \* the validated configurations
    Scenes,         \* what a frame may show, for each kind of rule
    Times,          \* the presentation times each frame may carry
    MaxEpoch,       \* bound: stream epochs of one process
    MaxFrame        \* bound: frame numbers

NoTime == -1

ASSUME EngineAssumption ==
    /\ MaxTracks \in Nat \ {0}
    /\ {MaxSeq, MaxSerial, MaxVersion} \subseteq Nat \ {0}
    /\ {MaxEpoch, MaxFrame} \subseteq Nat \ {0}
    /\ Times \in [1..MaxFrame -> SUBSET Nat]
    /\ \A c \in Configs :
          /\ c.enabled \in BOOLEAN
          /\ c.rule \in {"occupancy", "fact"}
          /\ {c.confirmFrames, c.confirm, c.interval} \subseteq Nat \ {0}
          /\ {c.debounce, c.grace, c.cooldown} \subseteq Nat
ASSUME SceneAssumption ==
    /\ IsFiniteSet(TrackIds)
    /\ \A c \in Configs : \A s \in Scenes[c.rule] :
          DOMAIN s.tracks \subseteq TrackIds /\ IsFiniteSet(s.facts)

VARIABLES
    up,         \* the process runs
    streams,    \* channel and first frame of each stream epoch
    captured,   \* frames captured so far, as far as observations tell
    eng,        \* the MeEventEngine
    started,    \* history: ids of the events of this life of the process
    facts,      \* history: the facts of the last accepted observation
    ledger,     \* history: passages of the open event not reported yet
    hit,        \* history: time of the last observation that met the rule
    steady      \* history: time has not run backwards since then

vars == <<up, streams, captured, eng, started, facts, ledger, hit, steady>>

-----------------------------------------------------------------------------
(* Observations *)

\* the stream gst_runner_new begins with
Camera == [channel |-> "camera", begin |-> 1]

\* gst_runner's analytics_stream_epoch
Stream == Len(streams)

Label(ep, f, pts) == [epoch |-> ep, channel |-> streams[ep].channel,
                      frame |-> f, pts |-> pts]

\* detect_callback labels a result with the stream under which its frame was
\* captured, or, once the frame has been released, with the stream of now
\* and without a time.  Frame numbers go on over the epochs.
Frames ==
    UNION { {Label(Max({ep \in 1..Stream : streams[ep].begin <= f}), f, t) :
                t \in Times[f]}
            \cup {Label(Stream, f, NoTime)} : f \in 1..MaxFrame }

Observation(h, scene) ==
    [epoch |-> h.epoch, channel |-> h.channel, frame |-> h.frame,
     pts |-> h.pts, tracks |-> scene.tracks, facts |-> scene.facts]

\* observation_timeline: the detector never sets a capture time
Now(o) == IF o.pts # NoTime THEN o.pts ELSE o.frame - 1

\* elapsed_at_least
Elapsed(now, then, d) == then # NoTime /\ now - then >= d

Order(o) == [epoch |-> o.epoch, frame |-> o.frame, pts |-> o.pts]
NoOrder == [epoch |-> 0, frame |-> 0, pts |-> NoTime]

\* me_observation_order_classify
Classify(order, o) ==
    CASE order = NoOrder -> "first"
      [] order # NoOrder /\ o.epoch < order.epoch -> "out_of_order"
      [] order # NoOrder /\ o.epoch > order.epoch -> "epoch_advance"
      [] o.epoch = order.epoch /\ o.frame = order.frame -> "duplicate"
      [] o.epoch = order.epoch /\ o.frame < order.frame -> "out_of_order"
      [] o.epoch = order.epoch /\ o.frame > order.frame ->
            IF NoTime \notin {o.pts, order.pts} /\ o.pts < order.pts
            THEN "out_of_order" ELSE "accepted"

-----------------------------------------------------------------------------
(* Parts of the engine's state *)

NoTrigger == [frames |-> 0, since |-> NoTime]
NoDelta == [in |-> 0, out |-> 0]
NoEvent == [id |-> << >>, seq |-> 0, count |-> 0]

\* me_event_engine_init
Fresh(cfg) ==
    [cfg |-> cfg, version |-> 1, order |-> NoOrder, channel |-> "none",
     epoch |-> 0, tracks |-> << >>, facts |-> {}, active |-> FALSE,
     event |-> NoEvent, count |-> 0, latest |-> 0, trigger |-> NoTrigger,
     absent |-> NoTime, update |-> FALSE, delta |-> NoDelta,
     reason |-> "none", lastEmit |-> NoTime, cooldown |-> NoTime,
     serial |-> 0, out |-> << >>]

\* clear_pending
ClearPending(e) ==
    [e EXCEPT !.trigger = NoTrigger, !.absent = NoTime, !.update = FALSE,
              !.delta = NoDelta, !.reason = "none", !.lastEmit = NoTime]

\* clear_runtime: neither the order nor the serial is forgotten
ClearRuntime(e) ==
    [ClearPending(e) EXCEPT !.active = FALSE, !.event = NoEvent, !.count = 0,
        !.latest = 0, !.cooldown = NoTime, !.tracks = << >>, !.facts = {}]

Record(e, id, phase, n, reason, count, delta) ==
    [id |-> id, phase |-> phase, seq |-> n, reason |-> reason,
     channel |-> e.channel, epoch |-> e.epoch, count |-> count,
     delta |-> delta]

\* increment_event_seq fails
Exhausted(e) == e.active /\ e.event.seq = MaxSeq

-----------------------------------------------------------------------------
(* Tracks *)

\* update_track_inside for a track that is already known
Debounced(cfg, t, raw, now) ==
    IF raw = t.inside \/ cfg.debounce = 0 \/ Elapsed(now, t.since, cfg.debounce)
    THEN [t EXCEPT !.inside = raw, !.since = NoTime]
    ELSE IF t.since = NoTime THEN [t EXCEPT !.since = now] ELSE t

\* the loop body of update_tracks for a track that has a slot.  A confirmed
\* track's seen_frames and first_timeline_us are not read any more: reset.
Sighted(cfg, t, now) ==
    LET seen == t.seen + 1
        first == IF seen = 1 THEN now ELSE t.first
        confirmed == seen >= cfg.confirmFrames
                        \/ Elapsed(now, first, cfg.confirm)
    IN  IF t.confirmed
        THEN [t EXCEPT !.last = now]
        ELSE IF confirmed
        THEN [t EXCEPT !.seen = 0, !.first = NoTime, !.last = now,
                       !.confirmed = TRUE]
        ELSE [t EXCEPT !.seen = seen, !.first = first, !.last = now]

NewTrack(raw) ==
    [seen |-> 0, first |-> NoTime, last |-> NoTime, confirmed |-> FALSE,
     inside |-> raw, since |-> NoTime]

Removed(o) == {t \in DOMAIN o.tracks : o.tracks[t] = "removed"}
Listed(o) == DOMAIN o.tracks \ Removed(o)

\* mutant: every new track is taken
AdmitAll(e, o) == {Listed(o) \ DOMAIN e.tracks}

\* allocate_track: the tracks that find a slot; which do when the table is
\* full, and whether a removed track frees its slot in time, depends on their
\* order in the observation.
Admissions(e, o) ==
    LET new == Listed(o) \ DOMAIN e.tracks
        freed == Removed(o) \cap DOMAIN e.tracks
        free == MaxTracks - Cardinality(DOMAIN e.tracks)
    IN  { a \in SUBSET new :
            \E k \in 0..Cardinality(freed) :
                Cardinality(a) = Min({Cardinality(new), free + k}) }

\* update_tracks
UpdateTracks(e, o, admitted) ==
    LET now == Now(o)
        present == Listed(o) \cap (DOMAIN e.tracks \cup admitted)
        Track(t) == LET raw == o.tracks[t] = "inside"
                    IN  IF t \in DOMAIN e.tracks
                        THEN Debounced(e.cfg, e.tracks[t], raw, now)
                        ELSE NewTrack(raw)
        kept == { t \in DOMAIN e.tracks \ (present \cup Removed(o)) :
                    /\ e.tracks[t].confirmed
                    /\ e.cfg.grace > 0
                    /\ ~Elapsed(now, e.tracks[t].last, e.cfg.grace) }
    IN  [t \in present \cup kept |->
            IF t \in present THEN Sighted(e.cfg, Track(t), now)
                             ELSE e.tracks[t]]

PersonCount(tracks, o) ==
    Cardinality({ t \in DOMAIN tracks \cap Listed(o) :
                    tracks[t].confirmed /\ tracks[t].inside })

-----------------------------------------------------------------------------
(* Emitting *)

Passages(fs) == [in |-> Cardinality({f \in fs : f.dir = "in"}),
                 out |-> Cardinality({f \in fs : f.dir = "out"})]

\* saturating_add_u32; that many passages in one event are out of reach.
Plus(d1, d2) == [in |-> d1.in + d2.in, out |-> d1.out + d2.out]

\* emit_start, with new_event_id
EmitStart(e, o, fs, count) ==
    IF e.serial = MaxSerial
    THEN [e EXCEPT !.event = NoEvent]
    ELSE LET id == [channel |-> o.channel, epoch |-> o.epoch,
                    serial |-> e.serial + 1]
         IN  [e EXCEPT
                !.serial = @ + 1, !.active = TRUE, !.count = count,
                !.facts = fs, !.lastEmit = Now(o),
                !.event = [id |-> id, seq |-> 1, count |-> count],
                !.trigger = NoTrigger, !.absent = NoTime,
                !.out = Append(@, Record(e, id, "START", 1, "confirmed",
                                         count, Passages(fs)))]

\* emit_end of an active event whose sequence is not exhausted.  The code
\* leaves the END in active_event, where nothing reads it any more.
EmitEnd(e, reason, count, cooldown) ==
    [ClearPending(e) EXCEPT
        !.active = FALSE, !.count = 0, !.event = NoEvent, !.facts = {},
        !.cooldown = cooldown,
        !.out = Append(@, Record(e, e.event.id, "END", e.event.seq + 1,
                                 reason, count, e.delta))]

\* mutant: the event is forgotten without an END
ForgetActive(e, reason) == e

\* what close, reconfigure and a stream reset do to the active event
EndActive(e, reason) ==
    IF e.active THEN EmitEnd(e, reason, e.latest, e.cooldown) ELSE e

\* mutant: a second passage within the update interval replaces the first
OverwriteUpdate(e, delta, reason) ==
    [e EXCEPT !.update = TRUE, !.delta = delta, !.reason = reason]

\* mark_update
MarkUpdate(e, delta, reason) ==
    [e EXCEPT !.update = TRUE, !.delta = Plus(@, delta), !.reason = reason]

\* maybe_emit_update
MaybeEmitUpdate(e, o, count) ==
    IF \/ ~e.update
       \/ e.lastEmit # NoTime /\ ~Elapsed(Now(o), e.lastEmit, e.cfg.interval)
       \/ Exhausted(e)
    THEN e
    ELSE LET n == e.event.seq + 1
         IN  [e EXCEPT
                !.event.seq = n, !.event.count = count, !.count = count,
                !.lastEmit = Now(o), !.update = FALSE, !.delta = NoDelta,
                !.reason = "none",
                !.out = Append(@, Record(e, e.event.id, "UPDATE", n, e.reason,
                                         count, e.delta))]

-----------------------------------------------------------------------------
(* One observation *)

\* update_trigger_candidate
UpdateTrigger(e, condition, now) ==
    IF ~condition THEN NoTrigger
    ELSE IF e.trigger.frames = 0 THEN [frames |-> 1, since |-> now]
    ELSE [e.trigger EXCEPT !.frames = @ + 1]

\* trigger_qualified
Qualified(e, now) ==
    /\ e.trigger.frames > 0
    /\ \/ e.trigger.frames >= e.cfg.confirmFrames
       \/ Elapsed(now, e.trigger.since, e.cfg.confirm)
    /\ e.cooldown = NoTime \/ now >= e.cooldown
    /\ e.cfg.debounce = 0 \/ Elapsed(now, e.trigger.since, e.cfg.debounce)

\* process_accepted while no event is active
Idle(e, o, fs, condition, count) ==
    LET e1 == [e EXCEPT !.trigger = UpdateTrigger(e, condition, Now(o))]
    IN  IF Qualified(e1, Now(o)) THEN EmitStart(e1, o, fs, count) ELSE e1

\* process_accepted when the rule of the active event is not met
Absent(e, o, count) ==
    LET now == Now(o)
        e1 == [e EXCEPT !.absent = IF @ = NoTime THEN now ELSE @]
    IN  IF /\ e.cfg.grace = 0 \/ Elapsed(now, e1.absent, e.cfg.grace)
           /\ ~Exhausted(e)
        THEN EmitEnd(e1, "disappeared", count,
                     IF e.cfg.cooldown > 0 THEN now + e.cfg.cooldown
                                           ELSE e.cooldown)
        ELSE e1

\* mutant: the absence goes on although the rule is met again
StillAbsent(e) == e

\* the rule is met: an absence is over
Reappeared(e) == [e EXCEPT !.absent = NoTime]

\* mutant: only a growing count is reported
CountGrown(e, count) == count > e.count

CountChanged(e, count) == count # e.count

\* process_accepted when the rule of the active event is met; new are the
\* facts that the observation before did not show
Present(e, o, new, count) ==
    LET e1 == Reappeared(e)
        e2 == CASE e.cfg.rule = "occupancy" /\ CountChanged(e, count) ->
                        MarkUpdate(e1, NoDelta, "count_changed")
                [] e.cfg.rule = "fact" /\ new # {} ->
                        MarkUpdate(e1, Passages(new), "direction")
                [] OTHER -> e1
    IN  MaybeEmitUpdate(e2, o, count)

\* matching_rules
Matching(e, o) == IF e.cfg.rule = "occupancy" THEN {} ELSE o.facts

\* rule_fact_seen: the facts that the last accepted observation, which
\* remember_rule_facts has put in place of the ones before, did not show
NewFacts(e, fs) == fs \ e.facts

\* process_accepted
Accepted(e, o, admitted) ==
    IF ~e.cfg.enabled
    THEN [ClearPending(e) EXCEPT !.latest = 0, !.tracks = << >>]
    ELSE LET tracks == UpdateTracks(e, o, admitted)
             count == PersonCount(tracks, o)
             fs == Matching(e, o)
             condition == IF e.cfg.rule = "occupancy" THEN count > 0
                                                      ELSE fs # {}
             e1 == [e EXCEPT !.tracks = tracks, !.latest = count,
                             !.facts = IF e.active THEN fs ELSE @]
         IN  IF ~e.active THEN Idle(e1, o, fs, condition, count)
             ELSE IF condition THEN Present(e1, o, NewFacts(e, fs), count)
             ELSE Absent(e1, o, count)

\* the event of another channel is closed, and the order starts anew
ChangeChannel(e) ==
    [ClearRuntime(EndActive(e, "stream_reset"))
        EXCEPT !.channel = "none", !.order = NoOrder]

\* mutant: a new epoch of the channel continues the event
ContinueEvent(e) == e

\* the event of an older epoch of the channel is closed
ChangeEpoch(e) == ClearRuntime(EndActive(e, "stream_reset"))

Moved(e, o) == e.channel \notin {"none", o.channel}

\* me_event_engine_process up to the point where the observation is stored:
\* the order in which it stands, and the engine without the event of an
\* older stream
Switched(e, o) == IF Moved(e, o) THEN ChangeChannel(e) ELSE e
Class(e, o) == Classify(IF Moved(e, o) THEN NoOrder ELSE e.order, o)
Opened(e, o) == IF Class(e, o) = "epoch_advance"
                THEN ChangeEpoch(Switched(e, o)) ELSE Switched(e, o)

\* an event that cannot be closed keeps its stream
Stuck(e, o) == /\ Moved(e, o) \/ Class(e, o) = "epoch_advance"
               /\ Exhausted(e)

IsAccepted(e, o) == /\ Class(e, o) \notin {"duplicate", "out_of_order"}
                    /\ ~Stuck(e, o)

\* me_event_engine_process, of an observation it takes
Process(e, o, admitted) ==
    Accepted([Opened(e, o) EXCEPT !.order = Order(o), !.epoch = o.epoch,
                                  !.channel = o.channel],
             o, admitted)

-----------------------------------------------------------------------------
(* Actions *)

Init == /\ up = TRUE
        /\ streams = <<Camera>>
        /\ captured = 0
        /\ eng \in {Fresh(c) : c \in Configs}
        /\ started = {}
        /\ facts = {}
        /\ ledger = NoDelta
        /\ hit = NoTime
        /\ steady = TRUE

Silent(e) == [e EXCEPT !.out = << >>]

Starts(e) == {e.out[i].id : i \in {j \in DOMAIN e.out :
                                      e.out[j].phase = "START"}}

\* the passages that the records of a step report, each by its record and its
\* number in it
Reported(e) ==
    [in |-> Cardinality(UNION {{i} \X (1..e.out[i].delta.in) : i \in DOMAIN e.out}),
     out |-> Cardinality(UNION {{i} \X (1..e.out[i].delta.out) : i \in DOMAIN e.out})]

Minus(d1, d2) == [in |-> d1.in - d2.in, out |-> d1.out - d2.out]

\* A step without an observation leaves the engine in state e.
Step(e) ==
    /\ eng' = e
    /\ ledger' = Minus(ledger, Reported(e))
    /\ facts' = IF e.active THEN facts ELSE {}
    /\ hit' = IF e.active THEN hit ELSE NoTime
    /\ steady' = (e.active => steady)
    /\ UNCHANGED started

\* me_event_engine_process drops an observation that came twice or late, or
\* that finds an event which cannot be closed.  The first one after a change
\* of the channel is never late: its order starts anew.
Drop(h) ==
    /\ up
    /\ ~IsAccepted(eng, h)
    /\ Step(Silent(eng))
    /\ captured' = Max({captured, h.frame})
    /\ UNCHANGED <<up, streams>>

\* me_event_engine_process takes an observation.
Observe(o) ==
    /\ up
    /\ IsAccepted(eng, o)
    /\ \E admitted \in Admissions(Opened(eng, o), o) :
          LET e == Process(Silent(eng), o, admitted)
              fs == Matching(eng, o)
              met == IF eng.cfg.rule = "occupancy" THEN e.latest > 0
                                                   ELSE fs # {}
              new == IF Starts(e) # {} THEN fs
                     ELSE IF eng.active /\ e.active THEN fs \ facts ELSE {}
          IN  /\ eng' = e
              /\ started' = started \cup Starts(e)
              /\ ledger' = Minus(Plus(ledger, Passages(new)), Reported(e))
              /\ facts' = IF e.active THEN fs ELSE {}
              /\ hit' = IF ~e.active THEN NoTime
                         ELSE IF met THEN Now(o) ELSE hit
              /\ steady' = \/ ~eng.active
                           \/ met
                           \/ steady /\ Now(o) >= Now(eng.order)
    /\ captured' = Max({captured, o.frame})
    /\ UNCHANGED <<up, streams>>

\* me_event_engine_reconfigure.  An explicit version has to be higher; without
\* one the version is counted up, which the guard covers.
Reconfigure(cfg, version) ==
    /\ up
    /\ version > eng.version
    /\ ~Exhausted(eng)
    /\ Step([ClearRuntime(EndActive(Silent(eng),
                 IF cfg.enabled THEN "reconfigured" ELSE "analytics_disabled"))
               EXCEPT !.cfg = cfg, !.version = version])
    /\ UNCHANGED <<up, streams, captured>>

\* me_event_engine_close, for the reasons a caller may give; engine_deinit is
\* its only caller
Close(e, reason) ==
    IF Exhausted(e) THEN e ELSE ClearRuntime(EndActive(e, reason))

\* engine_deinit: close, me_event_engine_deinit, and the process exits.  An
\* event that cannot be closed is given up, which is logged.
Shutdown ==
    /\ up
    /\ up' = FALSE
    /\ eng' = [Fresh(eng.cfg) EXCEPT
                 !.out = Close(Silent(eng), "process_restart").out]
    /\ ledger' = IF Exhausted(eng) THEN NoDelta
                 ELSE Minus(ledger, Reported(eng'))
    /\ facts' = {}
    /\ hit' = NoTime
    /\ steady' = TRUE
    /\ streams' = <<Camera>>
    /\ captured' = 0
    /\ started' = {}

\* The process dies with all it has in memory.
Crash ==
    /\ up
    /\ up' = FALSE
    /\ eng' = Fresh(eng.cfg)
    /\ ledger' = NoDelta
    /\ facts' = {}
    /\ hit' = NoTime
    /\ steady' = TRUE
    /\ streams' = <<Camera>>
    /\ captured' = 0
    /\ started' = {}

\* engine_init, with gst_runner_new, in a new process
Boot ==
    /\ ~up
    /\ up' = TRUE
    /\ \E c \in Configs : eng' = Fresh(c)
    /\ UNCHANGED <<streams, captured, started, facts, ledger, hit, steady>>

\* gst_runner_start_live and gst_runner_stop_live: the frames taken from then
\* on carry the channel of the request and the channel of the camera.  A
\* frame of the old stream whose result is still to come first is as good as
\* one that came before.
SetStream ==
    /\ up
    /\ Stream < MaxEpoch
    /\ captured < MaxFrame
    /\ \E c \in IF Stream % 2 = 1 THEN {"camera", "live"} ELSE {"camera"} :
          streams' = Append(streams, [channel |-> c, begin |-> captured + 1])
    /\ Step(Silent(eng))
    /\ UNCHANGED <<up, captured>>

Next == \/ \E h \in Frames : Drop(h)
        \/ \E h \in Frames, s \in Scenes[eng.cfg.rule] :
              Observe(Observation(h, s))
        \/ \E c \in Configs, v \in 1..MaxVersion : Reconfigure(c, v)
        \/ Shutdown
        \/ Crash
        \/ Boot
        \/ SetStream

Spec == Init /\ [][Next]_vars

-----------------------------------------------------------------------------
(* Properties *)

\* The engine's numbers stay in their types and its tables in their bounds:
\* event_seq, next_event_serial and config_version never wrap to 0 and no
\* more tracks are kept than the table has slots.
TypeOK ==
    /\ up \in BOOLEAN
    /\ Stream \in 1..MaxEpoch
    /\ captured \in 0..MaxFrame
    /\ eng.event.seq \in 0..MaxSeq
    /\ eng.serial \in 0..MaxSerial
    /\ eng.version \in 1..MaxVersion
    /\ eng.order \in [epoch : 0..MaxEpoch, frame : 0..MaxFrame,
                      pts : {NoTime} \cup UNION {Times[f] : f \in 1..MaxFrame}]
    /\ DOMAIN eng.tracks \subseteq TrackIds
    /\ Cardinality(DOMAIN eng.tracks) <= MaxTracks
    /\ eng.active <=> eng.event # NoEvent

L == INSTANCE EventLifecycle WITH
        Ids <- [channel : {"camera", "live"}, epoch : 1..MaxEpoch,
                serial : 1..MaxSerial],
        NoId <- << >>,
        open <- eng.event.id,
        seq <- eng.event.seq,
        used <- started,
        out <- [i \in DOMAIN eng.out |->
                   [id |-> eng.out[i].id, phase |-> eng.out[i].phase,
                    seq |-> eng.out[i].seq]]

\* The engine implements EventLifecycle: whatever observations, stream
\* changes, configurations and exhausted numbers come together, the journal
\* gets events that start, are numbered without a gap and end once.
Lifecycle == L!Spec

\* Every record of an event carries the channel and the epoch the event was
\* started in: no event survives a change of the stream
\* (me_event_engine_process closes it with the context of the last
\* observation).
OneStream ==
    \A i \in DOMAIN eng.out :
        LET r == eng.out[i]
        IN  /\ r.epoch = r.id.epoch
            /\ r.channel = r.id.channel

\* Every passage counted for the open event is reported once: what its records
\* have not reported is pending, and nothing is left when it has been closed
\* (rule_fact_seen, mark_update, maybe_emit_update, emit_end).  Passages in
\* frames before the START and in the cooldown belong to no event.
PassagesConserved == ledger = IF eng.active THEN eng.delta ELSE NoDelta

\* While somebody is present and no update is due, the count reported last is
\* the count of the last observation (active_person_count,
\* latest_person_count).
CountReported ==
    eng.active /\ eng.cfg.rule = "occupancy" /\ ~eng.update /\ eng.latest > 0
        => eng.event.count = eng.latest

\* An event ends with reason disappeared only when, on a time line that did
\* not run backwards, its rule had not been met for the whole grace period
\* (absent_since_us).
GraceKept ==
    [][ \A i \in DOMAIN eng'.out :
           eng'.out[i].reason = "disappeared" /\ steady' =>
               Now(eng'.order) - hit >= eng.cfg.grace ]_vars
=============================================================================
