------------------------- MODULE EventEngineProofs -------------------------
(***************************************************************************)
(* Proofs about EventEngine for every number of tracks, frames, epochs and *)
(* events, every set of configurations and every scene.                    *)
(***************************************************************************)
EXTENDS EventEngine, FiniteSetTheorems, SequenceTheorems, WellFoundedInduction,
        TLAPS

Channels == {"camera", "live"}
EventIds == [channel : Channels, epoch : 1..MaxEpoch, serial : 1..MaxSerial]
Deltas == [in : Nat, out : Nat]
Orders == [epoch : 0..MaxEpoch, frame : 0..MaxFrame,
           pts : {NoTime} \cup UNION {Times[f] : f \in 1..MaxFrame}]

\* The fields of the struct MeEventEngine.
Fields == {"cfg", "version", "order", "channel", "epoch", "tracks", "facts",
           "active", "event", "count", "latest", "trigger", "absent", "update",
           "delta", "reason", "lastEmit", "cooldown", "serial", "out"}

\* What is known of the event of an engine that has one: it belongs to the
\* stream of the engine, and its count is the one reported last.
Open(e) ==
    /\ DOMAIN e.event = {"id", "seq", "count"}
    /\ e.event.id \in EventIds
    /\ e.event.id.channel = e.channel
    /\ e.event.id.epoch = e.epoch
    /\ e.order.epoch = e.epoch
    /\ e.event.seq \in 1..MaxSeq
    /\ e.event.count = e.count
    /\ e.cfg.enabled

\* While somebody is present and no update is due, that is the count of now.
Counted(e) ==
    e.cfg.rule = "occupancy" /\ ~e.update /\ e.latest > 0 => e.count = e.latest

\* The state of an engine within a call.
Sound(e) ==
    /\ DOMAIN e = Fields
    /\ e.cfg \in Configs
    /\ e.version \in 1..MaxVersion
    /\ e.order \in Orders
    /\ e.channel \in Channels \cup {"none"}
    /\ e.epoch \in 0..MaxEpoch
    /\ DOMAIN e.tracks \subseteq TrackIds
    /\ Cardinality(DOMAIN e.tracks) <= MaxTracks
    /\ e.active \in BOOLEAN
    /\ e.latest \in Nat
    /\ e.absent \in Int
    /\ e.update \in BOOLEAN
    /\ e.delta \in Deltas
    /\ e.reason \in {"none", "count_changed", "direction"}
    /\ e.serial \in 0..MaxSerial
    /\ IF e.active THEN Open(e) ELSE e.event = NoEvent /\ e.delta = NoDelta

\* The state of an engine between two calls.
Good(e) == Sound(e) /\ (e.active => Counted(e))

\* What detect_callback hands to the engine.
IsLabel(h) ==
    /\ h.epoch \in 1..MaxEpoch
    /\ h.channel \in Channels
    /\ h.frame \in 1..MaxFrame
    /\ h.pts \in {NoTime} \cup UNION {Times[f] : f \in 1..MaxFrame}

IsObservation(o) ==
    /\ IsLabel(o)
    /\ DOMAIN o.tracks \subseteq TrackIds
    /\ IsFiniteSet(o.facts)

-----------------------------------------------------------------------------
(* Numbers *)

\* A nonempty set of naturals has a least element.
LEMMA LeastNumber ==
    ASSUME NEW T \in SUBSET Nat, T # {}
    PROVE  \E m \in T : \A n \in T : m <= n
<1> DEFINE R == {ss \in Nat \X Nat : ss[1] < ss[2]}
<1>1. IsWellFoundedOn(R, Nat)
  BY NatLessThanWellFounded DEF OpToRel
<1>2. PICK m \in T : \A n \in T : ~(<<n, m>> \in R)
  BY <1>1, WFMin
<1>3. ASSUME NEW n \in T PROVE m <= n
  <2>1. <<n, m>> \in Nat \X Nat
    OBVIOUS
  <2> QED
    BY <1>2, <2>1
<1> QED
  BY <1>3

\* The latest of the epochs that have begun is one of them.
LEMMA LatestMember ==
    ASSUME NEW N \in Nat, NEW C \in SUBSET (0..N), C # {}
    PROVE  Max(C) \in C
<1> DEFINE T == {n \in 0..N : N - n \in C}
<1>1. PICK c \in C : TRUE
  OBVIOUS
<1>2. N - c \in T /\ T \in SUBSET Nat
  OBVIOUS
<1>3. PICK t \in T : \A u \in T : t <= u
  BY <1>2, LeastNumber
<1>4. ASSUME NEW y \in C PROVE N - t >= y
  <2>1. N - y \in T
    OBVIOUS
  <2>2. t <= N - y
    BY <1>3, <2>1
  <2> QED
    BY <2>2
<1>5. \E x \in C : \A y \in C : x >= y
  BY <1>3, <1>4
<1> QED
  BY <1>5 DEF Max

\* The larger of two numbers is one of them.
LEMMA MaxOfTwo ==
    ASSUME NEW a \in Nat, NEW b \in Nat
    PROVE  Max({a, b}) \in {a, b}
<1>1. \E x \in {a, b} : \A y \in {a, b} : x >= y
  OBVIOUS
<1> QED
  BY <1>1 DEF Max

\* The smaller of two numbers is at most either.
LEMMA MinOfTwo ==
    ASSUME NEW a \in Int, NEW b \in Int
    PROVE  /\ Min({a, b}) \in {a, b}
           /\ Min({a, b}) <= a
           /\ Min({a, b}) <= b
<1>1. \E x \in {a, b} : \A y \in {a, b} : x <= y
  OBVIOUS
<1> QED
  BY <1>1 DEF Min

\* Facts are counted per direction.
LEMMA PassagesType ==
    ASSUME NEW fs, IsFiniteSet(fs)
    PROVE  Passages(fs) \in Deltas
<1>1. /\ IsFiniteSet({f \in fs : f.dir = "in"})
      /\ IsFiniteSet({f \in fs : f.dir = "out"})
  BY FS_Subset
<1> QED
  BY <1>1, FS_CardinalityType DEF Passages, Deltas

\* Nobody passes where there are no facts.
LEMMA NoPassages == Passages({}) = NoDelta
<1>1. {f \in {} : f.dir = "in"} = {} /\ {f \in {} : f.dir = "out"} = {}
  OBVIOUS
<1> QED
  BY <1>1, FS_EmptySet DEF Passages, NoDelta

\* Sums of passages are passages, and nothing added changes nothing.
LEMMA PlusType ==
    ASSUME NEW c \in Deltas, NEW d \in Deltas
    PROVE  /\ Plus(c, d) \in Deltas
           /\ Plus(c, NoDelta) = c
           /\ Plus(NoDelta, d) = d
           /\ Minus(c, c) = NoDelta
           /\ Minus(c, NoDelta) = c
           /\ Minus(Plus(c, d), Plus(c, d)) = NoDelta
           /\ NoDelta \in Deltas
  BY DEF Plus, Minus, NoDelta, Deltas

-----------------------------------------------------------------------------
(* Tracks *)

\* allocate_track never overfills the table: a new track takes a slot that is
\* free, or one that a removed track of the same result has left.
LEMMA TracksFit ==
    ASSUME NEW e, Good(e), NEW o, IsObservation(o), NEW a \in Admissions(e, o)
    PROVE  /\ DOMAIN UpdateTracks(e, o, a) \subseteq TrackIds
           /\ Cardinality(DOMAIN UpdateTracks(e, o, a)) <= MaxTracks
<1> DEFINE D == DOMAIN e.tracks
           new == Listed(o) \ D
           freed == Removed(o) \cap D
           stay == D \ Removed(o)
           present == Listed(o) \cap (D \cup a)
           kept == {t \in D \ (present \cup Removed(o)) :
                       /\ e.tracks[t].confirmed
                       /\ e.cfg.grace > 0
                       /\ ~Elapsed(Now(o), e.tracks[t].last, e.cfg.grace)}
<1>1. DOMAIN UpdateTracks(e, o, a) = present \cup kept
  BY DEF UpdateTracks
<1>2. /\ D \subseteq TrackIds /\ IsFiniteSet(D) /\ Cardinality(D) \in Nat
      /\ Cardinality(D) <= MaxTracks /\ MaxTracks \in Nat
  BY SceneAssumption, EngineAssumption, FS_Subset, FS_CardinalityType DEF Good, Sound
<1>3. /\ Listed(o) \subseteq TrackIds /\ Listed(o) \cap Removed(o) = {}
  BY DEF IsObservation, Listed, Removed
<1>4. PICK k \in 0..Cardinality(freed) :
          /\ a \subseteq new
          /\ Cardinality(a) = Min({Cardinality(new), MaxTracks - Cardinality(D) + k})
  BY DEF Admissions
<1>5. /\ IsFiniteSet(new) /\ IsFiniteSet(a) /\ IsFiniteSet(freed) /\ IsFiniteSet(stay)
      /\ Cardinality(new) \in Nat /\ Cardinality(a) \in Nat
      /\ Cardinality(freed) \in Nat /\ Cardinality(stay) \in Nat
  <2>1. new \subseteq TrackIds /\ a \subseteq TrackIds
    BY <1>3, <1>4
  <2>2. IsFiniteSet(new) /\ IsFiniteSet(a) /\ IsFiniteSet(freed) /\ IsFiniteSet(stay)
    BY <1>2, <2>1, SceneAssumption, FS_Subset
  <2> QED
    BY <2>2, FS_CardinalityType
<1>6. Cardinality(a) <= MaxTracks - Cardinality(D) + Cardinality(freed)
  <2>1. MaxTracks - Cardinality(D) + k \in Int /\ Cardinality(new) \in Int
    BY <1>2, <1>5
  <2>2. Cardinality(a) <= MaxTracks - Cardinality(D) + k
    BY <1>4, <2>1, MinOfTwo
  <2> QED
    BY <1>2, <1>4, <1>5, <2>2
<1>7. Cardinality(stay) = Cardinality(D) - Cardinality(freed)
  <2>1. Cardinality(D \ Removed(o)) = Cardinality(D) - Cardinality(D \cap Removed(o))
    BY <1>2, FS_Difference
  <2>2. D \cap Removed(o) = freed
    OBVIOUS
  <2> QED
    BY <2>1, <2>2
<1>8. /\ IsFiniteSet(stay \cup a)
      /\ Cardinality(stay \cup a) = Cardinality(stay) + Cardinality(a)
  <2>1. stay \cap a = {}
    BY <1>4
  <2>2. IsFiniteSet(stay \cup a) /\ Cardinality(stay \cup a)
            = Cardinality(stay) + Cardinality(a) - Cardinality(stay \cap a)
    BY <1>5, FS_Union
  <2> QED
    BY <1>5, <2>1, <2>2, FS_EmptySet
<1>9. present \cup kept \subseteq stay \cup a
  BY <1>3
<1>10. Cardinality(present \cup kept) <= Cardinality(stay \cup a)
  BY <1>8, <1>9, FS_Subset
<1>11. Cardinality(present \cup kept) \in Nat
  BY <1>8, <1>9, FS_Subset, FS_CardinalityType
<1> QED
  BY <1>1, <1>2, <1>3, <1>4, <1>5, <1>6, <1>7, <1>8, <1>10, <1>11

\* The count of the persons is a number.
LEMMA CountType ==
    ASSUME NEW e, Good(e), NEW o, IsObservation(o), NEW a \in Admissions(e, o)
    PROVE  PersonCount(UpdateTracks(e, o, a), o) \in Nat
<1>1. DOMAIN UpdateTracks(e, o, a) \subseteq TrackIds
  BY TracksFit
<1>2. IsFiniteSet({t \in DOMAIN UpdateTracks(e, o, a) \cap Listed(o) :
                     UpdateTracks(e, o, a)[t].confirmed /\ UpdateTracks(e, o, a)[t].inside})
  BY <1>1, SceneAssumption, FS_Subset
<1> QED
  BY <1>2, FS_CardinalityType DEF PersonCount

-----------------------------------------------------------------------------
(* Observations *)

\* An epoch has a channel and begins with a frame.
Epochs == [channel : Channels, begin : 1..MaxFrame]

\* The epochs of the process, of which the first begins with the first frame.
StreamTypes ==
    /\ streams \in Seq(Epochs)
    /\ Len(streams) \in 1..MaxEpoch
    /\ streams[1].begin = 1
    /\ captured \in 0..MaxFrame

\* detect_callback labels a result with an epoch that has begun.
LEMMA FramesAreLabels ==
    ASSUME StreamTypes, NEW h \in Frames
    PROVE  IsLabel(h)
<1>0. MaxEpoch \in Nat /\ MaxFrame \in Nat /\ Times \in [1..MaxFrame -> SUBSET Nat]
  BY EngineAssumption
<1>1. PICK f \in 1..MaxFrame :
          \/ \E t \in Times[f] :
                h = Label(Max({ep \in 1..Stream : streams[ep].begin <= f}), f, t)
          \/ h = Label(Stream, f, NoTime)
  BY DEF Frames
<1> DEFINE C == {ep \in 1..Stream : streams[ep].begin <= f}
<1>2. /\ Stream \in 1..MaxEpoch /\ Stream \in Nat
      /\ 1 \in C /\ C # {} /\ C \in SUBSET (0..Stream)
  BY <1>0, <1>1 DEF StreamTypes, Stream
<1>3. Max(C) \in C
  <2> HIDE DEF C
  <2> QED
    BY <1>2, LatestMember
<1>4. ASSUME NEW ep \in 1..Stream,
             NEW t \in {NoTime} \cup UNION {Times[x] : x \in 1..MaxFrame},
             h = Label(ep, f, t)
      PROVE  IsLabel(h)
  <2>1. streams[ep] \in Epochs
    <3>1. streams \in Seq(Epochs)
      BY DEF StreamTypes
    <3>2. ep \in 1..Len(streams)
      BY <1>4 DEF Stream
    <3> QED
      BY <3>1, <3>2
  <2>2. ep \in 1..MaxEpoch
    BY <1>0, <1>2
  <2> QED
    BY <1>1, <1>4, <2>1, <2>2 DEF Label, IsLabel, Epochs
<1>5. CASE h = Label(Stream, f, NoTime)
  BY <1>2, <1>4, <1>5
<1>6. CASE \E t \in Times[f] : h = Label(Max(C), f, t)
  <2>1. PICK t \in Times[f] : h = Label(Max(C), f, t)
    BY <1>6
  <2>2. t \in UNION {Times[x] : x \in 1..MaxFrame}
    BY <1>1, <2>1
  <2> QED
    BY <1>2, <1>3, <1>4, <2>1, <2>2
<1> QED
  BY <1>1, <1>5, <1>6

\* An observation is a label with a scene.
LEMMA ObservationType ==
    ASSUME StreamTypes, NEW h \in Frames, NEW c \in Configs, NEW s \in Scenes[c.rule]
    PROVE  IsObservation(Observation(h, s))
<1>1. IsLabel(h)
  BY FramesAreLabels
<1>2. DOMAIN s.tracks \subseteq TrackIds /\ IsFiniteSet(s.facts)
  BY SceneAssumption
<1> QED
  BY <1>1, <1>2 DEF IsObservation, IsLabel, Observation

\* observation_timeline yields a time, and the order of an observation keeps it.
LEMMA NowType ==
    ASSUME NEW o, IsLabel(o)
    PROVE  /\ Now(o) \in Nat
           /\ Now(Order(o)) = Now(o)
           /\ Order(o) \in Orders
<1>0. MaxEpoch \in Nat /\ MaxFrame \in Nat /\ Times \in [1..MaxFrame -> SUBSET Nat]
  BY EngineAssumption
<1>1. o.pts # NoTime => o.pts \in Nat
  BY <1>0 DEF IsLabel
<1>2. Now(o) \in Nat
  BY <1>0, <1>1 DEF IsLabel, Now
<1> QED
  BY <1>0, <1>2 DEF IsLabel, Order, Now, Orders

\* So does the order kept by the engine.
LEMMA OrderTime ==
    ASSUME NEW r \in Orders
    PROVE  Now(r) \in Int
<1>0. MaxFrame \in Nat /\ Times \in [1..MaxFrame -> SUBSET Nat]
  BY EngineAssumption
<1>1. r.pts # NoTime => r.pts \in Nat
  BY <1>0 DEF Orders
<1> QED
  BY <1>0, <1>1 DEF Orders, Now

-----------------------------------------------------------------------------
(* Closing an event *)

\* f has the fields that clear_runtime sets, and is e otherwise.
Cleared(f, e) ==
    /\ DOMAIN f = Fields
    /\ f.cfg = e.cfg /\ f.version = e.version /\ f.order = e.order
    /\ f.channel = e.channel /\ f.epoch = e.epoch /\ f.serial = e.serial
    /\ f.active = FALSE /\ f.event = NoEvent /\ f.count = 0 /\ f.latest = 0
    /\ f.absent = NoTime /\ f.update = FALSE /\ f.delta = NoDelta
    /\ f.reason = "none" /\ f.tracks = << >> /\ f.facts = {}

\* The END that closes the event of e.
EndRecord(e, reason, count) ==
    Record(e, e.event.id, "END", e.event.seq + 1, reason, count, e.delta)

\* clear_pending touches nothing else.
LEMMA ClearPendingFields ==
    ASSUME NEW e, DOMAIN e = Fields, NEW f, f = ClearPending(e)
    PROVE  /\ DOMAIN f = Fields
           /\ f.cfg = e.cfg /\ f.version = e.version /\ f.order = e.order
           /\ f.channel = e.channel /\ f.epoch = e.epoch /\ f.serial = e.serial
           /\ f.active = e.active /\ f.event = e.event /\ f.count = e.count
           /\ f.latest = e.latest /\ f.tracks = e.tracks /\ f.facts = e.facts
           /\ f.out = e.out
           /\ f.absent = NoTime /\ f.update = FALSE /\ f.delta = NoDelta
           /\ f.reason = "none"
  BY DEF ClearPending, Fields

\* f is e behind the END of its event.
Ended(f, e, reason, count) ==
    /\ DOMAIN f = Fields
    /\ f.cfg = e.cfg /\ f.version = e.version /\ f.order = e.order
    /\ f.channel = e.channel /\ f.epoch = e.epoch /\ f.serial = e.serial
    /\ f.latest = e.latest /\ f.tracks = e.tracks
    /\ f.active = FALSE /\ f.event = NoEvent /\ f.count = 0 /\ f.facts = {}
    /\ f.absent = NoTime /\ f.update = FALSE /\ f.delta = NoDelta
    /\ f.reason = "none"
    /\ f.out = Append(e.out, EndRecord(e, reason, count))

\* emit_end leaves the stream and the numbers as they are.
LEMMA EmitEndFields ==
    ASSUME NEW e, DOMAIN e = Fields, NEW reason, NEW count, NEW cooldown
    PROVE  Ended(EmitEnd(e, reason, count, cooldown), e, reason, count)
<1> DEFINE f == EmitEnd(e, reason, count, cooldown)
<1>1. PICK g : g = ClearPending(e)
  OBVIOUS
<1>2. /\ DOMAIN g = Fields
      /\ g.cfg = e.cfg /\ g.version = e.version /\ g.order = e.order
      /\ g.channel = e.channel /\ g.epoch = e.epoch /\ g.serial = e.serial
      /\ g.latest = e.latest /\ g.tracks = e.tracks /\ g.out = e.out
      /\ g.absent = NoTime /\ g.update = FALSE /\ g.delta = NoDelta
      /\ g.reason = "none"
  BY <1>1, ClearPendingFields
<1>3. f = [g EXCEPT !.active = FALSE, !.count = 0, !.event = NoEvent, !.facts = {},
                    !.cooldown = cooldown,
                    !.out = Append(@, EndRecord(e, reason, count))]
  BY <1>1 DEF EmitEnd, EndRecord
<1> HIDE DEF f
<1>4. Ended(f, e, reason, count)
  BY <1>2, <1>3 DEF Fields, Ended
<1> QED
  BY <1>4 DEF f

\* clear_runtime behind the END of an active event.
LEMMA CloseFields ==
    ASSUME NEW e, DOMAIN e = Fields, e.active \in BOOLEAN, NEW reason,
           NEW f, f = ClearRuntime(EndActive(e, reason))
    PROVE  /\ Cleared(f, e)
           /\ f.out = IF e.active THEN Append(e.out, EndRecord(e, reason, e.latest)) ELSE e.out
<1>1. PICK g : g = EndActive(e, reason)
  OBVIOUS
<1>2. /\ DOMAIN g = Fields
      /\ g.cfg = e.cfg /\ g.version = e.version /\ g.order = e.order
      /\ g.channel = e.channel /\ g.epoch = e.epoch /\ g.serial = e.serial
      /\ g.out = IF e.active THEN Append(e.out, EndRecord(e, reason, e.latest)) ELSE e.out
  <2>1. CASE e.active
    <3>1. g = EmitEnd(e, reason, e.latest, e.cooldown)
      BY <1>1, <2>1 DEF EndActive
    <3>2. Ended(g, e, reason, e.latest)
      BY <3>1, EmitEndFields
    <3> QED
      BY <2>1, <3>2 DEF Ended
  <2>2. CASE ~e.active
    BY <1>1, <2>2 DEF EndActive
  <2> QED
    BY <2>1, <2>2
<1>3. PICK p : p = ClearPending(g)
  OBVIOUS
<1>4. /\ DOMAIN p = Fields
      /\ p.cfg = g.cfg /\ p.version = g.version /\ p.order = g.order
      /\ p.channel = g.channel /\ p.epoch = g.epoch /\ p.serial = g.serial
      /\ p.out = g.out
      /\ p.absent = NoTime /\ p.update = FALSE /\ p.delta = NoDelta
      /\ p.reason = "none"
  BY <1>2, <1>3, ClearPendingFields
<1>5. f = [p EXCEPT !.active = FALSE, !.event = NoEvent, !.count = 0,
        !.latest = 0, !.cooldown = NoTime, !.tracks = << >>, !.facts = {}]
  BY <1>1, <1>3 DEF ClearRuntime
<1> QED
  BY <1>2, <1>4, <1>5 DEF Fields, Cleared

\* An engine without an event is in a good state.
LEMMA ClearedGood ==
    ASSUME NEW e, NEW f, Cleared(f, e), e.cfg \in Configs, e.version \in 1..MaxVersion,
           e.order \in Orders, e.channel \in Channels \cup {"none"},
           e.epoch \in 0..MaxEpoch, e.serial \in 0..MaxSerial
    PROVE  Good(f)
<1>1. DOMAIN f.tracks = {} /\ Cardinality({}) = 0 /\ MaxTracks \in Nat
  BY FS_EmptySet, EngineAssumption DEF Cleared
<1>2. NoDelta \in Deltas /\ NoTime \in Int
  BY DEF NoDelta, Deltas, NoTime
<1>3. DOMAIN f.tracks \subseteq TrackIds /\ Cardinality(DOMAIN f.tracks) <= MaxTracks
  BY <1>1
<1>4. f.latest \in Nat /\ f.absent \in Int /\ f.delta \in Deltas
      /\ f.reason \in {"none", "count_changed", "direction"}
  BY <1>2 DEF Cleared
<1>5. f.active = FALSE /\ f.update = FALSE
  BY Zenon DEF Cleared
<1>6. f.active \in BOOLEAN /\ f.update \in BOOLEAN /\ ~f.active
  BY <1>5, Zenon
<1>7. f.event = NoEvent /\ f.delta = NoDelta
  BY DEF Cleared
<1>8. IF f.active THEN Open(f) ELSE f.event = NoEvent /\ f.delta = NoDelta
  BY <1>6, <1>7, Zenon
<1>9. /\ DOMAIN f = Fields /\ f.cfg \in Configs /\ f.version \in 1..MaxVersion
      /\ f.order \in Orders /\ f.channel \in Channels \cup {"none"}
      /\ f.epoch \in 0..MaxEpoch /\ f.serial \in 0..MaxSerial
  BY DEF Cleared
<1> QED
  BY <1>3, <1>4, <1>6, <1>8, <1>9, Zenon DEF Good, Sound
-----------------------------------------------------------------------------
(* The stream of an observation *)

\* g is the engine that is about to take observation o: it stands in the
\* stream of o, with the event it has had, or without one.
Prepared(g, e, o) ==
    /\ g.cfg = e.cfg /\ g.version = e.version /\ g.serial = e.serial
    /\ g.order = Order(o) /\ g.epoch = o.epoch /\ g.channel = o.channel

Continued(g, e) ==
    /\ g.active = e.active /\ g.event = e.event /\ g.count = e.count
    /\ g.facts = e.facts /\ g.absent = e.absent /\ g.update = e.update
    /\ g.delta = e.delta /\ g.latest = e.latest /\ g.reason = e.reason
    /\ g.tracks = e.tracks /\ g.out = e.out

Vacant(g, e) ==
    /\ g.active = FALSE
    /\ g.tracks = << >>
    /\ e.active => e.event.seq < MaxSeq
    /\ g.out = IF e.active THEN Append(e.out, EndRecord(e, "stream_reset", e.latest))
                           ELSE e.out

\* me_event_engine_process before it stores the observation
Open0(e, o) ==
    [Opened(e, o) EXCEPT !.order = Order(o), !.epoch = o.epoch, !.channel = o.channel]

\* An observation of the same epoch, or the first one, is not an epoch advance.
LEMMA SameEpoch ==
    ASSUME NEW r \in Orders, NEW o, IsLabel(o),
           Classify(r, o) \notin {"duplicate", "out_of_order", "epoch_advance"}
    PROVE  r = NoOrder \/ o.epoch = r.epoch
<1>0. MaxEpoch \in Nat /\ r.epoch \in Int /\ o.epoch \in Int
  BY EngineAssumption DEF Orders, IsLabel
<1>1. CASE r # NoOrder /\ o.epoch < r.epoch
  BY <1>0, <1>1 DEF Classify
<1>2. CASE r # NoOrder /\ o.epoch > r.epoch
  BY <1>0, <1>2 DEF Classify
<1> QED
  BY <1>0, <1>1, <1>2

\* The engine moves to the stream of the observation, and leaves an event of
\* another stream behind.
LEMMA OpenedShape ==
    ASSUME NEW e, Good(e), NEW o, IsLabel(o), IsAccepted(e, o)
    PROVE  /\ Good(Open0(e, o))
           /\ Prepared(Open0(e, o), e, o)
           /\ Continued(Open0(e, o), e) \/ Vacant(Open0(e, o), e)
<1>0. /\ DOMAIN e = Fields /\ e.active \in BOOLEAN /\ e.cfg \in Configs
      /\ e.version \in 1..MaxVersion /\ e.order \in Orders
      /\ e.channel \in Channels \cup {"none"} /\ e.epoch \in 0..MaxEpoch
      /\ e.serial \in 0..MaxSerial
  BY DEF Good, Sound
<1>o. Order(o) \in Orders /\ o.channel \in Channels \cup {"none"} /\ o.epoch \in 0..MaxEpoch
      /\ NoOrder \in Orders
  <2>1. MaxEpoch \in Nat /\ MaxFrame \in Nat
    BY EngineAssumption
  <2> QED
    BY <2>1, NowType DEF IsLabel, Orders, NoOrder
<1>1. PICK p : p = Opened(e, o)
  OBVIOUS
<1>2. PICK g : g = Open0(e, o)
  OBVIOUS
<1>3. g = [p EXCEPT !.order = Order(o), !.epoch = o.epoch, !.channel = o.channel]
  BY <1>1, <1>2 DEF Open0
<1>4. ASSUME NEW c, c = ClearRuntime(EndActive(e, "stream_reset")), ~Exhausted(e),
             DOMAIN p = Fields, \A k \in Fields \ {"channel", "order"} : p[k] = c[k]
      PROVE  Good(g) /\ Prepared(g, e, o) /\ Vacant(g, e)
  <2>1. /\ Cleared(c, e)
        /\ c.out = IF e.active THEN Append(e.out, EndRecord(e, "stream_reset", e.latest))
                               ELSE e.out
    BY <1>0, <1>4, CloseFields
  <2>2. /\ DOMAIN g = Fields
        /\ g.cfg = e.cfg /\ g.version = e.version /\ g.order = Order(o)
        /\ g.channel = o.channel /\ g.epoch = o.epoch /\ g.serial = e.serial
        /\ g.active = FALSE /\ g.event = NoEvent /\ g.count = 0 /\ g.latest = 0
        /\ g.absent = NoTime /\ g.update = FALSE /\ g.delta = NoDelta
        /\ g.reason = "none" /\ g.tracks = << >> /\ g.facts = {}
        /\ g.out = c.out
    BY <1>3, <1>4, <2>1 DEF Fields, Cleared
  <2>3. Prepared(g, e, o)
    BY <2>2 DEF Prepared
  <2>4. Cleared(g, g)
    BY <2>2 DEF Cleared
  <2>5. Good(g)
    BY <1>0, <1>o, <2>2, <2>4, ClearedGood
  <2>6. e.active => e.event.seq < MaxSeq
    <3>1. SUFFICES ASSUME e.active PROVE e.event.seq < MaxSeq
      OBVIOUS
    <3>2. e.event.seq \in 1..MaxSeq /\ MaxSeq \in Nat
      BY <3>1, EngineAssumption DEF Good, Sound, Open
    <3> QED
      BY <1>4, <3>1, <3>2 DEF Exhausted
  <2>7. Vacant(g, e)
    BY <2>1, <2>2, <2>6 DEF Vacant
  <2> QED
    BY <2>3, <2>5, <2>7
<1>5. CASE Moved(e, o)
  <2>1. Class(e, o) = "first"
    <3>1. o.epoch # NoOrder.epoch
      BY EngineAssumption DEF IsLabel, NoOrder
    <3> QED
      BY <1>5, <3>1 DEF Class, Classify
  <2>2. p = ChangeChannel(e) /\ ~Exhausted(e)
    BY <1>1, <1>5, <2>1 DEF Opened, Switched, IsAccepted, Stuck
  <2>3. PICK c : c = ClearRuntime(EndActive(e, "stream_reset"))
    OBVIOUS
  <2>4. Cleared(c, e)
    BY <1>0, <2>3, CloseFields
  <2>5. p = [c EXCEPT !.channel = "none", !.order = NoOrder]
    BY <2>2, <2>3 DEF ChangeChannel
  <2>6. DOMAIN p = Fields /\ \A k \in Fields \ {"channel", "order"} : p[k] = c[k]
    BY <2>4, <2>5 DEF Cleared
  <2> QED
    BY <1>2, <1>4, <2>2, <2>3, <2>6
<1>6. CASE ~Moved(e, o) /\ Class(e, o) = "epoch_advance"
  <2>1. p = ClearRuntime(EndActive(e, "stream_reset")) /\ ~Exhausted(e)
    BY <1>1, <1>6 DEF Opened, Switched, IsAccepted, Stuck, ChangeEpoch
  <2>2. Cleared(p, e)
    BY <1>0, <2>1, CloseFields
  <2>3. DOMAIN p = Fields
    BY <2>2 DEF Cleared
  <2> QED
    BY <1>2, <1>4, <2>1, <2>3
<1>7. CASE ~Moved(e, o) /\ Class(e, o) # "epoch_advance"
  <2>1. p = e /\ Classify(e.order, o) \notin {"duplicate", "out_of_order", "epoch_advance"}
    BY <1>1, <1>7 DEF Opened, Switched, IsAccepted, Class
  <2>2. e.order = NoOrder \/ o.epoch = e.order.epoch
    BY <1>0, <2>1, SameEpoch
  <2>3. e.channel \in {"none", o.channel}
    BY <1>7 DEF Moved
  <2>4. /\ DOMAIN g = Fields
        /\ g.cfg = e.cfg /\ g.version = e.version /\ g.order = Order(o)
        /\ g.channel = o.channel /\ g.epoch = o.epoch /\ g.serial = e.serial
        /\ g.active = e.active /\ g.event = e.event /\ g.count = e.count
        /\ g.facts = e.facts /\ g.absent = e.absent /\ g.update = e.update
        /\ g.delta = e.delta /\ g.latest = e.latest /\ g.reason = e.reason
        /\ g.tracks = e.tracks /\ g.out = e.out
    BY <1>0, <1>3, <2>1 DEF Fields
  <2>5. Prepared(g, e, o) /\ Continued(g, e)
    BY <2>4 DEF Prepared, Continued
  <2>6. ASSUME e.active PROVE Open(g) /\ Counted(g)
    <3>1. Open(e) /\ Counted(e)
      BY <2>6 DEF Good, Sound
    <3>2. e.channel = o.channel
      BY <2>3, <3>1 DEF Open, EventIds, Channels
    <3>3. e.order # NoOrder
      BY <3>1 DEF Open, EventIds, NoOrder
    <3>4. e.epoch = o.epoch
      BY <2>2, <3>1, <3>3 DEF Open
    <3>5. Order(o).epoch = o.epoch
      BY DEF Order
    <3> QED
      BY <2>4, <3>1, <3>2, <3>4, <3>5 DEF Open, Counted
  <2>7. IF g.active THEN Open(g) ELSE g.event = NoEvent /\ g.delta = NoDelta
    BY <1>0, <2>4, <2>6 DEF Good, Sound
  <2>8. Sound(g)
    BY <1>o, <2>4, <2>7 DEF Good, Sound
  <2>9. Good(g)
    BY <2>4, <2>6, <2>8 DEF Good
  <2> QED
    BY <1>2, <2>5, <2>9
<1> QED
  BY <1>5, <1>6, <1>7
\* f is e as a call finds it, before anything has been emitted.
Muted(f, e) ==
    /\ DOMAIN f = Fields /\ f.out = << >>
    /\ f.cfg = e.cfg /\ f.version = e.version /\ f.order = e.order
    /\ f.channel = e.channel /\ f.epoch = e.epoch /\ f.serial = e.serial
    /\ f.active = e.active /\ f.event = e.event /\ f.count = e.count
    /\ f.facts = e.facts /\ f.absent = e.absent /\ f.update = e.update
    /\ f.delta = e.delta /\ f.latest = e.latest /\ f.reason = e.reason
    /\ f.tracks = e.tracks

\* What the records of the last call were does not matter to the next one.
LEMMA SilentGood ==
    ASSUME NEW e, Good(e)
    PROVE  Good(Silent(e)) /\ Muted(Silent(e), e)
<1>0. DOMAIN e = Fields
  BY DEF Good, Sound
<1>1. PICK f : f = Silent(e)
  OBVIOUS
<1>2. Muted(f, e)
  BY <1>0, <1>1 DEF Silent, Fields, Muted
<1>3. Open(f) = Open(e) /\ Counted(f) = Counted(e)
  BY <1>2 DEF Open, Counted, Muted
<1>4. Good(f)
  BY <1>2, <1>3 DEF Good, Sound, Muted
<1> QED
  BY <1>1, <1>2, <1>4

\* Which tracks the engine keeps for an observation.
LEMMA OpenedTracks ==
    ASSUME NEW e, Good(e), NEW o
    PROVE  /\ DOMAIN Opened(e, o) = Fields
           /\ Opened(e, o).tracks = IF Moved(e, o) \/ Class(e, o) = "epoch_advance"
                                    THEN << >> ELSE e.tracks
<1>0. DOMAIN e = Fields /\ e.active \in BOOLEAN
  BY DEF Good, Sound
<1>1. PICK s : s = Switched(e, o)
  OBVIOUS
<1>2. DOMAIN s = Fields /\ s.active \in BOOLEAN
      /\ s.tracks = IF Moved(e, o) THEN << >> ELSE e.tracks
  <2>1. CASE Moved(e, o)
    <3>1. PICK c : c = ClearRuntime(EndActive(e, "stream_reset"))
      OBVIOUS
    <3>2. Cleared(c, e)
      BY <1>0, <3>1, CloseFields
    <3>3. s = [c EXCEPT !.channel = "none", !.order = NoOrder]
      BY <1>1, <2>1, <3>1 DEF Switched, ChangeChannel
    <3>4. DOMAIN s = Fields /\ s.active = FALSE /\ s.tracks = << >>
      BY <3>2, <3>3 DEF Cleared, Fields
    <3> QED
      BY <2>1, <3>4
  <2>2. CASE ~Moved(e, o)
    BY <1>0, <1>1, <2>2 DEF Switched
  <2> QED
    BY <2>1, <2>2
<1>3. CASE Class(e, o) = "epoch_advance"
  <2>1. PICK c : c = ClearRuntime(EndActive(s, "stream_reset"))
    OBVIOUS
  <2>2. Cleared(c, s)
    BY <1>2, <2>1, CloseFields
  <2>3. Opened(e, o) = c
    BY <1>1, <1>3, <2>1 DEF Opened, ChangeEpoch
  <2> QED
    BY <1>3, <2>2, <2>3 DEF Cleared
<1>4. CASE Class(e, o) # "epoch_advance"
  <2>1. Opened(e, o) = s
    BY <1>1, <1>4 DEF Opened
  <2> QED
    BY <1>2, <1>4, <2>1
<1> QED
  BY <1>3, <1>4

\* An observation is taken, and its tracks are admitted, whatever the last
\* call has emitted.
LEMMA SilentOpened ==
    ASSUME NEW e, Good(e), NEW o, IsAccepted(e, o)
    PROVE  /\ IsAccepted(Silent(e), o)
           /\ Admissions(Opened(e, o), o) = Admissions(Open0(Silent(e), o), o)
<1>1. PICK f : f = Silent(e)
  OBVIOUS
<1>2. Good(f) /\ Muted(f, e)
  BY <1>1, SilentGood
<1>3. /\ f.order = e.order /\ f.channel = e.channel /\ f.active = e.active
      /\ f.event = e.event /\ f.tracks = e.tracks
  BY <1>2 DEF Muted
<1>4. /\ Moved(f, o) = Moved(e, o) /\ Class(f, o) = Class(e, o)
      /\ Exhausted(f) = Exhausted(e)
  BY <1>3 DEF Moved, Class, Exhausted
<1>5. IsAccepted(f, o)
  BY <1>4 DEF IsAccepted, Stuck
<1>6. Opened(f, o).tracks = Opened(e, o).tracks
  BY <1>2, <1>3, <1>4, OpenedTracks
<1>7. Open0(f, o).tracks = Opened(f, o).tracks
  <2>1. DOMAIN Opened(f, o) = Fields
    BY <1>2, OpenedTracks
  <2> QED
    BY <2>1 DEF Open0, Fields
<1>8. ASSUME NEW c, NEW d, c.tracks = d.tracks
      PROVE  Admissions(c, o) = Admissions(d, o)
  BY <1>8 DEF Admissions
<1>9. Admissions(Opened(e, o), o) = Admissions(Open0(f, o), o)
  BY <1>6, <1>7, <1>8
<1> QED
  BY <1>1, <1>5, <1>9
-----------------------------------------------------------------------------
(* What an observation does: nothing is emitted, or one record is *)

Unmoved(f, e) ==
    /\ f.cfg = e.cfg /\ f.version = e.version /\ f.order = e.order
    /\ f.channel = e.channel /\ f.epoch = e.epoch /\ f.latest = e.latest

\* A record with the stream of e.
IsRecord(r, e, id, phase, n, delta) ==
    /\ r.id = id /\ r.phase = phase /\ r.seq = n
    /\ r.channel = e.channel /\ r.epoch = e.epoch /\ r.delta = delta

\* The event, if there is one, goes on: the new passages are pending.
Quieted(f, e, o, new, met) ==
    /\ Unmoved(f, e)
    /\ f.serial = e.serial /\ f.active = e.active /\ f.out = e.out
    /\ f.event.id = e.event.id /\ f.event.seq = e.event.seq
    /\ e.active => /\ f.facts = e.facts
                   /\ f.delta = Plus(e.delta, Passages(new))
                   /\ f.absent = IF met THEN NoTime
                                 ELSE IF e.absent = NoTime THEN Now(o) ELSE e.absent

\* An event has been started.
Begun(f, e, o, fs) ==
    /\ Unmoved(f, e)
    /\ ~e.active /\ f.active /\ e.serial < MaxSerial /\ f.serial = e.serial + 1
    /\ f.event.id = [channel |-> o.channel, epoch |-> o.epoch, serial |-> e.serial + 1]
    /\ f.event.seq = 1 /\ f.facts = fs /\ f.delta = NoDelta /\ f.absent = NoTime
    /\ \E r : /\ IsRecord(r, e, f.event.id, "START", 1, Passages(fs))
              /\ r.reason = "confirmed"
              /\ f.out = Append(e.out, r)

\* The pending passages, the new ones too, have been reported.
Refreshed(f, e, new) ==
    /\ Unmoved(f, e)
    /\ e.active /\ f.active /\ e.event.seq < MaxSeq /\ f.serial = e.serial
    /\ f.event.id = e.event.id /\ f.event.seq = e.event.seq + 1
    /\ f.facts = e.facts /\ f.delta = NoDelta /\ f.absent = NoTime
    /\ \E r : /\ IsRecord(r, e, e.event.id, "UPDATE", e.event.seq + 1,
                          Plus(e.delta, Passages(new)))
              /\ r.reason # "disappeared"
              /\ f.out = Append(e.out, r)

\* The event has been ended because its rule is not met any more.
Lapsed(f, e, o) ==
    /\ Unmoved(f, e)
    /\ e.active /\ ~f.active /\ e.event.seq < MaxSeq /\ f.serial = e.serial
    /\ f.event = NoEvent
    /\ \/ e.cfg.grace = 0
       \/ Elapsed(Now(o), IF e.absent = NoTime THEN Now(o) ELSE e.absent, e.cfg.grace)
    /\ \E r : /\ IsRecord(r, e, e.event.id, "END", e.event.seq + 1, e.delta)
              /\ r.reason = "disappeared"
              /\ f.out = Append(e.out, r)

\* An engine that has no event waits, or starts one when the rule is met.
LEMMA IdleOutcome ==
    ASSUME NEW e, Sound(e), ~e.active, NEW o, IsObservation(o),
           e.channel = o.channel, e.epoch = o.epoch, e.order = Order(o),
           e.cfg.enabled, NEW fs, NEW met \in BOOLEAN,
           NEW f, f = Idle(e, o, fs, met, e.latest)
    PROVE  Good(f) /\ (Quieted(f, e, o, {}, met) \/ (Begun(f, e, o, fs) /\ met))
<1>1. PICK g : g = [e EXCEPT !.trigger = UpdateTrigger(e, met, Now(o))]
  OBVIOUS
<1>3. f = IF Qualified(g, Now(o)) THEN EmitStart(g, o, fs, e.latest) ELSE g
  BY <1>1 DEF Idle
<1>4. /\ DOMAIN g = Fields /\ g.out = e.out
      /\ g.trigger = UpdateTrigger(e, met, Now(o))
  BY <1>1 DEF Sound, Fields
<1>5. /\ g.cfg = e.cfg /\ g.version = e.version /\ g.order = e.order
      /\ g.channel = e.channel /\ g.epoch = e.epoch /\ g.serial = e.serial
      /\ g.active = e.active /\ g.event = e.event /\ g.count = e.count
      /\ g.facts = e.facts /\ g.absent = e.absent /\ g.update = e.update
      /\ g.delta = e.delta /\ g.latest = e.latest /\ g.reason = e.reason
      /\ g.tracks = e.tracks
  BY <1>1 DEF Sound, Fields
<1>6. e.event = NoEvent /\ e.delta = NoDelta /\ e.active = FALSE
  BY DEF Sound
<1>7. ASSUME DOMAIN f = Fields, f.cfg = e.cfg, f.version = e.version, f.order = e.order,
             f.channel = e.channel, f.epoch = e.epoch, f.serial = e.serial,
             f.active = e.active, f.event = e.event, f.absent = e.absent,
             f.update = e.update, f.delta = e.delta, f.latest = e.latest,
             f.reason = e.reason, f.tracks = e.tracks, f.out = e.out
      PROVE  Good(f) /\ Quieted(f, e, o, {}, met)
  <2>1. Unmoved(f, e)
    BY <1>7 DEF Unmoved
  <2>2. ~f.active /\ f.active \in BOOLEAN
    BY <1>7 DEF Sound
  <2>3. Sound(f)
    BY <1>6, <1>7, <2>2 DEF Sound
  <2>4. Quieted(f, e, o, {}, met)
    BY <1>7, <2>1 DEF Quieted
  <2> QED
    BY <2>2, <2>3, <2>4 DEF Good
<1>8. CASE ~Qualified(g, Now(o))
  <2>1. f = g
    BY <1>3, <1>8
  <2>2. Good(f) /\ Quieted(f, e, o, {}, met)
    BY <1>4, <1>5, <1>7, <2>1, Zenon
  <2> QED
    BY <2>2
<1>9. CASE Qualified(g, Now(o)) /\ g.serial = MaxSerial
  <2>1. f = [g EXCEPT !.event = NoEvent]
    BY <1>3, <1>9 DEF EmitStart
  <2>2. /\ DOMAIN f = Fields
        /\ f.cfg = e.cfg /\ f.version = e.version /\ f.order = e.order
        /\ f.channel = e.channel /\ f.epoch = e.epoch /\ f.serial = e.serial
        /\ f.active = e.active /\ f.event = e.event /\ f.absent = e.absent
        /\ f.update = e.update /\ f.delta = e.delta /\ f.latest = e.latest
        /\ f.reason = e.reason /\ f.tracks = e.tracks /\ f.out = e.out
    BY <1>4, <1>5, <1>6, <2>1 DEF Fields
  <2>3. Good(f) /\ Quieted(f, e, o, {}, met)
    BY <1>7, <2>2, Zenon
  <2> QED
    BY <2>3
<1>10. CASE Qualified(g, Now(o)) /\ g.serial # MaxSerial
  <2>1. met
    BY <1>4, <1>10 DEF Qualified, UpdateTrigger, NoTrigger
  <2>2. PICK id : id = [channel |-> o.channel, epoch |-> o.epoch, serial |-> e.serial + 1]
    OBVIOUS
  <2>3. PICK r : r = Record(g, id, "START", 1, "confirmed", e.latest, Passages(fs))
    OBVIOUS
  <2>4. f = [g EXCEPT
                !.serial = e.serial + 1, !.active = TRUE, !.count = e.latest,
                !.facts = fs, !.lastEmit = Now(o),
                !.event = [id |-> id, seq |-> 1, count |-> e.latest],
                !.trigger = NoTrigger, !.absent = NoTime,
                !.out = Append(e.out, r)]
    BY <1>3, <1>4, <1>5, <1>10, <2>2, <2>3 DEF EmitStart
  <2>s. /\ DOMAIN f = Fields
        /\ f.serial = e.serial + 1 /\ f.count = e.latest
        /\ f.event = [id |-> id, seq |-> 1, count |-> e.latest]
        /\ f.facts = fs /\ f.absent = NoTime /\ f.out = Append(e.out, r)
    BY <1>4, <2>4 DEF Fields
  <2>k. /\ f.cfg = g.cfg /\ f.version = g.version /\ f.order = g.order
        /\ f.channel = g.channel /\ f.epoch = g.epoch /\ f.update = g.update
        /\ f.delta = g.delta /\ f.latest = g.latest /\ f.reason = g.reason
        /\ f.tracks = g.tracks
    BY <1>4, <2>4 DEF Fields
  <2>5. /\ DOMAIN f = Fields
        /\ f.cfg = e.cfg /\ f.version = e.version /\ f.order = e.order
        /\ f.channel = e.channel /\ f.epoch = e.epoch /\ f.serial = e.serial + 1
        /\ f.event = [id |-> id, seq |-> 1, count |-> e.latest] /\ f.count = e.latest
        /\ f.facts = fs /\ f.absent = NoTime /\ f.update = e.update
        /\ f.delta = NoDelta /\ f.latest = e.latest /\ f.reason = e.reason
        /\ f.tracks = e.tracks /\ f.out = Append(e.out, r)
    BY <1>5, <1>6, <2>s, <2>k
  <2>a. f.active = TRUE
    BY <1>4, <2>4 DEF Fields
  <2>6. e.serial \in Nat /\ e.serial < MaxSerial /\ e.serial + 1 \in 1..MaxSerial /\ MaxSerial \in Nat
    BY <1>5, <1>10, EngineAssumption DEF Sound
  <2>7. id \in EventIds /\ id.channel = e.channel /\ id.epoch = e.epoch
    BY <2>2, <2>6 DEF EventIds, IsObservation, IsLabel
  <2>8. Open(f)
    <3>1. Order(o).epoch = o.epoch
      BY DEF Order
    <3>2. 1 \in 1..MaxSeq
      BY EngineAssumption
    <3> QED
      BY <2>5, <2>7, <3>1, <3>2 DEF Open
  <2>9. Counted(f)
    BY <2>5 DEF Counted
  <2>10. Sound(f)
    <3>1. NoTime \in Int
      BY DEF NoTime
    <3>2. /\ f.serial \in 0..MaxSerial /\ f.delta \in Deltas
      BY <2>5, <2>6 DEF NoDelta, Deltas
    <3>3. f.active \in BOOLEAN /\ f.active
      BY <2>a, Zenon
    <3>4. IF f.active THEN Open(f) ELSE f.event = NoEvent /\ f.delta = NoDelta
      BY <2>8, <3>3
    <3> QED
      BY <2>5, <3>1, <3>2, <3>3, <3>4 DEF Sound
  <2>11. IsRecord(r, e, id, "START", 1, Passages(fs)) /\ r.reason = "confirmed"
    BY <1>5, <2>3 DEF Record, IsRecord
  <2>12. Begun(f, e, o, fs)
    <3>1. Unmoved(f, e)
      BY <2>5 DEF Unmoved
    <3>2. f.active
      BY <2>a, Zenon
    <3>3. f.event.id = id /\ f.event.seq = 1
      BY <2>5
    <3> QED
      BY <2>2, <2>5, <2>6, <2>11, <3>1, <3>2, <3>3 DEF Begun
  <2> QED
    BY <2>1, <2>9, <2>10, <2>12 DEF Good
<1> QED
  BY <1>8, <1>9, <1>10
\* The event of a rule that is not met goes on until the grace period is over.
LEMMA AbsentOutcome ==
    ASSUME NEW e, Sound(e), e.active, NEW o, IsObservation(o),
           e.cfg.rule = "occupancy" => e.latest = 0,
           NEW f, f = Absent(e, o, e.latest)
    PROVE  Good(f) /\ (Quieted(f, e, o, {}, FALSE) \/ Lapsed(f, e, o))
<1> DEFINE since == IF e.absent = NoTime THEN Now(o) ELSE e.absent
           over == /\ e.cfg.grace = 0 \/ Elapsed(Now(o), since, e.cfg.grace)
                   /\ ~Exhausted(e)
<1>1. PICK g : g = [e EXCEPT !.absent = since]
  OBVIOUS
<1>2. PICK c : c = IF e.cfg.cooldown > 0 THEN Now(o) + e.cfg.cooldown ELSE e.cooldown
  OBVIOUS
<1>3. DOMAIN g = Fields /\ g.out = e.out /\ g.absent = since
  BY <1>1 DEF Sound, Fields
<1>4. /\ g.cfg = e.cfg /\ g.version = e.version /\ g.order = e.order
      /\ g.channel = e.channel /\ g.epoch = e.epoch /\ g.serial = e.serial
      /\ g.active = e.active /\ g.event = e.event /\ g.count = e.count
      /\ g.facts = e.facts /\ g.update = e.update
      /\ g.delta = e.delta /\ g.latest = e.latest /\ g.reason = e.reason
      /\ g.tracks = e.tracks
  BY <1>1 DEF Sound, Fields
<1>5. f = IF over THEN EmitEnd(g, "disappeared", e.latest, c) ELSE g
  BY <1>1, <1>2, <1>3 DEF Absent
<1>6. since \in Int
  <2>1. IsLabel(o) /\ e.absent \in Int
    BY DEF IsObservation, Sound
  <2> QED
    BY <2>1, NowType
<1>7. Open(e) /\ e.active = TRUE /\ e.delta \in Deltas
  BY DEF Sound
<1> HIDE DEF since, over
<1>8. CASE ~over
  <2>1. f = g
    BY <1>5, <1>8
  <2>2. Open(f) /\ f.active
    BY <1>4, <1>7, <2>1 DEF Open
  <2>3. Counted(f)
    BY <1>4, <2>1 DEF Counted
  <2>4. Sound(f)
    BY <1>3, <1>4, <1>6, <2>1, <2>2 DEF Sound
  <2>5. Unmoved(f, e)
    BY <1>4, <2>1 DEF Unmoved
  <2>6. f.delta = Plus(e.delta, Passages({}))
    BY <1>4, <1>7, <2>1, NoPassages, PlusType
  <2>7. Quieted(f, e, o, {}, FALSE)
    BY <1>3, <1>4, <2>1, <2>5, <2>6 DEF Quieted, since
  <2> QED
    BY <2>3, <2>4, <2>7 DEF Good
<1>9. CASE over
  <2>1. Ended(f, g, "disappeared", e.latest)
    BY <1>3, <1>5, <1>9, EmitEndFields
  <2>2. ~f.active /\ f.event = NoEvent /\ f.active \in BOOLEAN /\ f.update \in BOOLEAN
    BY <2>1 DEF Ended
  <2>3. Unmoved(f, e) /\ f.serial = e.serial
    BY <1>4, <2>1 DEF Ended, Unmoved
  <2>4. Sound(f)
    <3>1. /\ DOMAIN f = Fields /\ f.delta = NoDelta /\ f.absent = NoTime /\ f.reason = "none"
          /\ f.tracks = e.tracks
      BY <1>4, <2>1 DEF Ended
    <3>2. f.delta \in Deltas /\ f.absent \in Int
      BY <3>1 DEF Deltas, NoDelta, NoTime
    <3> QED
      BY <2>2, <2>3, <3>1, <3>2 DEF Sound, Unmoved
  <2>5. e.event.seq < MaxSeq
    <3>1. e.event.seq \in 1..MaxSeq /\ MaxSeq \in Nat
      BY <1>7, EngineAssumption DEF Open
    <3> QED
      BY <1>9, <3>1 DEF over, Exhausted
  <2>6. PICK r : r = EndRecord(g, "disappeared", e.latest)
    OBVIOUS
  <2>7. IsRecord(r, e, e.event.id, "END", e.event.seq + 1, e.delta) /\ r.reason = "disappeared"
    BY <1>4, <2>6 DEF EndRecord, Record, IsRecord
  <2>8. f.out = Append(e.out, r)
    BY <1>3, <2>1, <2>6 DEF Ended
  <2>9. e.cfg.grace = 0 \/ Elapsed(Now(o), since, e.cfg.grace)
    BY <1>9 DEF over
  <2>10. Lapsed(f, e, o)
    BY <2>2, <2>3, <2>5, <2>7, <2>8, <2>9 DEF Lapsed, since
  <2> QED
    BY <2>2, <2>4, <2>10 DEF Good
<1> QED
  BY <1>8, <1>9

\* The event of a rule that is met goes on: what has changed is marked, and
\* reported when an update is due.
LEMMA PresentOutcome ==
    ASSUME NEW e, Sound(e), e.active, NEW o, IsObservation(o), NEW new, IsFiniteSet(new),
           e.cfg.rule = "occupancy" => new = {},
           NEW f, f = Present(e, o, new, e.latest)
    PROVE  Good(f) /\ (Quieted(f, e, o, new, TRUE) \/ Refreshed(f, e, new))
<1> DEFINE counts == e.cfg.rule = "occupancy" /\ CountChanged(e, e.latest)
           passes == e.cfg.rule = "fact" /\ new # {}
<1>0. Open(e) /\ e.active = TRUE /\ e.delta \in Deltas /\ DOMAIN e = Fields
      /\ e.update \in BOOLEAN
  BY DEF Sound
<1>1. PICK a : a = Reappeared(e)
  OBVIOUS
<1>2. PICK g : g = IF counts THEN MarkUpdate(a, NoDelta, "count_changed")
                   ELSE IF passes THEN MarkUpdate(a, Passages(new), "direction")
                   ELSE a
  OBVIOUS
<1>3. f = MaybeEmitUpdate(g, o, e.latest)
  <2>1. CASE counts
    BY <1>1, <1>2, <2>1 DEF Present
  <2>2. CASE ~counts /\ passes
    BY <1>1, <1>2, <2>2 DEF Present
  <2>3. CASE ~counts /\ ~passes
    BY <1>1, <1>2, <2>3 DEF Present
  <2> QED
    BY <2>1, <2>2, <2>3
<1>4. /\ DOMAIN a = Fields /\ a.out = e.out /\ a.absent = NoTime
      /\ a.cfg = e.cfg /\ a.version = e.version /\ a.order = e.order
      /\ a.channel = e.channel /\ a.epoch = e.epoch /\ a.serial = e.serial
      /\ a.active = e.active /\ a.event = e.event /\ a.count = e.count
      /\ a.facts = e.facts /\ a.update = e.update
      /\ a.delta = e.delta /\ a.latest = e.latest /\ a.reason = e.reason
      /\ a.tracks = e.tracks
  BY <1>0, <1>1 DEF Reappeared, Fields
<1>5. /\ DOMAIN g = Fields /\ g.out = e.out /\ g.absent = NoTime
      /\ g.cfg = e.cfg /\ g.version = e.version /\ g.order = e.order
      /\ g.channel = e.channel /\ g.epoch = e.epoch /\ g.serial = e.serial
      /\ g.active = e.active /\ g.event = e.event /\ g.count = e.count
      /\ g.facts = e.facts /\ g.latest = e.latest /\ g.tracks = e.tracks
  BY <1>2, <1>4 DEF MarkUpdate, Fields
<1>6. /\ g.update \in BOOLEAN
      /\ g.reason \in {"none", "count_changed", "direction"}
      /\ g.delta = Plus(e.delta, Passages(new))
  <2>1. e.reason \in {"none", "count_changed", "direction"} /\ Passages(new) \in Deltas
    BY PassagesType DEF Sound
  <2>2. CASE counts
    <3>1. g = [a EXCEPT !.update = TRUE, !.delta = Plus(@, NoDelta), !.reason = "count_changed"]
      BY <1>2, <2>2 DEF MarkUpdate
    <3>2. g.update = TRUE /\ g.reason = "count_changed" /\ g.delta = Plus(e.delta, NoDelta)
      BY <1>4, <3>1 DEF Fields
    <3>3. Passages(new) = NoDelta
      BY <2>2, NoPassages
    <3> QED
      BY <3>2, <3>3
  <2>3. CASE ~counts /\ passes
    <3>1. g = [a EXCEPT !.update = TRUE, !.delta = Plus(@, Passages(new)), !.reason = "direction"]
      BY <1>2, <2>3 DEF MarkUpdate
    <3> QED
      BY <1>4, <3>1 DEF Fields
  <2>4. CASE ~counts /\ ~passes
    <3>1. g = a
      BY <1>2, <2>4
    <3>2. new = {}
      <4>1. e.cfg \in Configs
        BY DEF Sound
      <4>2. e.cfg.rule \in {"occupancy", "fact"}
        BY <4>1, EngineAssumption
      <4> QED
        BY <2>4, <4>2
    <3>3. Plus(e.delta, Passages(new)) = e.delta
      BY <1>0, <3>2, NoPassages, PlusType
    <3> QED
      BY <1>0, <1>4, <2>1, <3>1, <3>3
  <2> QED
    BY <2>2, <2>3, <2>4
<1>7. Counted(g)
  <2>1. CASE counts
    <3>1. g = [a EXCEPT !.update = TRUE, !.delta = Plus(@, NoDelta), !.reason = "count_changed"]
      BY <1>2, <2>1 DEF MarkUpdate
    <3>2. g.update = TRUE
      BY <1>4, <3>1 DEF Fields
    <3> QED
      BY <3>2 DEF Counted
  <2>2. CASE ~counts
    BY <1>5, <2>2 DEF Counted, CountChanged
  <2> QED
    BY <2>1, <2>2
<1>8. g.delta \in Deltas
  BY <1>0, <1>6, PassagesType, PlusType
<1>9. Open(g) /\ g.active
  BY <1>0, <1>5 DEF Open
<1>10. Sound(g)
  <2>1. NoTime \in Int
    BY DEF NoTime
  <2> QED
    BY <1>5, <1>6, <1>8, <1>9, <2>1 DEF Sound
<1>11. Unmoved(g, e)
  BY <1>5 DEF Unmoved
<1> HIDE DEF counts, passes
<1> DEFINE wait == \/ ~g.update
                   \/ g.lastEmit # NoTime /\ ~Elapsed(Now(o), g.lastEmit, g.cfg.interval)
                   \/ Exhausted(g)
<1>12. CASE wait
  <2>1. f = g
    BY <1>3, <1>12 DEF MaybeEmitUpdate
  <2>2. Quieted(f, e, o, new, TRUE)
    BY <1>5, <1>6, <1>11, <2>1 DEF Quieted
  <2> QED
    BY <1>7, <1>10, <2>1, <2>2 DEF Good
<1>13. CASE ~wait
  <2>1. PICK r : r = Record(g, g.event.id, "UPDATE", g.event.seq + 1, g.reason, e.latest, g.delta)
    OBVIOUS
  <2>2. f = [g EXCEPT
                !.event.seq = g.event.seq + 1, !.event.count = e.latest, !.count = e.latest,
                !.lastEmit = Now(o), !.update = FALSE, !.delta = NoDelta,
                !.reason = "none", !.out = Append(@, r)]
    BY <1>3, <1>13, <2>1 DEF MaybeEmitUpdate
  <2>3. /\ DOMAIN f = Fields /\ f.count = e.latest /\ f.delta = NoDelta
        /\ f.reason = "none" /\ f.out = Append(e.out, r)
    BY <1>5, <2>2 DEF Fields
  <2>4. /\ DOMAIN f.event = {"id", "seq", "count"} /\ f.event.id = e.event.id
        /\ f.event.seq = e.event.seq + 1 /\ f.event.count = e.latest
    <3>1. DOMAIN g.event = {"id", "seq", "count"}
      BY <1>9 DEF Open
    <3>2. f.event = [g.event EXCEPT !.seq = g.event.seq + 1, !.count = e.latest]
      BY <1>5, <2>2 DEF Fields
    <3>3. /\ DOMAIN f.event = {"id", "seq", "count"} /\ f.event.id = g.event.id
          /\ f.event.seq = g.event.seq + 1 /\ f.event.count = e.latest
      BY <3>1, <3>2
    <3> QED
      BY <1>5, <3>3
  <2>5. /\ f.cfg = e.cfg /\ f.version = e.version /\ f.order = e.order
        /\ f.channel = e.channel /\ f.epoch = e.epoch /\ f.serial = e.serial
        /\ f.facts = e.facts /\ f.latest = e.latest /\ f.tracks = e.tracks
        /\ f.absent = NoTime
    BY <1>5, <2>2 DEF Fields
  <2>6. f.active = e.active /\ f.update = FALSE
    BY <1>5, <2>2 DEF Fields
  <2>7. f.active /\ f.active \in BOOLEAN /\ f.update \in BOOLEAN
    BY <1>0, <2>6
  <2>8. e.event.seq \in Nat /\ e.event.seq < MaxSeq /\ MaxSeq \in Nat
        /\ e.event.seq + 1 \in 1..MaxSeq
    <3>1. e.event.seq \in 1..MaxSeq /\ MaxSeq \in Nat
      BY <1>0, EngineAssumption DEF Open
    <3>2. e.event.seq # MaxSeq
      BY <1>5, <1>9, <1>13 DEF Exhausted
    <3> QED
      BY <3>1, <3>2
  <2>9. Open(f) /\ Counted(f)
    BY <1>0, <2>3, <2>4, <2>5, <2>8 DEF Open, Counted
  <2>10. Sound(f)
    <3>1. NoTime \in Int /\ NoDelta \in Deltas
      BY DEF NoTime, NoDelta, Deltas
    <3> QED
      BY <2>3, <2>5, <2>7, <2>9, <3>1 DEF Sound
  <2>11. IsRecord(r, e, e.event.id, "UPDATE", e.event.seq + 1, Plus(e.delta, Passages(new)))
         /\ r.reason # "disappeared"
    BY <1>5, <1>6, <2>1 DEF Record, IsRecord
  <2>12. Unmoved(f, e)
    BY <2>5 DEF Unmoved
  <2>13. Refreshed(f, e, new)
    BY <2>3, <2>4, <2>5, <2>7, <2>8, <2>11, <2>12 DEF Refreshed
  <2> QED
    BY <2>9, <2>10, <2>13 DEF Good
<1> QED
  BY <1>12, <1>13
\* e is g with the tracks and the facts of the observation.
Seen(e, g, fs) ==
    /\ e.cfg = g.cfg /\ e.version = g.version /\ e.order = g.order
    /\ e.channel = g.channel /\ e.epoch = g.epoch /\ e.serial = g.serial
    /\ e.active = g.active /\ e.event = g.event /\ e.delta = g.delta /\ e.out = g.out
    /\ g.active => e.facts = fs /\ e.absent = g.absent

\* The rule of e is met with n persons and facts fs.
Met(e, n, fs) == IF e.cfg.rule = "occupancy" THEN n > 0 ELSE fs # {}

\* process_accepted has made f of g.
Outcome(f, g, o, fs) ==
    \E e :
        /\ Seen(e, g, fs)
        /\ \/ Quieted(f, e, o, fs \ g.facts, Met(g, f.latest, fs))
           \/ Begun(f, e, o, fs) /\ Met(g, f.latest, fs)
           \/ Refreshed(f, e, fs \ g.facts) /\ Met(g, f.latest, fs)
           \/ Lapsed(f, e, o) /\ ~Met(g, f.latest, fs)

\* An accepted observation starts an event, updates it, ends it or is quiet.
LEMMA AcceptedOutcome ==
    ASSUME NEW g, Good(g), NEW o, IsObservation(o), NEW a \in Admissions(g, o),
           g.order = Order(o), g.epoch = o.epoch, g.channel = o.channel,
           NEW f, f = Accepted(g, o, a)
    PROVE  Good(f) /\ Outcome(f, g, o, Matching(g, o))
<1>0. /\ DOMAIN g = Fields /\ g.active \in BOOLEAN /\ g.cfg \in Configs
      /\ g.cfg.enabled \in BOOLEAN /\ Sound(g)
  BY EngineAssumption DEF Good, Sound
<1>1. CASE ~g.cfg.enabled
  <2>1. ~g.active
    BY <1>1 DEF Good, Sound, Open
  <2>2. PICK p : p = ClearPending(g)
    OBVIOUS
  <2>3. /\ DOMAIN p = Fields
        /\ p.cfg = g.cfg /\ p.version = g.version /\ p.order = g.order
        /\ p.channel = g.channel /\ p.epoch = g.epoch /\ p.serial = g.serial
        /\ p.active = g.active /\ p.event = g.event
        /\ p.out = g.out
        /\ p.absent = NoTime /\ p.update = FALSE /\ p.delta = NoDelta
        /\ p.reason = "none"
    BY <1>0, <2>2, ClearPendingFields
  <2>4. f = [p EXCEPT !.latest = 0, !.tracks = << >>]
    BY <1>1, <2>2 DEF Accepted
  <2>5. /\ DOMAIN f = Fields
        /\ f.cfg = g.cfg /\ f.version = g.version /\ f.order = g.order
        /\ f.channel = g.channel /\ f.epoch = g.epoch /\ f.serial = g.serial
        /\ f.active = g.active /\ f.event = g.event
        /\ f.out = g.out /\ f.latest = 0 /\ f.tracks = << >>
        /\ f.absent = NoTime /\ f.update = FALSE /\ f.delta = NoDelta
        /\ f.reason = "none"
    BY <2>3, <2>4 DEF Fields
  <2>6. g.event = NoEvent /\ g.delta = NoDelta
    BY <2>1 DEF Good, Sound
  <2>7. ~f.active /\ f.active \in BOOLEAN /\ f.update \in BOOLEAN
    BY <1>0, <2>1, <2>5
  <2>8. Good(f)
    <3>1. /\ DOMAIN f.tracks \subseteq TrackIds /\ Cardinality(DOMAIN f.tracks) <= MaxTracks
      <4>1. DOMAIN f.tracks = {} /\ Cardinality({}) = 0 /\ MaxTracks \in Nat
        BY <2>5, FS_EmptySet, EngineAssumption
      <4> QED
        BY <4>1
    <3>2. NoTime \in Int /\ NoDelta \in Deltas /\ 0 \in Nat
      BY DEF NoTime, NoDelta, Deltas
    <3> QED
      BY <1>0, <2>5, <2>6, <2>7, <3>1, <3>2 DEF Good, Sound
  <2>9. Seen(f, g, Matching(g, o))
    BY <2>1, <2>5, <2>6 DEF Seen
  <2>10. Quieted(f, f, o, Matching(g, o) \ g.facts, Met(g, f.latest, Matching(g, o)))
    BY <2>7 DEF Quieted, Unmoved
  <2> QED
    BY <2>8, <2>9, <2>10 DEF Outcome
<1>2. CASE g.cfg.enabled
  <2>1. PICK tracks : tracks = UpdateTracks(g, o, a)
    OBVIOUS
  <2>2. PICK count : count = PersonCount(tracks, o)
    OBVIOUS
  <2>3. PICK fs : fs = Matching(g, o)
    OBVIOUS
  <2>4. count \in Nat /\ DOMAIN tracks \subseteq TrackIds /\ Cardinality(DOMAIN tracks) <= MaxTracks
    BY <2>1, <2>2, CountType, TracksFit
  <2>5. IsFiniteSet(fs) /\ (g.cfg.rule = "occupancy" => fs = {})
    BY <2>3, FS_EmptySet DEF Matching, IsObservation
  <2>6. PICK e : e = [g EXCEPT !.tracks = tracks, !.latest = count,
                               !.facts = IF g.active THEN fs ELSE @]
    OBVIOUS
  <2>7. /\ DOMAIN e = Fields /\ e.tracks = tracks /\ e.latest = count
        /\ e.facts = IF g.active THEN fs ELSE g.facts
        /\ e.cfg = g.cfg /\ e.version = g.version /\ e.order = g.order
        /\ e.channel = g.channel /\ e.epoch = g.epoch /\ e.serial = g.serial
        /\ e.active = g.active /\ e.event = g.event /\ e.count = g.count
        /\ e.absent = g.absent /\ e.update = g.update
        /\ e.delta = g.delta /\ e.reason = g.reason /\ e.out = g.out
    BY <1>0, <2>6 DEF Fields
  <2>8. Sound(e)
    <3>1. g.active => Open(e)
      BY <2>7 DEF Good, Sound, Open
    <3> QED
      BY <1>0, <2>4, <2>7, <3>1 DEF Sound
  <2>9. Seen(e, g, fs)
    BY <2>7 DEF Seen
  <2> DEFINE met == Met(g, count, fs)
  <2>10. f = IF ~g.active THEN Idle(e, o, fs, met, count)
             ELSE IF met THEN Present(e, o, fs \ g.facts, count)
             ELSE Absent(e, o, count)
    BY <1>2, <2>1, <2>2, <2>3, <2>6, <2>7 DEF Accepted, Met, NewFacts
  <2>11. met \in BOOLEAN
    <3>1. CASE g.cfg.rule = "occupancy"
      <4>1. met = (count > 0)
        BY <3>1 DEF Met
      <4> QED
        BY <2>4, <4>1
    <3>2. CASE g.cfg.rule # "occupancy"
      <4>1. met = (fs # {})
        BY <3>2 DEF Met
      <4> QED
        BY <4>1
    <3> QED
      BY <3>1, <3>2
  <2>12. CASE ~g.active
    <3>1. PICK m : m = met
      OBVIOUS
    <3>2. f = Idle(e, o, fs, m, e.latest)
      BY <2>7, <2>10, <2>12, <3>1
    <3>3. Good(f) /\ (Quieted(f, e, o, {}, m) \/ (Begun(f, e, o, fs) /\ m))
      <4> HIDE DEF met
      <4>1. m \in BOOLEAN
        BY <2>11, <3>1
      <4> QED
        BY <1>2, <2>7, <2>8, <2>12, <3>2, <4>1, IdleOutcome
    <3>4. f.latest = count
      BY <2>7, <3>3 DEF Quieted, Begun, Unmoved
    <3>5. Quieted(f, e, o, {}, m) => Quieted(f, e, o, fs \ g.facts, met)
      BY <2>7, <2>12 DEF Quieted
    <3> QED
      BY <2>3, <2>9, <3>1, <3>3, <3>4, <3>5 DEF Outcome
  <2>13. CASE g.active /\ met
    <3>1. f = Present(e, o, fs \ g.facts, e.latest)
      BY <2>7, <2>10, <2>13
    <3>2. IsFiniteSet(fs \ g.facts) /\ (e.cfg.rule = "occupancy" => fs \ g.facts = {})
      BY <2>5, <2>7, FS_Subset
    <3>3. Good(f) /\ (Quieted(f, e, o, fs \ g.facts, TRUE) \/ Refreshed(f, e, fs \ g.facts))
      BY <2>7, <2>8, <2>13, <3>1, <3>2, PresentOutcome
    <3>4. f.latest = count
      BY <2>7, <3>3 DEF Quieted, Refreshed, Unmoved
    <3>5. Quieted(f, e, o, fs \ g.facts, TRUE) => Quieted(f, e, o, fs \ g.facts, met)
      BY <2>13 DEF Quieted
    <3> QED
      BY <2>3, <2>9, <2>13, <3>3, <3>4, <3>5 DEF Outcome
  <2>14. CASE g.active /\ ~met
    <3>1. f = Absent(e, o, e.latest)
      BY <2>7, <2>10, <2>14
    <3>2. fs = {} /\ (e.cfg.rule = "occupancy" => e.latest = 0)
      BY <2>4, <2>5, <2>7, <2>14 DEF Met
    <3>3. Good(f) /\ (Quieted(f, e, o, {}, FALSE) \/ Lapsed(f, e, o))
      BY <2>7, <2>8, <2>14, <3>1, <3>2, AbsentOutcome
    <3>4. f.latest = count
      BY <2>7, <3>3 DEF Quieted, Lapsed, Unmoved
    <3>5. fs \ g.facts = {}
      BY <3>2
    <3>6. Quieted(f, e, o, {}, FALSE) => Quieted(f, e, o, fs \ g.facts, met)
      BY <2>14, <3>5 DEF Quieted
    <3> QED
      BY <2>3, <2>9, <2>14, <3>3, <3>4, <3>6 DEF Outcome
  <2> QED
    BY <1>0, <2>12, <2>13, <2>14
<1> QED
  BY <1>0, <1>1, <1>2
-----------------------------------------------------------------------------
(* What the records of a step report *)

\* The passages of one record are counted once.
LEMMA OneRecord ==
    ASSUME NEW i \in Nat, NEW n \in Nat
    PROVE  /\ IsFiniteSet({i} \X (1..n))
           /\ Cardinality({i} \X (1..n)) = n
<1>1. IsFiniteSet(1..n) /\ Cardinality(1..n) = n
  <2>1. 1 \in Int /\ n \in Int
    OBVIOUS
  <2>2. IsFiniteSet(1..n) /\ Cardinality(1..n) = IF 1 > n THEN 0 ELSE n - 1 + 1
    BY <2>1, FS_Interval
  <2> QED
    BY <2>2
<1>2. IsFiniteSet({i}) /\ Cardinality({i}) = 1
  BY FS_Singleton
<1>3. IsFiniteSet({i} \X (1..n)) /\ Cardinality({i} \X (1..n)) = 1 * n
  BY <1>1, <1>2, FS_Product
<1> QED
  BY <1>3

\* Those of two records are added.
LEMMA TwoRecords ==
    ASSUME NEW m \in Nat, NEW n \in Nat
    PROVE  Cardinality(({1} \X (1..m)) \cup ({2} \X (1..n))) = m + n
<1> DEFINE A == {1} \X (1..m)
           B == {2} \X (1..n)
<1>1. IsFiniteSet(A) /\ Cardinality(A) = m /\ IsFiniteSet(B) /\ Cardinality(B) = n
  BY OneRecord
<1>2. A \cap B = {}
  OBVIOUS
<1>3. Cardinality(A \cup B) = Cardinality(A) + Cardinality(B) - Cardinality(A \cap B)
  <2> HIDE DEF A, B
  <2> QED
    BY <1>1, FS_Union
<1>4. Cardinality(A \cap B) = 0
  BY <1>2, FS_EmptySet
<1> QED
  BY <1>1, <1>3, <1>4

\* A record behind another.
LEMMA TwoInOrder ==
    ASSUME NEW r, NEW q
    PROVE  Append(<<r>>, q) = <<r, q>>
<1>1. PICK a, b : a = Append(<<r>>, q) /\ b = <<r, q>>
  OBVIOUS
<1>2. <<r>> \in Seq({r, q}) /\ q \in {r, q} /\ Len(<<r>>) = 1
  OBVIOUS
<1>3. a \in Seq({r, q}) /\ Len(a) = 2 /\ a[1] = r /\ a[2] = q
  BY <1>1, <1>2
<1>4. b \in Seq({r, q}) /\ Len(b) = 2 /\ b[1] = r /\ b[2] = q
  BY <1>1
<1>5. \A i \in 1..Len(a) : a[i] = b[i]
  BY <1>3, <1>4
<1>6. a = b
  BY <1>3, <1>4, <1>5, SeqEqual
<1> QED
  BY <1>1, <1>6

\* A step without a record reports nothing.
LEMMA ReportedNone ==
    ASSUME NEW e, e.out = << >>
    PROVE  Reported(e) = NoDelta /\ Starts(e) = {}
<1>1. DOMAIN e.out = {}
  OBVIOUS
<1>2. /\ UNION {{i} \X (1..e.out[i].delta.in) : i \in DOMAIN e.out} = {}
      /\ UNION {{i} \X (1..e.out[i].delta.out) : i \in DOMAIN e.out} = {}
  BY <1>1
<1>3. Starts(e) = {}
  BY <1>1 DEF Starts
<1>4. Reported(e) = [in |-> 0, out |-> 0]
  BY <1>2, FS_EmptySet DEF Reported
<1> QED
  BY <1>3, <1>4 DEF NoDelta

\* A step with one record reports what is in it.
LEMMA ReportedOne ==
    ASSUME NEW e, NEW r, e.out = <<r>>, r.delta \in Deltas
    PROVE  /\ Reported(e) = r.delta
           /\ Starts(e) = IF r.phase = "START" THEN {r.id} ELSE {}
<1>1. DOMAIN e.out = {1} /\ e.out[1] = r
  OBVIOUS
<1>2. r.delta.in \in Nat /\ r.delta.out \in Nat
      /\ r.delta = [in |-> r.delta.in, out |-> r.delta.out]
  BY DEF Deltas
<1>3. /\ UNION {{i} \X (1..e.out[i].delta.in) : i \in DOMAIN e.out} = {1} \X (1..r.delta.in)
      /\ UNION {{i} \X (1..e.out[i].delta.out) : i \in DOMAIN e.out} = {1} \X (1..r.delta.out)
  BY <1>1
<1>4. Starts(e) = IF r.phase = "START" THEN {r.id} ELSE {}
  BY <1>1 DEF Starts
<1>5. /\ Cardinality({1} \X (1..r.delta.in)) = r.delta.in
      /\ Cardinality({1} \X (1..r.delta.out)) = r.delta.out
  BY <1>2, OneRecord
<1>6. Reported(e) = [in |-> r.delta.in, out |-> r.delta.out]
  BY <1>3, <1>5, Zenon DEF Reported
<1> QED
  BY <1>2, <1>4, <1>6

\* A step with two records reports the sum.
LEMMA ReportedTwo ==
    ASSUME NEW e, NEW r, NEW q, e.out = <<r, q>>, r.delta \in Deltas, q.delta \in Deltas
    PROVE  /\ Reported(e) = Plus(r.delta, q.delta)
           /\ r.phase # "START" /\ q.phase = "START" => Starts(e) = {q.id}
<1>1. DOMAIN e.out = {1, 2} /\ e.out[1] = r /\ e.out[2] = q
  OBVIOUS
<1>2. /\ r.delta.in \in Nat /\ r.delta.out \in Nat
      /\ q.delta.in \in Nat /\ q.delta.out \in Nat
  BY DEF Deltas
<1>3. /\ UNION {{i} \X (1..e.out[i].delta.in) : i \in DOMAIN e.out}
            = ({1} \X (1..r.delta.in)) \cup ({2} \X (1..q.delta.in))
      /\ UNION {{i} \X (1..e.out[i].delta.out) : i \in DOMAIN e.out}
            = ({1} \X (1..r.delta.out)) \cup ({2} \X (1..q.delta.out))
  BY <1>1
<1>4. r.phase # "START" /\ q.phase = "START" => Starts(e) = {q.id}
  BY <1>1 DEF Starts
<1>5. /\ Cardinality(({1} \X (1..r.delta.in)) \cup ({2} \X (1..q.delta.in)))
            = r.delta.in + q.delta.in
      /\ Cardinality(({1} \X (1..r.delta.out)) \cup ({2} \X (1..q.delta.out)))
            = r.delta.out + q.delta.out
  BY <1>2, TwoRecords
<1>6. Reported(e) = [in |-> r.delta.in + q.delta.in, out |-> r.delta.out + q.delta.out]
  BY <1>3, <1>5, Zenon DEF Reported
<1> QED
  BY <1>4, <1>6 DEF Plus
-----------------------------------------------------------------------------
(* me_event_engine_process as a whole *)

\* A record of the event id, with the stream of that event.
Of(r, id, phase, n, delta) ==
    /\ r.id = id /\ r.phase = phase /\ r.seq = n /\ r.delta = delta
    /\ r.epoch = id.epoch /\ r.channel = id.channel

\* The id of an event that o starts.
FreshId(e, o) == [channel |-> o.channel, epoch |-> o.epoch, serial |-> e.serial + 1]

\* f has an event that o has just started.
HasNew(f, e, o, fs) ==
    /\ f.active /\ e.serial < MaxSerial /\ f.serial = e.serial + 1
    /\ f.event.id = FreshId(e, o) /\ f.event.seq = 1
    /\ f.facts = fs /\ f.delta = NoDelta /\ f.absent = NoTime
    /\ Met(e, f.latest, fs)

\* The event of e is over in f.
HasLost(f, e) ==
    /\ e.active /\ ~f.active /\ e.event.seq < MaxSeq
    /\ f.serial = e.serial /\ f.event = NoEvent

NoRecord(f, e, o, fs) ==
    /\ f.active = e.active /\ f.serial = e.serial /\ f.out = << >>
    /\ f.event.id = e.event.id /\ f.event.seq = e.event.seq
    /\ e.active =>
          /\ f.facts = fs
          /\ f.delta = Plus(e.delta, Passages(fs \ e.facts))
          /\ f.absent = IF Met(e, f.latest, fs) THEN NoTime
                        ELSE IF e.absent = NoTime THEN Now(o) ELSE e.absent

StartRecord(f, e, o, fs, r) ==
    /\ ~e.active /\ HasNew(f, e, o, fs) /\ f.out = <<r>>
    /\ Of(r, FreshId(e, o), "START", 1, Passages(fs)) /\ r.reason = "confirmed"

UpdateRecord(f, e, o, fs, r) ==
    /\ e.active /\ f.active /\ e.event.seq < MaxSeq /\ f.serial = e.serial
    /\ f.event.id = e.event.id /\ f.event.seq = e.event.seq + 1
    /\ f.facts = fs /\ f.delta = NoDelta /\ f.absent = NoTime /\ f.out = <<r>>
    /\ Of(r, e.event.id, "UPDATE", e.event.seq + 1, Plus(e.delta, Passages(fs \ e.facts)))
    /\ r.reason # "disappeared" /\ Met(e, f.latest, fs)

LapseRecord(f, e, o, fs, r) ==
    /\ HasLost(f, e) /\ f.out = <<r>> /\ ~Met(e, f.latest, fs)
    /\ Of(r, e.event.id, "END", e.event.seq + 1, e.delta)
    /\ \/ e.cfg.grace = 0
       \/ Elapsed(Now(o), IF e.absent = NoTime THEN Now(o) ELSE e.absent, e.cfg.grace)

ResetRecord(f, e, r) ==
    /\ HasLost(f, e) /\ f.out = <<r>>
    /\ Of(r, e.event.id, "END", e.event.seq + 1, e.delta) /\ r.reason = "stream_reset"

BothRecords(f, e, o, fs, r, q) ==
    /\ e.active /\ e.event.seq < MaxSeq /\ HasNew(f, e, o, fs) /\ f.out = <<r, q>>
    /\ Of(r, e.event.id, "END", e.event.seq + 1, e.delta) /\ r.reason = "stream_reset"
    /\ Of(q, FreshId(e, o), "START", 1, Passages(fs)) /\ q.reason = "confirmed"

Effect(f, e, o, fs) ==
    \/ NoRecord(f, e, o, fs)
    \/ \E r : \/ StartRecord(f, e, o, fs, r)
              \/ UpdateRecord(f, e, o, fs, r)
              \/ LapseRecord(f, e, o, fs, r)
              \/ ResetRecord(f, e, r)
    \/ \E r, q : BothRecords(f, e, o, fs, r, q)

\* An observation of the stream of the event.
LEMMA ContinuedEffect ==
    ASSUME NEW e, Good(e), e.out = << >>, NEW o, NEW g, Good(g), Prepared(g, e, o),
           Continued(g, e), NEW fs, NEW f, Good(f), Outcome(f, g, o, fs)
    PROVE  f.cfg = e.cfg /\ f.order = Order(o) /\ Effect(f, e, o, fs)
<1>1. PICK m : m = Met(g, f.latest, fs)
  OBVIOUS
<1>2. PICK x : /\ Seen(x, g, fs)
               /\ \/ Quieted(f, x, o, fs \ g.facts, m)
                  \/ (Begun(f, x, o, fs) /\ m)
                  \/ (Refreshed(f, x, fs \ g.facts) /\ m)
                  \/ (Lapsed(f, x, o) /\ ~m)
  BY <1>1 DEF Outcome
<1>3. /\ x.cfg = e.cfg /\ x.order = Order(o) /\ x.channel = o.channel /\ x.epoch = o.epoch
      /\ x.serial = e.serial /\ x.active = e.active /\ x.event = e.event
      /\ x.delta = e.delta /\ x.out = << >> /\ g.facts = e.facts /\ g.cfg = e.cfg
      /\ (e.active => x.facts = fs /\ x.absent = e.absent)
  BY <1>2 DEF Seen, Prepared, Continued
<1>4. m = Met(e, f.latest, fs)
  BY <1>1, <1>3 DEF Met
<1>5. f.cfg = e.cfg /\ f.order = Order(o)
  BY <1>2, <1>3 DEF Quieted, Begun, Refreshed, Lapsed, Unmoved
<1>6. ASSUME e.active
      PROVE  e.event.id.channel = o.channel /\ e.event.id.epoch = o.epoch
  BY <1>6 DEF Prepared, Continued, Good, Sound, Open
<1>7. CASE Quieted(f, x, o, fs \ g.facts, m)
  <2>1. NoRecord(f, e, o, fs)
    BY <1>3, <1>4, <1>7 DEF Quieted, NoRecord
  <2> QED
    BY <1>5, <2>1 DEF Effect
<1>8. CASE Begun(f, x, o, fs) /\ m
  <2>1. PICK r : /\ IsRecord(r, x, f.event.id, "START", 1, Passages(fs))
                 /\ r.reason = "confirmed" /\ f.out = Append(x.out, r)
    BY <1>8 DEF Begun
  <2>2. HasNew(f, e, o, fs) /\ ~e.active
    BY <1>3, <1>4, <1>8 DEF Begun, HasNew, FreshId
  <2>3. f.out = <<r>>
    BY <1>3, <2>1
  <2>4. Of(r, FreshId(e, o), "START", 1, Passages(fs))
    BY <1>3, <2>1, <2>2 DEF IsRecord, Of, FreshId, HasNew
  <2>5. StartRecord(f, e, o, fs, r)
    BY <2>1, <2>2, <2>3, <2>4 DEF StartRecord
  <2> QED
    BY <1>5, <2>5 DEF Effect
<1>9. CASE Refreshed(f, x, fs \ g.facts) /\ m
  <2>1. PICK r : /\ IsRecord(r, x, x.event.id, "UPDATE", x.event.seq + 1,
                             Plus(x.delta, Passages(fs \ g.facts)))
                 /\ r.reason # "disappeared" /\ f.out = Append(x.out, r)
    BY <1>9 DEF Refreshed
  <2>2. e.active
    BY <1>3, <1>9 DEF Refreshed
  <2>3. f.out = <<r>>
    BY <1>3, <2>1
  <2>4. Of(r, e.event.id, "UPDATE", e.event.seq + 1, Plus(e.delta, Passages(fs \ e.facts)))
    BY <1>3, <1>6, <2>1, <2>2 DEF IsRecord, Of
  <2>5. UpdateRecord(f, e, o, fs, r)
    BY <1>3, <1>4, <1>9, <2>1, <2>2, <2>3, <2>4 DEF UpdateRecord, Refreshed
  <2> QED
    BY <1>5, <2>5 DEF Effect
<1>10. CASE Lapsed(f, x, o) /\ ~m
  <2>1. PICK r : /\ IsRecord(r, x, x.event.id, "END", x.event.seq + 1, x.delta)
                 /\ r.reason = "disappeared" /\ f.out = Append(x.out, r)
    BY <1>10 DEF Lapsed
  <2>2. e.active /\ HasLost(f, e)
    BY <1>3, <1>10 DEF Lapsed, HasLost
  <2>3. f.out = <<r>>
    BY <1>3, <2>1
  <2>4. Of(r, e.event.id, "END", e.event.seq + 1, e.delta)
    BY <1>3, <1>6, <2>1, <2>2 DEF IsRecord, Of
  <2>5. LapseRecord(f, e, o, fs, r)
    BY <1>3, <1>4, <1>10, <2>2, <2>3, <2>4 DEF LapseRecord, Lapsed
  <2> QED
    BY <1>5, <2>5 DEF Effect
<1> QED
  BY <1>2, <1>7, <1>8, <1>9, <1>10
\* An observation of another stream than that of the event.
LEMMA VacantEffect ==
    ASSUME NEW e, Good(e), e.out = << >>, NEW o, NEW g, Good(g), Prepared(g, e, o),
           Vacant(g, e), NEW fs, NEW f, Good(f), Outcome(f, g, o, fs)
    PROVE  f.cfg = e.cfg /\ f.order = Order(o) /\ Effect(f, e, o, fs)
<1>1. PICK m : m = Met(g, f.latest, fs)
  OBVIOUS
<1>2. PICK x : /\ Seen(x, g, fs)
               /\ \/ Quieted(f, x, o, fs \ g.facts, m)
                  \/ (Begun(f, x, o, fs) /\ m)
                  \/ (Refreshed(f, x, fs \ g.facts) /\ m)
                  \/ (Lapsed(f, x, o) /\ ~m)
  BY <1>1 DEF Outcome
<1>3. /\ x.cfg = e.cfg /\ x.order = Order(o) /\ x.channel = o.channel /\ x.epoch = o.epoch
      /\ x.serial = e.serial /\ ~x.active /\ x.out = g.out /\ g.cfg = e.cfg
      /\ x.active = FALSE
  BY <1>2 DEF Seen, Prepared, Vacant
<1>4. m = Met(e, f.latest, fs)
  BY <1>1, <1>3 DEF Met
<1>5. Quieted(f, x, o, fs \ g.facts, m) \/ (Begun(f, x, o, fs) /\ m)
  BY <1>2, <1>3 DEF Refreshed, Lapsed
<1>6. f.cfg = e.cfg /\ f.order = Order(o)
  BY <1>3, <1>5 DEF Quieted, Begun, Unmoved
<1>7. e.active \in BOOLEAN /\ (~e.active => e.event = NoEvent)
  BY DEF Good, Sound
<1>8. ASSUME Quieted(f, x, o, fs \ g.facts, m)
      PROVE  /\ f.active = FALSE /\ f.serial = e.serial /\ f.out = g.out /\ f.event = NoEvent
  BY <1>3, <1>8 DEF Quieted, Good, Sound
<1>9. ASSUME Begun(f, x, o, fs), m
      PROVE  /\ HasNew(f, e, o, fs)
             /\ \E q : /\ Of(q, FreshId(e, o), "START", 1, Passages(fs))
                       /\ q.reason = "confirmed" /\ f.out = Append(g.out, q)
  <2>1. PICK q : /\ IsRecord(q, x, f.event.id, "START", 1, Passages(fs))
                 /\ q.reason = "confirmed" /\ f.out = Append(x.out, q)
    BY <1>9 DEF Begun
  <2>2. HasNew(f, e, o, fs)
    BY <1>3, <1>4, <1>9 DEF Begun, HasNew, FreshId
  <2>3. Of(q, FreshId(e, o), "START", 1, Passages(fs))
    BY <1>3, <2>1, <2>2 DEF IsRecord, Of, FreshId, HasNew
  <2> QED
    BY <1>3, <2>1, <2>2, <2>3
<1>10. CASE e.active
  <2>1. PICK r : r = EndRecord(e, "stream_reset", e.latest)
    OBVIOUS
  <2>2. g.out = <<r>> /\ e.event.seq < MaxSeq
    BY <1>10, <2>1 DEF Vacant
  <2>3. Of(r, e.event.id, "END", e.event.seq + 1, e.delta) /\ r.reason = "stream_reset"
    <3>1. e.event.id.channel = e.channel /\ e.event.id.epoch = e.epoch
      BY <1>10 DEF Good, Sound, Open
    <3> QED
      BY <2>1, <3>1 DEF EndRecord, Record, Of
  <2>4. CASE Quieted(f, x, o, fs \ g.facts, m)
    <3>1. HasLost(f, e) /\ f.out = <<r>>
      BY <1>8, <1>10, <2>2, <2>4 DEF HasLost
    <3>2. ResetRecord(f, e, r)
      BY <2>3, <3>1 DEF ResetRecord
    <3> QED
      BY <1>6, <3>2 DEF Effect
  <2>5. CASE Begun(f, x, o, fs) /\ m
    <3>1. PICK q : /\ Of(q, FreshId(e, o), "START", 1, Passages(fs))
                   /\ q.reason = "confirmed" /\ f.out = Append(g.out, q)
      BY <1>9, <2>5
    <3>2. f.out = <<r, q>>
      <4>1. Append(<<r>>, q) = <<r, q>>
        BY TwoInOrder
      <4>2. f.out = Append(<<r>>, q)
        BY <2>2, <3>1
      <4> QED
        BY <4>1, <4>2, Zenon
    <3>3. BothRecords(f, e, o, fs, r, q)
      BY <1>9, <1>10, <2>2, <2>3, <2>5, <3>1, <3>2 DEF BothRecords
    <3> QED
      BY <1>6, <3>3 DEF Effect
  <2> QED
    BY <1>5, <2>4, <2>5
<1>11. CASE ~e.active
  <2>1. g.out = << >> /\ e.event = NoEvent
    BY <1>7, <1>11 DEF Vacant
  <2>2. CASE Quieted(f, x, o, fs \ g.facts, m)
    <3>1. f.active = e.active
      <4>1. e.active = FALSE
        BY <1>7, <1>11
      <4>2. f.active = FALSE
        BY <1>8, <2>2
      <4> QED
        BY <4>1, <4>2, Zenon
    <3>2. NoRecord(f, e, o, fs)
      BY <1>8, <1>11, <2>1, <2>2, <3>1 DEF NoRecord
    <3> QED
      BY <1>6, <3>2 DEF Effect
  <2>3. CASE Begun(f, x, o, fs) /\ m
    <3>1. PICK q : /\ Of(q, FreshId(e, o), "START", 1, Passages(fs))
                   /\ q.reason = "confirmed" /\ f.out = Append(g.out, q)
      BY <1>9, <2>3
    <3>2. f.out = <<q>>
      BY <2>1, <3>1
    <3>3. StartRecord(f, e, o, fs, q)
      BY <1>9, <1>11, <2>3, <3>1, <3>2 DEF StartRecord
    <3> QED
      BY <1>6, <3>3 DEF Effect
  <2> QED
    BY <1>5, <2>2, <2>3
<1> QED
  BY <1>10, <1>11

\* me_event_engine_process takes an observation: what its records are, and
\* how they go with the event of the engine.
LEMMA ProcessEffect ==
    ASSUME NEW e, Good(e), e.out = << >>, NEW o, IsObservation(o), IsAccepted(e, o),
           NEW a \in Admissions(Open0(e, o), o), NEW f, f = Process(e, o, a)
    PROVE  /\ Good(f) /\ f.cfg = e.cfg /\ f.order = Order(o)
           /\ Effect(f, e, o, Matching(e, o))
<1>1. PICK g : g = Open0(e, o)
  OBVIOUS
<1>2. Good(g) /\ Prepared(g, e, o) /\ (Continued(g, e) \/ Vacant(g, e))
  <2>1. IsLabel(o)
    BY DEF IsObservation
  <2> QED
    BY <1>1, <2>1, OpenedShape
<1>3. f = Accepted(g, o, a)
  BY <1>1 DEF Process, Open0
<1>4. Good(f) /\ Outcome(f, g, o, Matching(g, o))
  <2>1. g.order = Order(o) /\ g.epoch = o.epoch /\ g.channel = o.channel
    BY <1>2 DEF Prepared
  <2> QED
    BY <1>1, <1>2, <1>3, <2>1, AcceptedOutcome
<1>5. Matching(g, o) = Matching(e, o)
  BY <1>2 DEF Prepared, Matching
<1>6. PICK fs : fs = Matching(e, o)
  OBVIOUS
<1>7. Outcome(f, g, o, fs)
  BY <1>4, <1>5, <1>6
<1>8. f.cfg = e.cfg /\ f.order = Order(o) /\ Effect(f, e, o, fs)
  BY <1>2, <1>4, <1>7, ContinuedEffect, VacantEffect
<1> QED
  BY <1>4, <1>6, <1>8
-----------------------------------------------------------------------------
(* The inductive invariant *)

\* The ids of this life of the process carry the serials given so far.
IdsGiven ==
    /\ started \subseteq EventIds
    /\ \A id \in started : id.serial <= eng.serial

\* The facts of the last observation are those the engine remembers.
FactsKept == eng.active => facts = eng.facts

\* A process that is down has no event.
DownIsIdle == ~up => eng.active = FALSE /\ started = {}

\* While time has not run backwards, the rule of the event was met last
\* before the last observation and before the absence.
Timely ==
    /\ hit \in Int
    /\ steady \in BOOLEAN
    /\ eng.active /\ steady =>
          /\ hit <= Now(eng.order)
          /\ eng.absent # NoTime => hit <= eng.absent

EnginePart ==
    /\ Good(eng)
    /\ IdsGiven
    /\ FactsKept
    /\ PassagesConserved
    /\ OneStream
    /\ Timely

EngineInv ==
    /\ up \in BOOLEAN
    /\ StreamTypes
    /\ DownIsIdle
    /\ EnginePart

\* What is pending is a number of passages.
LEMMA LedgerType ==
    ASSUME EnginePart
    PROVE  /\ ledger \in Deltas /\ eng.delta \in Deltas
           /\ eng.active => ledger = eng.delta
           /\ ~eng.active => ledger = NoDelta
<1>1. eng.delta \in Deltas /\ NoDelta \in Deltas
  BY PlusType DEF EnginePart, Good, Sound
<1> QED
  BY <1>1 DEF EnginePart, PassagesConserved

\* f is a new engine, but for records q.
Unused(f, c, q) ==
    /\ DOMAIN f = Fields
    /\ f.cfg = c /\ f.version = 1 /\ f.order = NoOrder
    /\ f.channel = "none" /\ f.epoch = 0 /\ f.serial = 0
    /\ f.active = FALSE /\ f.event = NoEvent /\ f.count = 0 /\ f.latest = 0
    /\ f.absent = NoTime /\ f.update = FALSE /\ f.delta = NoDelta
    /\ f.reason = "none" /\ f.tracks = << >> /\ f.facts = {} /\ f.out = q

\* me_event_engine_init
LEMMA FreshEngine ==
    ASSUME NEW c, NEW q
    PROVE  /\ Unused(Fresh(c), c, << >>)
           /\ Unused([Fresh(c) EXCEPT !.out = q], c, q)
<1>1. Unused(Fresh(c), c, << >>)
  BY DEF Fresh, Fields, Unused
<1>2. Unused([Fresh(c) EXCEPT !.out = q], c, q)
  BY DEF Fresh, Fields, Unused
<1> QED
  BY <1>1, <1>2

\* A new engine is in a good state.
LEMMA FreshGood ==
    ASSUME NEW c \in Configs, NEW f, NEW q, Unused(f, c, q)
    PROVE  Good(f)
<1>1. Cleared(f, f)
  BY DEF Unused, Cleared
<1>2. 1 \in 1..MaxVersion /\ NoOrder \in Orders /\ 0 \in 0..MaxEpoch /\ 0 \in 0..MaxSerial
  BY EngineAssumption DEF Orders, NoOrder
<1>3. /\ f.cfg \in Configs /\ f.version \in 1..MaxVersion
      /\ f.order \in Orders /\ f.channel \in Channels \cup {"none"}
      /\ f.epoch \in 0..MaxEpoch /\ f.serial \in 0..MaxSerial
  BY <1>2 DEF Unused
<1> QED
  BY <1>1, <1>3, ClearedGood

\* close, reconfigure and deinit report the event of the engine, in its stream.
LEMMA CloseRecord ==
    ASSUME NEW e, Good(e), NEW reason, NEW c, c = ClearRuntime(EndActive(Silent(e), reason))
    PROVE  /\ Cleared(c, e)
           /\ ~e.active => c.out = << >>
           /\ e.active =>
                 \E r : /\ c.out = <<r>> /\ r.reason = reason
                        /\ Of(r, e.event.id, "END", e.event.seq + 1, e.delta)
<1>1. PICK m : m = Silent(e)
  OBVIOUS
<1>2. Good(m) /\ Muted(m, e)
  BY <1>1, SilentGood
<1>3. DOMAIN m = Fields /\ m.active \in BOOLEAN
  BY <1>2 DEF Good, Sound
<1>4. /\ Cleared(c, m)
      /\ c.out = IF m.active THEN Append(m.out, EndRecord(m, reason, m.latest)) ELSE m.out
  BY <1>1, <1>3, CloseFields
<1>5. Cleared(c, e)
  BY <1>2, <1>4 DEF Cleared, Muted
<1>6. ~e.active => c.out = << >>
  BY <1>2, <1>4 DEF Muted
<1>7. ASSUME e.active
      PROVE  \E r : /\ c.out = <<r>> /\ r.reason = reason
                    /\ Of(r, e.event.id, "END", e.event.seq + 1, e.delta)
  <2>1. PICK r : r = EndRecord(m, reason, m.latest)
    OBVIOUS
  <2>2. c.out = <<r>>
    BY <1>2, <1>4, <1>7, <2>1 DEF Muted
  <2>3. e.event.id.channel = e.channel /\ e.event.id.epoch = e.epoch
    BY <1>7 DEF Good, Sound, Open
  <2>4. r.reason = reason /\ Of(r, e.event.id, "END", e.event.seq + 1, e.delta)
    BY <1>2, <2>1, <2>3 DEF EndRecord, Record, Of, Muted
  <2> QED
    BY <2>2, <2>4
<1> QED
  BY <1>5, <1>6, <1>7
\* The records of e carry the streams of their events.
InStream(e) == \A i \in DOMAIN e.out : /\ e.out[i].epoch = e.out[i].id.epoch
                                       /\ e.out[i].channel = e.out[i].id.channel

\* Records that are each of the stream of their event.
LEMMA RecordsInStream ==
    ASSUME NEW e, NEW r, NEW q, NEW i, NEW j, NEW p1, NEW p2, NEW m, NEW n, NEW c, NEW d,
           Of(r, i, p1, m, c), Of(q, j, p2, n, d),
           e.out = << >> \/ e.out = <<r>> \/ e.out = <<r, q>>
    PROVE  InStream(e)
<1>1. /\ r.epoch = r.id.epoch /\ r.channel = r.id.channel
      /\ q.epoch = q.id.epoch /\ q.channel = q.id.channel
  BY DEF Of
<1>2. CASE e.out = << >>
  BY <1>2 DEF InStream
<1>3. CASE e.out = <<r>>
  BY <1>1, <1>3 DEF InStream
<1>4. CASE e.out = <<r, q>>
  BY <1>1, <1>4 DEF InStream
<1> QED
  BY <1>2, <1>3, <1>4

\* An engine that goes on silently keeps everything.
LEMMA SilentStep ==
    ASSUME EnginePart, Step(Silent(eng))
    PROVE  EnginePart' /\ Muted(eng', eng) /\ started' = started
<1>1. Good(eng') /\ Muted(eng', eng) /\ started' = started
  BY SilentGood DEF Step, EnginePart
<1>2. eng'.out = << >> /\ eng'.active = eng.active /\ eng'.serial = eng.serial
      /\ eng'.facts = eng.facts /\ eng'.delta = eng.delta /\ eng'.order = eng.order
      /\ eng'.absent = eng.absent /\ eng.active \in BOOLEAN
  BY <1>1 DEF Muted, EnginePart, Good, Sound
<1>3. IdsGiven'
  BY <1>1, <1>2 DEF EnginePart, IdsGiven
<1>4. FactsKept'
  BY <1>2 DEF EnginePart, FactsKept, Step
<1>5. PassagesConserved'
  <2>1. Reported(eng') = NoDelta
    BY <1>2, ReportedNone
  <2>2. ledger' = Minus(ledger, NoDelta)
    BY <2>1 DEF Step
  <2>3. ledger' = ledger
    BY <2>2, LedgerType, PlusType
  <2> QED
    BY <1>2, <2>3 DEF EnginePart, PassagesConserved
<1>6. OneStream'
  BY <1>2 DEF OneStream
<1>7. Timely'
  <2>1. hit' = IF eng'.active THEN hit ELSE NoTime
    BY DEF Step
  <2>2. hit' \in Int
    BY <2>1 DEF EnginePart, Timely, NoTime
  <2>3. steady' = (eng'.active => steady)
    BY DEF Step
  <2>4. steady' \in BOOLEAN
    BY <2>3
  <2>5. ASSUME eng'.active, steady' PROVE eng.active /\ steady /\ hit' = hit
    BY <1>2, <2>1, <2>3, <2>5
  <2> QED
    BY <1>2, <2>2, <2>4, <2>5 DEF EnginePart, Timely
<1> QED
  BY <1>1, <1>3, <1>4, <1>5, <1>6, <1>7 DEF EnginePart

\* An engine that has lost its event, if it had one, by a record of its END.
LEMMA ClosedStep ==
    ASSUME EnginePart, NEW c, Cleared(c, eng),
           ~eng.active => c.out = << >>,
           NEW reason,
           eng.active => \E r : /\ c.out = <<r>> /\ r.reason = reason
                                /\ Of(r, eng.event.id, "END", eng.event.seq + 1, eng.delta)
    PROVE  InStream(c) /\ Minus(ledger, Reported(c)) = NoDelta
<1>1. CASE ~eng.active
  <2>1. c.out = << >>
    BY <1>1
  <2>2. Reported(c) = NoDelta /\ ledger = NoDelta
    BY <1>1, <2>1, ReportedNone, LedgerType
  <2>3. Minus(NoDelta, NoDelta) = NoDelta
    BY DEF Minus, NoDelta
  <2>4. InStream(c)
    BY <2>1 DEF InStream
  <2> QED
    BY <2>2, <2>3, <2>4
<1>2. CASE eng.active
  <2>1. PICK r : /\ c.out = <<r>> /\ r.reason = reason
                 /\ Of(r, eng.event.id, "END", eng.event.seq + 1, eng.delta)
    BY <1>2
  <2>2. r.delta = eng.delta /\ r.delta \in Deltas /\ ledger = eng.delta
    BY <1>2, <2>1, LedgerType DEF Of
  <2>3. Reported(c) = r.delta
    BY <2>1, <2>2, ReportedOne
  <2>4. InStream(c)
    BY <2>1, RecordsInStream
  <2>5. Minus(eng.delta, eng.delta) = NoDelta
    BY <2>2, PlusType
  <2> QED
    BY <2>2, <2>3, <2>4, <2>5
<1> QED
  BY <1>1, <1>2
\* The invariant holds when the process has been started.
LEMMA InitEngineInv ==
    ASSUME Init
    PROVE  EngineInv
<1>1. PICK c \in Configs : eng = Fresh(c)
  BY DEF Init
<1>2. Good(eng) /\ eng.active = FALSE /\ eng.out = << >>
  <2>1. Unused(eng, c, << >>)
    BY <1>1, FreshEngine
  <2> QED
    BY <2>1, FreshGood DEF Unused
<1>3. StreamTypes
  <2>1. Camera \in Epochs
    BY EngineAssumption DEF Camera, Epochs, Channels
  <2>2. MaxEpoch \in Nat \ {0} /\ MaxFrame \in Nat
    BY EngineAssumption
  <2> QED
    BY <2>1, <2>2 DEF Init, StreamTypes, Camera
<1>4. IdsGiven /\ FactsKept /\ PassagesConserved /\ OneStream
  BY <1>2 DEF Init, IdsGiven, FactsKept, PassagesConserved, OneStream
<1>5. Timely
  BY <1>2 DEF Init, Timely, NoTime
<1>6. up \in BOOLEAN /\ DownIsIdle
  BY DEF Init, DownIsIdle
<1> QED
  BY <1>2, <1>3, <1>4, <1>5, <1>6 DEF EngineInv, EnginePart

\* The epochs grow by those that begin with a frame to come.
LEMMA StreamsInv ==
    ASSUME EngineInv, Next
    PROVE  StreamTypes'
<1>0. MaxEpoch \in Nat \ {0} /\ MaxFrame \in Nat \ {0}
  BY EngineAssumption
<1>1. ASSUME NEW h, h.frame \in 1..MaxFrame, UNCHANGED streams,
             captured' = Max({captured, h.frame})
      PROVE  StreamTypes'
  <2>1. captured \in Nat /\ h.frame \in Nat
    BY <1>0, <1>1 DEF EngineInv, StreamTypes
  <2>2. captured' \in {captured, h.frame}
    BY <1>1, <2>1, MaxOfTwo
  <2>3. captured' \in 0..MaxFrame
    BY <1>0, <1>1, <2>2 DEF EngineInv, StreamTypes
  <2> QED
    BY <1>1, <2>3 DEF EngineInv, StreamTypes
<1>2. ASSUME NEW h \in Frames, Drop(h) PROVE StreamTypes'
  <2>1. h.frame \in 1..MaxFrame
    BY FramesAreLabels DEF EngineInv, IsLabel
  <2> QED
    BY <1>1, <1>2, <2>1 DEF Drop
<1>3. ASSUME NEW h \in Frames, NEW s \in Scenes[eng.cfg.rule], Observe(Observation(h, s))
      PROVE  StreamTypes'
  <2>1. h.frame \in 1..MaxFrame
    BY FramesAreLabels DEF EngineInv, IsLabel
  <2>2. Observation(h, s).frame = h.frame
    BY DEF Observation
  <2> QED
    BY <1>1, <1>3, <2>1, <2>2 DEF Observe
<1>4. ASSUME NEW c \in Configs, NEW v \in 1..MaxVersion, Reconfigure(c, v) PROVE StreamTypes'
  BY <1>4 DEF Reconfigure, EngineInv, StreamTypes
<1>5. CASE Shutdown \/ Crash
  <2>1. streams' = <<Camera>> /\ captured' = 0
    BY <1>5 DEF Shutdown, Crash
  <2>2. Camera \in Epochs
    BY EngineAssumption DEF Camera, Epochs, Channels
  <2> QED
    BY <1>0, <2>1, <2>2 DEF StreamTypes, Camera
<1>6. CASE Boot
  BY <1>6 DEF Boot, EngineInv, StreamTypes
<1>7. CASE SetStream
  <2>1. PICK c \in Channels : streams' = Append(streams, [channel |-> c, begin |-> captured + 1])
    BY <1>7 DEF SetStream, Channels
  <2>2. [channel |-> c, begin |-> captured + 1] \in Epochs
    BY <1>0, <1>7, <2>1 DEF SetStream, EngineInv, StreamTypes, Epochs
  <2>3. Len(streams) < MaxEpoch /\ captured' = captured
    BY <1>7 DEF SetStream, Stream
  <2> QED
    BY <1>0, <2>1, <2>2, <2>3 DEF EngineInv, StreamTypes
<1> QED
  BY <1>2, <1>3, <1>4, <1>5, <1>6, <1>7 DEF Next

\* me_event_engine_reconfigure closes the event.
LEMMA ReconfigureShape ==
    ASSUME EnginePart, NEW c \in Configs, NEW v \in 1..MaxVersion, Reconfigure(c, v)
    PROVE  \E p, reason :
              /\ p = ClearRuntime(EndActive(Silent(eng), reason))
              /\ reason # "disappeared"
              /\ Cleared(p, eng)
              /\ Step([p EXCEPT !.cfg = c, !.version = v])
              /\ eng.active => eng.event.seq < MaxSeq
<1>1. PICK reason : reason = IF c.enabled THEN "reconfigured" ELSE "analytics_disabled"
  OBVIOUS
<1>2. PICK p : p = ClearRuntime(EndActive(Silent(eng), reason))
  OBVIOUS
<1>3. Step([p EXCEPT !.cfg = c, !.version = v])
  BY <1>1, <1>2 DEF Reconfigure
<1>4. Cleared(p, eng)
  BY <1>2, CloseRecord DEF EnginePart
<1>5. eng.active => eng.event.seq < MaxSeq
  <2>1. SUFFICES ASSUME eng.active PROVE eng.event.seq < MaxSeq
    OBVIOUS
  <2>2. eng.event.seq \in 1..MaxSeq /\ MaxSeq \in Nat
    BY <2>1, EngineAssumption DEF EnginePart, Good, Sound, Open
  <2> QED
    BY <2>1, <2>2 DEF Reconfigure, Exhausted
<1>6. reason # "disappeared"
  BY <1>1
<1> QED
  BY <1>2, <1>3, <1>4, <1>5, <1>6
\* What is reported depends on the records only.
LEMMA SameRecords ==
    ASSUME NEW e, NEW f, f.out = e.out
    PROVE  Reported(f) = Reported(e) /\ Starts(f) = Starts(e) /\ (InStream(e) => InStream(f))
<1>1. Reported(f) = Reported(e)
  BY DEF Reported
<1>2. Starts(f) = Starts(e)
  BY DEF Starts
<1>3. InStream(e) => InStream(f)
  BY DEF InStream
<1> QED
  BY <1>1, <1>2, <1>3

\* An engine without an event, with nothing left to report.
LEMMA IdlePart ==
    ASSUME Good(eng'), eng'.active = FALSE, IdsGiven', ledger' = NoDelta, InStream(eng'),
           hit' \in Int, steady' \in BOOLEAN
    PROVE  EnginePart'
<1>1. OneStream'
  BY DEF InStream, OneStream
<1>2. PassagesConserved' /\ FactsKept'
  BY DEF PassagesConserved, FactsKept
<1>3. Timely'
  BY DEF Timely
<1> QED
  BY <1>1, <1>2, <1>3 DEF EnginePart

\* me_event_engine_reconfigure keeps the invariant.
LEMMA ReconfigureInv ==
    ASSUME EnginePart, NEW c \in Configs, NEW v \in 1..MaxVersion, Reconfigure(c, v)
    PROVE  EnginePart'
<1>1. PICK p, reason :
          /\ p = ClearRuntime(EndActive(Silent(eng), reason))
          /\ reason # "disappeared"
          /\ Cleared(p, eng)
          /\ Step([p EXCEPT !.cfg = c, !.version = v])
          /\ eng.active => eng.event.seq < MaxSeq
  BY ReconfigureShape
<1>2. Good(eng)
  BY DEF EnginePart
<1>3. /\ ~eng.active => p.out = << >>
      /\ eng.active => \E r : /\ p.out = <<r>> /\ r.reason = reason
                              /\ Of(r, eng.event.id, "END", eng.event.seq + 1, eng.delta)
  BY <1>1, <1>2, CloseRecord
<1>4. InStream(p) /\ Minus(ledger, Reported(p)) = NoDelta
  BY <1>1, <1>3, ClosedStep
<1>5. PICK f : f = eng'
  OBVIOUS
<1>6. f = [p EXCEPT !.cfg = c, !.version = v]
  BY <1>1, <1>5 DEF Step
<1>7. /\ DOMAIN f = Fields
      /\ f.cfg = c /\ f.version = v /\ f.order = p.order
      /\ f.channel = p.channel /\ f.epoch = p.epoch /\ f.serial = p.serial
      /\ f.active = p.active /\ f.event = p.event /\ f.count = p.count /\ f.latest = p.latest
      /\ f.absent = p.absent /\ f.update = p.update /\ f.delta = p.delta
      /\ f.reason = p.reason /\ f.tracks = p.tracks /\ f.facts = p.facts /\ f.out = p.out
  BY <1>1, <1>6 DEF Cleared, Fields
<1>8. Cleared(f, f)
  BY <1>1, <1>7 DEF Cleared
<1>9. /\ f.order \in Orders /\ f.channel \in Channels \cup {"none"}
      /\ f.epoch \in 0..MaxEpoch /\ f.serial \in 0..MaxSerial /\ f.serial = eng.serial
  BY <1>1, <1>2, <1>7 DEF Cleared, Good, Sound
<1>10. Good(f) /\ f.active = FALSE
  <2>1. Good(f)
    BY <1>7, <1>8, <1>9, ClearedGood
  <2> QED
    BY <2>1, <1>8 DEF Cleared
<1>11. Reported(f) = Reported(p) /\ InStream(f)
  BY <1>4, <1>7, SameRecords
<1>12. ledger' = NoDelta /\ hit' = NoTime /\ steady' = TRUE /\ started' = started
  <2>1. ledger' = Minus(ledger, Reported(f)) /\ started' = started
    BY <1>1, <1>6 DEF Step
  <2>2. hit' = IF f.active THEN hit ELSE NoTime
    BY <1>1, <1>6 DEF Step
  <2>3. steady' = (f.active => steady)
    BY <1>1, <1>6 DEF Step
  <2> QED
    BY <1>4, <1>10, <1>11, <2>1, <2>2, <2>3
<1>13. IdsGiven'
  BY <1>5, <1>9, <1>12 DEF EnginePart, IdsGiven
<1>14. hit' \in Int /\ steady' \in BOOLEAN
  BY <1>12 DEF NoTime
<1> QED
  BY <1>5, <1>10, <1>11, <1>12, <1>13, <1>14, IdlePart

\* The records of engine_deinit: the END of the event, if it can be closed.
LEMMA ShutdownShape ==
    ASSUME EnginePart, Shutdown
    PROVE  /\ Unused(eng', eng.cfg, eng'.out)
           /\ ~eng.active \/ Exhausted(eng) => eng'.out = << >>
           /\ eng.active /\ ~Exhausted(eng) =>
                 \E r : /\ eng'.out = <<r>> /\ r.reason = "process_restart"
                        /\ Of(r, eng.event.id, "END", eng.event.seq + 1, eng.delta)
<1>1. PICK q : q = Close(Silent(eng), "process_restart").out
  OBVIOUS
<1>2. eng' = [Fresh(eng.cfg) EXCEPT !.out = q]
  BY <1>1 DEF Shutdown
<1>3. Unused(eng', eng.cfg, q)
  BY <1>2, FreshEngine
<1>4. eng'.out = q
  BY <1>3 DEF Unused
<1>5. Good(eng) /\ Muted(Silent(eng), eng)
  BY SilentGood DEF EnginePart
<1>6. Exhausted(Silent(eng)) = Exhausted(eng) /\ Silent(eng).out = << >>
  BY <1>5 DEF Muted, Exhausted
<1>7. CASE Exhausted(eng)
  <2>1. q = << >>
    BY <1>1, <1>6, <1>7 DEF Close
  <2> QED
    BY <1>3, <1>4, <1>7, <2>1
<1>8. CASE ~Exhausted(eng)
  <2>1. PICK c : c = ClearRuntime(EndActive(Silent(eng), "process_restart"))
    OBVIOUS
  <2>2. q = c.out
    BY <1>1, <1>6, <1>8, <2>1 DEF Close
  <2>3. /\ ~eng.active => c.out = << >>
        /\ eng.active =>
              \E r : /\ c.out = <<r>> /\ r.reason = "process_restart"
                     /\ Of(r, eng.event.id, "END", eng.event.seq + 1, eng.delta)
    BY <1>5, <2>1, CloseRecord
  <2> QED
    BY <1>3, <1>4, <1>8, <2>2, <2>3
<1> QED
  BY <1>7, <1>8

\* A process that ends or begins has an engine without an event.
LEMMA LifeInv ==
    ASSUME EnginePart, DownIsIdle, Shutdown \/ Crash \/ Boot
    PROVE  EnginePart'
<1>0. Good(eng) /\ eng.cfg \in Configs
  BY DEF EnginePart, Good, Sound
<1>1. CASE Shutdown
  <2>1. /\ Unused(eng', eng.cfg, eng'.out)
        /\ ~eng.active \/ Exhausted(eng) => eng'.out = << >>
        /\ eng.active /\ ~Exhausted(eng) =>
              \E r : /\ eng'.out = <<r>> /\ r.reason = "process_restart"
                     /\ Of(r, eng.event.id, "END", eng.event.seq + 1, eng.delta)
    BY <1>1, ShutdownShape
  <2>2. Good(eng') /\ eng'.active = FALSE
    BY <1>0, <2>1, FreshGood DEF Unused
  <2>3. IdsGiven' /\ hit' \in Int /\ steady' \in BOOLEAN
    BY <1>1 DEF Shutdown, IdsGiven, NoTime
  <2>4. CASE Exhausted(eng) \/ ~eng.active
    <3>1. eng'.out = << >>
      BY <2>1, <2>4
    <3>2. InStream(eng') /\ Reported(eng') = NoDelta
      BY <3>1, ReportedNone DEF InStream
    <3>3. ledger' = NoDelta
      <4>1. CASE Exhausted(eng)
        BY <1>1, <4>1 DEF Shutdown
      <4>2. CASE ~Exhausted(eng)
        <5>1. ledger = NoDelta
          BY <2>4, <4>2, LedgerType
        <5>2. ledger' = Minus(NoDelta, NoDelta)
          BY <1>1, <3>2, <4>2, <5>1 DEF Shutdown
        <5> QED
          BY <5>2 DEF Minus, NoDelta
      <4> QED
        BY <4>1, <4>2
    <3> QED
      BY <2>2, <2>3, <3>2, <3>3, IdlePart
  <2>5. CASE ~Exhausted(eng) /\ eng.active
    <3>1. PICK r : /\ eng'.out = <<r>> /\ r.reason = "process_restart"
                   /\ Of(r, eng.event.id, "END", eng.event.seq + 1, eng.delta)
      BY <2>1, <2>5
    <3>2. r.delta = eng.delta /\ r.delta \in Deltas /\ ledger = eng.delta
      BY <2>5, <3>1, LedgerType DEF Of
    <3>3. Reported(eng') = r.delta
      BY <3>1, <3>2, ReportedOne
    <3>4. InStream(eng')
      BY <3>1, RecordsInStream
    <3>5. Minus(eng.delta, eng.delta) = NoDelta
      BY <3>2, PlusType
    <3>6. ledger' = NoDelta
      BY <1>1, <2>5, <3>2, <3>3, <3>5 DEF Shutdown
    <3> QED
      BY <2>2, <2>3, <3>4, <3>6, IdlePart
  <2> QED
    BY <2>4, <2>5
<1>2. CASE Crash
  <2>1. Unused(eng', eng.cfg, << >>)
    BY <1>2, FreshEngine DEF Crash
  <2>2. Good(eng') /\ eng'.active = FALSE /\ eng'.out = << >>
    BY <1>0, <2>1, FreshGood DEF Unused
  <2>3. IdsGiven' /\ hit' \in Int /\ steady' \in BOOLEAN /\ ledger' = NoDelta
    BY <1>2 DEF Crash, IdsGiven, NoTime
  <2>4. InStream(eng')
    BY <2>2 DEF InStream
  <2> QED
    BY <2>2, <2>3, <2>4, IdlePart
<1>3. CASE Boot
  <2>1. PICK c \in Configs : eng' = Fresh(c)
    BY <1>3 DEF Boot
  <2>2. Unused(eng', c, << >>)
    BY <2>1, FreshEngine
  <2>3. Good(eng') /\ eng'.active = FALSE /\ eng'.out = << >>
    BY <2>2, FreshGood DEF Unused
  <2>4. eng.active = FALSE /\ started = {}
    BY <1>3 DEF Boot, DownIsIdle
  <2>5. IdsGiven' /\ hit' \in Int /\ steady' \in BOOLEAN
    BY <1>3, <2>4 DEF Boot, IdsGiven, EnginePart, Timely
  <2>6. ledger' = NoDelta
    BY <1>3, <2>4, LedgerType DEF Boot
  <2>7. InStream(eng')
    BY <2>3 DEF InStream
  <2> QED
    BY <2>3, <2>5, <2>6, <2>7, IdlePart
<1> QED
  BY <1>1, <1>2, <1>3
\* What an observation does to an engine does not depend on its last records.
LEMMA EffectMuted ==
    ASSUME NEW e, NEW m, Muted(m, e), NEW f, NEW o, NEW fs, Effect(f, m, o, fs)
    PROVE  Effect(f, e, o, fs)
<1>1. /\ m.active = e.active /\ m.serial = e.serial /\ m.event = e.event
      /\ m.facts = e.facts /\ m.delta = e.delta /\ m.absent = e.absent /\ m.cfg = e.cfg
  BY DEF Muted
<1>2. FreshId(m, o) = FreshId(e, o) /\ Met(m, f.latest, fs) = Met(e, f.latest, fs)
  BY <1>1 DEF FreshId, Met
<1>3. HasNew(f, m, o, fs) = HasNew(f, e, o, fs) /\ HasLost(f, m) = HasLost(f, e)
  BY <1>1, <1>2 DEF HasNew, HasLost
<1>4. NoRecord(f, m, o, fs) => NoRecord(f, e, o, fs)
  BY <1>1, <1>2 DEF NoRecord
<1>5. ASSUME NEW r
      PROVE  /\ StartRecord(f, m, o, fs, r) => StartRecord(f, e, o, fs, r)
             /\ UpdateRecord(f, m, o, fs, r) => UpdateRecord(f, e, o, fs, r)
             /\ LapseRecord(f, m, o, fs, r) => LapseRecord(f, e, o, fs, r)
             /\ ResetRecord(f, m, r) => ResetRecord(f, e, r)
  <2>1. StartRecord(f, m, o, fs, r) => StartRecord(f, e, o, fs, r)
    BY <1>1, <1>2, <1>3 DEF StartRecord
  <2>2. UpdateRecord(f, m, o, fs, r) => UpdateRecord(f, e, o, fs, r)
    BY <1>1, <1>2 DEF UpdateRecord
  <2>3. LapseRecord(f, m, o, fs, r) => LapseRecord(f, e, o, fs, r)
    BY <1>1, <1>2, <1>3 DEF LapseRecord
  <2>4. ResetRecord(f, m, r) => ResetRecord(f, e, r)
    BY <1>1, <1>3 DEF ResetRecord
  <2> QED
    BY <2>1, <2>2, <2>3, <2>4
<1>6. ASSUME NEW r, NEW q
      PROVE  BothRecords(f, m, o, fs, r, q) => BothRecords(f, e, o, fs, r, q)
  BY <1>1, <1>2, <1>3 DEF BothRecords
<1> QED
  BY <1>4, <1>5, <1>6 DEF Effect

\* The facts an observation adds to the event of the engine.
Added(f, fs) ==
    IF Starts(f) # {} THEN fs
    ELSE IF eng.active /\ f.active THEN fs \ facts ELSE {}

\* The step of me_event_engine_process with an observation it takes.
LEMMA ObserveShape ==
    ASSUME EnginePart, StreamTypes, NEW h \in Frames, NEW s \in Scenes[eng.cfg.rule],
           NEW o, o = Observation(h, s), Observe(o), NEW fs, fs = Matching(eng, o)
    PROVE  /\ Good(eng') /\ eng'.cfg = eng.cfg /\ eng'.order = Order(o)
           /\ IsObservation(o) /\ IsFiniteSet(fs) /\ Effect(eng', eng, o, fs)
           /\ started' = started \cup Starts(eng')
           /\ ledger' = Minus(Plus(ledger, Passages(Added(eng', fs))), Reported(eng'))
           /\ facts' = IF eng'.active THEN fs ELSE {}
           /\ hit' = IF ~eng'.active THEN NoTime
                     ELSE IF Met(eng, eng'.latest, fs) THEN Now(o) ELSE hit
           /\ steady' = \/ ~eng.active
                        \/ Met(eng, eng'.latest, fs)
                        \/ steady /\ Now(o) >= Now(eng.order)
<1>1. Good(eng) /\ eng.cfg \in Configs
  BY DEF EnginePart, Good, Sound
<1>2. IsObservation(o)
  BY <1>1, ObservationType
<1>3. IsFiniteSet(fs)
  BY <1>2, FS_EmptySet DEF Matching, IsObservation
<1>4. PICK a \in Admissions(Opened(eng, o), o) :
          LET e == Process(Silent(eng), o, a)
              ms == Matching(eng, o)
              met == IF eng.cfg.rule = "occupancy" THEN e.latest > 0
                                                   ELSE ms # {}
              new == IF Starts(e) # {} THEN ms
                     ELSE IF eng.active /\ e.active THEN ms \ facts ELSE {}
          IN  /\ eng' = e
              /\ started' = started \cup Starts(e)
              /\ ledger' = Minus(Plus(ledger, Passages(new)), Reported(e))
              /\ facts' = IF e.active THEN ms ELSE {}
              /\ hit' = IF ~e.active THEN NoTime
                         ELSE IF met THEN Now(o) ELSE hit
              /\ steady' = \/ ~eng.active
                           \/ met
                           \/ steady /\ Now(o) >= Now(eng.order)
  BY DEF Observe
<1>5. eng' = Process(Silent(eng), o, a)
  BY <1>4
<1>6. /\ started' = started \cup Starts(eng')
      /\ ledger' = Minus(Plus(ledger, Passages(Added(eng', fs))), Reported(eng'))
      /\ facts' = IF eng'.active THEN fs ELSE {}
  BY <1>4 DEF Added
<1>7. hit' = IF ~eng'.active THEN NoTime
             ELSE IF Met(eng, eng'.latest, fs) THEN Now(o) ELSE hit
  BY <1>4 DEF Met
<1>8. steady' = \/ ~eng.active
                \/ Met(eng, eng'.latest, fs)
                \/ steady /\ Now(o) >= Now(eng.order)
  BY <1>4 DEF Met
<1>9. PICK m : m = Silent(eng)
  OBVIOUS
<1>10. Good(m) /\ Muted(m, eng) /\ m.out = << >>
  BY <1>1, <1>9, SilentGood DEF Muted
<1>11. IsAccepted(m, o) /\ a \in Admissions(Open0(m, o), o)
  BY <1>1, <1>4, <1>9, SilentOpened DEF Observe
<1>12. PICK f : f = eng'
  OBVIOUS
<1>13. f = Process(m, o, a)
  BY <1>5, <1>9, <1>12
<1>14. /\ Good(f) /\ f.cfg = m.cfg /\ f.order = Order(o)
       /\ Effect(f, m, o, Matching(m, o))
  BY <1>2, <1>10, <1>11, <1>13, ProcessEffect
<1>15. m.cfg = eng.cfg /\ Matching(m, o) = fs
  BY <1>10 DEF Muted, Matching
<1>16. Effect(f, eng, o, fs)
  BY <1>10, <1>14, <1>15, EffectMuted
<1> QED
  BY <1>2, <1>3, <1>6, <1>7, <1>8, <1>12, <1>14, <1>15, <1>16
\* The new id of an event is not one of those given before.
LEMMA FreshIdNew ==
    ASSUME EnginePart, NEW o, IsLabel(o), eng.serial < MaxSerial
    PROVE  FreshId(eng, o) \in EventIds /\ FreshId(eng, o) \notin started
<1>1. eng.serial \in 0..MaxSerial /\ MaxSerial \in Nat
  BY EngineAssumption DEF EnginePart, Good, Sound
<1>2. eng.serial + 1 \in 1..MaxSerial
  BY <1>1
<1>3. FreshId(eng, o) \in EventIds
  BY <1>2 DEF FreshId, EventIds, IsLabel
<1>4. FreshId(eng, o).serial = eng.serial + 1
  BY DEF FreshId
<1>5. ASSUME FreshId(eng, o) \in started PROVE FALSE
  <2>1. FreshId(eng, o).serial <= eng.serial
    BY <1>5 DEF EnginePart, IdsGiven
  <2> QED
    BY <1>1, <1>4, <2>1
<1> QED
  BY <1>3, <1>5

\* Each case of me_event_engine_process keeps the histories right.
LEMMA ObserveInv ==
    ASSUME EnginePart, StreamTypes, NEW h \in Frames, NEW s \in Scenes[eng.cfg.rule],
           Observe(Observation(h, s))
    PROVE  EnginePart'
<1>1. PICK o, fs : o = Observation(h, s) /\ fs = Matching(eng, o)
  OBVIOUS
<1>2. /\ Good(eng') /\ eng'.cfg = eng.cfg /\ eng'.order = Order(o)
      /\ IsObservation(o) /\ IsFiniteSet(fs) /\ Effect(eng', eng, o, fs)
      /\ started' = started \cup Starts(eng')
      /\ ledger' = Minus(Plus(ledger, Passages(Added(eng', fs))), Reported(eng'))
      /\ facts' = IF eng'.active THEN fs ELSE {}
      /\ hit' = IF ~eng'.active THEN NoTime
                ELSE IF Met(eng, eng'.latest, fs) THEN Now(o) ELSE hit
      /\ steady' = \/ ~eng.active
                   \/ Met(eng, eng'.latest, fs)
                   \/ steady /\ Now(o) >= Now(eng.order)
  BY <1>1, ObserveShape
<1>3. IsLabel(o) /\ Now(o) \in Nat /\ Now(eng'.order) = Now(o)
  BY <1>2, NowType DEF IsObservation
<1>4. /\ Passages(fs) \in Deltas /\ Passages({}) = NoDelta /\ NoDelta \in Deltas
      /\ Passages(fs \ eng.facts) \in Deltas
  <2>1. IsFiniteSet(fs \ eng.facts)
    BY <1>2, FS_Subset
  <2> QED
    BY <1>2, <2>1, PassagesType, NoPassages, PlusType
<1>5. /\ ledger \in Deltas /\ eng.delta \in Deltas
      /\ eng.active => ledger = eng.delta /\ facts = eng.facts
      /\ ~eng.active => ledger = NoDelta
  BY LedgerType DEF EnginePart, FactsKept
<1>6. /\ eng.active \in BOOLEAN /\ eng'.active \in BOOLEAN
      /\ Now(eng.order) \in Int /\ eng.absent \in Int
  BY <1>2, OrderTime DEF EnginePart, Good, Sound
<1>7. /\ hit \in Int /\ steady \in BOOLEAN
      /\ eng.active /\ steady => /\ hit <= Now(eng.order)
                                 /\ eng.absent # NoTime => hit <= eng.absent
  BY DEF EnginePart, Timely
<1>8. hit' \in Int /\ steady' \in BOOLEAN
  <2>1. hit' \in Int
    BY <1>2, <1>3, <1>7 DEF NoTime
  <2>2. steady' \in BOOLEAN
    BY <1>2
  <2> QED
    BY <2>1, <2>2
<1>9. /\ started \subseteq EventIds
      /\ \A id \in started : id.serial <= eng.serial
      /\ eng.serial \in Nat
  BY EngineAssumption DEF EnginePart, IdsGiven, Good, Sound
<1>10. ASSUME eng'.serial = eng.serial, Starts(eng') = {}
       PROVE  IdsGiven'
  BY <1>2, <1>9, <1>10 DEF IdsGiven
<1>11. ASSUME HasNew(eng', eng, o, fs), Starts(eng') = {FreshId(eng, o)}
       PROVE  IdsGiven' /\ FactsKept' /\ Timely'
  <2>1. FreshId(eng, o) \in EventIds /\ FreshId(eng, o).serial = eng.serial + 1
    BY <1>3, <1>11, FreshIdNew DEF HasNew, FreshId
  <2>2. IdsGiven'
    <3>1. eng'.serial = eng.serial + 1
      BY <1>11 DEF HasNew
    <3>2. \A id \in started : id.serial \in Int
      BY <1>9, EngineAssumption DEF EventIds
    <3>3. ASSUME NEW id \in started' PROVE id.serial <= eng'.serial
      BY <1>2, <1>9, <1>11, <2>1, <3>1, <3>2
    <3> QED
      BY <1>2, <1>9, <1>11, <2>1, <3>3 DEF IdsGiven
  <2>3. FactsKept'
    BY <1>2, <1>11 DEF FactsKept, HasNew
  <2>4. hit' = Now(o) /\ eng'.absent = NoTime
    BY <1>2, <1>11 DEF HasNew
  <2>5. Timely'
    BY <1>3, <1>8, <2>4 DEF Timely
  <2> QED
    BY <2>2, <2>3, <2>5
<1>12. CASE NoRecord(eng', eng, o, fs)
  <2>1. Reported(eng') = NoDelta /\ Starts(eng') = {}
    BY <1>12, ReportedNone DEF NoRecord
  <2>2. IdsGiven'
    BY <1>10, <1>12, <2>1 DEF NoRecord
  <2>3. FactsKept'
    BY <1>2, <1>12 DEF FactsKept, NoRecord
  <2>4. OneStream'
    BY <1>12 DEF NoRecord, OneStream
  <2>5. PassagesConserved'
    <3>1. CASE eng.active
      <4>1. eng'.active /\ eng'.delta = Plus(eng.delta, Passages(fs \ eng.facts))
        BY <1>12, <3>1 DEF NoRecord
      <4>2. Added(eng', fs) = fs \ eng.facts
        BY <1>5, <2>1, <3>1, <4>1 DEF Added
      <4>3. Minus(eng'.delta, NoDelta) = eng'.delta
        BY <1>4, <1>5, <4>1, PlusType
      <4>4. ledger' = eng'.delta
        BY <1>2, <1>5, <2>1, <3>1, <4>1, <4>2, <4>3
      <4> QED
        BY <4>1, <4>4 DEF PassagesConserved
    <3>2. CASE ~eng.active
      <4>1. ~eng'.active /\ Added(eng', fs) = {}
        BY <1>12, <2>1, <3>2 DEF NoRecord, Added
      <4>2. ledger' = Minus(Plus(NoDelta, NoDelta), NoDelta)
        BY <1>2, <1>4, <1>5, <2>1, <3>2, <4>1
      <4>3. ledger' = NoDelta
        BY <4>2 DEF Minus, Plus, NoDelta
      <4> QED
        BY <4>1, <4>3 DEF PassagesConserved
    <3> QED
      BY <3>1, <3>2
  <2>6. Timely'
    <3>1. ASSUME eng'.active, steady'
          PROVE  hit' <= Now(o) /\ (eng'.absent # NoTime => hit' <= eng'.absent)
      <4>1. eng.active
        BY <1>12, <3>1 DEF NoRecord
      <4>2. CASE Met(eng, eng'.latest, fs)
        <5>1. hit' = Now(o) /\ eng'.absent = NoTime
          BY <1>2, <1>12, <3>1, <4>1, <4>2 DEF NoRecord
        <5> QED
          BY <1>3, <5>1
      <4>3. CASE ~Met(eng, eng'.latest, fs)
        <5>1. hit' = hit /\ steady /\ Now(o) >= Now(eng.order)
          BY <1>2, <3>1, <4>1, <4>3
        <5>2. eng'.absent = IF eng.absent = NoTime THEN Now(o) ELSE eng.absent
          BY <1>12, <4>1, <4>3 DEF NoRecord
        <5>3. hit <= Now(eng.order) /\ (eng.absent # NoTime => hit <= eng.absent)
          BY <1>7, <4>1, <5>1
        <5>4. hit <= Now(o)
          BY <1>3, <1>6, <1>7, <5>1, <5>3
        <5> QED
          BY <5>1, <5>2, <5>3, <5>4
      <4> QED
        BY <4>2, <4>3
    <3> QED
      BY <1>3, <1>8, <3>1 DEF Timely
  <2> QED
    BY <1>2, <2>2, <2>3, <2>4, <2>5, <2>6 DEF EnginePart
<1>13. ASSUME NEW r, StartRecord(eng', eng, o, fs, r) PROVE EnginePart'
  <2>1. /\ eng'.out = <<r>> /\ r.delta = Passages(fs) /\ r.phase = "START"
        /\ r.id = FreshId(eng, o) /\ ~eng.active /\ HasNew(eng', eng, o, fs)
        /\ Of(r, FreshId(eng, o), "START", 1, Passages(fs))
    BY <1>13 DEF StartRecord, Of
  <2>2. Reported(eng') = Passages(fs) /\ Starts(eng') = {FreshId(eng, o)}
    BY <1>4, <2>1, ReportedOne
  <2>3. IdsGiven' /\ FactsKept' /\ Timely'
    BY <1>11, <2>1, <2>2
  <2>4. InStream(eng')
    BY <2>1, RecordsInStream
  <2>5. Added(eng', fs) = fs
    BY <2>2 DEF Added
  <2>6. ledger' = Minus(Plus(NoDelta, Passages(fs)), Passages(fs))
    BY <1>2, <1>5, <2>1, <2>2, <2>5
  <2>7. ledger' = NoDelta
    BY <1>4, <2>6, PlusType
  <2>8. PassagesConserved'
    BY <2>1, <2>7 DEF HasNew, PassagesConserved
  <2>9. OneStream'
    BY <2>4 DEF InStream, OneStream
  <2> QED
    BY <1>2, <2>3, <2>8, <2>9 DEF EnginePart
<1>14. ASSUME NEW r, UpdateRecord(eng', eng, o, fs, r) PROVE EnginePart'
  <2>1. /\ eng'.out = <<r>> /\ r.delta = Plus(eng.delta, Passages(fs \ eng.facts))
        /\ r.phase = "UPDATE" /\ eng.active /\ eng'.active /\ eng'.serial = eng.serial
        /\ eng'.facts = fs /\ eng'.delta = NoDelta /\ eng'.absent = NoTime
        /\ Met(eng, eng'.latest, fs)
        /\ Of(r, eng.event.id, "UPDATE", eng.event.seq + 1, r.delta)
    BY <1>14 DEF UpdateRecord, Of
  <2>2. r.delta \in Deltas
    BY <1>4, <1>5, <2>1, PlusType
  <2>3. Reported(eng') = r.delta /\ Starts(eng') = {}
    BY <2>1, <2>2, ReportedOne
  <2>4. IdsGiven' /\ FactsKept'
    BY <1>2, <1>10, <2>1, <2>3 DEF FactsKept
  <2>5. Timely'
    <3>1. hit' = Now(o)
      BY <1>2, <2>1
    <3> QED
      BY <1>3, <1>8, <2>1, <3>1 DEF Timely
  <2>6. InStream(eng')
    BY <2>1, RecordsInStream
  <2>7. Added(eng', fs) = fs \ eng.facts
    BY <1>5, <2>1, <2>3 DEF Added
  <2>8. ledger' = Minus(r.delta, r.delta)
    BY <1>2, <1>5, <2>1, <2>3, <2>7
  <2>9. ledger' = NoDelta
    BY <2>2, <2>8, PlusType
  <2>10. PassagesConserved' /\ OneStream'
    BY <2>1, <2>6, <2>9 DEF PassagesConserved, InStream, OneStream
  <2> QED
    BY <1>2, <2>4, <2>5, <2>10 DEF EnginePart
<1>15. ASSUME NEW r, LapseRecord(eng', eng, o, fs, r) \/ ResetRecord(eng', eng, r)
       PROVE  EnginePart'
  <2>1. /\ eng'.out = <<r>> /\ r.delta = eng.delta /\ r.phase = "END" /\ eng.active
        /\ ~eng'.active /\ eng'.serial = eng.serial
        /\ Of(r, eng.event.id, "END", eng.event.seq + 1, eng.delta)
    BY <1>15 DEF LapseRecord, ResetRecord, HasLost, Of
  <2>2. Reported(eng') = eng.delta /\ Starts(eng') = {}
    BY <1>5, <2>1, ReportedOne
  <2>3. IdsGiven'
    BY <1>10, <2>1, <2>2
  <2>4. InStream(eng')
    BY <2>1, RecordsInStream
  <2>5. Added(eng', fs) = {}
    BY <2>1, <2>2 DEF Added
  <2>6. ledger' = Minus(Plus(eng.delta, NoDelta), eng.delta)
    BY <1>2, <1>4, <1>5, <2>1, <2>2, <2>5
  <2>7. ledger' = NoDelta
    BY <1>5, <2>6, PlusType
  <2>8. eng'.active = FALSE
    BY <1>6, <2>1
  <2> QED
    BY <1>2, <1>8, <2>3, <2>4, <2>7, <2>8, IdlePart
<1>16. ASSUME NEW r, NEW q, BothRecords(eng', eng, o, fs, r, q) PROVE EnginePart'
  <2>1. /\ eng'.out = <<r, q>> /\ r.delta = eng.delta /\ q.delta = Passages(fs)
        /\ r.phase = "END" /\ q.phase = "START" /\ q.id = FreshId(eng, o)
        /\ eng.active /\ HasNew(eng', eng, o, fs)
        /\ Of(r, eng.event.id, "END", eng.event.seq + 1, eng.delta)
        /\ Of(q, FreshId(eng, o), "START", 1, Passages(fs))
    BY <1>16 DEF BothRecords, Of
  <2>2. Reported(eng') = Plus(eng.delta, Passages(fs)) /\ Starts(eng') = {FreshId(eng, o)}
    BY <1>4, <1>5, <2>1, ReportedTwo
  <2>3. IdsGiven' /\ FactsKept' /\ Timely'
    BY <1>11, <2>1, <2>2
  <2>4. InStream(eng')
    BY <2>1, RecordsInStream
  <2>5. Added(eng', fs) = fs
    BY <2>2 DEF Added
  <2>6. ledger' = Minus(Plus(eng.delta, Passages(fs)), Plus(eng.delta, Passages(fs)))
    BY <1>2, <1>5, <2>1, <2>2, <2>5
  <2>7. ledger' = NoDelta
    BY <1>4, <1>5, <2>6, PlusType
  <2>8. PassagesConserved'
    BY <2>1, <2>7 DEF HasNew, PassagesConserved
  <2>9. OneStream'
    BY <2>4 DEF InStream, OneStream
  <2> QED
    BY <1>2, <2>3, <2>8, <2>9 DEF EnginePart
<1> QED
  BY <1>2, <1>12, <1>13, <1>14, <1>15, <1>16 DEF Effect
-----------------------------------------------------------------------------
(* The invariants *)

\* Every step of the engine keeps the invariant.
LEMMA NextEngineInv ==
    ASSUME EngineInv, [Next]_vars
    PROVE  EngineInv'
<1>1. EnginePart /\ StreamTypes /\ DownIsIdle /\ up \in BOOLEAN
  BY DEF EngineInv
<1>2. CASE UNCHANGED vars
  BY <1>1, <1>2 DEF vars, EngineInv, EnginePart, StreamTypes, DownIsIdle, IdsGiven, FactsKept,
                    PassagesConserved, OneStream, Timely
<1>3. CASE Next
  <2>1. StreamTypes'
    BY <1>3, StreamsInv
  <2>2. ASSUME NEW h \in Frames, Drop(h) PROVE EnginePart' /\ up' \in BOOLEAN /\ DownIsIdle'
    <3>1. Step(Silent(eng)) /\ up /\ up' = up
      BY <2>2 DEF Drop
    <3> QED
      BY <1>1, <3>1, SilentStep DEF DownIsIdle
  <2>3. ASSUME NEW h \in Frames, NEW s \in Scenes[eng.cfg.rule], Observe(Observation(h, s))
        PROVE  EnginePart' /\ up' \in BOOLEAN /\ DownIsIdle'
    <3>1. up /\ up' = up
      BY <2>3 DEF Observe
    <3> QED
      BY <1>1, <2>3, <3>1, ObserveInv DEF DownIsIdle
  <2>4. ASSUME NEW c \in Configs, NEW v \in 1..MaxVersion, Reconfigure(c, v)
        PROVE  EnginePart' /\ up' \in BOOLEAN /\ DownIsIdle'
    <3>1. up /\ up' = up
      BY <2>4 DEF Reconfigure
    <3> QED
      BY <1>1, <2>4, <3>1, ReconfigureInv DEF DownIsIdle
  <2>5. CASE Shutdown
    <3>1. EnginePart' /\ Unused(eng', eng.cfg, eng'.out)
      BY <1>1, <2>5, LifeInv, ShutdownShape
    <3>2. up' = FALSE /\ started' = {}
      BY <2>5 DEF Shutdown
    <3> QED
      BY <2>1, <1>1, <3>1, <3>2 DEF Unused, DownIsIdle, EngineInv
  <2>6. CASE Crash
    <3>1. EnginePart' /\ Unused(eng', eng.cfg, << >>)
      BY <1>1, <2>6, LifeInv, FreshEngine DEF Crash
    <3>2. up' = FALSE /\ started' = {}
      BY <2>6 DEF Crash
    <3> QED
      BY <2>1, <1>1, <3>1, <3>2 DEF Unused, DownIsIdle, EngineInv
  <2>7. CASE Boot
    <3>1. EnginePart' /\ up' = TRUE
      BY <1>1, <2>7, LifeInv DEF Boot
    <3> QED
      BY <2>1, <3>1 DEF DownIsIdle, EngineInv
  <2>8. CASE SetStream
    <3>1. Step(Silent(eng)) /\ up /\ up' = up
      BY <2>8 DEF SetStream
    <3> QED
      BY <1>1, <2>1, <3>1, SilentStep DEF DownIsIdle, EngineInv
  <2> QED
    BY <1>3, <2>1, <2>2, <2>3, <2>4, <2>5, <2>6, <2>7, <2>8 DEF Next, EngineInv
<1> QED
  BY <1>2, <1>3

\* The inductive invariant, from which the others follow.
THEOREM EngineInvariant == Spec => []EngineInv
<1>1. Init => EngineInv
  BY InitEngineInv
<1>2. EngineInv /\ [Next]_vars => EngineInv'
  BY NextEngineInv
<1> QED
  BY <1>1, <1>2, PTL DEF Spec

\* The numbers of the engine stay in their types and its tables within their
\* bounds: event_seq, next_event_serial and config_version do not wrap, and
\* the track table is never overfilled, for every number of slots.
THEOREM EngineTypes == Spec => []TypeOK
<1>1. EngineInv => TypeOK
  <2>1. SUFFICES ASSUME EngineInv PROVE TypeOK
    OBVIOUS
  <2>2. Good(eng) /\ Sound(eng) /\ StreamTypes /\ up \in BOOLEAN
    BY <2>1 DEF EngineInv, EnginePart, Good
  <2>3. eng.active \in BOOLEAN /\ MaxSeq \in Nat
    BY <2>2, EngineAssumption DEF Sound
  <2>4. eng.event.seq \in 0..MaxSeq /\ (eng.active <=> eng.event # NoEvent)
    <3>1. CASE eng.active
      <4>1. eng.event.seq \in 1..MaxSeq
        BY <2>2, <3>1 DEF Sound, Open
      <4>2. NoEvent.seq = 0
        BY DEF NoEvent
      <4> QED
        BY <2>3, <3>1, <4>1, <4>2
    <3>2. CASE ~eng.active
      <4>1. eng.event = NoEvent
        BY <2>2, <3>2 DEF Sound
      <4> QED
        BY <2>3, <3>2, <4>1 DEF NoEvent
    <3> QED
      BY <3>1, <3>2
  <2>5. eng.order \in Orders
    BY <2>2 DEF Sound
  <2>6. Stream \in 1..MaxEpoch /\ captured \in 0..MaxFrame
    BY <2>2 DEF StreamTypes, Stream
  <2>7. /\ eng.serial \in 0..MaxSerial /\ eng.version \in 1..MaxVersion
        /\ DOMAIN eng.tracks \subseteq TrackIds
        /\ Cardinality(DOMAIN eng.tracks) <= MaxTracks
    BY <2>2 DEF Sound
  <2> QED
    BY <2>2, <2>4, <2>5, <2>6, <2>7 DEF TypeOK, Orders
<1> QED
  BY <1>1, EngineInvariant, PTL

\* No event survives a change of the stream: every record carries the channel
\* and the epoch in which its event was started.
THEOREM EveryEventInOneStream == Spec => []OneStream
<1>1. EngineInv => OneStream
  BY DEF EngineInv, EnginePart
<1> QED
  BY <1>1, EngineInvariant, PTL

\* Every passage counted for the open event is reported once, by its START, an
\* UPDATE or its END, however updates are delayed and events are closed.
THEOREM EveryPassageReported == Spec => []PassagesConserved
<1>1. EngineInv => PassagesConserved
  BY DEF EngineInv, EnginePart
<1> QED
  BY <1>1, EngineInvariant, PTL

\* While somebody is present and no update is due, the count reported last is
\* the count of the last observation.
THEOREM LastCountReported == Spec => []CountReported
<1>1. EngineInv => CountReported
  <2>1. SUFFICES ASSUME EngineInv, eng.active, eng.cfg.rule = "occupancy", ~eng.update,
                        eng.latest > 0
                 PROVE  eng.event.count = eng.latest
    BY DEF CountReported
  <2>2. Open(eng) /\ Counted(eng)
    BY <2>1 DEF EngineInv, EnginePart, Good, Sound
  <2> QED
    BY <2>1, <2>2 DEF Open, Counted
<1> QED
  BY <1>1, EngineInvariant, PTL
-----------------------------------------------------------------------------
(* The grace period *)

\* What GraceKept says of one step.
GraceStep ==
    \A i \in DOMAIN eng'.out :
       eng'.out[i].reason = "disappeared" /\ steady' =>
           Now(eng'.order) - hit >= eng.cfg.grace

\* me_event_engine_process ends an event for its absence only after the grace
\* period: the absence has begun behind the last observation that met the rule.
LEMMA ObserveGrace ==
    ASSUME EnginePart, StreamTypes, NEW h \in Frames, NEW s \in Scenes[eng.cfg.rule],
           Observe(Observation(h, s))
    PROVE  GraceStep
<1>1. PICK o, fs : o = Observation(h, s) /\ fs = Matching(eng, o)
  OBVIOUS
<1>2. /\ eng'.order = Order(o) /\ IsObservation(o) /\ Effect(eng', eng, o, fs)
      /\ steady' = \/ ~eng.active
                   \/ Met(eng, eng'.latest, fs)
                   \/ steady /\ Now(o) >= Now(eng.order)
  BY <1>1, ObserveShape
<1>3. Now(o) \in Nat /\ Now(eng'.order) = Now(o)
  BY <1>2, NowType DEF IsObservation
<1>4. Now(eng.order) \in Int /\ eng.absent \in Int /\ eng.cfg.grace \in Nat /\ hit \in Int
  <2>1. eng.cfg \in Configs
    BY DEF EnginePart, Good, Sound
  <2>2. eng.cfg.grace \in Nat
    BY <2>1, EngineAssumption
  <2> QED
    BY <2>2, OrderTime DEF EnginePart, Good, Sound, Timely
<1>5. CASE NoRecord(eng', eng, o, fs)
  BY <1>5 DEF NoRecord, GraceStep
<1>6. ASSUME NEW r, \/ StartRecord(eng', eng, o, fs, r)
                    \/ UpdateRecord(eng', eng, o, fs, r)
                    \/ ResetRecord(eng', eng, r)
      PROVE  GraceStep
  <2>1. eng'.out = <<r>> /\ r.reason # "disappeared"
    BY <1>6 DEF StartRecord, UpdateRecord, ResetRecord
  <2> QED
    BY <2>1 DEF GraceStep
<1>7. ASSUME NEW r, LapseRecord(eng', eng, o, fs, r) PROVE GraceStep
  <2>1. SUFFICES ASSUME steady' PROVE Now(o) - hit >= eng.cfg.grace
    BY <1>3 DEF GraceStep
  <2>2. eng.active /\ steady /\ Now(o) >= Now(eng.order)
    BY <1>2, <1>7, <2>1 DEF LapseRecord, HasLost
  <2>3. hit <= Now(eng.order) /\ (eng.absent # NoTime => hit <= eng.absent)
    BY <2>2 DEF EnginePart, Timely
  <2>4. \/ eng.cfg.grace = 0
        \/ Elapsed(Now(o), IF eng.absent = NoTime THEN Now(o) ELSE eng.absent, eng.cfg.grace)
    BY <1>7 DEF LapseRecord
  <2>5. hit <= Now(o)
    BY <1>3, <1>4, <2>2, <2>3
  <2>6. CASE eng.cfg.grace = 0
    BY <1>3, <1>4, <2>5, <2>6
  <2>7. CASE Elapsed(Now(o), IF eng.absent = NoTime THEN Now(o) ELSE eng.absent, eng.cfg.grace)
    <3>1. CASE eng.absent = NoTime
      BY <1>3, <1>4, <2>5, <2>7, <3>1 DEF Elapsed
    <3>2. CASE eng.absent # NoTime
      BY <1>3, <1>4, <2>3, <2>7, <3>2 DEF Elapsed
    <3> QED
      BY <3>1, <3>2
  <2> QED
    BY <2>4, <2>6, <2>7
<1>8. ASSUME NEW r, NEW q, BothRecords(eng', eng, o, fs, r, q) PROVE GraceStep
  <2>1. eng'.out = <<r, q>> /\ r.reason # "disappeared" /\ q.reason # "disappeared"
    BY <1>8 DEF BothRecords
  <2> QED
    BY <2>1 DEF GraceStep
<1> QED
  BY <1>2, <1>5, <1>6, <1>7, <1>8 DEF Effect

\* No other call ends an event for its absence.
LEMMA NextGrace ==
    ASSUME EngineInv, Next
    PROVE  GraceStep
<1>1. EnginePart /\ StreamTypes /\ DownIsIdle /\ Good(eng)
  BY DEF EngineInv, EnginePart
<1>2. ASSUME eng'.out = << >> PROVE GraceStep
  BY <1>2 DEF GraceStep
<1>3. ASSUME NEW r, eng'.out = <<r>>, r.reason # "disappeared" PROVE GraceStep
  BY <1>3 DEF GraceStep
<1>4. ASSUME NEW h \in Frames, Drop(h) PROVE GraceStep
  BY <1>1, <1>2, <1>4, SilentStep DEF Drop, Muted
<1>5. ASSUME NEW h \in Frames, NEW s \in Scenes[eng.cfg.rule], Observe(Observation(h, s))
      PROVE  GraceStep
  BY <1>1, <1>5, ObserveGrace
<1>6. ASSUME NEW c \in Configs, NEW v \in 1..MaxVersion, Reconfigure(c, v) PROVE GraceStep
  <2>1. PICK p, reason :
            /\ p = ClearRuntime(EndActive(Silent(eng), reason))
            /\ reason # "disappeared"
            /\ Cleared(p, eng)
            /\ Step([p EXCEPT !.cfg = c, !.version = v])
            /\ eng.active => eng.event.seq < MaxSeq
    BY <1>1, <1>6, ReconfigureShape
  <2>2. /\ ~eng.active => p.out = << >>
        /\ eng.active => \E r : /\ p.out = <<r>> /\ r.reason = reason
                                /\ Of(r, eng.event.id, "END", eng.event.seq + 1, eng.delta)
    BY <1>1, <2>1, CloseRecord
  <2>3. eng'.out = p.out
    BY <2>1 DEF Step, Cleared, Fields
  <2> QED
    BY <1>2, <1>3, <2>1, <2>2, <2>3
<1>7. CASE Shutdown
  <2>1. /\ ~eng.active \/ Exhausted(eng) => eng'.out = << >>
        /\ eng.active /\ ~Exhausted(eng) =>
              \E r : /\ eng'.out = <<r>> /\ r.reason = "process_restart"
                     /\ Of(r, eng.event.id, "END", eng.event.seq + 1, eng.delta)
    BY <1>1, <1>7, ShutdownShape
  <2> QED
    BY <1>2, <1>3, <2>1
<1>8. CASE Crash
  <2>1. Unused(eng', eng.cfg, << >>)
    BY <1>8, FreshEngine DEF Crash
  <2> QED
    BY <1>2, <2>1 DEF Unused
<1>9. CASE Boot
  <2>1. PICK c \in Configs : eng' = Fresh(c)
    BY <1>9 DEF Boot
  <2>2. Unused(eng', c, << >>)
    BY <2>1, FreshEngine
  <2> QED
    BY <1>2, <2>2 DEF Unused
<1>10. CASE SetStream
  BY <1>1, <1>2, <1>10, SilentStep DEF SetStream, Muted
<1> QED
  BY <1>4, <1>5, <1>6, <1>7, <1>8, <1>9, <1>10 DEF Next

\* An event ends with reason disappeared only when, on a time line that did
\* not run backwards, its rule had not been met for the whole grace period.
THEOREM EngineKeepsGrace == Spec => GraceKept
<1>1. EngineInv /\ [Next]_vars => [GraceStep]_vars
  BY NextGrace
<1>2. [GraceStep]_vars =>
          [ \A i \in DOMAIN eng'.out :
               eng'.out[i].reason = "disappeared" /\ steady' =>
                   Now(eng'.order) - hit >= eng.cfg.grace ]_vars
  BY DEF GraceStep
<1> QED
  BY <1>1, <1>2, EngineInvariant, PTL DEF Spec, GraceKept
-----------------------------------------------------------------------------
(* The engine implements EventLifecycle *)

\* What EventLifecycle sees of a record, and of the records of a step.
Seen1(r) == [id |-> r.id, phase |-> r.phase, seq |-> r.seq]
OutOf(e) == [i \in DOMAIN e.out |->
               [id |-> e.out[i].id, phase |-> e.out[i].phase, seq |-> e.out[i].seq]]

\* The records of a step, one by one.
LEMMA OutSeen ==
    ASSUME NEW e
    PROVE  /\ e.out = << >> => OutOf(e) = << >>
           /\ \A r : e.out = <<r>> => OutOf(e) = <<Seen1(r)>>
           /\ \A r, q : e.out = <<r, q>> => OutOf(e) = <<Seen1(r), Seen1(q)>>
<1>1. ASSUME e.out = << >> PROVE OutOf(e) = << >>
  BY <1>1 DEF OutOf
<1>2. ASSUME NEW r, e.out = <<r>> PROVE OutOf(e) = <<Seen1(r)>>
  <2>1. DOMAIN e.out = {1} /\ e.out[1] = r
    BY <1>2
  <2>2. PICK x, y : x = OutOf(e) /\ y = <<Seen1(r)>>
    OBVIOUS
  <2>3. x = [i \in 1..1 |-> Seen1(r)]
    BY <2>1, <2>2 DEF OutOf, Seen1
  <2>4. x \in Seq({Seen1(r)}) /\ Len(x) = 1 /\ x[1] = Seen1(r)
    BY <2>3
  <2>5. y \in Seq({Seen1(r)}) /\ Len(y) = 1 /\ y[1] = Seen1(r)
    BY <2>2
  <2>6. \A i \in 1..Len(x) : x[i] = y[i]
    BY <2>4, <2>5
  <2>7. x = y
    BY <2>4, <2>5, <2>6, SeqEqual
  <2> QED
    BY <2>2, <2>7
<1>3. ASSUME NEW r, NEW q, e.out = <<r, q>> PROVE OutOf(e) = <<Seen1(r), Seen1(q)>>
  <2>1. DOMAIN e.out = 1..2 /\ e.out[1] = r /\ e.out[2] = q
    BY <1>3
  <2>2. PICK x, y, a, b : /\ x = OutOf(e) /\ y = <<a, b>>
                          /\ a = Seen1(r) /\ b = Seen1(q)
    OBVIOUS
  <2>3. /\ x = [i \in 1..2 |-> x[i]] /\ x[1] = a /\ x[2] = b
    BY <2>1, <2>2 DEF OutOf, Seen1
  <2>4. x \in Seq({a, b}) /\ Len(x) = 2
    BY <2>3
  <2>5. y \in Seq({a, b}) /\ Len(y) = 2 /\ y[1] = a /\ y[2] = b
    BY <2>2
  <2>6. \A i \in 1..Len(x) : x[i] = y[i]
    BY <2>3, <2>4, <2>5
  <2>7. x = y
    BY <2>4, <2>5, <2>6, SeqEqual
  <2> QED
    BY <2>2, <2>7
<1> QED
  BY <1>1, <1>2, <1>3
\* The event of the engine is the open event of the abstract state.
LEMMA OpenEvent ==
    ASSUME Good(eng)
    PROVE  /\ eng.active => eng.event.id \in EventIds /\ eng.event.id # << >>
           /\ ~eng.active => eng.event.id = << >> /\ eng.event.seq = 0
<1>1. ASSUME eng.active PROVE eng.event.id \in EventIds /\ eng.event.id # << >>
  <2>1. eng.event.id \in EventIds
    BY <1>1 DEF Good, Sound, Open
  <2>2. DOMAIN eng.event.id = {"channel", "epoch", "serial"}
    BY <2>1 DEF EventIds
  <2> QED
    BY <2>1, <2>2
<1>2. ASSUME ~eng.active PROVE eng.event.id = << >> /\ eng.event.seq = 0
  BY <1>2 DEF Good, Sound, NoEvent
<1> QED
  BY <1>1, <1>2

\* Nothing happens to the event.
LEMMA QuietRefines ==
    ASSUME eng'.out = << >>, eng'.event.id = eng.event.id, eng'.event.seq = eng.event.seq,
           started' = started, up' = up
    PROVE  L!Quiet
<1>1. OutOf(eng') = << >>
  BY OutSeen
<1> QED
  BY <1>1 DEF L!Quiet, OutOf

\* The event is closed by one record.
LEMMA FinishRefines ==
    ASSUME Good(eng), eng.active, eng.event.seq < MaxSeq, eng'.event = NoEvent, NEW r, NEW d,
           eng'.out = <<r>>, Of(r, eng.event.id, "END", eng.event.seq + 1, d),
           started' = started, up' = up
    PROVE  L!Finish
<1>1. OutOf(eng') = <<Seen1(r)>>
  BY OutSeen
<1>2. OutOf(eng') = <<[id |-> eng.event.id, phase |-> "END", seq |-> eng.event.seq + 1]>>
  BY <1>1 DEF Seen1, Of
<1>3. eng.event.id # << >>
  BY OpenEvent
<1>4. eng'.event.id = << >> /\ eng'.event.seq = 0
  BY DEF NoEvent
<1> QED
  BY <1>2, <1>3, <1>4 DEF L!Finish, L!Rec, OutOf

\* Each case of me_event_engine_process is a step of the abstract engine.
LEMMA ObserveRefines ==
    ASSUME EnginePart, StreamTypes, NEW h \in Frames, NEW s \in Scenes[eng.cfg.rule],
           Observe(Observation(h, s))
    PROVE  L!Next
<1>1. PICK o, fs : o = Observation(h, s) /\ fs = Matching(eng, o)
  OBVIOUS
<1>2. /\ IsObservation(o) /\ IsFiniteSet(fs) /\ Effect(eng', eng, o, fs)
      /\ started' = started \cup Starts(eng')
  BY <1>1, ObserveShape
<1>3. Good(eng) /\ IsLabel(o) /\ up /\ up' = up
  BY <1>1, <1>2 DEF EnginePart, IsObservation, Observe
<1>4. Passages(fs) \in Deltas /\ eng.delta \in Deltas /\ Passages(fs \ eng.facts) \in Deltas
  <2>1. IsFiniteSet(fs \ eng.facts)
    BY <1>2, FS_Subset
  <2> QED
    BY <1>2, <2>1, PassagesType, LedgerType
<1>5. ASSUME HasNew(eng', eng, o, fs)
      PROVE  /\ FreshId(eng, o) \in EventIds \ started
             /\ eng'.event.id = FreshId(eng, o) /\ eng'.event.seq = 1
  BY <1>3, <1>5, FreshIdNew DEF HasNew
<1>6. CASE NoRecord(eng', eng, o, fs)
  <2>1. Starts(eng') = {}
    BY <1>6, ReportedNone DEF NoRecord
  <2>2. started' = started
    BY <1>2, <2>1
  <2>3. L!Quiet
    BY <1>3, <1>6, <2>2, QuietRefines DEF NoRecord
  <2> QED
    BY <2>3 DEF L!Next
<1>7. ASSUME NEW r, StartRecord(eng', eng, o, fs, r) PROVE L!Next
  <2>1. /\ eng'.out = <<r>> /\ r.delta = Passages(fs) /\ r.phase = "START" /\ r.seq = 1
        /\ r.id = FreshId(eng, o) /\ ~eng.active /\ HasNew(eng', eng, o, fs)
    BY <1>7 DEF StartRecord, Of
  <2>2. Starts(eng') = {FreshId(eng, o)}
    BY <1>4, <2>1, ReportedOne
  <2>3. OutOf(eng') = <<Seen1(r)>>
    BY <2>1, OutSeen
  <2>4. PICK id : id = FreshId(eng, o)
    OBVIOUS
  <2>5. OutOf(eng') = <<[id |-> id, phase |-> "START", seq |-> 1]>>
    BY <2>1, <2>3, <2>4 DEF Seen1
  <2>6. /\ id \in EventIds \ started /\ started' = started \cup {id}
        /\ eng'.event.id = id /\ eng'.event.seq = 1
    BY <1>2, <1>5, <2>1, <2>2, <2>4
  <2>7. eng.event.id = << >> /\ eng.event.seq = 0
    BY <1>3, <2>1, OpenEvent
  <2>8. L!Begin
    BY <1>3, <2>5, <2>6, <2>7 DEF L!Begin, L!Closed, L!Rec, OutOf, EventIds, Channels
  <2> QED
    BY <2>8 DEF L!Next
<1>8. ASSUME NEW r, UpdateRecord(eng', eng, o, fs, r) PROVE L!Next
  <2>1. /\ eng'.out = <<r>> /\ r.delta = Plus(eng.delta, Passages(fs \ eng.facts))
        /\ r.phase = "UPDATE" /\ r.seq = eng.event.seq + 1 /\ r.id = eng.event.id
        /\ eng.active /\ eng.event.seq < MaxSeq
        /\ eng'.event.id = eng.event.id /\ eng'.event.seq = eng.event.seq + 1
    BY <1>8 DEF UpdateRecord, Of
  <2>2. r.delta \in Deltas
    BY <1>4, <2>1, PlusType
  <2>3. Starts(eng') = {}
    BY <2>1, <2>2, ReportedOne
  <2>4. OutOf(eng') = <<Seen1(r)>>
    BY <2>1, OutSeen
  <2>5. OutOf(eng') = <<[id |-> eng.event.id, phase |-> "UPDATE", seq |-> eng.event.seq + 1]>>
    BY <2>1, <2>4 DEF Seen1
  <2>6. eng.event.id # << >> /\ started' = started
    BY <1>2, <1>3, <2>1, <2>3, OpenEvent
  <2>7. L!Update
    BY <1>3, <2>1, <2>5, <2>6 DEF L!Update, L!Rec, OutOf
  <2> QED
    BY <2>7 DEF L!Next
<1>9. ASSUME NEW r, LapseRecord(eng', eng, o, fs, r) \/ ResetRecord(eng', eng, r) PROVE L!Next
  <2>1. /\ eng'.out = <<r>> /\ r.delta = eng.delta /\ r.phase = "END" /\ eng.active
        /\ eng.event.seq < MaxSeq /\ eng'.event = NoEvent
        /\ Of(r, eng.event.id, "END", eng.event.seq + 1, eng.delta)
    BY <1>9 DEF LapseRecord, ResetRecord, HasLost, Of
  <2>2. Starts(eng') = {}
    BY <1>4, <2>1, ReportedOne
  <2>3. started' = started
    BY <1>2, <2>2
  <2>4. L!Finish
    BY <1>3, <2>1, <2>3, FinishRefines
  <2> QED
    BY <2>4 DEF L!Next
<1>10. ASSUME NEW r, NEW q, BothRecords(eng', eng, o, fs, r, q) PROVE L!Next
  <2>1. /\ eng'.out = <<r, q>> /\ r.delta = eng.delta /\ q.delta = Passages(fs)
        /\ r.phase = "END" /\ q.phase = "START" /\ q.id = FreshId(eng, o) /\ q.seq = 1
        /\ r.id = eng.event.id /\ r.seq = eng.event.seq + 1
        /\ eng.active /\ eng.event.seq < MaxSeq /\ HasNew(eng', eng, o, fs)
    BY <1>10 DEF BothRecords, Of
  <2>2. Starts(eng') = {FreshId(eng, o)}
    BY <1>4, <2>1, ReportedTwo
  <2>3. OutOf(eng') = <<Seen1(r), Seen1(q)>>
    BY <2>1, OutSeen
  <2>4. PICK id : id = FreshId(eng, o)
    OBVIOUS
  <2>5. OutOf(eng') = <<[id |-> eng.event.id, phase |-> "END", seq |-> eng.event.seq + 1],
                        [id |-> id, phase |-> "START", seq |-> 1]>>
    BY <2>1, <2>3, <2>4 DEF Seen1
  <2>6. /\ id \in EventIds \ started /\ started' = started \cup {id}
        /\ eng'.event.id = id /\ eng'.event.seq = 1
    BY <1>2, <1>5, <2>1, <2>2, <2>4
  <2>7. eng.event.id # << >>
    BY <1>3, <2>1, OpenEvent
  <2>8. L!FinishAndBegin
    BY <1>3, <2>1, <2>5, <2>6, <2>7 DEF L!FinishAndBegin, L!Rec, OutOf, EventIds, Channels
  <2> QED
    BY <2>8 DEF L!Next
<1> QED
  BY <1>2, <1>6, <1>7, <1>8, <1>9, <1>10 DEF Effect
\* Every step of the engine is a step of EventLifecycle.
LEMMA NextRefines ==
    ASSUME EngineInv, Next
    PROVE  L!Next
<1>1. EnginePart /\ StreamTypes /\ DownIsIdle /\ Good(eng)
  BY DEF EngineInv, EnginePart
<1>2. ASSUME Step(Silent(eng)), up' = up PROVE L!Next
  <2>1. Muted(eng', eng) /\ started' = started
    BY <1>1, <1>2, SilentStep
  <2>2. L!Quiet
    BY <1>2, <2>1, QuietRefines DEF Muted
  <2> QED
    BY <2>2 DEF L!Next
<1>3. ASSUME NEW h \in Frames, Drop(h) PROVE L!Next
  BY <1>2, <1>3 DEF Drop
<1>4. ASSUME NEW h \in Frames, NEW s \in Scenes[eng.cfg.rule], Observe(Observation(h, s))
      PROVE  L!Next
  BY <1>1, <1>4, ObserveRefines
<1>5. ASSUME NEW c \in Configs, NEW v \in 1..MaxVersion, Reconfigure(c, v) PROVE L!Next
  <2>1. PICK p, reason :
            /\ p = ClearRuntime(EndActive(Silent(eng), reason))
            /\ reason # "disappeared"
            /\ Cleared(p, eng)
            /\ Step([p EXCEPT !.cfg = c, !.version = v])
            /\ eng.active => eng.event.seq < MaxSeq
    BY <1>1, <1>5, ReconfigureShape
  <2>2. /\ ~eng.active => p.out = << >>
        /\ eng.active => \E r : /\ p.out = <<r>> /\ r.reason = reason
                                /\ Of(r, eng.event.id, "END", eng.event.seq + 1, eng.delta)
    BY <1>1, <2>1, CloseRecord
  <2>3. eng'.out = p.out /\ eng'.event = NoEvent /\ started' = started
    BY <2>1 DEF Step, Cleared, Fields
  <2>4. up' = up
    BY <1>5 DEF Reconfigure
  <2>5. CASE ~eng.active
    <3>1. eng.event = NoEvent
      BY <1>1, <2>5 DEF Good, Sound
    <3>2. L!Quiet
      BY <2>2, <2>3, <2>4, <2>5, <3>1, QuietRefines
    <3> QED
      BY <3>2 DEF L!Next
  <2>6. CASE eng.active
    <3>1. L!Finish
      BY <1>1, <2>1, <2>2, <2>3, <2>4, <2>6, FinishRefines
    <3> QED
      BY <3>1 DEF L!Next
  <2> QED
    BY <2>5, <2>6
<1>6. CASE Shutdown
  <2>1. /\ Unused(eng', eng.cfg, eng'.out)
        /\ ~eng.active \/ Exhausted(eng) => eng'.out = << >>
        /\ eng.active /\ ~Exhausted(eng) =>
              \E r : /\ eng'.out = <<r>> /\ r.reason = "process_restart"
                     /\ Of(r, eng.event.id, "END", eng.event.seq + 1, eng.delta)
    BY <1>1, <1>6, ShutdownShape
  <2>2. eng'.event.id = << >> /\ eng'.event.seq = 0
    BY <2>1 DEF Unused, NoEvent
  <2>3. up /\ up' = FALSE /\ started' = {}
    BY <1>6 DEF Shutdown
  <2>4. OutOf(eng') = IF eng.event.id # << >> /\ eng.event.seq < MaxSeq
                      THEN <<[id |-> eng.event.id, phase |-> "END", seq |-> eng.event.seq + 1]>>
                      ELSE << >>
    <3>1. CASE ~eng.active
      <4>1. OutOf(eng') = << >>
        BY <2>1, <3>1, OutSeen
      <4> QED
        BY <1>1, <3>1, <4>1, OpenEvent
    <3>2. CASE eng.active /\ Exhausted(eng)
      <4>1. OutOf(eng') = << >>
        BY <2>1, <3>2, OutSeen
      <4>2. ~(eng.event.seq < MaxSeq)
        BY <3>2, EngineAssumption DEF Exhausted
      <4> QED
        BY <4>1, <4>2
    <3>3. CASE eng.active /\ ~Exhausted(eng)
      <4>1. PICK r : /\ eng'.out = <<r>> /\ r.reason = "process_restart"
                     /\ Of(r, eng.event.id, "END", eng.event.seq + 1, eng.delta)
        BY <2>1, <3>3
      <4>2. OutOf(eng') = <<Seen1(r)>>
        BY <4>1, OutSeen
      <4>3. OutOf(eng') = <<[id |-> eng.event.id, phase |-> "END", seq |-> eng.event.seq + 1]>>
        BY <4>1, <4>2 DEF Seen1, Of
      <4>4. eng.event.id # << >>
        BY <1>1, <3>3, OpenEvent
      <4>5. eng.event.seq < MaxSeq
        <5>1. eng.event.seq \in 1..MaxSeq /\ MaxSeq \in Nat
          BY <1>1, <3>3, EngineAssumption DEF Good, Sound, Open
        <5> QED
          BY <3>3, <5>1 DEF Exhausted
      <4> QED
        BY <4>3, <4>4, <4>5
    <3> QED
      BY <3>1, <3>2, <3>3
  <2>5. L!Exit
    BY <2>2, <2>3, <2>4 DEF L!Exit, L!Rec, OutOf
  <2> QED
    BY <2>5 DEF L!Next
<1>7. CASE Crash
  <2>1. Unused(eng', eng.cfg, << >>)
    BY <1>7, FreshEngine DEF Crash
  <2>2. OutOf(eng') = << >> /\ eng'.event.id = << >> /\ eng'.event.seq = 0
    BY <2>1, OutSeen DEF Unused, NoEvent
  <2>3. L!Crash
    BY <1>7, <2>2 DEF Crash, L!Crash, OutOf
  <2> QED
    BY <2>3 DEF L!Next
<1>8. CASE Boot
  <2>1. PICK c \in Configs : eng' = Fresh(c)
    BY <1>8 DEF Boot
  <2>2. Unused(eng', c, << >>)
    BY <2>1, FreshEngine
  <2>3. OutOf(eng') = << >> /\ eng'.event.id = << >> /\ eng'.event.seq = 0
    BY <2>2, OutSeen DEF Unused, NoEvent
  <2>4. ~eng.active
    BY <1>1, <1>8 DEF Boot, DownIsIdle
  <2>5. eng.event.id = << >> /\ eng.event.seq = 0
    BY <1>1, <2>4, OpenEvent
  <2>6. L!Boot
    BY <1>8, <2>3, <2>5 DEF Boot, L!Boot, OutOf
  <2> QED
    BY <2>6 DEF L!Next
<1>9. CASE SetStream
  BY <1>2, <1>9 DEF SetStream
<1> QED
  BY <1>3, <1>4, <1>5, <1>6, <1>7, <1>8, <1>9 DEF Next

\* The engine implements EventLifecycle for every observation and every
\* configuration: the journal gets events with new ids that start with 1, are
\* numbered without a gap and end once, the one before the next.
THEOREM EngineRefinesLifecycle == Spec => Lifecycle
<1>1. Init => L!Init
  <2>1. SUFFICES ASSUME Init PROVE L!Init
    OBVIOUS
  <2>2. PICK c \in Configs : eng = Fresh(c)
    BY <2>1 DEF Init
  <2>3. Unused(eng, c, << >>)
    BY <2>2, FreshEngine
  <2>4. OutOf(eng) = << >> /\ eng.event.id = << >> /\ eng.event.seq = 0
    BY <2>3, OutSeen DEF Unused, NoEvent
  <2> QED
    BY <2>1, <2>4 DEF Init, L!Init, L!Closed, OutOf
<1>2. EngineInv /\ [Next]_vars => [L!Next]_L!vars
  <2>1. SUFFICES ASSUME EngineInv, [Next]_vars PROVE [L!Next]_L!vars
    OBVIOUS
  <2>2. CASE Next
    BY <2>1, <2>2, NextRefines
  <2>3. CASE UNCHANGED vars
    BY <2>3 DEF vars, L!vars
  <2> QED
    BY <2>1, <2>2, <2>3
<1> QED
  BY <1>1, <1>2, EngineInvariant, PTL DEF Spec, Lifecycle, L!Spec

=============================================================================
