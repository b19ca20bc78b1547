-------------------------- MODULE AnalyticsProofs --------------------------
(***************************************************************************)
(* Proofs about both ends of the analytics path of media_engine.           *)
(*                                                                         *)
(* RockivaRunner, for any number of frames: the counter the shutdown waits *)
(* for counts the frames, every frame with the SDK keeps its buffer, and a *)
(* runner is only taken apart when nobody uses it.                         *)
(*                                                                         *)
(* EventStream, for any socket and any number of events and faults: the    *)
(* acknowledged cursor covers nothing that was not stored, nothing falls   *)
(* between the replay and the deliveries, and no gap is passed over.       *)
(***************************************************************************)
EXTENDS RockivaRunner, EventStream, FiniteSetTheorems, SequenceTheorems,
        WellFoundedInduction, TLAPS

(***************************************************************************)
(* The inductive invariant of the runner.  BufferHeld needs to know where  *)
(* the streaming thread is with its frame (an error drops the frame only   *)
(* if the SDK does not hold it, or it was misreported), FreedQuiet that a  *)
(* streaming thread cannot be counted again once the runner is stopping.   *)
(***************************************************************************)
Counted ==
    /\ active = IF stream \in Uncounted THEN 0 ELSE 1
    /\ pending <= next

OwnFrame ==
    /\ stream = "push" => /\ sid \in frames \ seen
                          /\ sid \notin held \cup results
    /\ stream = "pushing" => sid \in 1..next
    /\ stream = "refused" => \/ sid \in seen \cup misreported
                             \/ sid \notin frames \cap held

Teardown ==
    /\ main \notin {"new", "none", "run"} => stopping
    /\ main \notin {"new", "none", "run", "clear"} => ~callbacks
    /\ main \in {"finish", "pending"} /\ safe => stream \in Uncounted
    /\ main \in {"final", "handle", "freed"} => results = {}

RunnerInv ==
    /\ RunnerTypeOK
    /\ FramesCounted
    /\ BufferHeld
    /\ FreedQuiet
    /\ Counted
    /\ OwnFrame
    /\ Teardown

-----------------------------------------------------------------------------
\* The initial state satisfies the invariant.
LEMMA RunnerInitInv == RunnerInit => RunnerInv
<1> SUFFICES ASSUME RunnerInit PROVE RunnerInv
  OBVIOUS
<1>1. Cardinality({}) = 0
  BY FS_EmptySet
<1>2. RunnerTypeOK
  <2>1. safe \in BOOLEAN /\ stopping \in BOOLEAN /\ callbacks \in BOOLEAN
    BY DEF RunnerInit
  <2> QED
    BY <2>1, FramesAssumption DEF RunnerInit, RunnerTypeOK
<1>3. FramesCounted
  BY <1>1 DEF RunnerInit, FramesCounted
<1>4. BufferHeld /\ FreedQuiet /\ Counted /\ OwnFrame /\ Teardown
  BY DEF RunnerInit, BufferHeld, FreedQuiet, Counted, OwnFrame, Teardown, Uncounted
<1> QED
  BY <1>2, <1>3, <1>4 DEF RunnerInv

\* The table is finite, and its size follows a frame that comes or goes.
LEMMA TableSize ==
    ASSUME RunnerInv
    PROVE  /\ frames # {} => pending > 0
           /\ Cardinality(frames \cup {next + 1}) = pending + 1
           /\ \A id \in frames : Cardinality(frames \ {id}) = pending - 1
<1>1. next \in Nat /\ pending \in Nat /\ frames \in SUBSET (1..next)
  BY FramesAssumption DEF RunnerInv, RunnerTypeOK
<1>2. IsFiniteSet(frames)
  <2>1. IsFiniteSet(1..next)
    BY <1>1, FS_Interval
  <2> QED
    BY <1>1, <2>1, FS_Subset
<1>3. next + 1 \notin frames
  BY <1>1
<1>4. Cardinality(frames \cup {next + 1}) = pending + 1
  BY <1>2, <1>3, FS_AddElement DEF RunnerInv, FramesCounted
<1>5. \A id \in frames : Cardinality(frames \ {id}) = pending - 1
  BY <1>2, FS_RemoveElement DEF RunnerInv, FramesCounted
<1>6. frames # {} => pending # 0
  BY <1>2, FS_EmptySet DEF RunnerInv, FramesCounted
<1> QED
  BY <1>1, <1>4, <1>5, <1>6

\* The steps of the streaming thread preserve the invariant.
LEMMA CameraInd == RunnerInv /\ (Call \/ StreamStep) => RunnerInv'
<1> USE DEF RunnerInv, RunnerTypeOK, FramesCounted, BufferHeld, FreedQuiet, Counted,
            OwnFrame, Teardown, Uncounted, freeVars, streamVars, tableVars, sdkVars, history
<1> SUFFICES ASSUME RunnerInv, Call \/ StreamStep PROVE RunnerInv'
  OBVIOUS
<1>0. MaxFrames \in Nat /\ next \in Nat /\ pending \in Nat
  BY FramesAssumption
<1>1. CASE Call
  BY <1>1, <1>0 DEF Call
<1>2. CASE Enter
  BY <1>2, <1>0 DEF Enter
<1>3. CASE EnterFreed
  BY <1>3, <1>0 DEF EnterFreed
<1>4. CASE Reject
  BY <1>4, <1>0 DEF Reject
<1>5. CASE Register
  <2>1. FramesCounted'
    BY <1>5, TableSize DEF Register, NextId
  <2> QED
    BY <1>5, <1>0, <2>1 DEF Register, NextId
<1>6. CASE Push
  BY <1>6, <1>0 DEF Push
<1>7. CASE PushReturns
  BY <1>7, <1>0 DEF PushReturns
<1>8. CASE PushFails
  BY <1>8, <1>0 DEF PushFails
<1>9. CASE PushRefused
  BY <1>9, <1>0 DEF PushRefused
<1>10. CASE Drop
  <2>1. CASE sid \in frames \ seen
    <3>1. pending > 0
      BY <2>1, TableSize
    <3>2. FramesCounted'
      BY <1>10, <2>1, <3>1, TableSize DEF Drop, Less
    <3>3. sid \notin held \/ sid \in misreported
      BY <1>10, <2>1 DEF Drop
    <3>4. /\ frames' = frames \ {sid} /\ pending' = pending - 1
          /\ stream' = "leave"
          /\ UNCHANGED <<main, safe, stopping, callbacks, active, sid, next, seen,
                         held, results, detect, misreported, ignored>>
      BY <1>10, <2>1, <3>1 DEF Drop, Less
    <3>5. RunnerTypeOK'
      BY <1>0, <2>1, <3>1, <3>4
    <3>6. Counted'
      BY <1>10, <1>0, <3>1, <3>4 DEF Drop
    <3>7. BufferHeld' /\ FreedQuiet' /\ OwnFrame' /\ Teardown'
      BY <1>10, <2>1, <3>3 DEF Drop
    <3> QED
      BY <3>2, <3>5, <3>6, <3>7
  <2>2. CASE sid \notin frames \ seen
    BY <1>10, <1>0, <2>2 DEF Drop
  <2> QED
    BY <2>1, <2>2
<1>11. CASE Leave
  BY <1>11, <1>0 DEF Leave, Less
<1> QED
  BY <1>1, <1>2, <1>3, <1>4, <1>5, <1>6, <1>7, <1>8, <1>9, <1>10, <1>11
  DEF StreamStep

\* The callbacks of the SDK preserve the invariant.
LEMMA SdkInd == RunnerInv /\ SdkStep => RunnerInv'
<1> USE DEF RunnerInv, RunnerTypeOK, FramesCounted, BufferHeld, FreedQuiet, Counted,
            OwnFrame, Teardown, Uncounted, freeVars, streamVars, tableVars, sdkVars, history
<1> SUFFICES ASSUME RunnerInv, SdkStep PROVE RunnerInv'
  OBVIOUS
<1>0. MaxFrames \in Nat /\ next \in Nat /\ pending \in Nat
  BY FramesAssumption
<1>1. ASSUME NEW id \in Id, Detect(id) PROVE RunnerInv'
  <2>1. RunnerTypeOK'
    BY <1>1, <1>0 DEF Detect
  <2>2. FramesCounted' /\ BufferHeld' /\ FreedQuiet' /\ Counted'
    BY <1>1, <1>0 DEF Detect
  <2>3. OwnFrame'
    BY <1>1, <1>0 DEF Detect
  <2>4. Teardown'
    BY <1>1, <1>0 DEF Detect
  <2> QED
    BY <2>1, <2>2, <2>3, <2>4
<1>2. ASSUME NEW id \in Id, Release(id) PROVE RunnerInv'
  <2>1. id \in frames => pending > 0
    BY TableSize
  <2>2. FramesCounted'
    <3>1. CASE id \in frames
      BY <1>2, <2>1, <3>1, TableSize DEF Release, Less
    <3>2. CASE id \notin frames
      <4>1. frames \ {id} = frames
        BY <3>2
      <4> QED
        BY <1>2, <3>2, <4>1 DEF Release
    <3> QED
      BY <3>1, <3>2
  <2>3. RunnerTypeOK' /\ Counted'
    BY <1>2, <1>0, <2>1 DEF Release, Less
  <2>4. BufferHeld' /\ FreedQuiet' /\ OwnFrame' /\ Teardown'
    BY <1>2, <1>0 DEF Release
  <2> QED
    BY <2>2, <2>3, <2>4
<1>4. ASSUME NEW id \in Id, ReleaseIgnored(id) PROVE RunnerInv'
  BY <1>4, <1>0 DEF ReleaseIgnored
<1>3. CASE Observe
  BY <1>3, <1>0 DEF Observe
<1> QED
  BY <1>1, <1>2, <1>3, <1>4 DEF SdkStep

\* The steps of the main thread preserve the invariant.
LEMMA TeardownInd == RunnerInv /\ (New \/ NewFails \/ Stop \/ FreeStep) => RunnerInv'
<1> USE DEF RunnerInv, RunnerTypeOK, FramesCounted, BufferHeld, FreedQuiet, Counted,
            OwnFrame, Teardown, Uncounted, freeVars, streamVars, tableVars, sdkVars, history
<1> SUFFICES ASSUME RunnerInv, New \/ NewFails \/ Stop \/ FreeStep PROVE RunnerInv'
  OBVIOUS
<1>1. CASE New \/ NewFails
  BY <1>1 DEF New, NewFails
<1>2. CASE Stop
  BY <1>2 DEF Stop
<1>3. CASE ClearCallbacks
  <2>1. RunnerTypeOK'
    BY <1>3 DEF ClearCallbacks
  <2>2. FramesCounted' /\ BufferHeld' /\ FreedQuiet'
    BY <1>3 DEF ClearCallbacks
  <2>3. Counted' /\ OwnFrame'
    BY <1>3 DEF ClearCallbacks
  <2>4. Teardown'
    BY <1>3 DEF ClearCallbacks
  <2> QED
    BY <2>1, <2>2, <2>3, <2>4
<1>4. CASE WaitActive
  BY <1>4 DEF WaitActive
<1>5. CASE WaitFinish
  <2>1. RunnerTypeOK'
    BY <1>5 DEF WaitFinish
  <2>2. FramesCounted' /\ BufferHeld' /\ FreedQuiet'
    BY <1>5 DEF WaitFinish
  <2>3. Counted' /\ OwnFrame'
    BY <1>5 DEF WaitFinish
  <2>4. Teardown'
    BY <1>5 DEF WaitFinish
  <2> QED
    BY <2>1, <2>2, <2>3, <2>4
<1>6. CASE WaitPending
  <2>1. safe' => frames = {}
    BY <1>6, TableSize DEF WaitPending
  <2> QED
    BY <1>6, <2>1 DEF WaitPending
<1>7. CASE ReleaseDetection
  BY <1>7 DEF ReleaseDetection
<1>8. CASE FinalFinish
  BY <1>8 DEF FinalFinish
<1>9. CASE ReleaseHandle
  BY <1>9 DEF ReleaseHandle
<1> QED
  BY <1>1, <1>2, <1>3, <1>4, <1>5, <1>6, <1>7, <1>8, <1>9 DEF FreeStep

\* The invariant is inductive.
LEMMA RunnerNextInv == RunnerInv /\ [RunnerNext]_runnerVars => RunnerInv'
<1> SUFFICES ASSUME RunnerInv, [RunnerNext]_runnerVars PROVE RunnerInv'
  OBVIOUS
<1>1. CASE RunnerNext
  BY <1>1, CameraInd, SdkInd, TeardownInd DEF RunnerNext
<1>2. CASE UNCHANGED runnerVars
  BY <1>2
  DEF RunnerInv, RunnerTypeOK, FramesCounted, BufferHeld, FreedQuiet, Counted, OwnFrame,
      Teardown, Uncounted, runnerVars, freeVars, streamVars, tableVars, sdkVars, history
<1> QED
  BY <1>1, <1>2

-----------------------------------------------------------------------------
\* RunnerInv holds in every state of the runner.
LEMMA RunnerInvariant == RunnerSpec => []RunnerInv
<1> QED
  BY RunnerInitInv, RunnerNextInv, PTL DEF RunnerSpec

\* Types, whatever the number of frames.
THEOREM RunnerTypes == RunnerSpec => []RunnerTypeOK
<1>1. RunnerInv => RunnerTypeOK
  BY DEF RunnerInv
<1> QED
  BY <1>1, RunnerInvariant, PTL

\* pending_frames, for which the shutdown waits, counts the frames in the table
\* under every interleaving of the streaming thread and the SDK's callbacks.
THEOREM RunnerCounts == RunnerSpec => []FramesCounted
<1>1. RunnerInv => FramesCounted
  BY DEF RunnerInv
<1> QED
  BY <1>1, RunnerInvariant, PTL

\* A frame the SDK holds keeps its buffer, through refused pushes, early
\* callbacks, ignored releases and the shutdown; the one way to lose it is an
\* error of PushFrame behind a failed detection.
THEOREM RunnerHolds == RunnerSpec => []BufferHeld
<1>1. RunnerInv => BufferHeld
  BY DEF RunnerInv
<1> QED
  BY <1>1, RunnerInvariant, PTL

\* The SDK is released and the runner freed only when no counted thread is in a
\* callback and no frame is out but a misreported one; a thread the appsink has
\* called and nobody has counted is the only one that can meet a freed runner.
THEOREM RunnerFreedQuiet == RunnerSpec => []FreedQuiet
<1>1. RunnerInv => FreedQuiet
  BY DEF RunnerInv
<1> QED
  BY <1>1, RunnerInvariant, PTL

-----------------------------------------------------------------------------
(***************************************************************************)
(* The event stream.  Its pipe is what the daemon will read in the end, if *)
(* nothing breaks, from what the socket holds to what the worker has in    *)
(* hand.                                                                   *)
(***************************************************************************)
Line(c) == c.wire \o c.out

Delivery(q) == [i \in DOMAIN q |-> Event(q[i])]

InHand(h) == IF h = 0 THEN <<>> ELSE <<Event(h)>>

\* What a subscriber will be sent of q and h.
Feed(subscribed, q, h) == IF subscribed THEN Delivery(q) \o InHand(h) ELSE <<>>

Pipe == Line(conn) \o Feed(conn.subscribed, queue, hand)

Gap == SubscribeResult(TRUE)

\* Messages over n cursors.
Messages(n) ==
    {Error, OtherEvent} \cup {SubscribeResult(gap) : gap \in BOOLEAN}
        \cup {Event(c) : c \in 1..n}

\* Ahead of an event of p come the events of all smaller cursors that are not
\* acknowledged (up to a) or at hand (d), unless a replay gap comes first.
Ordered(p, a, d) ==
    \A i \in 1..Len(p) :
        p[i].type = "event" /\ (\A j \in 1..(i - 1) : p[j] # Gap) =>
            \A n \in 1..(p[i].cursor - 1) :
                n <= a \/ n = d \/ \E j \in 1..(i - 1) : p[j] = Event(n)

\* Of n cursors the boundaries bs, and all when there was no gap, are
\* acknowledged, at hand or in p.
Covers(p, a, d, n, bs) ==
    \A c \in 1..n : c \in bs \/ Gap \notin Range(p) =>
        c <= a \/ c = d \/ Event(c) \in Range(p)

-----------------------------------------------------------------------------
(* Sequences of messages *)

\* The fields that tell messages apart.
LEMMA MessageKinds ==
    ASSUME NEW n \in Nat, NEW m \in Messages(n)
    PROVE  /\ m.type \in {"event", "result", "error", "other"}
           /\ m.type = "event" => m.cursor \in 1..n /\ m = Event(m.cursor)
           /\ m.type = "result" => m.gap \in BOOLEAN /\ m = SubscribeResult(m.gap)
           /\ m.type = "error" => m = Error
           /\ m.type = "other" => m = OtherEvent
           /\ m.type # "result" => m # Gap
  BY DEF Messages, Error, OtherEvent, Event, SubscribeResult, Gap

\* More cursors, more messages.
LEMMA MessagesMore ==
    ASSUME NEW n \in Nat, NEW k \in Nat, n <= k, NEW p \in Seq(Messages(n))
    PROVE  p \in Seq(Messages(k))
<1>1. Messages(n) \subseteq Messages(k)
  BY DEF Messages
<1> QED
  BY <1>1, SeqMonotonic

\* Lines of messages may be joined in any order, and hold what was joined.
Join(n) ==
    /\ \A x, y, z \in Seq(Messages(n)) : (x \o y) \o z = x \o (y \o z)
    /\ \A x, y \in Seq(Messages(n)) : x \o y \in Seq(Messages(n))
    /\ \A x, y \in Seq(Messages(n)) : Range(x \o y) = Range(x) \cup Range(y)
    /\ \A x \in Seq(Messages(n)) : x \o <<>> = x /\ <<>> \o x = x

\* They do, over any number of cursors.
LEMMA Joined ==
    ASSUME NEW n
    PROVE  Join(n)
<1> DEFINE M == Messages(n)
<1> HIDE DEF M
<1>1. \A x, y, z \in Seq(M) : (x \o y) \o z = x \o (y \o z)
  BY ConcatAssociative
<1>2. \A x, y \in Seq(M) : x \o y \in Seq(M)
  BY ConcatProperties
<1>3. \A x, y \in Seq(M) : Range(x \o y) = Range(x) \cup Range(y)
  BY RangeConcatenation
<1>4. \A x \in Seq(M) : x \o <<>> = x /\ <<>> \o x = x
  BY ConcatEmptySeq
<1> QED
  BY <1>1, <1>2, <1>3, <1>4 DEF M, Join

\* Events are told apart by their cursors.
LEMMA EventCursor ==
    /\ \A c : Event(c).cursor = c /\ Event(c).type = "event" /\ Event(c) # Gap
    /\ \A c, d : Event(c) = Event(d) => c = d
  BY DEF Event, Gap, SubscribeResult

\* What is left when the end of the pipe is cut off is in order.
LEMMA OrderedPrefix ==
    ASSUME NEW S, NEW p \in Seq(S), NEW q \in Seq(S), NEW a, NEW d, Ordered(p \o q, a, d)
    PROVE  Ordered(p, a, d)
<1>1. Len(p) \in Nat /\ Len(q) \in Nat /\ Len(p \o q) = Len(p) + Len(q)
      /\ \A i \in 1..Len(p) : (p \o q)[i] = p[i]
  BY ConcatProperties
<1> HIDE DEF Gap, Event
<1> SUFFICES ASSUME NEW i \in 1..Len(p), p[i].type = "event",
                    \A j \in 1..(i - 1) : p[j] # Gap,
                    NEW n \in 1..(p[i].cursor - 1)
             PROVE  n <= a \/ n = d \/ \E j \in 1..(i - 1) : p[j] = Event(n)
  BY DEF Ordered
<1>2. i \in 1..Len(p \o q) /\ \A j \in 1..(i - 1) : j \in 1..Len(p)
  BY <1>1
<1>3. (p \o q)[i] = p[i] /\ \A j \in 1..(i - 1) : (p \o q)[j] = p[j]
  BY <1>1, <1>2
<1>4. n <= a \/ n = d \/ \E j \in 1..(i - 1) : (p \o q)[j] = Event(n)
  BY <1>2, <1>3 DEF Ordered
<1> QED
  BY <1>3, <1>4

\* The daemon reads the first message: an event is the one after the
\* acknowledged ones or older, and what follows is in order behind it.
LEMMA OrderedHead ==
    ASSUME NEW N \in Nat, NEW p \in Seq(Messages(N)), p # <<>>, NEW a \in Nat,
           Ordered(p, a, 0)
    PROVE  /\ p[1].type = "event" => /\ p[1].cursor <= a + 1
                                     /\ Ordered(Tail(p), a, p[1].cursor)
           /\ p[1].type # "event" /\ p[1] # Gap => Ordered(Tail(p), a, 0)
<1> DEFINE t == Tail(p)
<1>1. /\ Len(p) \in Nat \ {0} /\ Len(t) = Len(p) - 1
      /\ \A i \in 1..Len(t) : t[i] = p[i + 1]
      /\ \A i \in 1..Len(p) : p[i] \in Messages(N)
  BY HeadTailProperties, EmptySeq, ElementOfSeq
<1>2. ASSUME p[1].type = "event" PROVE p[1].cursor <= a + 1
  <2>1. p[1] \in Messages(N)
    BY <1>1
  <2>2. p[1].cursor \in 1..N
    BY <1>2, <2>1, MessageKinds
  <2>3. \A n \in 1..(p[1].cursor - 1) : n <= a
    BY <1>1, <1>2, <2>2 DEF Ordered
  <2> QED
    BY <2>2, <2>3
<1>3. ASSUME p[1] # Gap, NEW d,
             p[1].type = "event" => p[1] = Event(d)
      PROVE  Ordered(t, a, d)
  <2> SUFFICES ASSUME NEW i \in 1..Len(t), t[i].type = "event",
                      \A j \in 1..(i - 1) : t[j] # Gap,
                      NEW n \in 1..(t[i].cursor - 1)
               PROVE  n <= a \/ n = d \/ \E j \in 1..(i - 1) : t[j] = Event(n)
    BY DEF Ordered
  <2>1. i + 1 \in 1..Len(p) /\ p[i + 1] = t[i]
    BY <1>1
  <2>2. \A j \in 1..i : p[j] # Gap
    <3> TAKE j \in 1..i
    <3>1. CASE j = 1
      BY <1>3, <3>1
    <3>2. CASE j # 1
      <4>1. j - 1 \in 1..(i - 1) /\ t[j - 1] = p[j]
        BY <1>1, <3>2
      <4> QED
        BY <4>1
    <3> QED
      BY <3>1, <3>2
  <2>3. n <= a \/ n = 0 \/ \E j \in 1..i : p[j] = Event(n)
    BY <2>1, <2>2 DEF Ordered
  <2>4. ASSUME NEW j \in 1..i, p[j] = Event(n)
        PROVE  n = d \/ \E k \in 1..(i - 1) : t[k] = Event(n)
    <3>1. CASE j = 1
      BY <1>3, <2>4, <3>1, EventCursor
    <3>2. CASE j # 1
      <4>1. j - 1 \in 1..(i - 1) /\ t[j - 1] = p[j]
        BY <1>1, <3>2
      <4> QED
        BY <2>4, <4>1
    <3> QED
      BY <3>1, <3>2
  <2> QED
    BY <2>3, <2>4
<1>4. p[1] \in Messages(N)
  BY <1>1
<1>5. p[1].type = "event" => p[1] = Event(p[1].cursor) /\ p[1] # Gap
  BY <1>4, MessageKinds
<1>6. p[1].type = "event" => Ordered(t, a, p[1].cursor)
  BY <1>3, <1>5
<1>7. p[1].type # "event" /\ p[1] # Gap => Ordered(t, a, 0)
  BY <1>3
<1> QED
  BY <1>2, <1>6, <1>7

\* The event at hand is acknowledged.
LEMMA OrderedAck ==
    ASSUME NEW N \in Nat, NEW p \in Seq(Messages(N)), NEW a \in Nat, NEW d \in Nat,
           NEW b \in Nat, a <= b, d <= b, Ordered(p, a, d)
    PROVE  Ordered(p, b, 0)
<1> SUFFICES ASSUME NEW i \in 1..Len(p), p[i].type = "event",
                    \A j \in 1..(i - 1) : p[j] # Gap,
                    NEW n \in 1..(p[i].cursor - 1)
             PROVE  n <= b \/ n = 0 \/ \E j \in 1..(i - 1) : p[j] = Event(n)
  BY DEF Ordered
<1>1. n <= a \/ n = d \/ \E j \in 1..(i - 1) : p[j] = Event(n)
  BY DEF Ordered
<1>2. n \in Int
  OBVIOUS
<1> QED
  BY <1>1, <1>2

\* A message that is no event, and no gap, may be put anywhere.
LEMMA OrderedInsert ==
    ASSUME NEW N \in Nat, NEW p \in Seq(Messages(N)), NEW q \in Seq(Messages(N)),
           NEW m \in Messages(N), m.type # "event", m # Gap, NEW a, NEW d,
           Ordered(p \o q, a, d)
    PROVE  Ordered((p \o <<m>>) \o q, a, d)
<1> DEFINE o == p \o q
           s == (p \o <<m>>) \o q
           k == Len(p) + 1
<1>1. /\ Len(p) \in Nat /\ Len(q) \in Nat /\ k \in Nat \ {0}
      /\ Len(o) = Len(p) + Len(q) /\ Len(s) = Len(p) + Len(q) + 1
      /\ \A i \in 1..Len(s) : s[i] = IF i < k THEN o[i] ELSE IF i = k THEN m ELSE o[i - 1]
  <2>1. p \o <<m>> \in Seq(Messages(N)) /\ Len(p \o <<m>>) = k /\ Len(p) \in Nat /\ Len(q) \in Nat
    OBVIOUS
  <2>2. \A i \in 1..k : (p \o <<m>>)[i] = IF i < k THEN p[i] ELSE m
    OBVIOUS
  <2>3. /\ Len(s) = k + Len(q)
        /\ \A i \in 1..(k + Len(q)) : s[i] = IF i <= k THEN (p \o <<m>>)[i] ELSE q[i - k]
    BY <2>1, ConcatProperties
  <2>4. /\ Len(o) = Len(p) + Len(q)
        /\ \A i \in 1..(Len(p) + Len(q)) : o[i] = IF i <= Len(p) THEN p[i] ELSE q[i - Len(p)]
    BY ConcatProperties
  <2> HIDE DEF s, o
  <2>5. ASSUME NEW i \in 1..Len(s)
        PROVE  s[i] = IF i < k THEN o[i] ELSE IF i = k THEN m ELSE o[i - 1]
    <3>1. CASE i <= k
      BY <2>1, <2>2, <2>3, <2>4, <3>1
    <3>2. CASE i > k
      BY <2>1, <2>3, <2>4, <3>2
    <3> QED
      BY <2>1, <3>1, <3>2
  <2>6. Len(s) = Len(p) + Len(q) + 1 /\ k \in Nat \ {0}
    BY <2>1, <2>3
  <2>7. Len(o) = Len(p) + Len(q)
    BY <2>4
  <2> HIDE DEF k
  <2>8. \A i \in 1..Len(s) : s[i] = IF i < k THEN o[i] ELSE IF i = k THEN m ELSE o[i - 1]
    BY <2>5
  <2> QED
    BY <2>1, <2>6, <2>7, <2>8
<1> HIDE DEF s, o, k
<1> SUFFICES ASSUME NEW i \in 1..Len(s), s[i].type = "event",
                    \A j \in 1..(i - 1) : s[j] # Gap,
                    NEW n \in 1..(s[i].cursor - 1)
             PROVE  n <= a \/ n = d \/ \E j \in 1..(i - 1) : s[j] = Event(n)
  BY DEF Ordered, s
<1>2. i # k
  BY <1>1
<1> DEFINE h == IF i < k THEN i ELSE i - 1
<1>3. h \in 1..Len(o) /\ s[i] = o[h]
  BY <1>1, <1>2 DEF k
<1>4. ASSUME NEW j \in 1..(h - 1)
      PROVE  \E l \in 1..(i - 1) : s[l] = o[j]
  <2>1. CASE j < k
    BY <1>1, <1>3, <2>1
  <2>2. CASE j >= k
    <3>1. j + 1 \in 1..(i - 1) /\ j + 1 \in 1..Len(s) /\ j + 1 > k
      BY <1>1, <1>3, <2>2
    <3>2. s[j + 1] = o[j]
      BY <1>1, <3>1
    <3> QED
      BY <3>1, <3>2
  <2> QED
    BY <1>1, <2>1, <2>2
<1> HIDE DEF h
<1>5. \A j \in 1..(h - 1) : o[j] # Gap
  BY <1>4
<1>6. n <= a \/ n = d \/ \E j \in 1..(h - 1) : o[j] = Event(n)
  BY <1>3, <1>5 DEF Ordered, o
<1> QED
  BY <1>4, <1>6

\* A new event may be put at the end of a pipe that covers all before it.
LEMMA OrderedAppend ==
    ASSUME NEW N \in Nat, NEW p \in Seq(Messages(N)), NEW a, NEW d, NEW bs,
           Ordered(p, a, d), Covers(p, a, d, N, bs)
    PROVE  Ordered(p \o <<Event(N + 1)>>, a, d)
<1> DEFINE e == Event(N + 1)
           s == p \o <<e>>
<1>1. e \in Messages(N + 1) /\ p \in Seq(Messages(N + 1))
  BY MessagesMore DEF Messages
<1>2. /\ Len(p) \in Nat /\ Len(s) = Len(p) + 1 /\ s[Len(p) + 1] = e
      /\ \A i \in 1..Len(p) : s[i] = p[i]
  BY <1>1
<1>3. e.cursor = N + 1
  BY EventCursor
<1> HIDE DEF s, e
<1> SUFFICES ASSUME NEW i \in 1..Len(s), s[i].type = "event",
                    \A j \in 1..(i - 1) : s[j] # Gap,
                    NEW n \in 1..(s[i].cursor - 1)
             PROVE  n <= a \/ n = d \/ \E j \in 1..(i - 1) : s[j] = Event(n)
  BY DEF Ordered, s, e
<1>4. CASE i \in 1..Len(p)
  <2>1. s[i] = p[i] /\ \A j \in 1..(i - 1) : s[j] = p[j]
    BY <1>2, <1>4
  <2> QED
    BY <1>4, <2>1 DEF Ordered
<1>5. CASE i = Len(p) + 1
  <2>1. n \in 1..N
    BY <1>2, <1>3, <1>5
  <2>2. Gap \notin Range(p)
    <3>1. Range(p) = {p[j] : j \in 1..Len(p)}
      BY RangeEquality
    <3> QED
      BY <1>2, <1>5, <3>1
  <2>3. n <= a \/ n = d \/ Event(n) \in Range(p)
    BY <2>1, <2>2 DEF Covers
  <2>4. Event(n) \in Range(p) => \E j \in 1..Len(p) : p[j] = Event(n)
    BY RangeEquality
  <2> QED
    BY <1>2, <1>5, <2>3, <2>4
<1> QED
  BY <1>2, <1>4, <1>5

-----------------------------------------------------------------------------
(* The replay of the journal *)

\* A nonempty set of naturals has a least element.
LEMMA LeastCursor ==
    ASSUME NEW T \in SUBSET Nat, T # {}
    PROVE  \E m \in T : \A n \in T : m <= n
<1> DEFINE R == {ss \in Nat \X Nat : ss[1] < ss[2]}
<1>1. IsWellFoundedOn(R, Nat)
  BY NatLessThanWellFounded DEF OpToRel
<1>2. PICK m \in T : \A n \in T : ~(<<n, m>> \in R)
  BY <1>1, WFMin
<1>3. ASSUME NEW n \in T PROVE m <= n
  <2>1. <<n, m>> \in Nat \X Nat
    OBVIOUS
  <2> QED
    BY <1>2, <2>1
<1> QED
  BY <1>3

\* A nonempty set of cursors has a greatest one.
LEMMA GreatestCursor ==
    ASSUME NEW N \in Nat, NEW C \in SUBSET (1..N), C # {}
    PROVE  \E m \in C : \A y \in C : m >= y
<1> DEFINE T == {n \in 0..N : N - n \in C}
<1>1. PICK c \in C : TRUE
  OBVIOUS
<1>2. N - c \in T /\ T \in SUBSET Nat
  OBVIOUS
<1>3. PICK t \in T : \A u \in T : t <= u
  BY <1>2, LeastCursor
<1>4. ASSUME NEW y \in C PROVE N - t >= y
  <2>1. N - y \in T
    OBVIOUS
  <2>2. t <= N - y
    BY <1>3, <2>1
  <2> QED
    BY <2>2
<1> QED
  BY <1>4

\* q lists the cursors of S in ascending order.
Lists(q, S) ==
    /\ q \in [1..Cardinality(S) -> S]
    /\ \A i, j \in 1..Cardinality(S) : i < j => q[i] < q[j]

\* Every set of cursors can be listed: without its greatest, then with it.
LEMMA SomeListing ==
    ASSUME NEW N \in Nat, NEW S \in SUBSET (1..N)
    PROVE  \E q : Lists(q, S)
<1> DEFINE Bad == {n \in Nat : \E T \in SUBSET (1..N) :
                       Cardinality(T) = n /\ ~ \E q : Lists(q, T)}
<1>1. \A T \in SUBSET (1..N) : IsFiniteSet(T) /\ Cardinality(T) \in Nat
  <2>1. IsFiniteSet(1..N)
    BY FS_Interval
  <2> QED
    BY <2>1, FS_Subset, FS_CardinalityType
<1>2. ASSUME Bad # {} PROVE FALSE
  <2>1. PICK n \in Bad : \A k \in Bad : n <= k
    BY <1>2, LeastCursor
  <2>2. PICK T \in SUBSET (1..N) : Cardinality(T) = n /\ ~ \E q : Lists(q, T)
    OBVIOUS
  <2>3. CASE T = {}
    <3>1. Cardinality(T) = 0
      BY <2>3, FS_EmptySet
    <3>2. 1..0 = {}
      OBVIOUS
    <3>3. [i \in 1..0 |-> 0] \in [1..0 -> T]
      BY <3>2
    <3>4. Lists([i \in 1..0 |-> 0], T)
      BY <3>1, <3>2, <3>3 DEF Lists
    <3> QED
      BY <2>2, <3>4
  <2>4. CASE T # {}
    <3>1. PICK m \in T : \A y \in T : m >= y
      BY <2>4, GreatestCursor
    <3> DEFINE U == T \ {m}
    <3>2. U \in SUBSET (1..N) /\ Cardinality(U) = n - 1 /\ n - 1 \in Nat
      <4>1. IsFiniteSet(T)
        BY <1>1
      <4>2. Cardinality(U) = Cardinality(T) - 1
        BY <4>1, FS_RemoveElement
      <4>3. U \in SUBSET (1..N)
        OBVIOUS
      <4> QED
        BY <1>1, <2>2, <4>2, <4>3
    <3>3. n - 1 \notin Bad
      BY <2>1, <3>2
    <3>4. PICK q : Lists(q, U)
      BY <3>2, <3>3
    <3> DEFINE r == [i \in 1..n |-> IF i = n THEN m ELSE q[i]]
    <3>5. /\ q \in [1..(n - 1) -> U] /\ n \in Nat
          /\ \A i, j \in 1..(n - 1) : i < j => q[i] < q[j]
      BY <3>2, <3>4 DEF Lists
    <3>6. r \in [1..n -> T]
      BY <3>5
    <3>7. ASSUME NEW i \in 1..n, NEW j \in 1..n, i < j PROVE r[i] < r[j]
      <4>1. i \in 1..(n - 1) /\ r[i] = q[i] /\ q[i] \in U
        BY <3>5, <3>7
      <4>2. CASE j = n
        <5>1. q[i] \in T /\ m # q[i] /\ m >= q[i]
          BY <3>1, <4>1
        <5>2. q[i] \in 1..N /\ m \in 1..N
          BY <5>1
        <5>3. r[j] = m
          BY <4>2
        <5> QED
          BY <4>1, <5>1, <5>2, <5>3
      <4>3. CASE j # n
        <5>1. j \in 1..(n - 1) /\ r[j] = q[j]
          BY <3>7, <4>3
        <5> QED
          BY <3>5, <3>7, <4>1, <5>1
      <4> QED
        BY <4>2, <4>3
    <3> HIDE DEF r
    <3>8. Lists(r, T)
      BY <2>2, <3>6, <3>7 DEF Lists
    <3> QED
      BY <2>2, <3>8
  <2> QED
    BY <2>3, <2>4
<1>3. Cardinality(S) \notin Bad
  BY <1>2
<1> QED
  BY <1>1, <1>3

\* Ascending lists a set of cursors, without leaving one out.
LEMMA AscendingLists ==
    ASSUME NEW N \in Nat, NEW S \in SUBSET (1..N)
    PROVE  /\ Ascending(S) \in Seq(S)
           /\ \A i, j \in 1..Len(Ascending(S)) : i < j => Ascending(S)[i] < Ascending(S)[j]
           /\ \A c \in S : \E i \in 1..Len(Ascending(S)) : Ascending(S)[i] = c
<1> DEFINE q == Ascending(S)
           k == Cardinality(S)
<1>1. \E x : Lists(x, S)
  BY SomeListing
<1>2. Lists(q, S)
  <2>1. \E x \in [1..k -> S] : \A i, j \in 1..k : i < j => x[i] < x[j]
    BY <1>1 DEF Lists
  <2> QED
    BY <2>1 DEF Lists, Ascending
<1>3. IsFiniteSet(S) /\ k \in Nat
  <2>1. IsFiniteSet(1..N)
    BY FS_Interval
  <2> QED
    BY <2>1, FS_Subset, FS_CardinalityType
<1> HIDE DEF q
<1>4. q \in [1..k -> S] /\ \A i, j \in 1..k : i < j => q[i] < q[j]
  BY <1>2 DEF Lists
<1> HIDE DEF k
<1>5. q \in Seq(S) /\ Len(q) = k
  BY <1>3, <1>4, SeqDef
<1>6. q \in Injection(1..k, S)
  <2>1. ASSUME NEW i \in 1..k, NEW j \in 1..k, q[i] = q[j] PROVE i = j
    <3>1. q[i] \in S /\ q[j] \in S
      BY <1>4
    <3>2. q[i] \in 1..N /\ q[j] \in 1..N
      BY <3>1
    <3>3. ~(i < j) /\ ~(j < i)
      BY <1>4, <2>1, <3>2
    <3> QED
      BY <1>3, <3>3
  <2> QED
    BY <1>4, <2>1 DEF Injection, IsInjective
<1>7. q \in Surjection(1..k, S)
  <2>1. Cardinality(1..k) = k
    BY <1>3, FS_Interval
  <2>2. Cardinality(1..k) = Cardinality(S)
    BY <2>1 DEF k
  <2> QED
    BY <1>3, <1>6, <2>2, FS_Injection
<1>8. \A c \in S : \E i \in 1..k : q[i] = c
  BY <1>7 DEF Surjection
<1> QED
  BY <1>4, <1>5, <1>8 DEF q

\* The deliveries of a queue of cursors.
LEMMA DeliveryEvents ==
    ASSUME NEW N \in Nat, NEW q \in Seq(1..N)
    PROVE  /\ Delivery(q) \in Seq(Messages(N)) /\ Len(Delivery(q)) = Len(q)
           /\ \A i \in 1..Len(q) : Delivery(q)[i] = Event(q[i])
<1> DEFINE d == [i \in 1..Len(q) |-> Event(q[i])]
<1>1. Len(q) \in Nat /\ DOMAIN q = 1..Len(q) /\ \A i \in 1..Len(q) : q[i] \in 1..N
  BY LenProperties, ElementOfSeq
<1>2. Delivery(q) = d
  BY <1>1 DEF Delivery
<1>3. \A i \in 1..Len(q) : Event(q[i]) \in Messages(N)
  BY <1>1 DEF Messages
<1>4. d \in [1..Len(q) -> Messages(N)]
  BY <1>3
<1>5. d \in Seq(Messages(N)) /\ Len(d) = Len(q) /\ \A i \in 1..Len(q) : d[i] = Event(q[i])
  BY <1>1, <1>4, SeqDef
<1> QED
  BY <1>2, <1>5

\* The journal: no START or END is evicted, nor the record written last.
Journal(N) ==
    /\ N = Len(phase) /\ N \in Nat
    /\ kept \in SUBSET (1..N)
    /\ N > 0 => N \in kept

\* A replay without a gap is of every cursor after the one that was given.
LEMMA NoGap ==
    ASSUME NEW N, Journal(N), NEW after \in 0..N, ~ReplayGap(after)
    PROVE  (after + 1)..N \subseteq kept
<1> DEFINE S == {c \in kept : c > after}
           q == SnapshotAfter(after)
           r == <<after>> \o q
<1>1. S \in SUBSET (1..N) /\ N \in Nat
  BY DEF Journal
<1>2. /\ q \in Seq(S)
      /\ \A i, j \in 1..Len(q) : i < j => q[i] < q[j]
      /\ \A c \in S : \E i \in 1..Len(q) : q[i] = c
  BY <1>1, AscendingLists DEF SnapshotAfter
<1> HIDE DEF q
<1>3. q \in Seq(0..N) /\ Len(q) \in Nat /\ \A i \in 1..Len(q) : q[i] \in S
  <2>1. S \subseteq 0..N
    BY <1>1
  <2>2. q \in Seq(0..N)
    BY <1>2, <2>1, SeqMonotonic
  <2>3. Len(q) \in Nat
    BY <2>2, LenProperties
  <2>4. \A i \in 1..Len(q) : q[i] \in S
    BY <1>2, ElementOfSeq
  <2> QED
    BY <2>2, <2>3, <2>4
<1>4. /\ Len(r) = Len(q) + 1 /\ r[1] = after
      /\ \A i \in 1..Len(q) : r[i + 1] = q[i]
  <2>1. <<after>> \in Seq(0..N) /\ Len(<<after>>) = 1 /\ <<after>>[1] = after
    OBVIOUS
  <2>2. /\ Len(r) = 1 + Len(q)
        /\ \A i \in 1..(1 + Len(q)) : r[i] = IF i <= 1 THEN <<after>>[i] ELSE q[i - 1]
    BY <1>3, <2>1, ConcatProperties
  <2> HIDE DEF r
  <2> QED
    BY <1>3, <2>1, <2>2
<1>5. \A i \in 2..Len(r) : ~(r[i] - r[i - 1] > 1)
  BY DEF ReplayGap, r, q
<1> HIDE DEF r
<1> DEFINE M == {n \in (after + 1)..N : n \notin kept}
<1>6. ASSUME M # {} PROVE FALSE
  <2>1. PICK n \in M : \A k \in M : n <= k
    <3>1. M \in SUBSET Nat
      BY <1>1
    <3> QED
      BY <1>6, <3>1, LeastCursor
  <2>2. n \in Nat /\ n > after /\ n <= N /\ n \notin kept
    BY <1>1
  <2>3. n < N
    BY <1>1, <2>2 DEF Journal
  <2>4. PICK i \in 1..Len(r) : r[i] = n - 1
    <3>1. CASE n = after + 1
      BY <1>3, <1>4, <3>1
    <3>2. CASE n # after + 1
      <4>1. n - 1 \in (after + 1)..N /\ n - 1 \notin M
        BY <1>1, <2>1, <2>2, <3>2
      <4>2. n - 1 \in S
        BY <4>1
      <4>3. PICK j \in 1..Len(q) : q[j] = n - 1
        BY <1>2, <4>2
      <4> QED
        BY <1>3, <1>4, <4>3
    <3> QED
      BY <3>1, <3>2
  <2>5. PICK j \in 1..Len(q) : q[j] = N
    <3>1. N \in S
      BY <1>1, <2>2, <2>3 DEF Journal
    <3> QED
      BY <1>2, <3>1
  <2>6. i <= Len(q)
    <3> SUFFICES ASSUME i = Len(q) + 1 PROVE FALSE
      BY <1>3, <1>4
    <3>1. Len(q) \in 1..Len(q) /\ q[Len(q)] = n - 1
      BY <1>3, <1>4, <2>4, <2>5
    <3>2. CASE j = Len(q)
      BY <1>1, <2>2, <2>3, <2>5, <3>1, <3>2
    <3>3. CASE j < Len(q)
      <4>1. q[j] < q[Len(q)]
        BY <1>2, <3>1, <3>3
      <4>2. N < n - 1
        BY <2>5, <3>1, <4>1
      <4> QED
        BY <1>1, <2>2, <2>3, <4>2
    <3> QED
      BY <1>3, <3>2, <3>3
  <2>7. i + 1 \in 2..Len(r) /\ r[i + 1] = q[i] /\ q[i] \in S
    BY <1>3, <1>4, <2>6
  <2>8. ~(q[i] - (n - 1) > 1)
    <3>1. (i + 1) - 1 = i
      OBVIOUS
    <3> QED
      BY <1>5, <2>4, <2>7, <3>1
  <2>9. q[i] \in Nat /\ q[i] > after /\ q[i] # n
    BY <1>1, <2>2, <2>7
  <2>10. q[i] > n - 1
    <3>1. CASE i = 1
      BY <1>4, <2>2, <2>4, <2>9, <3>1
    <3>2. CASE i # 1
      <4>0. i - 1 \in 1..Len(q) /\ i \in 1..Len(q) /\ i - 1 < i /\ (i - 1) + 1 = i
        BY <1>3, <2>6, <3>2
      <4>1. q[i - 1] = r[i]
        BY <1>4, <4>0
      <4>2. q[i - 1] = n - 1
        BY <2>4, <4>1
      <4>3. q[i - 1] < q[i]
        BY <1>2, <4>0
      <4> QED
        BY <2>2, <2>9, <4>2, <4>3
    <3> QED
      BY <3>1, <3>2
  <2> QED
    BY <2>2, <2>8, <2>9, <2>10
<1> QED
  BY <1>6

\* What the replay sends.
LEMMA ReplayMessages ==
    ASSUME NEW N, Journal(N), NEW after \in 0..N
    PROVE  LET p == Replay(after)
           IN  /\ p \in Seq(Messages(N)) /\ Len(p) \in Nat \ {0}
               /\ p[1] = SubscribeResult(ReplayGap(after))
               /\ \A i \in 2..Len(p) : \E c \in kept : c > after /\ p[i] = Event(c)
               /\ \A i, j \in 2..Len(p) : i < j => p[i].cursor < p[j].cursor
               /\ \A c \in kept : c > after => \E i \in 2..Len(p) : p[i] = Event(c)
<1> DEFINE S == {c \in kept : c > after}
           q == SnapshotAfter(after)
           d == [i \in DOMAIN q |-> Event(q[i])]
           h == <<SubscribeResult(ReplayGap(after))>>
           p == h \o d
<1>1. S \in SUBSET (1..N) /\ N \in Nat
  BY DEF Journal
<1>2. /\ q \in Seq(S)
      /\ \A i, j \in 1..Len(q) : i < j => q[i] < q[j]
      /\ \A c \in S : \E i \in 1..Len(q) : q[i] = c
  BY <1>1, AscendingLists DEF SnapshotAfter
<1>3. Replay(after) = p
  BY DEF Replay
<1> HIDE DEF q
<1>4. q \in Seq(1..N) /\ Len(q) \in Nat /\ \A i \in 1..Len(q) : q[i] \in S
  BY <1>1, <1>2, SeqMonotonic, ElementOfSeq
<1>5. /\ d \in Seq(Messages(N)) /\ Len(d) = Len(q)
      /\ \A i \in 1..Len(q) : d[i] = Event(q[i])
  <2>1. d = Delivery(q)
    BY DEF Delivery
  <2> QED
    BY <1>1, <1>4, <2>1, DeliveryEvents
<1>6. h \in Seq(Messages(N)) /\ Len(h) = 1 /\ h[1] = SubscribeResult(ReplayGap(after))
  <2>1. SubscribeResult(ReplayGap(after)) \in Messages(N)
    BY DEF Messages, ReplayGap
  <2> QED
    BY <2>1
<1> HIDE DEF d, h
<1>7. /\ p \in Seq(Messages(N)) /\ Len(p) = 1 + Len(q)
      /\ \A i \in 1..(1 + Len(q)) : p[i] = IF i <= 1 THEN h[i] ELSE d[i - 1]
  BY <1>5, <1>6, ConcatProperties
<1> HIDE DEF p
<1>8. p[1] = SubscribeResult(ReplayGap(after)) /\ Len(p) \in Nat \ {0}
  BY <1>4, <1>6, <1>7
<1>9. ASSUME NEW i \in 2..Len(p)
      PROVE  i - 1 \in 1..Len(q) /\ p[i] = Event(q[i - 1]) /\ p[i].cursor = q[i - 1]
  <2>1. i - 1 \in 1..Len(q) /\ p[i] = d[i - 1]
    BY <1>4, <1>7
  <2> QED
    BY <1>5, <2>1, EventCursor
<1>10. \A i \in 2..Len(p) : \E c \in kept : c > after /\ p[i] = Event(c)
  BY <1>4, <1>9
<1>11. \A i, j \in 2..Len(p) : i < j => p[i].cursor < p[j].cursor
  <2> SUFFICES ASSUME NEW i \in 2..Len(p), NEW j \in 2..Len(p), i < j
               PROVE  p[i].cursor < p[j].cursor
    OBVIOUS
  <2>1. i - 1 \in 1..Len(q) /\ j - 1 \in 1..Len(q) /\ i - 1 < j - 1
    BY <1>9
  <2> QED
    BY <1>2, <1>9, <2>1
<1>12. ASSUME NEW c \in kept, c > after PROVE \E i \in 2..Len(p) : p[i] = Event(c)
  <2>1. PICK i \in 1..Len(q) : q[i] = c
    BY <1>2, <1>12
  <2>2. i + 1 \in 2..Len(p) /\ (i + 1) - 1 = i
    BY <1>4, <1>7
  <2> QED
    BY <1>9, <2>1, <2>2
<1> QED
  BY <1>3, <1>7, <1>8, <1>10, <1>11, <1>12

\* A replay is in order behind what was sent before it, and so is every event
\* that comes after it.
LEMMA OrderedReplay ==
    ASSUME NEW N, Journal(N), NEW after \in 0..N, NEW a \in Nat, after <= a, NEW d,
           NEW p \in Seq(Messages(N)), NEW q \in Seq(Messages(N)), Ordered(p, a, d)
    PROVE  Ordered((p \o Replay(after)) \o q, a, d)
<1> DEFINE r == Replay(after)
           s == (p \o r) \o q
           k == Len(p)
<1>1. N \in Nat
  BY DEF Journal
<1>2. /\ r \in Seq(Messages(N)) /\ Len(r) \in Nat \ {0}
      /\ r[1] = SubscribeResult(ReplayGap(after))
      /\ \A i \in 2..Len(r) : \E c \in kept : c > after /\ r[i] = Event(c)
      /\ \A i, j \in 2..Len(r) : i < j => r[i].cursor < r[j].cursor
      /\ \A c \in kept : c > after => \E i \in 2..Len(r) : r[i] = Event(c)
  BY ReplayMessages
<1> HIDE DEF r
<1>3. /\ s \in Seq(Messages(N)) /\ k \in Nat /\ Len(q) \in Nat /\ Len(s) = k + Len(r) + Len(q)
      /\ \A i \in 1..k : s[i] = p[i]
      /\ \A i \in 1..Len(r) : s[k + i] = r[i]
  <2>1. /\ p \o r \in Seq(Messages(N)) /\ Len(p \o r) = k + Len(r) /\ k \in Nat /\ Len(q) \in Nat
        /\ \A i \in 1..(k + Len(r)) : (p \o r)[i] = IF i <= k THEN p[i] ELSE r[i - k]
    BY <1>2, ConcatProperties, LenProperties
  <2> DEFINE pr == p \o r
  <2> HIDE DEF pr
  <2>2. /\ pr \o q \in Seq(Messages(N)) /\ Len(pr \o q) = Len(pr) + Len(q)
        /\ \A i \in 1..(Len(pr) + Len(q)) : (pr \o q)[i] =
               IF i <= Len(pr) THEN pr[i] ELSE q[i - Len(pr)]
    BY <2>1, ConcatProperties DEF pr
  <2>3. s = pr \o q
    BY DEF pr
  <2> HIDE DEF s
  <2>4. \A i \in 1..k : s[i] = p[i]
    BY <1>2, <2>1, <2>2, <2>3 DEF pr
  <2>5. ASSUME NEW i \in 1..Len(r) PROVE s[k + i] = r[i]
    <3>1. k + i \in 1..(k + Len(r)) /\ ~(k + i <= k) /\ (k + i) - k = i
      BY <1>2, <2>1
    <3>2. pr[k + i] = r[i]
      BY <2>1, <3>1 DEF pr
    <3>3. k + i <= Len(pr) /\ k + i \in 1..(Len(pr) + Len(q))
      BY <1>2, <2>1, <3>1 DEF pr
    <3> QED
      BY <2>2, <2>3, <3>2, <3>3
  <2> QED
    BY <2>1, <2>2, <2>3, <2>4, <2>5 DEF pr
<1> HIDE DEF s, k
<1> SUFFICES ASSUME NEW i \in 1..Len(s), s[i].type = "event",
                    \A j \in 1..(i - 1) : s[j] # Gap,
                    NEW n \in 1..(s[i].cursor - 1)
             PROVE  n <= a \/ n = d \/ \E j \in 1..(i - 1) : s[j] = Event(n)
  BY DEF Ordered, s, r
<1>4. CASE i <= k
  <2>1. i \in 1..Len(p) /\ s[i] = p[i] /\ \A j \in 1..(i - 1) : s[j] = p[j]
    BY <1>3, <1>4 DEF k
  <2>2. n <= a \/ n = d \/ \E j \in 1..(i - 1) : p[j] = Event(n)
    BY <2>1 DEF Ordered
  <2> QED
    BY <2>1, <2>2
<1>5. CASE i > k
  <2>1. s[k + 1] = SubscribeResult(ReplayGap(after))
    BY <1>2, <1>3
  <2>2. i # k + 1
    BY <2>1 DEF SubscribeResult
  <2>3. k + 1 \in 1..(i - 1)
    BY <1>3, <1>5, <2>2
  <2>4. ~ReplayGap(after)
    <3>1. SubscribeResult(ReplayGap(after)) # Gap
      BY <2>1, <2>3
    <3>2. ReplayGap(after) \in BOOLEAN
      BY DEF ReplayGap
    <3> QED
      BY <3>1, <3>2 DEF Gap
  <2>5. s[i] \in Messages(N)
    BY <1>3, ElementOfSeq
  <2>6. s[i].cursor \in 1..N
    BY <1>1, <2>5, MessageKinds
  <2>7. n \in 1..N /\ n < s[i].cursor
    BY <1>1, <2>6
  <2>8. CASE n <= after
    BY <1>1, <2>7, <2>8
  <2>9. CASE n > after
    <3>1. n \in kept
      <4>1. n \in (after + 1)..N
        BY <1>1, <2>7, <2>9
      <4> QED
        BY <2>4, <4>1, NoGap
    <3>2. PICK l \in 2..Len(r) : r[l] = Event(n)
      BY <1>2, <2>9, <3>1
    <3>3. s[k + l] = Event(n)
      BY <1>2, <1>3, <3>2
    <3>4. k + l < i
      <4>1. CASE i > k + Len(r)
        BY <1>2, <1>3, <4>1
      <4>2. CASE i <= k + Len(r)
        <5>1. i - k \in 2..Len(r) /\ k + (i - k) = i
          BY <1>2, <1>3, <1>5, <2>2, <4>2
        <5>2. s[i] = r[i - k]
          <6>1. i - k \in 1..Len(r)
            BY <5>1
          <6>2. s[k + (i - k)] = r[i - k]
            BY <1>3, <6>1
          <6> QED
            BY <5>1, <6>2
        <5>3. l # i - k
          <6> SUFFICES ASSUME l = i - k PROVE FALSE
            OBVIOUS
          <6>1. s[i] = Event(n)
            BY <3>2, <5>2
          <6>2. s[i].cursor = n
            BY <6>1, EventCursor
          <6> QED
            BY <2>6, <2>7, <6>2
        <5>4. ~(i - k < l)
          <6> SUFFICES ASSUME i - k < l PROVE FALSE
            OBVIOUS
          <6>1. r[i - k].cursor < r[l].cursor
            BY <1>2, <5>1
          <6>2. r[l].cursor = n
            BY <3>2, EventCursor
          <6> QED
            BY <2>6, <2>7, <5>2, <6>1, <6>2
        <5> QED
          BY <1>3, <5>1, <5>3, <5>4
      <4> QED
        BY <1>2, <1>3, <4>1, <4>2
    <3> QED
      BY <1>3, <3>3, <3>4
  <2> QED
    BY <1>1, <2>7, <2>8, <2>9
<1> QED
  BY <1>3, <1>4, <1>5

\* A replay has every START and END after the cursor that was given, and
\* everything after it unless it begins with a gap.
LEMMA CoversReplay ==
    ASSUME NEW N, Journal(N), NEW after \in 0..N, NEW a \in Nat, after <= a, NEW d,
           NEW p \in Seq(Messages(N)), NEW q \in Seq(Messages(N)),
           NEW bs, bs \subseteq kept
    PROVE  Covers((p \o Replay(after)) \o q, a, d, N, bs)
<1> DEFINE r == Replay(after)
           s == (p \o r) \o q
<1>1. N \in Nat
  BY DEF Journal
<1>2. /\ r \in Seq(Messages(N)) /\ Len(r) \in Nat \ {0}
      /\ r[1] = SubscribeResult(ReplayGap(after))
      /\ \A c \in kept : c > after => \E i \in 2..Len(r) : r[i] = Event(c)
  BY ReplayMessages
<1> HIDE DEF r
<1>3. Range(r) \subseteq Range(s) /\ Range(r) = {r[i] : i \in 1..Len(r)}
  <2>0. Join(N)
    BY Joined
  <2>1. p \o r \in Seq(Messages(N)) /\ Range(p \o r) = Range(p) \cup Range(r)
    BY <1>2, <2>0 DEF Join
  <2>2. Range(s) = Range(p \o r) \cup Range(q)
    BY <2>0, <2>1 DEF Join
  <2>3. Range(r) = {r[i] : i \in 1..Len(r)}
    BY <1>2, RangeEquality
  <2> HIDE DEF s
  <2> QED
    BY <2>1, <2>2, <2>3
<1> HIDE DEF s
<1> SUFFICES ASSUME NEW c \in 1..N, c \in bs \/ Gap \notin Range(s)
             PROVE  c <= a \/ c = d \/ Event(c) \in Range(s)
  BY DEF Covers, s, r
<1>4. CASE c <= after
  BY <1>1, <1>4
<1>5. CASE c > after
  <2>1. c \in kept
    <3>1. CASE c \in bs
      BY <3>1
    <3>2. CASE Gap \notin Range(s)
      <4>1. r[1] # Gap
        BY <1>2, <1>3, <3>2
      <4>2. ReplayGap(after) \in BOOLEAN
        BY DEF ReplayGap
      <4>3. ~ReplayGap(after)
        BY <1>2, <4>1, <4>2 DEF Gap
      <4>4. c \in (after + 1)..N
        BY <1>1, <1>5
      <4> QED
        BY <4>3, <4>4, NoGap
    <3> QED
      BY <3>1, <3>2
  <2>2. PICK i \in 2..Len(r) : r[i] = Event(c)
    BY <1>2, <1>5, <2>1
  <2>3. i \in 1..Len(r)
    BY <1>2
  <2> QED
    BY <1>3, <2>2, <2>3
<1> QED
  BY <1>1, <1>4, <1>5

-----------------------------------------------------------------------------
(* The connection *)

\* What the daemon may have asked for when a cursors are acknowledged.
Requests(a) == [type : {"subscribe"}, after : 0..a] \cup {[type |-> "ack"]}

\* Connections over n cursors of which a are acknowledged.
Conns(n, a) ==
    {c \in [served : BOOLEAN, subscribed : BOOLEAN, requests : Seq(Requests(a)),
            out : Seq(Messages(n)), wire : Seq(Messages(n))] :
         Len(c.wire) <= SocketSize}

\* A closed connection is one.
LEMMA NoConnConn ==
    ASSUME NEW n, NEW a
    PROVE  NoConn \in Conns(n, a) /\ ~NoConn.subscribed /\ Line(NoConn) = <<>>
<1>1. <<>> \in Seq(Requests(a)) /\ <<>> \in Seq(Messages(n)) /\ Len(<<>>) = 0
  BY EmptySeq
<1>2. 0 <= SocketSize
  BY StreamAssumption
<1>3. <<>> \o <<>> = <<>>
  BY <1>1, ConcatEmptySeq
<1> QED
  BY <1>1, <1>2, <1>3 DEF NoConn, Conns, Line

\* With more cursors and more of them acknowledged a connection still is one.
LEMMA ConnsMore ==
    ASSUME NEW n \in Nat, NEW k \in Nat, n <= k, NEW a \in Nat, NEW b \in Nat, a <= b,
           NEW c \in Conns(n, a)
    PROVE  c \in Conns(k, b)
<1>1. c.out \in Seq(Messages(k)) /\ c.wire \in Seq(Messages(k))
  BY MessagesMore DEF Conns
<1>2. Requests(a) \subseteq Requests(b)
  BY DEF Requests
<1>3. c.requests \in Seq(Requests(b))
  BY <1>2, SeqMonotonic DEF Conns
<1> QED
  BY <1>1, <1>3 DEF Conns

\* The first messages go into the socket only when none waits before it.
Split(w, o, f, g) ==
    (o # <<>> => f = <<>>) => (w \o f) \o (o \o g) = (w \o o) \o (f \o g)

\* Then it does not matter where the line is split.
LEMMA SplitLine ==
    ASSUME NEW n
    PROVE  \A w, o, f, g \in Seq(Messages(n)) : Split(w, o, f, g)
<1> SUFFICES ASSUME NEW w \in Seq(Messages(n)), NEW o \in Seq(Messages(n)),
                    NEW f \in Seq(Messages(n)), NEW g \in Seq(Messages(n)),
                    o # <<>> => f = <<>>
             PROVE  (w \o f) \o (o \o g) = (w \o o) \o (f \o g)
  BY DEF Split
<1>1. Join(n)
  BY Joined
<1>4. \A x, y, z \in Seq(Messages(n)) : (x \o y) \o z = x \o (y \o z)
  BY <1>1 DEF Join
<1>2. CASE o = <<>>
  <2>1. <<>> \o g = g /\ w \o <<>> = w
    BY <1>1 DEF Join
  <2>2. (w \o f) \o g = w \o (f \o g)
    BY <1>4
  <2> QED
    BY <1>2, <2>1, <2>2
<1>3. CASE f = <<>>
  <2>1. <<>> \o g = g /\ w \o <<>> = w
    BY <1>1 DEF Join
  <2>2. (w \o o) \o g = w \o (o \o g)
    BY <1>4
  <2> QED
    BY <1>3, <2>1, <2>2
<1> QED
  BY <1>2, <1>3

\* ipc_client_send puts what is sent at the end of the line, as much into the
\* socket as it takes.
LEMMA SentLine ==
    ASSUME NEW n \in Nat, NEW a \in Nat, NEW c \in Conns(n, a),
           NEW ms \in Seq(Messages(n))
    PROVE  /\ Sent(c, ms) \in Conns(n, a)
           /\ Line(Sent(c, ms)) = Line(c) \o ms
           /\ Sent(c, ms).subscribed = c.subscribed
           /\ Sent(c, ms).served = c.served
           /\ Sent(c, ms).requests = c.requests
<1> DEFINE room == IF c.out = <<>> THEN SocketSize - Len(c.wire) ELSE 0
           k == IF room < Len(ms) THEN room ELSE Len(ms)
           f == SubSeq(ms, 1, k)
           g == SubSeq(ms, k + 1, Len(ms))
           w == c.wire \o f
           o == c.out \o g
<1>1. Sent(c, ms) = [c EXCEPT !.wire = w, !.out = o]
  BY DEF Sent
<1>2. /\ c.out \in Seq(Messages(n)) /\ c.wire \in Seq(Messages(n))
      /\ Len(c.wire) \in Nat /\ Len(c.wire) <= SocketSize /\ Len(ms) \in Nat
      /\ SocketSize \in Nat
  BY LenProperties, StreamAssumption DEF Conns
<1>3. k \in 0..Len(ms) /\ Len(c.wire) + k <= SocketSize /\ (c.out # <<>> => k = 0)
  BY <1>2
<1> HIDE DEF k
<1>4. \A i \in 1..Len(ms) : ms[i] \in Messages(n)
  BY ElementOfSeq
<1>5. f \in Seq(Messages(n)) /\ Len(f) = k
  <2>1. \A i \in 1..k : ms[i] \in Messages(n)
    BY <1>2, <1>3, <1>4
  <2> QED
    BY <1>3, <2>1, SubSeqProperties
<1>6. g \in Seq(Messages(n))
  <2>1. \A i \in (k + 1)..Len(ms) : ms[i] \in Messages(n)
    BY <1>2, <1>3, <1>4
  <2>2. k + 1 \in Int /\ Len(ms) \in Int
    BY <1>2, <1>3
  <2> QED
    BY <2>1, <2>2, SubSeqProperties
<1>7. f \o g = ms
  <2>1. 1 \in 1..(Len(ms) + 1) /\ k \in (1 - 1)..Len(ms) /\ Len(ms) \in k..Len(ms)
    BY <1>2, <1>3
  <2>2. f \o g = SubSeq(ms, 1, Len(ms))
    BY <2>1, ConcatAdjacentSubSeq
  <2> QED
    BY <2>2, SubSeqFull
<1> HIDE DEF f, g
<1>8. w \in Seq(Messages(n)) /\ Len(w) <= SocketSize /\ o \in Seq(Messages(n))
  BY <1>2, <1>3, <1>5, <1>6, ConcatProperties
<1>9. w \o o = (c.wire \o c.out) \o ms
  <2>1. c.out # <<>> => f = <<>>
    BY <1>3, <1>5, EmptySeq
  <2>2. Split(c.wire, c.out, f, g)
    BY <1>2, <1>5, <1>6, SplitLine
  <2>3. w \o o = (c.wire \o c.out) \o (f \o g)
    BY <2>1, <2>2 DEF Split
  <2> QED
    BY <1>7, <2>3
<1> HIDE DEF w, o
<1> QED
  BY <1>1, <1>8, <1>9 DEF Conns, Line

\* The line of a connection is one of messages.
LEMMA LineMessages ==
    ASSUME NEW n \in Nat, NEW a \in Nat, NEW c \in Conns(n, a)
    PROVE  /\ c.wire \in Seq(Messages(n)) /\ c.out \in Seq(Messages(n))
           /\ Line(c) \in Seq(Messages(n))
<1>1. c.wire \in Seq(Messages(n)) /\ c.out \in Seq(Messages(n))
  BY DEF Conns
<1>2. Join(n)
  BY Joined
<1>3. \A x, y \in Seq(Messages(n)) : x \o y \in Seq(Messages(n))
  BY <1>2 DEF Join
<1>4. c.wire \o c.out \in Seq(Messages(n))
  BY <1>1, <1>3
<1> QED
  BY <1>1, <1>4 DEF Line

\* An event by itself is a line of messages.
LEMMA OneEvent ==
    ASSUME NEW n \in Nat, NEW h \in 1..n
    PROVE  <<Event(h)>> \in Seq(Messages(n))
<1>1. Event(h) \in Messages(n)
  BY DEF Messages
<1> QED
  BY <1>1

\* What is fed to the line is messages.
LEMMA FeedMessages ==
    ASSUME NEW n \in Nat, NEW q \in Seq(1..n), NEW h \in 0..n, NEW s \in BOOLEAN
    PROVE  /\ Feed(s, q, h) \in Seq(Messages(n))
           /\ InHand(h) \in Seq(Messages(n))
           /\ Delivery(q) \in Seq(Messages(n))
<1>1. Delivery(q) \in Seq(Messages(n))
  BY DeliveryEvents
<1>2. <<>> \in Seq(Messages(n))
  BY EmptySeq
<1>3. InHand(h) \in Seq(Messages(n))
  <2>1. CASE h = 0
    BY <1>2, <2>1 DEF InHand
  <2>2. CASE h # 0
    <3>1. h \in 1..n
      BY <2>2
    <3> QED
      BY <2>2, <3>1, OneEvent DEF InHand
  <2> QED
    BY <2>1, <2>2
<1>4. Join(n)
  BY Joined
<1>5. \A x, y \in Seq(Messages(n)) : x \o y \in Seq(Messages(n))
  BY <1>4 DEF Join
<1>6. Delivery(q) \o InHand(h) \in Seq(Messages(n))
  BY <1>1, <1>3, <1>5
<1> QED
  BY <1>1, <1>2, <1>3, <1>6 DEF Feed

\* Nothing queued, nothing in hand: nothing is fed.
LEMMA FeedNothing ==
    /\ \A s : Feed(s, <<>>, 0) = <<>>
    /\ \A q, h : Feed(FALSE, q, h) = <<>>
    /\ Delivery(<<>>) = <<>>
<1>1. Delivery(<<>>) = <<>>
  <2>1. <<>> \in Seq(1..0) /\ Len(<<>>) = 0
    BY EmptySeq
  <2>2. Delivery(<<>>) \in Seq(Messages(0)) /\ Len(Delivery(<<>>)) = 0
    BY <2>1, DeliveryEvents
  <2> QED
    BY <2>2, EmptySeq
<1>2. InHand(0) = <<>>
  BY DEF InHand
<1>3. <<>> \o <<>> = <<>>
  OBVIOUS
<1> QED
  BY <1>1, <1>2, <1>3 DEF Feed

\* The event in hand is the last to be fed.
LEMMA FeedHand ==
    ASSUME NEW n \in Nat, NEW q \in Seq(1..n), NEW h \in 1..n
    PROVE  Feed(TRUE, q, h) = Feed(TRUE, q, 0) \o <<Event(h)>>
<1>1. Delivery(q) \in Seq(Messages(n))
  BY DeliveryEvents
<1>2. Join(n)
  BY Joined
<1>3. \A x \in Seq(Messages(n)) : x \o <<>> = x
  BY <1>2 DEF Join
<1>4. InHand(0) = <<>> /\ InHand(h) = <<Event(h)>>
  BY DEF InHand
<1>5. Feed(TRUE, q, 0) = Delivery(q) \o <<>> /\ Feed(TRUE, q, h) = Delivery(q) \o <<Event(h)>>
  BY <1>4 DEF Feed
<1>6. Delivery(q) \o <<>> = Delivery(q)
  BY <1>1, <1>3
<1> QED
  BY <1>5, <1>6

\* Queueing the event in hand leaves what is fed as it was.
LEMMA FeedQueued ==
    ASSUME NEW n \in Nat, NEW q \in Seq(1..n), NEW h \in 1..n, NEW s \in BOOLEAN
    PROVE  Feed(s, Append(q, h), 0) = Feed(s, q, h)
<1> DEFINE r == Append(q, h)
           x == Delivery(q) \o <<Event(h)>>
<1>1. r \in Seq(1..n) /\ Len(r) = Len(q) + 1 /\ Len(q) \in Nat
      /\ (\A i \in 1..Len(q) : r[i] = q[i]) /\ r[Len(q) + 1] = h
  BY AppendProperties, LenProperties
<1>2. Delivery(q) \in Seq(Messages(n)) /\ Len(Delivery(q)) = Len(q)
      /\ \A i \in 1..Len(q) : Delivery(q)[i] = Event(q[i])
  BY DeliveryEvents
<1> HIDE DEF r
<1>3. Delivery(r) \in Seq(Messages(n)) /\ Len(Delivery(r)) = Len(r)
      /\ \A i \in 1..Len(r) : Delivery(r)[i] = Event(r[i])
  BY <1>1, DeliveryEvents
<1>4. <<Event(h)>> \in Seq(Messages(n)) /\ Len(<<Event(h)>>) = 1 /\ <<Event(h)>>[1] = Event(h)
  BY OneEvent
<1>5. x \in Seq(Messages(n)) /\ Len(x) = Len(q) + 1
      /\ \A i \in 1..(Len(q) + 1) : x[i] = IF i <= Len(q) THEN Delivery(q)[i]
                                           ELSE <<Event(h)>>[i - Len(q)]
  BY <1>2, <1>4, ConcatProperties
<1> HIDE DEF x
<1>6. ASSUME NEW i \in 1..Len(x) PROVE Delivery(r)[i] = x[i]
  <2>1. CASE i <= Len(q)
    <3>1. i \in 1..Len(q) /\ i \in 1..Len(r) /\ i \in 1..(Len(q) + 1)
      BY <1>1, <2>1
    <3>2. Delivery(r)[i] = Event(q[i])
      BY <1>1, <1>3, <3>1
    <3>3. x[i] = Delivery(q)[i]
      BY <1>5, <2>1, <3>1
    <3> QED
      BY <1>2, <3>1, <3>2, <3>3
  <2>2. CASE i = Len(q) + 1
    <3>1. Delivery(r)[i] = Event(h)
      BY <1>1, <1>3, <2>2
    <3>2. i - Len(q) = 1 /\ ~(i <= Len(q)) /\ i \in 1..(Len(q) + 1)
      BY <1>1, <2>2
    <3>3. x[i] = <<Event(h)>>[1]
      BY <1>5, <3>2
    <3> QED
      BY <1>4, <3>1, <3>3
  <2> QED
    BY <1>1, <1>5, <2>1, <2>2
<1>7. Delivery(r) = x
  BY <1>1, <1>3, <1>5, <1>6, SeqEqual
<1>8. CASE s = TRUE
  <2>1. Feed(TRUE, q, h) = x
    BY DEF Feed, InHand, x
  <2>2. Join(n)
    BY Joined
  <2>3. \A y \in Seq(Messages(n)) : y \o <<>> = y
    BY <2>2 DEF Join
  <2>4. Feed(TRUE, r, 0) = Delivery(r) \o <<>>
    BY DEF Feed, InHand
  <2>5. Delivery(r) \o <<>> = Delivery(r)
    BY <1>3, <2>3
  <2> QED
    BY <1>7, <1>8, <2>1, <2>4, <2>5 DEF r
<1>9. CASE s = FALSE
  BY <1>9, FeedNothing
<1> QED
  BY <1>8, <1>9

\* The delivery queued first is the first to be fed.
LEMMA FeedHead ==
    ASSUME NEW n \in Nat, NEW q \in Seq(1..n), q # <<>>, NEW h \in 0..n
    PROVE  /\ Head(q) \in 1..n /\ Tail(q) \in Seq(1..n)
           /\ Feed(TRUE, q, h) = <<Event(Head(q))>> \o Feed(TRUE, Tail(q), h)
<1> DEFINE t == Tail(q)
           e == <<Event(Head(q))>>
           x == e \o Delivery(t)
<1>1. /\ Head(q) \in 1..n /\ t \in Seq(1..n) /\ Len(t) = Len(q) - 1
      /\ \A i \in 1..Len(t) : t[i] = q[i + 1]
  BY HeadTailProperties
<1>2. Len(q) \in Nat \ {0} /\ Head(q) = q[1]
  BY EmptySeq
<1>3. Delivery(q) \in Seq(Messages(n)) /\ Len(Delivery(q)) = Len(q)
      /\ \A i \in 1..Len(q) : Delivery(q)[i] = Event(q[i])
  BY DeliveryEvents
<1> HIDE DEF t
<1>4. Delivery(t) \in Seq(Messages(n)) /\ Len(Delivery(t)) = Len(t)
      /\ \A i \in 1..Len(t) : Delivery(t)[i] = Event(t[i])
  BY <1>1, DeliveryEvents
<1>5. e \in Seq(Messages(n)) /\ Len(e) = 1 /\ e[1] = Event(Head(q))
  BY <1>1, OneEvent
<1> HIDE DEF e
<1>6. x \in Seq(Messages(n)) /\ Len(x) = 1 + Len(t)
      /\ \A i \in 1..(1 + Len(t)) : x[i] = IF i <= 1 THEN e[i] ELSE Delivery(t)[i - 1]
  <2> DEFINE M == Messages(n)
             y == Delivery(t)
  <2>1. y \in Seq(M) /\ e \in Seq(M) /\ Len(y) = Len(t)
    BY <1>4, <1>5
  <2> HIDE DEF M, y
  <2>2. /\ e \o y \in Seq(M) /\ Len(e \o y) = Len(e) + Len(y)
        /\ \A i \in 1..(Len(e) + Len(y)) : (e \o y)[i] = IF i <= Len(e) THEN e[i] ELSE y[i - Len(e)]
    BY <2>1, ConcatProperties
  <2> QED
    BY <1>5, <2>1, <2>2 DEF M, y
<1> HIDE DEF x
<1>7. ASSUME NEW i \in 1..Len(x) PROVE Delivery(q)[i] = x[i]
  <2>1. CASE i = 1
    BY <1>1, <1>2, <1>3, <1>5, <1>6, <2>1
  <2>2. CASE i # 1
    <3>1. i - 1 \in 1..Len(t) /\ (i - 1) + 1 = i /\ i \in 1..Len(q) /\ ~(i <= 1)
      BY <1>1, <1>2, <1>6, <2>2
    <3>2. x[i] = Event(t[i - 1])
      BY <1>4, <1>6, <3>1
    <3>3. t[i - 1] = q[i]
      BY <1>1, <3>1
    <3> QED
      BY <1>3, <3>1, <3>2, <3>3
  <2> QED
    BY <2>1, <2>2
<1>8. Delivery(q) = x
  <2>1. Len(x) = Len(q)
    BY <1>1, <1>2, <1>6
  <2> QED
    BY <1>3, <1>6, <1>7, <2>1, SeqEqual
<1>9. InHand(h) \in Seq(Messages(n))
  BY FeedMessages
<1>10. (e \o Delivery(t)) \o InHand(h) = e \o (Delivery(t) \o InHand(h))
  <2>1. Join(n)
    BY Joined
  <2>2. \A u, v, w \in Seq(Messages(n)) : (u \o v) \o w = u \o (v \o w)
    BY <2>1 DEF Join
  <2> QED
    BY <1>4, <1>5, <1>9, <2>2
<1>11. Feed(TRUE, q, h) = e \o Feed(TRUE, t, h)
  <2>1. Feed(TRUE, q, h) = Delivery(q) \o InHand(h)
    BY DEF Feed
  <2>2. Feed(TRUE, t, h) = Delivery(t) \o InHand(h)
    BY DEF Feed
  <2> QED
    BY <1>8, <1>10, <2>1, <2>2 DEF x
<1> QED
  BY <1>1, <1>11 DEF t, e

-----------------------------------------------------------------------------
(* The inductive invariant *)

\* Every variable has its type.
StreamTypes ==
    /\ phase \in Seq({"START", "UPDATE", "END"}) /\ Len(phase) <= MaxCursor
    /\ open \in BOOLEAN
    /\ hand \in 0..Len(phase)
    /\ loop \in {"run", "deinit", "drain", "down"}
    /\ queue \in Seq(1..Len(phase))
    /\ conn \in Conns(Len(phase), acked)
    /\ daemon \in [pc : {"off", "wait", "live", "store", "ack", "stopped"},
                   cursor : 0..Len(phase)]
    /\ stored \in SUBSET (1..Len(phase))
    /\ acked \in 0..Len(phase)
    /\ faults \in 0..MaxFaults
    /\ overtaken \in BOOLEAN

\* The journal keeps every START and END, and the record written last.
JournalKept == Journal(Len(phase)) /\ Boundaries \subseteq kept

\* The event at hand: there is one only while it is stored and acknowledged,
\* and a START or END is acknowledged after it is stored.
AtHand ==
    /\ daemon.pc \in {"store", "ack"} <=> daemon.cursor # 0
    /\ daemon.pc = "ack" /\ daemon.cursor \in Boundaries => daemon.cursor \in stored

\* A subscriber has, has at hand or will be sent every START and END, and all
\* events when it is not told of a gap.
Covered ==
    conn.subscribed => Covers(Pipe, acked, daemon.cursor, Len(phase), Boundaries)

\* It gets them in order.
InOrder ==
    ~overtaken => daemon.cursor <= acked + 1 /\ Ordered(Pipe, acked, daemon.cursor)

StreamInv ==
    /\ StreamTypes
    /\ JournalKept
    /\ AtHand
    /\ Covered
    /\ InOrder
    /\ AckCoversStored

\* What is known of the pipe.
LEMMA PipeMessages ==
    ASSUME StreamTypes
    PROVE  /\ Len(phase) \in Nat /\ acked \in Nat
           /\ conn \in Conns(Len(phase), acked) /\ conn.subscribed \in BOOLEAN
           /\ Line(conn) \in Seq(Messages(Len(phase)))
           /\ Feed(conn.subscribed, queue, hand) \in Seq(Messages(Len(phase)))
           /\ Pipe \in Seq(Messages(Len(phase)))
<1> DEFINE N == Len(phase)
<1>1. N \in Nat
  BY LenProperties DEF StreamTypes
<1> HIDE DEF N
<1>2. conn \in Conns(N, acked) /\ acked \in Nat /\ queue \in Seq(1..N) /\ hand \in 0..N
  BY <1>1 DEF StreamTypes, N
<1>3. conn.subscribed \in BOOLEAN
  BY <1>2 DEF Conns
<1>4. Line(conn) \in Seq(Messages(N))
  BY <1>1, <1>2, LineMessages
<1>5. Feed(conn.subscribed, queue, hand) \in Seq(Messages(N))
  BY <1>1, <1>2, <1>3, FeedMessages
<1>6. Join(N)
  BY Joined
<1>7. \A x, y \in Seq(Messages(N)) : x \o y \in Seq(Messages(N))
  BY <1>6 DEF Join
<1>8. Line(conn) \o Feed(conn.subscribed, queue, hand) \in Seq(Messages(N))
  BY <1>4, <1>5, <1>7
<1> QED
  BY <1>1, <1>2, <1>3, <1>4, <1>5, <1>8 DEF Pipe, N

\* What the engine does without a new event concerns the pipe alone.
LEMMA EngineQuiet ==
    ASSUME StreamInv, UNCHANGED <<phase, kept, daemon, stored, acked>>,
           open' \in BOOLEAN, hand' \in 0..Len(phase),
           loop' \in {"run", "deinit", "drain", "down"},
           queue' \in Seq(1..Len(phase)), conn' \in Conns(Len(phase), acked),
           faults' \in 0..MaxFaults, overtaken' \in BOOLEAN, overtaken => overtaken',
           Covered', InOrder'
    PROVE  StreamInv'
<1>1. StreamTypes'
  BY DEF StreamInv, StreamTypes
<1>2. Boundaries' = Boundaries
  BY DEF Boundaries
<1>3. JournalKept'
  BY <1>2 DEF StreamInv, JournalKept, Journal
<1>4. AtHand'
  BY <1>2 DEF StreamInv, AtHand
<1>5. AckCoversStored'
  BY <1>2 DEF StreamInv, AckCoversStored
<1> QED
  BY <1>1, <1>3, <1>4, <1>5 DEF StreamInv

\* The pipe is what it was.
LEMMA PipeKept ==
    ASSUME StreamInv, UNCHANGED <<phase, acked>>, daemon'.cursor = daemon.cursor,
           conn'.subscribed = conn.subscribed, Pipe' = Pipe, overtaken => overtaken',
           overtaken' \in BOOLEAN
    PROVE  Covered' /\ InOrder'
<1>1. Boundaries' = Boundaries
  BY DEF Boundaries
<1>2. Covered'
  BY <1>1 DEF StreamInv, Covered
<1>3. overtaken \in BOOLEAN
  BY DEF StreamInv, StreamTypes
<1>4. InOrder'
  BY <1>3 DEF StreamInv, InOrder
<1> QED
  BY <1>2, <1>4

\* The pipe holds what it held, in an order that is not looked at any more.
LEMMA PipeMixed ==
    ASSUME StreamInv, UNCHANGED <<phase, acked>>, daemon'.cursor = daemon.cursor,
           conn'.subscribed = conn.subscribed, Range(Pipe') = Range(Pipe), overtaken'
    PROVE  Covered' /\ InOrder'
<1>1. Boundaries' = Boundaries
  BY DEF Boundaries
<1>2. Covered'
  BY <1>1 DEF StreamInv, Covered, Covers
<1>4. InOrder'
  BY DEF InOrder
<1> QED
  BY <1>2, <1>4

\* The connection is closed: nothing is fed to it, and what is left of the line
\* was its beginning.
LEMMA PipeCut ==
    ASSUME StreamInv, UNCHANGED <<phase, acked>>, daemon'.cursor = daemon.cursor,
           conn' = Cut(conn), UNCHANGED overtaken
    PROVE  Covered' /\ InOrder' /\ conn' \in Conns(Len(phase), acked)
<1> DEFINE N == Len(phase)
           w == conn.wire
           o == conn.out
           f == Feed(conn.subscribed, queue, hand)
<1>1. N \in Nat /\ acked \in Nat /\ conn \in Conns(N, acked) /\ f \in Seq(Messages(N))
  BY PipeMessages DEF StreamInv
<1>2. w \in Seq(Messages(N)) /\ o \in Seq(Messages(N)) /\ Len(w) <= SocketSize
  BY <1>1, LineMessages DEF Conns
<1>3. conn' = [served |-> FALSE, subscribed |-> FALSE, requests |-> <<>>, out |-> <<>>, wire |-> w]
  BY DEF Cut, NoConn
<1>4. conn' \in Conns(N, acked) /\ conn'.subscribed = FALSE
  <2>1. <<>> \in Seq(Requests(acked)) /\ <<>> \in Seq(Messages(N))
    BY EmptySeq
  <2> QED
    BY <1>2, <1>3, <2>1 DEF Conns
<1>5. Pipe = (w \o o) \o f
  BY DEF Pipe, Line
<1> HIDE DEF N, w, o, f
<1>6. Join(N)
  BY Joined
<1>7. \A x \in Seq(Messages(N)) : x \o <<>> = x
  BY <1>6 DEF Join
<1>8. Pipe' = w
  <2>1. Pipe' = (w \o <<>>) \o <<>>
    <3>1. Feed(conn'.subscribed, queue', hand') = <<>>
      BY <1>4 DEF Feed
    <3>2. Line(conn') = w \o <<>>
      BY <1>3 DEF Line
    <3> QED
      BY <3>1, <3>2 DEF Pipe
  <2> QED
    BY <1>2, <1>7, <2>1
<1>9. Pipe = w \o (o \o f)
  <2>1. \A x, y, z \in Seq(Messages(N)) : (x \o y) \o z = x \o (y \o z)
    BY <1>6 DEF Join
  <2> QED
    BY <1>1, <1>2, <1>5, <2>1
<1>10. o \o f \in Seq(Messages(N))
  <2>1. \A x, y \in Seq(Messages(N)) : x \o y \in Seq(Messages(N))
    BY <1>6 DEF Join
  <2> QED
    BY <1>1, <1>2, <2>1
<1>11. InOrder'
  <2> SUFFICES ASSUME ~overtaken
               PROVE  daemon.cursor <= acked + 1 /\ Ordered(w, acked, daemon.cursor)
    BY <1>8 DEF InOrder
  <2>1. daemon.cursor <= acked + 1 /\ Ordered(Pipe, acked, daemon.cursor)
    BY DEF StreamInv, InOrder
  <2>2. Ordered(w \o (o \o f), acked, daemon.cursor)
    BY <1>9, <2>1
  <2> QED
    BY <1>2, <1>10, <2>1, <2>2, OrderedPrefix
<1> QED
  BY <1>4, <1>11 DEF Covered, N

\* The daemon has left: there is no pipe.
LEMMA PipeGone ==
    ASSUME daemon'.cursor = 0, acked' \in Nat, conn'.subscribed = FALSE,
           Line(conn') = <<>>
    PROVE  Covered' /\ InOrder'
<1>1. Pipe' = <<>>
  <2>2. Feed(conn'.subscribed, queue', hand') = <<>>
    BY DEF Feed
  <2>3. <<>> \o <<>> = <<>>
    OBVIOUS
  <2> QED
    BY <2>2, <2>3 DEF Pipe
<1>2. 1..Len(<<>>) = {}
  OBVIOUS
<1>3. Ordered(<<>>, acked', 0)
  BY <1>2 DEF Ordered
<1> QED
  <2>1. daemon'.cursor <= acked' + 1
    <3>1. \A n \in Nat : 0 <= n + 1
      OBVIOUS
    <3> QED
      BY <3>1
  <2>2. Ordered(Pipe', acked', daemon'.cursor)
    BY <1>1, <1>3
  <2> QED
    BY <2>1, <2>2 DEF Covered, InOrder

\* A message that is no event, and no gap, is put into the pipe.
LEMMA PipeInsert ==
    ASSUME StreamInv, UNCHANGED <<phase, queue, hand, acked, overtaken>>,
           daemon'.cursor = daemon.cursor, conn'.subscribed = conn.subscribed,
           NEW m \in {Error, OtherEvent}, Line(conn') = Line(conn) \o <<m>>
    PROVE  Covered' /\ InOrder'
<1> DEFINE N == Len(phase)
           l == Line(conn)
           f == Feed(conn.subscribed, queue, hand)
<1>1. N \in Nat /\ l \in Seq(Messages(N)) /\ f \in Seq(Messages(N))
  BY PipeMessages DEF StreamInv
<1>2. Pipe = l \o f /\ Pipe' = (l \o <<m>>) \o f
  BY DEF Pipe
<1> HIDE DEF N, l, f
<1>3. m \in Messages(N) /\ m.type # "event" /\ m # Gap
  BY DEF Messages, Error, OtherEvent, Gap, SubscribeResult
<1>4. <<m>> \in Seq(Messages(N))
  BY <1>3
<1>5. Range(Pipe) \subseteq Range(Pipe') /\ (Gap \in Range(Pipe') => Gap \in Range(Pipe))
  <2>1. Join(N)
    BY Joined
  <2>2. \A x, y \in Seq(Messages(N)) : Range(x \o y) = Range(x) \cup Range(y)
    BY <2>1 DEF Join
  <2>3. l \o <<m>> \in Seq(Messages(N))
    BY <1>1, <1>4, <2>1 DEF Join
  <2>4. Range(Pipe) = Range(l) \cup Range(f)
    BY <1>1, <1>2, <2>2
  <2>5. Range(Pipe') = (Range(l) \cup Range(<<m>>)) \cup Range(f)
    <3>1. Range((l \o <<m>>) \o f) = Range(l \o <<m>>) \cup Range(f)
      BY <1>1, <2>2, <2>3
    <3>2. Range(l \o <<m>>) = Range(l) \cup Range(<<m>>)
      BY <1>1, <1>4, <2>2
    <3> QED
      BY <1>2, <3>1, <3>2
  <2>6. Range(<<m>>) = {m}
    <3>1. Range(<<m>>) = {<<m>>[i] : i \in 1..Len(<<m>>)}
      BY <1>4, RangeEquality
    <3>2. Len(<<m>>) = 1 /\ <<m>>[1] = m
      OBVIOUS
    <3> QED
      BY <3>1, <3>2
  <2> QED
    BY <1>3, <2>4, <2>5, <2>6
<1>6. Boundaries' = Boundaries
  BY DEF Boundaries
<1>7. Covered'
  BY <1>5, <1>6 DEF StreamInv, Covered, Covers
<1>8. InOrder'
  <2> SUFFICES ASSUME ~overtaken
               PROVE  daemon.cursor <= acked + 1 /\ Ordered(Pipe', acked, daemon.cursor)
    BY DEF InOrder
  <2>1. daemon.cursor <= acked + 1 /\ Ordered(l \o f, acked, daemon.cursor)
    BY <1>2 DEF StreamInv, InOrder
  <2>2. Ordered((l \o <<m>>) \o f, acked, daemon.cursor)
    BY <1>1, <1>3, <2>1, OrderedInsert
  <2> QED
    BY <1>2, <2>1, <2>2
<1> QED
  BY <1>7, <1>8

\* The daemon subscribes: the replay goes in front of what is queued.
LEMMA PipeSubscribe ==
    ASSUME StreamInv, UNCHANGED <<phase, queue, hand, acked, overtaken>>,
           daemon'.cursor = daemon.cursor, conn'.subscribed = TRUE,
           NEW after \in 0..acked, Line(conn') = Line(conn) \o Replay(after)
    PROVE  Covered' /\ InOrder'
<1> DEFINE N == Len(phase)
           l == Line(conn)
           f == Feed(conn.subscribed, queue, hand)
           g == Feed(TRUE, queue, hand)
<1>1. N \in Nat /\ acked \in Nat /\ l \in Seq(Messages(N)) /\ f \in Seq(Messages(N))
  BY PipeMessages DEF StreamInv
<1>2. g \in Seq(Messages(N))
  BY <1>1, FeedMessages DEF StreamInv, StreamTypes
<1>3. Pipe = l \o f /\ Pipe' = (l \o Replay(after)) \o g
  BY DEF Pipe
<1>4. Journal(N) /\ Boundaries \subseteq kept /\ after \in 0..N /\ after <= acked
  BY <1>1 DEF StreamInv, StreamTypes, JournalKept
<1> HIDE DEF N, l, f, g
<1>5. Boundaries' = Boundaries
  BY DEF Boundaries
<1>6. Covers((l \o Replay(after)) \o g, acked, daemon.cursor, N, Boundaries)
  BY <1>1, <1>2, <1>4, CoversReplay
<1>7. Covered'
  BY <1>3, <1>5, <1>6 DEF Covered, N
<1>8. InOrder'
  <2> SUFFICES ASSUME ~overtaken
               PROVE  daemon.cursor <= acked + 1 /\ Ordered(Pipe', acked, daemon.cursor)
    BY DEF InOrder
  <2>1. daemon.cursor <= acked + 1 /\ Ordered(l \o f, acked, daemon.cursor)
    BY <1>3 DEF StreamInv, InOrder
  <2>2. Ordered(l, acked, daemon.cursor)
    BY <1>1, <2>1, OrderedPrefix
  <2>3. Ordered((l \o Replay(after)) \o g, acked, daemon.cursor)
    BY <1>1, <1>2, <1>4, <2>2, OrderedReplay
  <2> QED
    BY <1>3, <2>1, <2>3
<1> QED
  BY <1>7, <1>8

\* A new event is journaled: the journal keeps it and every START and END.
LEMMA JournaledKept ==
    ASSUME StreamInv, NEW p \in {"START", "UPDATE", "END"}, Journaled(p)
    PROVE  /\ phase' \in Seq({"START", "UPDATE", "END"})
           /\ Len(phase') = Len(phase) + 1 /\ Len(phase') <= MaxCursor
           /\ open' \in BOOLEAN
           /\ Boundaries' \in SUBSET (Boundaries \cup {Len(phase) + 1})
           /\ Boundaries \subseteq 1..Len(phase)
           /\ JournalKept'
<1> DEFINE N == Len(phase)
<1>1. phase \in Seq({"START", "UPDATE", "END"}) /\ N \in Nat
  BY LenProperties DEF StreamInv, StreamTypes
<1>2. /\ phase' \in Seq({"START", "UPDATE", "END"}) /\ Len(phase') = N + 1
      /\ \A i \in 1..N : phase'[i] = phase[i]
  BY <1>1, AppendProperties DEF Journaled
<1>3. DOMAIN phase = 1..N /\ DOMAIN phase' = 1..(N + 1)
  BY <1>1, <1>2, LenProperties
<1>4. Len(phase') <= MaxCursor
  <2>1. N < MaxCursor /\ MaxCursor \in Nat
    BY StreamAssumption DEF Journaled
  <2> QED
    BY <1>1, <1>2, <2>1
<1>5. Boundaries' \in SUBSET (Boundaries \cup {N + 1}) /\ Boundaries \subseteq 1..N
  <2>1. ASSUME NEW c \in Boundaries', c # N + 1 PROVE c \in Boundaries
    <3>1. c \in 1..(N + 1) /\ phase'[c] \in {"START", "END"}
      BY <1>3 DEF Boundaries
    <3>2. c \in 1..N
      BY <1>1, <2>1, <3>1
    <3> QED
      BY <1>2, <1>3, <3>1, <3>2 DEF Boundaries
  <2> QED
    BY <1>3, <2>1 DEF Boundaries
<1>6. PICK k \in 0..Cardinality(kept \ Boundaries) :
          kept' = (kept \ OldestUpdates(k)) \cup {N + 1}
  BY <1>2 DEF Journaled
<1>7. OldestUpdates(k) \subseteq kept \ Boundaries
  BY DEF OldestUpdates
<1>8. Boundaries \subseteq kept /\ kept \in SUBSET (1..N)
  BY DEF StreamInv, JournalKept, Journal
<1>9. kept' \in SUBSET (1..(N + 1)) /\ N + 1 \in kept' /\ Boundaries' \subseteq kept'
  <2>1. N + 1 \in kept'
    BY <1>6
  <2>2. 1..N \subseteq 1..(N + 1) /\ N + 1 \in 1..(N + 1)
    BY <1>1
  <2>3. kept' \in SUBSET (1..(N + 1))
    BY <1>6, <1>8, <2>2
  <2>4. Boundaries \subseteq kept'
    BY <1>6, <1>7, <1>8
  <2> QED
    BY <1>5, <2>1, <2>3, <2>4
<1>10. JournalKept'
  BY <1>1, <1>2, <1>9 DEF JournalKept, Journal
<1>11. open' \in BOOLEAN
  BY DEF Journaled
<1> QED
  BY <1>2, <1>4, <1>5, <1>10, <1>11

\* It goes to the end of the pipe, or to some place in it that is not looked at
\* any more.
LEMMA PipeNew ==
    ASSUME StreamInv, NEW p \in {"START", "UPDATE", "END"}, Journaled(p),
           UNCHANGED acked, daemon'.cursor = daemon.cursor,
           conn'.subscribed = conn.subscribed, overtaken' \in BOOLEAN,
           overtaken => overtaken',
           conn.subscribed =>
               /\ Range(Pipe') = Range(Pipe) \cup {Event(Len(phase) + 1)}
               /\ Pipe' = Pipe \o <<Event(Len(phase) + 1)>> \/ overtaken',
           ~conn.subscribed => Pipe' = Pipe
    PROVE  Covered' /\ InOrder'
<1> DEFINE N == Len(phase)
           d == daemon.cursor
<1>1. /\ Len(phase') = N + 1 /\ N \in Nat /\ Pipe \in Seq(Messages(N))
      /\ Boundaries' \in SUBSET (Boundaries \cup {N + 1})
  <2>1. Len(phase') = N + 1 /\ Boundaries' \in SUBSET (Boundaries \cup {N + 1})
    BY JournaledKept
  <2>2. StreamTypes
    BY DEF StreamInv
  <2> QED
    BY <2>1, <2>2, PipeMessages
<1>2. conn.subscribed \in BOOLEAN /\ overtaken \in BOOLEAN
  BY PipeMessages DEF StreamInv, StreamTypes
<1>3. conn.subscribed => Covers(Pipe, acked, d, N, Boundaries)
  BY DEF StreamInv, Covered
<1>4. ASSUME conn.subscribed PROVE Covers(Pipe', acked, d, N + 1, Boundaries')
  <2> SUFFICES ASSUME NEW c \in 1..(N + 1), c \in Boundaries' \/ Gap \notin Range(Pipe')
               PROVE  c <= acked \/ c = d \/ Event(c) \in Range(Pipe')
    BY DEF Covers
  <2>1. Range(Pipe') = Range(Pipe) \cup {Event(N + 1)}
    BY <1>4
  <2>2. CASE c = N + 1
    BY <2>1, <2>2
  <2>3. CASE c # N + 1
    <3>1. c \in 1..N /\ (c \in Boundaries \/ Gap \notin Range(Pipe))
      BY <1>1, <2>1, <2>3
    <3>2. c <= acked \/ c = d \/ Event(c) \in Range(Pipe)
      BY <1>3, <1>4, <3>1 DEF Covers
    <3> QED
      BY <2>1, <3>2
  <2> QED
    BY <2>2, <2>3
<1>5. Covered'
  BY <1>1, <1>4 DEF Covered
<1>6. ASSUME ~overtaken' PROVE d <= acked + 1 /\ Ordered(Pipe', acked, d)
  <2>1. d <= acked + 1 /\ Ordered(Pipe, acked, d)
    BY <1>2, <1>6 DEF StreamInv, InOrder
  <2>2. CASE conn.subscribed
    <3>1. Pipe' = Pipe \o <<Event(N + 1)>>
      BY <1>6, <2>2
    <3>2. Covers(Pipe, acked, d, N, Boundaries)
      BY <1>3, <2>2
    <3>3. Ordered(Pipe \o <<Event(N + 1)>>, acked, d)
      BY <1>1, <2>1, <3>2, OrderedAppend
    <3> QED
      BY <2>1, <3>1, <3>3
  <2>3. CASE ~conn.subscribed
    BY <2>1, <2>3
  <2> QED
    BY <2>2, <2>3
<1>7. InOrder'
  BY <1>6 DEF InOrder
<1> QED
  BY <1>5, <1>7

\* What else a new event leaves as it was.
LEMMA EngineNews ==
    ASSUME StreamInv, NEW p \in {"START", "UPDATE", "END"}, Journaled(p),
           UNCHANGED <<daemon, stored, acked>>,
           hand' \in 0..(Len(phase) + 1), loop' \in {"run", "deinit", "drain", "down"},
           queue' \in Seq(1..Len(phase)), conn' \in Conns(Len(phase) + 1, acked),
           faults' \in 0..MaxFaults, overtaken' \in BOOLEAN, overtaken => overtaken',
           Covered', InOrder'
    PROVE  StreamInv'
<1> DEFINE N == Len(phase)
<1>1. /\ phase' \in Seq({"START", "UPDATE", "END"})
      /\ Len(phase') = N + 1 /\ Len(phase') <= MaxCursor
      /\ open' \in BOOLEAN
      /\ Boundaries' \in SUBSET (Boundaries \cup {N + 1})
      /\ Boundaries \subseteq 1..N
      /\ JournalKept'
  BY JournaledKept
<1>2. N \in Nat
  BY PipeMessages DEF StreamInv
<1>3. queue' \in Seq(1..(N + 1))
  <2>1. 1..N \subseteq 1..(N + 1)
    BY <1>2
  <2> QED
    BY <2>1, SeqMonotonic
<1>4. /\ daemon \in [pc : {"off", "wait", "live", "store", "ack", "stopped"}, cursor : 0..N]
      /\ stored \in SUBSET (1..N) /\ acked \in 0..N
  BY DEF StreamInv, StreamTypes
<1>5. /\ daemon \in [pc : {"off", "wait", "live", "store", "ack", "stopped"}, cursor : 0..(N + 1)]
      /\ stored \in SUBSET (1..(N + 1)) /\ acked \in 0..(N + 1)
  BY <1>2, <1>4
<1>6. StreamTypes'
  BY <1>1, <1>3, <1>5 DEF StreamTypes
<1>7. AtHand'
  <2>1. daemon.cursor # N + 1
    BY <1>2, <1>4
  <2> QED
    BY <1>1, <2>1 DEF StreamInv, AtHand
<1>8. AckCoversStored'
  <2>1. ~(N + 1 <= acked)
    BY <1>2, <1>4
  <2> QED
    BY <1>1, <2>1 DEF StreamInv, AckCoversStored
<1> QED
  BY <1>1, <1>6, <1>7, <1>8 DEF StreamInv

-----------------------------------------------------------------------------
(* The steps of the engine *)

\* One more fault.
LEMMA Faulty ==
    ASSUME StreamTypes, Fault
    PROVE  faults' \in 0..MaxFaults
<1>1. faults \in 0..MaxFaults /\ MaxFaults \in Nat
  BY StreamAssumption DEF StreamTypes
<1> QED
  BY <1>1 DEF Fault

\* A broadcast goes to the end of the line of a subscriber.
LEMMA BroadcastLine ==
    ASSUME NEW n \in Nat, NEW a \in Nat, conn \in Conns(n, a), NEW h \in 1..n
    PROVE  /\ Broadcast(h) \in Conns(n, a)
           /\ Broadcast(h).subscribed = conn.subscribed
           /\ conn.subscribed => Line(Broadcast(h)) = Line(conn) \o <<Event(h)>>
           /\ ~conn.subscribed => Line(Broadcast(h)) = Line(conn)
<1>1. <<Event(h)>> \in Seq(Messages(n))
  BY OneEvent
<1>2. conn.subscribed \in BOOLEAN
  BY DEF Conns
<1>3. CASE conn.subscribed
  <2>1. Broadcast(h) = Sent(conn, <<Event(h)>>)
    BY <1>3 DEF Broadcast
  <2> QED
    BY <1>1, <1>3, <2>1, SentLine
<1>4. CASE ~conn.subscribed
  <2>1. Broadcast(h) = conn
    BY <1>4 DEF Broadcast
  <2> QED
    BY <1>4, <2>1
<1> QED
  BY <1>2, <1>3, <1>4

\* Flushing moves messages along the line.
LEMMA FlushStep ==
    ASSUME StreamInv, Flush
    PROVE  StreamInv'
<1> DEFINE N == Len(phase)
           c == [conn EXCEPT !.out = <<>>]
           s == Sent(c, conn.out)
<1>1. StreamTypes
  BY DEF StreamInv
<1>2. N \in Nat /\ acked \in Nat /\ conn \in Conns(N, acked)
  BY <1>1, PipeMessages
<1>3. conn.out \in Seq(Messages(N)) /\ conn.wire \in Seq(Messages(N))
  BY <1>2, LineMessages
<1>4. c \in Conns(N, acked) /\ Line(c) = conn.wire \o <<>> /\ c.subscribed = conn.subscribed
      /\ c.requests = conn.requests
  <2>1. <<>> \in Seq(Messages(N))
    BY EmptySeq
  <2> QED
    BY <1>2, <2>1 DEF Conns, Line
<1> HIDE DEF c
<1>5. /\ s \in Conns(N, acked) /\ Line(s) = Line(c) \o conn.out
      /\ s.subscribed = c.subscribed /\ s.requests = c.requests
  BY <1>2, <1>3, <1>4, SentLine
<1>6. conn' = [s EXCEPT !.requests = conn.requests]
  BY DEF Flush, c
<1> HIDE DEF s
<1>7. conn' \in Conns(N, acked) /\ Line(conn') = Line(s) /\ conn'.subscribed = conn.subscribed
  BY <1>2, <1>4, <1>5, <1>6 DEF Conns, Line
<1>8. Line(conn') = Line(conn)
  <2>1. Join(N)
    BY Joined
  <2>2. \A x \in Seq(Messages(N)) : x \o <<>> = x
    BY <2>1 DEF Join
  <2>3. conn.wire \o <<>> = conn.wire
    BY <1>3, <2>2
  <2> QED
    BY <1>4, <1>5, <1>7, <2>3 DEF Line
<1>9. UNCHANGED <<phase, kept, open, hand, loop, queue, daemon, stored, acked, faults, overtaken>>
  BY DEF Flush, engineVars, daemonVars
<1>10. Pipe' = Pipe
  BY <1>7, <1>8, <1>9 DEF Pipe
<1>11. Covered' /\ InOrder'
  BY <1>1, <1>7, <1>9, <1>10, PipeKept DEF StreamTypes
<1> QED
  BY <1>1, <1>7, <1>9, <1>11, EngineQuiet DEF StreamTypes

\* A delivery goes from the queue to the line.
LEMMA DispatchStep ==
    ASSUME StreamInv, Dispatch
    PROVE  StreamInv'
<1> DEFINE N == Len(phase)
           h == Head(queue)
           t == Tail(queue)
<1>1. StreamTypes
  BY DEF StreamInv
<1>2. N \in Nat /\ acked \in Nat /\ conn \in Conns(N, acked) /\ conn.subscribed \in BOOLEAN
      /\ Line(conn) \in Seq(Messages(N))
  BY <1>1, PipeMessages
<1>3. queue \in Seq(1..N) /\ queue # <<>> /\ hand \in 0..N
  BY <1>1 DEF StreamTypes, Dispatch
<1>4. h \in 1..N /\ t \in Seq(1..N) /\ Feed(TRUE, queue, hand) = <<Event(h)>> \o Feed(TRUE, t, hand)
  BY <1>2, <1>3, FeedHead
<1>5. conn' = Broadcast(h) /\ queue' = t
      /\ UNCHANGED <<phase, kept, open, hand, loop, daemon, stored, acked, faults, overtaken>>
  BY DEF Dispatch, daemonVars
<1> HIDE DEF N, h, t
<1>6. /\ Broadcast(h) \in Conns(N, acked)
      /\ Broadcast(h).subscribed = conn.subscribed
      /\ conn.subscribed => Line(Broadcast(h)) = Line(conn) \o <<Event(h)>>
      /\ ~conn.subscribed => Line(Broadcast(h)) = Line(conn)
  BY <1>2, <1>4, BroadcastLine
<1>7. Pipe' = Pipe
  <2>1. CASE conn.subscribed = TRUE
    <3>1. Pipe = Line(conn) \o Feed(TRUE, queue, hand)
      BY <2>1 DEF Pipe
    <3>2. Pipe' = (Line(conn) \o <<Event(h)>>) \o Feed(TRUE, t, hand)
      BY <1>5, <1>6, <2>1 DEF Pipe
    <3>3. <<Event(h)>> \in Seq(Messages(N)) /\ Feed(TRUE, t, hand) \in Seq(Messages(N))
      BY <1>2, <1>3, <1>4, OneEvent, FeedMessages
    <3>4. Join(N)
      BY Joined
    <3>5. \A x, y, z \in Seq(Messages(N)) : (x \o y) \o z = x \o (y \o z)
      BY <3>4 DEF Join
    <3> DEFINE l == Line(conn)
               e == <<Event(h)>>
               f == Feed(TRUE, t, hand)
    <3>6. l \in Seq(Messages(N)) /\ e \in Seq(Messages(N)) /\ f \in Seq(Messages(N))
      BY <1>2, <3>3
    <3> HIDE DEF l, e, f
    <3>7. (l \o e) \o f = l \o (e \o f)
      BY <3>5, <3>6
    <3> QED
      BY <1>4, <3>1, <3>2, <3>7 DEF l, e, f
  <2>2. CASE conn.subscribed = FALSE
    <3>1. Feed(conn.subscribed, queue, hand) = <<>> /\ Feed(conn'.subscribed, queue', hand') = <<>>
      BY <1>5, <1>6, <2>2 DEF Feed
    <3> QED
      BY <1>5, <1>6, <2>2, <3>1 DEF Pipe
  <2> QED
    BY <1>2, <2>1, <2>2
<1>8. Covered' /\ InOrder'
  BY <1>1, <1>5, <1>6, <1>7, PipeKept DEF StreamTypes
<1> QED
  BY <1>1, <1>4, <1>5, <1>6, <1>8, EngineQuiet DEF StreamTypes, N

\* The event in hand is queued, or delivered on the spot: before what is queued.
LEMMA InvokeStep ==
    ASSUME StreamInv, Invoke
    PROVE  StreamInv'
<1> DEFINE N == Len(phase)
<1>1. StreamTypes
  BY DEF StreamInv
<1>2. N \in Nat /\ acked \in Nat /\ conn \in Conns(N, acked) /\ conn.subscribed \in BOOLEAN
      /\ Line(conn) \in Seq(Messages(N))
  BY <1>1, PipeMessages
<1>3. queue \in Seq(1..N) /\ hand \in 1..N /\ 0 \in 0..N
  BY <1>1, <1>2 DEF StreamTypes, Invoke
<1>4. hand' = 0 /\ UNCHANGED <<phase, kept, open, loop, daemon, stored, acked, faults>>
  BY DEF Invoke, daemonVars
<1>5. CASE queue' = Append(queue, hand) /\ UNCHANGED <<conn, overtaken>>
  <2>1. queue' \in Seq(1..N)
    BY <1>3, <1>5, AppendProperties
  <2>2. Feed(conn.subscribed, Append(queue, hand), 0) = Feed(conn.subscribed, queue, hand)
    BY <1>2, <1>3, FeedQueued
  <2>3. Pipe' = Pipe
    BY <1>4, <1>5, <2>2 DEF Pipe
  <2>4. Covered' /\ InOrder'
    BY <1>1, <1>4, <1>5, <2>3, PipeKept DEF StreamTypes
  <2> QED
    BY <1>1, <1>2, <1>3, <1>4, <1>5, <2>1, <2>4, EngineQuiet DEF StreamTypes
<1>6. CASE conn' = Broadcast(hand) /\ overtaken' = (overtaken \/ queue # <<>>) /\ UNCHANGED queue
  <2>1. /\ conn' \in Conns(N, acked)
        /\ conn'.subscribed = conn.subscribed
        /\ conn.subscribed => Line(conn') = Line(conn) \o <<Event(hand)>>
        /\ ~conn.subscribed => Line(conn') = Line(conn)
    BY <1>2, <1>3, <1>6, BroadcastLine
  <2>2. overtaken' \in BOOLEAN /\ (overtaken => overtaken')
    BY <1>6
  <2>3. CASE conn.subscribed = FALSE
    <3>1. Feed(conn.subscribed, queue, hand) = <<>> /\ Feed(conn'.subscribed, queue', hand') = <<>>
      BY <2>1, <2>3 DEF Feed
    <3>2. Pipe' = Pipe
      BY <2>1, <2>3, <3>1 DEF Pipe
    <3>3. Covered' /\ InOrder'
      BY <1>4, <2>1, <2>2, <3>2, PipeKept
    <3> QED
      BY <1>1, <1>3, <1>4, <1>6, <2>1, <2>2, <3>3, EngineQuiet DEF StreamTypes
  <2>4. CASE conn.subscribed = TRUE
    <3> DEFINE l == Line(conn)
               e == <<Event(hand)>>
               f == Feed(TRUE, queue, 0)
    <3>1. l \in Seq(Messages(N)) /\ e \in Seq(Messages(N)) /\ f \in Seq(Messages(N))
      BY <1>2, <1>3, OneEvent, FeedMessages
    <3>2. Pipe = l \o (f \o e)
      BY <1>2, <1>3, <2>4, FeedHand DEF Pipe
    <3>3. Pipe' = (l \o e) \o f
      BY <1>4, <1>6, <2>1, <2>4 DEF Pipe
    <3>4. queue = <<>> => f = <<>>
      BY FeedNothing
    <3> HIDE DEF l, e, f
    <3>5. Join(N)
      BY Joined
    <3>6. CASE queue = <<>>
      <4>1. \A x \in Seq(Messages(N)) : x \o <<>> = x /\ <<>> \o x = x
        BY <3>5 DEF Join
      <4>2. l \o e \in Seq(Messages(N))
        BY <3>1, <3>5 DEF Join
      <4>3. Pipe' = l \o e
        BY <3>3, <3>4, <3>6, <4>1, <4>2
      <4>4. Pipe = l \o e
        BY <3>1, <3>2, <3>4, <3>6, <4>1
      <4>5. Covered' /\ InOrder'
        BY <1>4, <2>1, <2>2, <4>3, <4>4, PipeKept
      <4> QED
        BY <1>1, <1>3, <1>4, <1>6, <2>1, <2>2, <4>5, EngineQuiet DEF StreamTypes
    <3>7. CASE queue # <<>>
      <4>1. \A x, y \in Seq(Messages(N)) : Range(x \o y) = Range(x) \cup Range(y)
        BY <3>5 DEF Join
      <4>2. l \o e \in Seq(Messages(N)) /\ f \o e \in Seq(Messages(N))
        BY <3>1, <3>5 DEF Join
      <4>3. Range(Pipe) = Range(l) \cup Range(f \o e) /\ Range(f \o e) = Range(f) \cup Range(e)
        BY <3>1, <3>2, <4>1, <4>2
      <4>4. Range(Pipe') = Range(l \o e) \cup Range(f) /\ Range(l \o e) = Range(l) \cup Range(e)
        BY <3>1, <3>3, <4>1, <4>2
      <4>5. Range(Pipe') = Range(Pipe)
        BY <4>3, <4>4
      <4>6. overtaken'
        BY <1>6, <3>7
      <4>7. Covered' /\ InOrder'
        BY <1>4, <2>1, <4>5, <4>6, PipeMixed
      <4> QED
        BY <1>1, <1>3, <1>4, <1>6, <2>1, <2>2, <4>7, EngineQuiet DEF StreamTypes
    <3> QED
      BY <3>6, <3>7
  <2> QED
    BY <1>2, <2>3, <2>4
<1> QED
  BY <1>5, <1>6 DEF Invoke

\* A request is answered: with a replay, with an error, or with nothing.
LEMMA HandleStep ==
    ASSUME StreamInv, Handle
    PROVE  StreamInv'
<1> DEFINE N == Len(phase)
           rest == [conn EXCEPT !.requests = Tail(@)]
           request == Head(conn.requests)
<1>1. StreamTypes
  BY DEF StreamInv
<1>2. N \in Nat /\ acked \in Nat /\ conn \in Conns(N, acked)
  BY <1>1, PipeMessages
<1>3. request \in Requests(acked) /\ Tail(conn.requests) \in Seq(Requests(acked))
  <2>1. conn.requests \in Seq(Requests(acked)) /\ conn.requests # <<>>
    BY <1>2 DEF Conns, Handle
  <2> QED
    BY <2>1, HeadTailProperties
<1>4. rest \in Conns(N, acked) /\ Line(rest) = Line(conn) /\ rest.subscribed = conn.subscribed
  BY <1>2, <1>3 DEF Conns, Line
<1>5. UNCHANGED <<phase, kept, open, hand, loop, queue, daemon, stored, acked, faults, overtaken>>
  BY DEF Handle, engineVars, daemonVars
<1>6. \/ /\ request.type = "subscribe" /\ loop = "run"
         /\ conn' = Sent([rest EXCEPT !.subscribed = TRUE], Replay(request.after))
      \/ conn' = Sent(rest, <<Error>>)
      \/ conn' = rest
  BY DEF Handle, HandleSubscribe, HandleAck
<1> HIDE DEF rest, request
<1>7. CASE conn' = rest
  <2>1. Pipe' = Pipe
    BY <1>4, <1>5, <1>7 DEF Pipe
  <2>2. Covered' /\ InOrder'
    BY <1>1, <1>4, <1>5, <1>7, <2>1, PipeKept DEF StreamTypes
  <2> QED
    BY <1>1, <1>4, <1>5, <1>7, <2>2, EngineQuiet DEF StreamTypes
<1>8. CASE conn' = Sent(rest, <<Error>>)
  <2>1. <<Error>> \in Seq(Messages(N))
    <3>1. Error \in Messages(N)
      BY DEF Messages
    <3> QED
      BY <3>1
  <2>2. conn' \in Conns(N, acked) /\ Line(conn') = Line(conn) \o <<Error>>
        /\ conn'.subscribed = conn.subscribed
    <3> DEFINE s == Sent(rest, <<Error>>)
    <3>1. s \in Conns(N, acked) /\ Line(s) = Line(rest) \o <<Error>> /\ s.subscribed = rest.subscribed
      BY <1>2, <1>4, <2>1, SentLine
    <3> HIDE DEF s
    <3>2. conn' = s
      BY <1>8 DEF s
    <3> QED
      BY <1>4, <3>1, <3>2
  <2>3. Error \in {Error, OtherEvent}
    OBVIOUS
  <2>4. Covered' /\ InOrder'
    BY <1>5, <2>2, <2>3, PipeInsert
  <2> QED
    BY <1>1, <1>5, <2>2, <2>4, EngineQuiet DEF StreamTypes
<1>9. CASE /\ request.type = "subscribe"
           /\ conn' = Sent([rest EXCEPT !.subscribed = TRUE], Replay(request.after))
  <2> DEFINE c == [rest EXCEPT !.subscribed = TRUE]
             after == request.after
  <2>1. after \in 0..acked
    BY <1>3, <1>9 DEF Requests
  <2>2. c \in Conns(N, acked) /\ Line(c) = Line(rest) /\ c.subscribed = TRUE
    BY <1>4 DEF Conns, Line
  <2>3. Replay(after) \in Seq(Messages(N))
    <3>1. Journal(N) /\ after \in 0..N
      BY <1>1, <1>2, <2>1 DEF StreamInv, StreamTypes, JournalKept
    <3> HIDE DEF after, N
    <3> QED
      BY <3>1, ReplayMessages
  <2>4. conn' = Sent(c, Replay(after))
    BY <1>9
  <2> HIDE DEF c, after
  <2>5. conn' \in Conns(N, acked) /\ Line(conn') = Line(conn) \o Replay(after)
        /\ conn'.subscribed = TRUE
    <3> DEFINE s == Sent(c, Replay(after))
    <3>1. s \in Conns(N, acked) /\ Line(s) = Line(c) \o Replay(after) /\ s.subscribed = c.subscribed
      BY <1>2, <2>2, <2>3, SentLine
    <3> HIDE DEF s
    <3>2. conn' = s
      BY <2>4 DEF s
    <3> QED
      BY <1>4, <2>2, <3>1, <3>2
  <2>6. Covered' /\ InOrder'
    BY <1>5, <2>1, <2>5, PipeSubscribe
  <2> QED
    BY <1>1, <1>5, <2>5, <2>6, EngineQuiet DEF StreamTypes
<1> QED
  BY <1>6, <1>7, <1>8, <1>9

\* An event of another kind goes into the line.
LEMMA BroadcastOtherStep ==
    ASSUME StreamInv, BroadcastOther
    PROVE  StreamInv'
<1> DEFINE N == Len(phase)
<1>1. StreamTypes
  BY DEF StreamInv
<1>2. N \in Nat /\ acked \in Nat /\ conn \in Conns(N, acked)
  BY <1>1, PipeMessages
<1>3. UNCHANGED <<phase, kept, open, hand, loop, queue, daemon, stored, acked, overtaken>>
  BY DEF BroadcastOther, engineVars, daemonVars
<1>4. <<OtherEvent>> \in Seq(Messages(N))
  <2>1. OtherEvent \in Messages(N)
    BY DEF Messages
  <2> QED
    BY <2>1
<1>5. conn' \in Conns(N, acked) /\ Line(conn') = Line(conn) \o <<OtherEvent>>
      /\ conn'.subscribed = conn.subscribed
  <2>1. conn' = Sent(conn, <<OtherEvent>>)
    BY DEF BroadcastOther
  <2> QED
    BY <1>2, <1>4, <2>1, SentLine
<1>6. OtherEvent \in {Error, OtherEvent}
  OBVIOUS
<1>7. Covered' /\ InOrder'
  BY <1>3, <1>5, <1>6, PipeInsert
<1>8. faults' \in 0..MaxFaults
  BY <1>1, Faulty DEF BroadcastOther
<1> QED
  BY <1>1, <1>3, <1>5, <1>7, <1>8, EngineQuiet DEF StreamTypes

\* The main loop ends, or the engine is started: the pipe is not touched.
LEMMA LoopStep ==
    ASSUME StreamInv, Shutdown \/ Boot
    PROVE  StreamInv'
<1>1. StreamTypes
  BY DEF StreamInv
<1>2. UNCHANGED <<phase, kept, open, hand, queue, conn, daemon, stored, acked, overtaken>>
      /\ loop' \in {"run", "deinit"}
  BY DEF Shutdown, Boot, daemonVars
<1>3. Pipe' = Pipe
  BY <1>2 DEF Pipe
<1>4. Covered' /\ InOrder'
  BY <1>1, <1>2, <1>3, PipeKept DEF StreamTypes
<1>5. faults' \in 0..MaxFaults
  BY <1>1, Faulty DEF Shutdown, Boot, StreamTypes
<1> QED
  BY <1>1, <1>2, <1>4, <1>5, EngineQuiet DEF StreamTypes

\* The engine exits or dies: the connection is cut.
LEMMA DownStep ==
    ASSUME StreamInv, Exit \/ EngineCrash
    PROVE  StreamInv'
<1>1. StreamTypes
  BY DEF StreamInv
<1>2. UNCHANGED <<phase, kept, daemon, stored, acked, overtaken>> /\ conn' = Cut(conn)
      /\ loop' = "down"
  BY DEF Exit, EngineCrash, daemonVars
<1>3. Covered' /\ InOrder' /\ conn' \in Conns(Len(phase), acked)
  BY <1>2, PipeCut
<1>4. faults' \in 0..MaxFaults
  BY <1>1, Faulty DEF Exit, EngineCrash, StreamTypes
<1>5. Len(phase) \in Nat
  BY <1>1, PipeMessages
<1>6. open' \in BOOLEAN /\ hand' \in 0..Len(phase) /\ queue' \in Seq(1..Len(phase))
  <2>1. <<>> \in Seq(1..Len(phase))
    BY EmptySeq
  <2>2. CASE Exit
    BY <1>1, <2>2 DEF Exit, StreamTypes
  <2>3. CASE EngineCrash
    <3>1. open' = FALSE /\ hand' = 0 /\ queue' = <<>>
      BY <2>3 DEF EngineCrash
    <3>2. 0 \in 0..Len(phase)
      BY <1>5
    <3> QED
      BY <2>1, <3>1, <3>2
  <2> QED
    BY <2>2, <2>3
<1> QED
  BY <1>1, <1>2, <1>3, <1>4, <1>6, EngineQuiet DEF StreamTypes

\* A new event is journaled and in hand.
LEMMA EmitStep ==
    ASSUME StreamInv, NEW p \in {"START", "UPDATE", "END"}, Emit(p)
    PROVE  StreamInv'
<1> DEFINE N == Len(phase)
           l == Line(conn)
           f == Feed(TRUE, queue, 0)
           e == <<Event(N + 1)>>
<1>1. StreamTypes
  BY DEF StreamInv
<1>2. N \in Nat /\ acked \in Nat /\ conn \in Conns(N, acked) /\ conn.subscribed \in BOOLEAN
      /\ l \in Seq(Messages(N))
  BY <1>1, PipeMessages
<1>3. Journaled(p) /\ hand = 0
      /\ UNCHANGED <<loop, queue, conn, daemon, stored, acked, faults, overtaken>>
  BY DEF Emit, daemonVars
<1>4. hand' = N + 1
  <2>1. Len(phase') = N + 1
    BY <1>3, JournaledKept
  <2> QED
    BY <2>1 DEF Emit
<1>5. queue \in Seq(1..N) /\ queue \in Seq(1..(N + 1))
  <2>1. queue \in Seq(1..N)
    BY <1>1 DEF StreamTypes
  <2>2. 1..N \subseteq 1..(N + 1)
    BY <1>2
  <2> QED
    BY <2>1, <2>2, SeqMonotonic
<1>6. l \in Seq(Messages(N + 1)) /\ f \in Seq(Messages(N + 1)) /\ e \in Seq(Messages(N + 1))
  <2>1. N + 1 \in Nat /\ N <= N + 1 /\ N + 1 \in 1..(N + 1) /\ 0 \in 0..(N + 1)
    BY <1>2
  <2>2. l \in Seq(Messages(N + 1))
    BY <1>2, <2>1, MessagesMore
  <2>3. f \in Seq(Messages(N + 1))
    BY <1>5, <2>1, FeedMessages
  <2>4. e \in Seq(Messages(N + 1))
    BY <2>1, OneEvent
  <2> QED
    BY <2>2, <2>3, <2>4
<1>7. ~conn.subscribed => Pipe' = Pipe
  <2>1. ~conn.subscribed => Feed(conn.subscribed, queue, hand) = <<>>
                            /\ Feed(conn.subscribed, queue, hand') = <<>>
    BY DEF Feed
  <2> QED
    BY <1>3, <2>1 DEF Pipe
<1>8. ASSUME conn.subscribed PROVE Pipe' = Pipe \o e /\ Range(Pipe') = Range(Pipe) \cup {Event(N + 1)}
  <2>1. conn.subscribed = TRUE
    BY <1>2, <1>8
  <2>2. Pipe = l \o f
    BY <1>3, <2>1 DEF Pipe
  <2>3. Pipe' = l \o (f \o e)
    <3>1. N + 1 \in Nat /\ N + 1 \in 1..(N + 1)
      BY <1>2
    <3>2. Feed(TRUE, queue, N + 1) = f \o e
      BY <1>5, <3>1, FeedHand
    <3> QED
      BY <1>3, <1>4, <2>1, <3>2 DEF Pipe
  <2> HIDE DEF l, f
  <2>4. Join(N + 1)
    BY Joined
  <2>5. \A x, y, z \in Seq(Messages(N + 1)) : (x \o y) \o z = x \o (y \o z)
    BY <2>4 DEF Join
  <2> DEFINE k == e
  <2>6. k \in Seq(Messages(N + 1)) /\ l \o f \in Seq(Messages(N + 1))
    BY <1>6, <2>4 DEF Join
  <2>7. Range(e) = {Event(N + 1)}
    <3>1. Range(e) = {e[i] : i \in 1..Len(e)}
      BY <1>6, RangeEquality
    <3>2. Len(e) = 1 /\ e[1] = Event(N + 1)
      OBVIOUS
    <3> QED
      BY <3>1, <3>2
  <2> HIDE DEF e
  <2>8. Pipe' = (l \o f) \o e
    BY <1>6, <2>3, <2>5
  <2>9. Range((l \o f) \o e) = Range(l \o f) \cup Range(e)
    BY <1>6, <2>4, <2>6 DEF Join
  <2> QED
    BY <2>2, <2>7, <2>8, <2>9
<1>9. Covered' /\ InOrder'
  BY <1>1, <1>3, <1>7, <1>8, PipeNew DEF StreamTypes
<1>10. conn' \in Conns(N + 1, acked) /\ hand' \in 0..(N + 1)
  <2>1. N + 1 \in Nat /\ N <= N + 1
    BY <1>2
  <2> QED
    BY <1>2, <1>3, <1>4, <2>1, ConnsMore
<1> QED
  BY <1>1, <1>3, <1>5, <1>9, <1>10, EngineNews DEF StreamTypes

\* The open event is closed and its END delivered on the spot.
LEMMA CloseEngineStep ==
    ASSUME StreamInv, CloseEngine
    PROVE  StreamInv'
<1> DEFINE N == Len(phase)
           l == Line(conn)
           f == Feed(TRUE, queue, 0)
           e == <<Event(N + 1)>>
<1>1. StreamTypes
  BY DEF StreamInv
<1>2. N \in Nat /\ acked \in Nat /\ conn \in Conns(N, acked) /\ conn.subscribed \in BOOLEAN
      /\ l \in Seq(Messages(N))
  BY <1>1, PipeMessages
<1>3. hand = 0 /\ loop' = "drain" /\ UNCHANGED <<hand, queue, daemon, stored, acked, faults>>
  BY DEF CloseEngine, daemonVars
<1>4. CASE open' = FALSE /\ UNCHANGED <<phase, kept, conn, overtaken>>
  <2>1. Pipe' = Pipe
    BY <1>3, <1>4 DEF Pipe
  <2>2. Covered' /\ InOrder'
    BY <1>1, <1>3, <1>4, <2>1, PipeKept DEF StreamTypes
  <2> QED
    BY <1>1, <1>3, <1>4, <2>2, EngineQuiet DEF StreamTypes
<1>5. CASE /\ Journaled("END") /\ conn' = Broadcast(Len(phase'))
           /\ overtaken' = (overtaken \/ queue # <<>>)
  <2>1. conn' = Broadcast(N + 1)
    <3>1. Len(phase') = N + 1
      BY <1>5, JournaledKept
    <3> QED
      BY <1>5, <3>1
  <2>2. N + 1 \in Nat /\ N <= N + 1 /\ N + 1 \in 1..(N + 1) /\ 0 \in 0..(N + 1)
    BY <1>2
  <2>3. conn \in Conns(N + 1, acked)
    BY <1>2, <2>2, ConnsMore
  <2>4. /\ conn' \in Conns(N + 1, acked)
        /\ conn'.subscribed = conn.subscribed
        /\ conn.subscribed => Line(conn') = l \o e
        /\ ~conn.subscribed => Line(conn') = l
    BY <1>2, <2>1, <2>2, <2>3, BroadcastLine
  <2>5. queue \in Seq(1..N) /\ queue \in Seq(1..(N + 1))
    <3>1. queue \in Seq(1..N)
      BY <1>1 DEF StreamTypes
    <3>2. 1..N \subseteq 1..(N + 1)
      BY <1>2
    <3> QED
      BY <3>1, <3>2, SeqMonotonic
  <2>6. l \in Seq(Messages(N + 1)) /\ f \in Seq(Messages(N + 1)) /\ e \in Seq(Messages(N + 1))
    <3>1. l \in Seq(Messages(N + 1))
      BY <1>2, <2>2, MessagesMore
    <3>2. f \in Seq(Messages(N + 1))
      BY <2>2, <2>5, FeedMessages
    <3>3. e \in Seq(Messages(N + 1))
      BY <2>2, OneEvent
    <3> QED
      BY <3>1, <3>2, <3>3
  <2>7. ~conn.subscribed => Pipe' = Pipe
    <3>1. ~conn.subscribed => Feed(conn.subscribed, queue, hand) = <<>>
      BY DEF Feed
    <3> QED
      BY <1>3, <2>4, <3>1 DEF Pipe
  <2>8. ASSUME conn.subscribed
        PROVE  /\ Range(Pipe') = Range(Pipe) \cup {Event(N + 1)}
               /\ Pipe' = Pipe \o e \/ overtaken'
    <3>1. conn.subscribed = TRUE
      BY <1>2, <2>8
    <3>2. Pipe = l \o f /\ Pipe' = (l \o e) \o f
      BY <1>3, <2>4, <3>1 DEF Pipe
    <3>3. queue = <<>> => f = <<>>
      BY FeedNothing
    <3>4. Range(e) = {Event(N + 1)}
      <4>1. Range(e) = {e[i] : i \in 1..Len(e)}
        BY <2>6, RangeEquality
      <4>2. Len(e) = 1 /\ e[1] = Event(N + 1)
        OBVIOUS
      <4> QED
        BY <4>1, <4>2
    <3> HIDE DEF l, f, e
    <3>5. Join(N + 1)
      BY Joined
    <3>6. l \o e \in Seq(Messages(N + 1))
      BY <2>6, <3>5 DEF Join
    <3>7. \A x, y \in Seq(Messages(N + 1)) : Range(x \o y) = Range(x) \cup Range(y)
      BY <3>5 DEF Join
    <3>8. Range(l \o f) = Range(l) \cup Range(f)
      BY <2>6, <3>7
    <3>9. Range((l \o e) \o f) = Range(l \o e) \cup Range(f) /\ Range(l \o e) = Range(l) \cup Range(e)
      BY <2>6, <3>6, <3>7
    <3>10. Range(Pipe') = Range(Pipe) \cup {Event(N + 1)}
      BY <3>2, <3>4, <3>8, <3>9
    <3>11. CASE queue = <<>>
      <4>1. \A x \in Seq(Messages(N + 1)) : x \o <<>> = x
        BY <3>5 DEF Join
      <4>2. l \o <<>> = l /\ (l \o e) \o <<>> = l \o e
        BY <2>6, <3>6, <4>1
      <4> QED
        BY <3>2, <3>3, <3>10, <3>11, <4>2
    <3>12. CASE queue # <<>>
      BY <1>5, <3>10, <3>12
    <3> QED
      BY <3>11, <3>12
  <2>9. overtaken' \in BOOLEAN /\ (overtaken => overtaken')
    BY <1>5
  <2>10. Covered' /\ InOrder'
    BY <1>3, <1>5, <2>4, <2>7, <2>8, <2>9, PipeNew
  <2>11. hand' \in 0..(N + 1)
    BY <1>3, <2>2
  <2> QED
    BY <1>1, <1>3, <1>5, <2>4, <2>5, <2>9, <2>10, <2>11, EngineNews DEF StreamTypes
<1> QED
  BY <1>4, <1>5 DEF CloseEngine

-----------------------------------------------------------------------------
(* The steps of the delivery service *)

\* What the daemon does leaves the engine as it is.
LEMMA DaemonQuiet ==
    ASSUME StreamInv, UNCHANGED <<phase, kept, open, hand, loop, queue, overtaken>>,
           daemon' \in [pc : {"off", "wait", "live", "store", "ack", "stopped"},
                        cursor : 0..Len(phase)],
           stored' \in SUBSET (1..Len(phase)), acked' \in 0..Len(phase),
           conn' \in Conns(Len(phase), acked'), faults' \in 0..MaxFaults,
           AtHand', Covered', InOrder', AckCoversStored'
    PROVE  StreamInv'
<1>1. StreamTypes'
  BY DEF StreamInv, StreamTypes
<1>2. Boundaries' = Boundaries
  BY DEF Boundaries
<1>3. JournalKept'
  BY <1>2 DEF StreamInv, JournalKept, Journal
<1> QED
  BY <1>1, <1>3 DEF StreamInv

\* The subscription ends: what was not acknowledged is forgotten.
LEMMA HangupStep ==
    ASSUME StreamInv, UNCHANGED <<phase, kept, open, hand, loop, queue, overtaken, acked>>,
           NEW pc \in {"off", "stopped"}, Hangup(pc),
           stored' \in SUBSET (1..Len(phase)), stored \subseteq stored',
           faults' \in 0..MaxFaults
    PROVE  StreamInv'
<1> DEFINE N == Len(phase)
<1>1. N \in Nat /\ acked \in Nat /\ acked \in 0..N
  BY PipeMessages DEF StreamInv, StreamTypes
<1>2. daemon' = [pc |-> pc, cursor |-> 0] /\ conn' = NoConn
  BY DEF Hangup, Idle
<1>3. daemon' \in [pc : {"off", "wait", "live", "store", "ack", "stopped"}, cursor : 0..N]
      /\ daemon'.cursor = 0 /\ daemon'.pc \in {"off", "stopped"}
  BY <1>1, <1>2
<1>4. conn' \in Conns(N, acked) /\ conn'.subscribed = FALSE /\ Line(conn') = <<>>
  <2>1. NoConn.subscribed = FALSE
    BY DEF NoConn
  <2> QED
    BY <1>2, <2>1, NoConnConn
<1>5. Covered' /\ InOrder'
  BY <1>1, <1>3, <1>4, PipeGone
<1>6. AtHand'
  BY <1>3 DEF AtHand
<1>7. AckCoversStored'
  <2>1. Boundaries' = Boundaries
    BY DEF Boundaries
  <2> QED
    BY <2>1 DEF StreamInv, AckCoversStored
<1> QED
  BY <1>1, <1>3, <1>4, <1>5, <1>6, <1>7, DaemonQuiet

\* Where a daemon ends its subscription.
LEMMA EndStep ==
    ASSUME StreamInv, EndOfStream \/ StoreFails \/ StoreRefused \/ DaemonCrash
    PROVE  StreamInv'
<1>1. StreamTypes
  BY DEF StreamInv
<1>2. UNCHANGED <<phase, kept, open, hand, loop, queue, overtaken, acked>>
  BY DEF EndOfStream, StoreFails, StoreRefused, DaemonCrash, engineVars
<1>3. faults' \in 0..MaxFaults
  BY <1>1, Faulty DEF EndOfStream, StoreFails, StoreRefused, DaemonCrash, StreamTypes
<1>4. \E pc \in {"off", "stopped"} : Hangup(pc)
  BY DEF EndOfStream, StoreFails, StoreRefused, DaemonCrash
<1>5. stored' \in SUBSET (1..Len(phase)) /\ stored \subseteq stored'
  <2>1. stored \in SUBSET (1..Len(phase))
    BY <1>1 DEF StreamTypes
  <2>2. CASE StoreFails
    <3>1. daemon.cursor # 0
      BY <2>2 DEF StoreFails, StreamInv, AtHand
    <3>2. daemon.cursor \in 1..Len(phase)
      BY <1>1, <3>1 DEF StreamTypes
    <3> QED
      BY <2>1, <2>2, <3>2 DEF StoreFails
  <2>3. CASE UNCHANGED stored
    BY <2>1, <2>3
  <2> QED
    BY <2>2, <2>3 DEF EndOfStream, StoreRefused, DaemonCrash
<1> QED
  BY <1>2, <1>3, <1>4, <1>5, HangupStep

\* The daemon connects and asks for what follows its acknowledgement.
LEMMA DialStep ==
    ASSUME StreamInv, Dial
    PROVE  StreamInv'
<1> DEFINE N == Len(phase)
           r == [type |-> "subscribe", after |-> acked]
<1>1. StreamTypes
  BY DEF StreamInv
<1>2. N \in Nat /\ acked \in Nat /\ acked \in 0..N
  BY <1>1, PipeMessages DEF StreamTypes
<1>3. UNCHANGED <<phase, kept, open, hand, loop, queue, overtaken, acked, stored, faults>>
  BY DEF Dial, engineVars
<1>4. daemon' = [pc |-> "wait", cursor |-> 0]
  BY DEF Dial, Idle
<1>5. daemon' \in [pc : {"off", "wait", "live", "store", "ack", "stopped"}, cursor : 0..N]
      /\ daemon'.cursor = 0 /\ daemon'.pc = "wait"
  BY <1>2, <1>4
<1>6. conn' = [served |-> TRUE, subscribed |-> FALSE, requests |-> <<r>>, out |-> <<>>, wire |-> <<>>]
  BY DEF Dial, NoConn
<1>7. conn' \in Conns(N, acked) /\ conn'.subscribed = FALSE /\ Line(conn') = <<>>
  <2>1. r \in Requests(acked)
    BY <1>2 DEF Requests
  <2>2. <<r>> \in Seq(Requests(acked))
    BY <2>1
  <2>3. <<>> \in Seq(Messages(N)) /\ Len(<<>>) = 0 /\ <<>> \o <<>> = <<>>
    BY EmptySeq
  <2>4. 0 <= SocketSize
    BY StreamAssumption
  <2>5. Line(conn') = <<>> \o <<>>
    BY <1>6 DEF Line
  <2> HIDE DEF r
  <2> QED
    BY <1>6, <2>2, <2>3, <2>4, <2>5 DEF Conns
<1>8. Covered' /\ InOrder'
  BY <1>2, <1>3, <1>5, <1>7, PipeGone
<1>9. AtHand'
  BY <1>5 DEF AtHand
<1>10. AckCoversStored'
  BY <1>3 DEF StreamInv, AckCoversStored, Boundaries
<1> QED
  BY <1>1, <1>2, <1>3, <1>5, <1>7, <1>8, <1>9, <1>10, DaemonQuiet DEF StreamTypes

\* The event at hand is stored, or dropped when it is an UPDATE.
LEMMA StoreStep ==
    ASSUME StreamInv, Store
    PROVE  StreamInv'
<1> DEFINE N == Len(phase)
<1>1. StreamTypes
  BY DEF StreamInv
<1>2. UNCHANGED <<phase, kept, open, hand, loop, queue, conn, overtaken, acked, faults>>
  BY DEF Store, engineVars
<1>3. daemon' = [daemon EXCEPT !.pc = "ack"]
  BY DEF Store
<1>4. /\ daemon' \in [pc : {"off", "wait", "live", "store", "ack", "stopped"}, cursor : 0..N]
      /\ daemon'.cursor = daemon.cursor /\ daemon'.pc = "ack"
  BY <1>1, <1>3 DEF StreamTypes
<1>5. stored \subseteq stored' /\ (daemon.cursor \in Boundaries => daemon.cursor \in stored')
  BY DEF Store
<1>6. stored' \in SUBSET (1..N)
  <2>1. daemon.cursor \in 1..N
    <3>1. daemon.cursor # 0
      BY DEF Store, StreamInv, AtHand
    <3> QED
      BY <1>1, <3>1 DEF StreamTypes
  <2> QED
    BY <1>1, <2>1 DEF Store, StreamTypes
<1>7. Boundaries' = Boundaries
  BY <1>2 DEF Boundaries
<1>8. AtHand'
  <2>1. daemon.cursor # 0
    BY DEF Store, StreamInv, AtHand
  <2> QED
    BY <1>4, <1>5, <1>7, <2>1 DEF AtHand
<1>9. AckCoversStored'
  BY <1>2, <1>5, <1>7 DEF StreamInv, AckCoversStored
<1>10. Pipe' = Pipe
  BY <1>2 DEF Pipe
<1>11. Covered' /\ InOrder'
  BY <1>1, <1>2, <1>4, <1>10, PipeKept DEF StreamTypes
<1> QED
  BY <1>1, <1>2, <1>4, <1>6, <1>8, <1>9, <1>11, DaemonQuiet DEF StreamTypes

\* Taking the first message off a line.
LEMMA TailLine ==
    ASSUME NEW n, NEW x \in Seq(Messages(n)), x # <<>>, NEW y \in Seq(Messages(n))
    PROVE  /\ x \o y \in Seq(Messages(n)) /\ x \o y # <<>>
           /\ (x \o y)[1] = Head(x)
           /\ Tail(x \o y) = Tail(x) \o y
           /\ Tail(x) \in Seq(Messages(n))
<1> DEFINE M == Messages(n)
           z == x \o y
           t == Tail(x)
           u == t \o y
<1>1. x \in Seq(M) /\ y \in Seq(M)
  OBVIOUS
<1> HIDE DEF M
<1>2. Len(x) \in Nat \ {0} /\ Len(y) \in Nat /\ Head(x) = x[1]
  BY <1>1, EmptySeq, LenProperties
<1>3. t \in Seq(M) /\ Len(t) = Len(x) - 1 /\ \A i \in 1..Len(t) : t[i] = x[i + 1]
  BY <1>1, HeadTailProperties
<1> HIDE DEF t
<1>4. z \in Seq(M) /\ Len(z) = Len(x) + Len(y)
      /\ \A i \in 1..(Len(x) + Len(y)) : z[i] = IF i <= Len(x) THEN x[i] ELSE y[i - Len(x)]
  BY <1>1, ConcatProperties
<1>5. u \in Seq(M) /\ Len(u) = Len(t) + Len(y)
      /\ \A i \in 1..(Len(t) + Len(y)) : u[i] = IF i <= Len(t) THEN t[i] ELSE y[i - Len(t)]
  BY <1>1, <1>3, ConcatProperties
<1> HIDE DEF z, u
<1>6. z # <<>> /\ z[1] = Head(x)
  <2>1. Len(<<>>) = 0
    OBVIOUS
  <2> QED
    BY <1>2, <1>4, <2>1
<1>7. Tail(z) \in Seq(M) /\ Len(Tail(z)) = Len(z) - 1 /\ \A i \in 1..Len(Tail(z)) : Tail(z)[i] = z[i + 1]
  BY <1>4, <1>6, HeadTailProperties
<1>8. ASSUME NEW i \in 1..Len(u) PROVE Tail(z)[i] = u[i]
  <2>1. i \in 1..Len(Tail(z)) /\ i + 1 \in 1..(Len(x) + Len(y)) /\ i \in 1..(Len(t) + Len(y))
    BY <1>2, <1>3, <1>4, <1>5, <1>7
  <2>2. Tail(z)[i] = z[i + 1]
    BY <1>7, <2>1
  <2>3. CASE i <= Len(t)
    <3>1. i + 1 <= Len(x) /\ i \in 1..Len(t)
      BY <1>2, <1>3, <2>1, <2>3
    <3>2. z[i + 1] = x[i + 1]
      BY <1>4, <2>1, <3>1
    <3>3. u[i] = t[i]
      BY <1>5, <2>1, <2>3
    <3> QED
      BY <1>3, <2>2, <3>1, <3>2, <3>3
  <2>4. CASE i > Len(t)
    <3>1. ~(i + 1 <= Len(x)) /\ ~(i <= Len(t)) /\ (i + 1) - Len(x) = i - Len(t)
      BY <1>2, <1>3, <2>1, <2>4
    <3>2. z[i + 1] = y[(i + 1) - Len(x)]
      BY <1>4, <2>1, <3>1
    <3>3. u[i] = y[i - Len(t)]
      BY <1>5, <2>1, <3>1
    <3> QED
      BY <2>2, <3>1, <3>2, <3>3
  <2> QED
    BY <1>2, <1>3, <2>1, <2>3, <2>4
<1>9. Tail(z) = u
  <2>1. Len(Tail(z)) = Len(u)
    BY <1>2, <1>3, <1>4, <1>5, <1>7
  <2> QED
    BY <1>5, <1>7, <1>8, <2>1, SeqEqual
<1> QED
  BY <1>3, <1>4, <1>6, <1>9 DEF M, z, t, u

\* A line holds its first message and the rest.
LEMMA HeadRange ==
    ASSUME NEW n, NEW p \in Seq(Messages(n)), p # <<>>
    PROVE  Range(p) = {p[1]} \cup Range(Tail(p)) /\ p[1] \in Messages(n)
<1> DEFINE t == Tail(p)
<1>1. /\ Len(p) \in Nat \ {0} /\ t \in Seq(Messages(n)) /\ Len(t) = Len(p) - 1
      /\ \A i \in 1..Len(t) : t[i] = p[i + 1]
  BY HeadTailProperties, EmptySeq
<1>2. Range(p) = {p[i] : i \in 1..Len(p)}
  BY RangeEquality
<1> HIDE DEF t
<1>3. Range(t) = {t[i] : i \in 1..Len(t)}
  BY <1>1, RangeEquality
<1>4. ASSUME NEW m \in Range(p) PROVE m \in {p[1]} \cup Range(t)
  <2>1. PICK i \in 1..Len(p) : m = p[i]
    BY <1>2, <1>4
  <2>2. CASE i = 1
    BY <2>1, <2>2
  <2>3. CASE i # 1
    <3>1. i - 1 \in 1..Len(t) /\ (i - 1) + 1 = i
      BY <1>1, <2>3
    <3>2. t[i - 1] = m
      BY <1>1, <2>1, <3>1
    <3> QED
      BY <1>3, <3>1, <3>2
  <2> QED
    BY <2>2, <2>3
<1>5. ASSUME NEW m \in Range(t) PROVE m \in Range(p)
  <2>1. PICK i \in 1..Len(t) : m = t[i]
    BY <1>3, <1>5
  <2>2. i + 1 \in 1..Len(p) /\ m = p[i + 1]
    BY <1>1, <2>1
  <2> QED
    BY <1>2, <2>2
<1>6. 1 \in 1..Len(p)
  BY <1>1
<1>7. p[1] \in Range(p) /\ p[1] \in Messages(n)
  BY <1>2, <1>6, ElementOfSeq
<1> QED
  BY <1>4, <1>5, <1>7 DEF t

\* The daemon reads the first message of the pipe and keeps an event at hand.
LEMMA ReceiveStep ==
    ASSUME StreamInv, Receive
    PROVE  StreamInv'
<1> DEFINE N == Len(phase)
           m == Head(conn.wire)
           rest == [conn EXCEPT !.wire = Tail(@)]
<1>1. StreamTypes
  BY DEF StreamInv
<1>2. N \in Nat /\ acked \in Nat /\ conn \in Conns(N, acked) /\ conn.subscribed \in BOOLEAN
      /\ Pipe \in Seq(Messages(N)) /\ Feed(conn.subscribed, queue, hand) \in Seq(Messages(N))
  BY <1>1, PipeMessages
<1>3. conn.wire \in Seq(Messages(N)) /\ conn.out \in Seq(Messages(N)) /\ conn.wire # <<>>
  BY <1>2, LineMessages DEF Receive
<1>4. UNCHANGED <<phase, kept, open, hand, loop, queue, overtaken, acked, stored, faults>>
  BY DEF Receive, engineVars
<1>5. daemon.cursor = 0
  BY DEF Receive, StreamInv, AtHand
<1>6. Boundaries' = Boundaries
  BY <1>4 DEF Boundaries
<1>7. AckCoversStored'
  BY <1>4, <1>6 DEF StreamInv, AckCoversStored
<1>8. CASE \E pc \in {"off", "stopped"} : Hangup(pc)
  <2>1. stored' \in SUBSET (1..N) /\ stored \subseteq stored' /\ faults' \in 0..MaxFaults
    BY <1>1, <1>4 DEF StreamTypes
  <2> QED
    BY <1>4, <1>8, <2>1, HangupStep
<1>9. m \in Messages(N) /\ Tail(conn.wire) \in Seq(Messages(N)) /\ Len(Tail(conn.wire)) = Len(conn.wire) - 1
  BY <1>3, HeadTailProperties
<1>10. rest \in Conns(N, acked) /\ rest.subscribed = conn.subscribed
       /\ Line(rest) = Tail(conn.wire) \o conn.out
  <2>1. Len(conn.wire) \in Nat /\ Len(conn.wire) <= SocketSize /\ SocketSize \in Nat
    BY <1>2, <1>3, LenProperties, StreamAssumption DEF Conns
  <2>2. Len(Tail(conn.wire)) <= SocketSize
    BY <1>9, <2>1
  <2> QED
    BY <1>2, <1>9, <2>2 DEF Conns, Line
<1>11. conn' = rest => Pipe # <<>> /\ Pipe[1] = m /\ Pipe' = Tail(Pipe)
  <2> DEFINE w == conn.wire
             o == conn.out
             f == Feed(conn.subscribed, queue, hand)
  <2>1. w \in Seq(Messages(N)) /\ w # <<>> /\ o \in Seq(Messages(N)) /\ f \in Seq(Messages(N))
    BY <1>2, <1>3
  <2>2. Pipe = (w \o o) \o f /\ m = Head(w)
    BY DEF Pipe, Line
  <2>3. conn' = rest => Pipe' = (Tail(w) \o o) \o f
    BY <1>4, <1>10 DEF Pipe
  <2> HIDE DEF w, o, f, rest, m
  <2>4. /\ w \o o \in Seq(Messages(N)) /\ w \o o # <<>> /\ (w \o o)[1] = Head(w)
        /\ Tail(w \o o) = Tail(w) \o o
    BY <2>1, TailLine
  <2> DEFINE l == w \o o
  <2> HIDE DEF l
  <2>5. l \in Seq(Messages(N)) /\ l # <<>> /\ l[1] = Head(w) /\ Tail(l) = Tail(w) \o o
    BY <2>4 DEF l
  <2>6. l \o f # <<>> /\ (l \o f)[1] = Head(l) /\ Tail(l \o f) = Tail(l) \o f
    BY <2>1, <2>5, TailLine
  <2>7. Head(l) = l[1]
    BY <2>5
  <2>8. Pipe = l \o f
    BY <2>2 DEF l
  <2> QED
    BY <2>2, <2>3, <2>5, <2>6, <2>7, <2>8
<1>12. ASSUME conn' = rest, m # Gap, NEW d \in 0..N, daemon'.cursor = d,
              m.type = "event" => m = Event(d), m.type # "event" => d = 0
       PROVE  Covered' /\ InOrder'
  <2> DEFINE p == Pipe
  <2>1. p \in Seq(Messages(N)) /\ p # <<>> /\ p[1] = m /\ Pipe' = Tail(p)
    BY <1>2, <1>11, <1>12
  <2>2. Range(p) = {m} \cup Range(Tail(p))
    BY <2>1, HeadRange
  <2>3. ASSUME conn.subscribed PROVE Covers(Tail(p), acked, d, N, Boundaries)
    <3>1. Covers(p, acked, 0, N, Boundaries)
      BY <1>5, <2>3 DEF StreamInv, Covered
    <3> HIDE DEF p
    <3> SUFFICES ASSUME NEW c \in 1..N, c \in Boundaries \/ Gap \notin Range(Tail(p))
                 PROVE  c <= acked \/ c = d \/ Event(c) \in Range(Tail(p))
      BY DEF Covers
    <3>2. c \in Boundaries \/ Gap \notin Range(p)
      BY <1>12, <2>2
    <3>3. c <= acked \/ c = 0 \/ Event(c) \in Range(p)
      BY <3>1, <3>2 DEF Covers
    <3>4. c # 0
      BY <1>2
    <3>5. ASSUME Event(c) = m PROVE c = d
      <4>1. m.type = "event"
        BY <3>5, EventCursor
      <4> QED
        BY <1>12, <3>5, <4>1, EventCursor
    <3> QED
      BY <2>2, <3>3, <3>4, <3>5
  <2>4. Covered'
    BY <1>4, <1>6, <1>10, <1>12, <2>1, <2>3 DEF Covered
  <2>5. ASSUME ~overtaken PROVE d <= acked + 1 /\ Ordered(Tail(p), acked, d)
    <3>1. Ordered(p, acked, 0)
      BY <1>5, <2>5 DEF StreamInv, InOrder
    <3> HIDE DEF p
    <3>2. /\ p[1].type = "event" => p[1].cursor <= acked + 1 /\ Ordered(Tail(p), acked, p[1].cursor)
          /\ p[1].type # "event" /\ p[1] # Gap => Ordered(Tail(p), acked, 0)
      BY <1>2, <2>1, <3>1, OrderedHead
    <3>3. CASE m.type = "event"
      <4>1. p[1].cursor = d
        BY <1>12, <2>1, <3>3, EventCursor
      <4> QED
        BY <2>1, <3>2, <3>3, <4>1
    <3>4. CASE m.type # "event"
      <4>1. d = 0 /\ Ordered(Tail(p), acked, 0)
        BY <1>12, <2>1, <3>2, <3>4
      <4> QED
        BY <1>2, <4>1
    <3> QED
      BY <3>3, <3>4
  <2>6. InOrder'
    BY <1>4, <1>12, <2>1, <2>5 DEF InOrder
  <2> QED
    BY <2>4, <2>6
<1>13. CASE m.type = "result" /\ ~m.gap /\ daemon' = Idle("live") /\ conn' = rest
  <2>1. m # Gap
    BY <1>13 DEF Gap, SubscribeResult
  <2>2. daemon' = [pc |-> "live", cursor |-> 0] /\ m.type # "event" /\ 0 \in 0..N
    BY <1>2, <1>13 DEF Idle
  <2>3. daemon'.cursor = 0 /\ daemon'.pc = "live"
        /\ daemon' \in [pc : {"off", "wait", "live", "store", "ack", "stopped"}, cursor : 0..N]
    BY <2>2
  <2>4. Covered' /\ InOrder'
    BY <1>12, <1>13, <2>1, <2>2, <2>3
  <2>5. AtHand'
    BY <2>3 DEF AtHand
  <2> QED
    BY <1>1, <1>4, <1>7, <1>10, <1>13, <2>3, <2>4, <2>5, DaemonQuiet DEF StreamTypes
<1>14. CASE m.type = "event" /\ daemon' = [pc |-> "store", cursor |-> m.cursor] /\ conn' = rest
  <2>1. m.cursor \in 1..N /\ m = Event(m.cursor)
    BY <1>2, <1>9, <1>14, MessageKinds
  <2>2. m # Gap
    BY <2>1, EventCursor
  <2>3. daemon'.cursor = m.cursor /\ daemon'.pc = "store" /\ m.cursor \in 0..N /\ m.cursor # 0
        /\ daemon' \in [pc : {"off", "wait", "live", "store", "ack", "stopped"}, cursor : 0..N]
    BY <1>2, <1>14, <2>1
  <2>4. Covered' /\ InOrder'
    BY <1>12, <1>14, <2>1, <2>2, <2>3
  <2>5. AtHand'
    BY <2>3 DEF AtHand
  <2> QED
    BY <1>1, <1>4, <1>7, <1>10, <1>14, <2>3, <2>4, <2>5, DaemonQuiet DEF StreamTypes
<1>15. m.type = "result" => m.gap \in BOOLEAN
  BY <1>2, <1>9, MessageKinds
<1> QED
  BY <1>8, <1>13, <1>14, <1>15 DEF Receive

\* The event at hand is acknowledged: what the acknowledged cursor skips, if
\* anything, is nothing that was not stored.
LEMMA AckStep ==
    ASSUME StreamInv, Ack
    PROVE  StreamInv'
<1> DEFINE N == Len(phase)
           d == daemon.cursor
           b == acked'
<1>1. StreamTypes
  BY DEF StreamInv
<1>2. N \in Nat /\ acked \in Nat /\ acked \in 0..N /\ conn \in Conns(N, acked)
      /\ conn.subscribed \in BOOLEAN /\ Pipe \in Seq(Messages(N))
  BY <1>1, PipeMessages DEF StreamTypes
<1>3. d \in 0..N
  BY <1>1 DEF StreamTypes
<1>4. UNCHANGED <<phase, kept, open, hand, loop, queue, overtaken, stored, faults>>
  BY DEF Ack, engineVars
<1>5. b = IF d > acked THEN d ELSE acked
  BY DEF Ack
<1>6. b \in 0..N /\ b \in Nat /\ acked <= b /\ d <= b
  BY <1>2, <1>3, <1>5
<1> HIDE DEF b
<1>7. Boundaries' = Boundaries /\ Boundaries \subseteq 1..N
  BY <1>4 DEF Boundaries, StreamInv, JournalKept, Journal
<1>8. AckCoversStored'
  <2> SUFFICES ASSUME ~overtaken, NEW c \in Boundaries, c <= b
               PROVE  c \in stored
    BY <1>4, <1>7 DEF AckCoversStored, b
  <2>1. d <= acked + 1 /\ c \in 1..N
    BY <1>7 DEF StreamInv, InOrder
  <2>2. c <= acked \/ c = d
    BY <1>2, <1>3, <1>5, <2>1
  <2>3. c <= acked => c \in stored
    BY DEF StreamInv, AckCoversStored
  <2>4. c = d => c \in stored
    BY DEF Ack, StreamInv, AtHand
  <2> QED
    BY <2>2, <2>3, <2>4
<1>9. CASE ~conn.served /\ Hangup("off")
  <2>1. daemon' = [pc |-> "off", cursor |-> 0] /\ conn' = NoConn
    BY <1>9 DEF Hangup, Idle
  <2>2. daemon' \in [pc : {"off", "wait", "live", "store", "ack", "stopped"}, cursor : 0..N]
        /\ daemon'.cursor = 0 /\ daemon'.pc = "off"
    BY <1>2, <2>1
  <2>3. conn' \in Conns(N, b) /\ conn'.subscribed = FALSE /\ Line(conn') = <<>>
    <3>1. NoConn.subscribed = FALSE
      BY DEF NoConn
    <3> QED
      BY <2>1, <3>1, NoConnConn
  <2>4. Covered' /\ InOrder'
    BY <1>6, <2>2, <2>3, PipeGone DEF b
  <2>5. AtHand'
    BY <2>2 DEF AtHand
  <2> QED
    BY <1>1, <1>4, <1>6, <1>8, <2>2, <2>3, <2>4, <2>5, DaemonQuiet DEF StreamTypes, b
<1>10. CASE conn' = [conn EXCEPT !.requests = Append(@, [type |-> "ack"])] /\ daemon' = Idle("live")
  <2>1. daemon' = [pc |-> "live", cursor |-> 0]
    BY <1>10 DEF Idle
  <2>2. daemon' \in [pc : {"off", "wait", "live", "store", "ack", "stopped"}, cursor : 0..N]
        /\ daemon'.cursor = 0 /\ daemon'.pc = "live"
    BY <1>2, <2>1
  <2>3. conn \in Conns(N, b)
    BY <1>2, <1>6, ConnsMore
  <2>4. conn' \in Conns(N, b) /\ Line(conn') = Line(conn) /\ conn'.subscribed = conn.subscribed
    <3>1. [type |-> "ack"] \in Requests(b)
      BY DEF Requests
    <3>2. conn.requests \in Seq(Requests(b))
      BY <2>3 DEF Conns
    <3>3. Append(conn.requests, [type |-> "ack"]) \in Seq(Requests(b))
      BY <3>1, <3>2, AppendProperties
    <3> QED
      BY <1>10, <2>3, <3>3 DEF Conns, Line
  <2>5. Pipe' = Pipe
    BY <1>4, <2>4 DEF Pipe
  <2>6. ASSUME conn.subscribed PROVE Covers(Pipe, b, 0, N, Boundaries)
    <3>1. Covers(Pipe, acked, d, N, Boundaries)
      BY <2>6 DEF StreamInv, Covered
    <3>2. ASSUME NEW c \in 1..N, c <= acked \/ c = d PROVE c <= b
      BY <1>2, <1>3, <1>6, <3>2
    <3> QED
      BY <3>1, <3>2 DEF Covers
  <2>7. Covered'
    BY <1>4, <1>7, <2>2, <2>4, <2>5, <2>6 DEF Covered, b
  <2>8. ASSUME ~overtaken PROVE 0 <= b + 1 /\ Ordered(Pipe, b, 0)
    <3>1. Ordered(Pipe, acked, d)
      BY <2>8 DEF StreamInv, InOrder
    <3>2. d \in Nat
      BY <1>2, <1>3
    <3>3. Ordered(Pipe, b, 0)
      BY <1>2, <1>6, <3>1, <3>2, OrderedAck
    <3> QED
      BY <1>6, <3>3
  <2>9. InOrder'
    BY <1>4, <2>2, <2>5, <2>8 DEF InOrder, b
  <2>10. AtHand'
    BY <2>2 DEF AtHand
  <2> QED
    BY <1>1, <1>4, <1>6, <1>8, <2>2, <2>4, <2>7, <2>9, <2>10, DaemonQuiet DEF StreamTypes, b
<1> QED
  BY <1>9, <1>10 DEF Ack

-----------------------------------------------------------------------------
(* The theorems *)

\* The invariant holds at first.
LEMMA StreamInit ==
    ASSUME Init
    PROVE  StreamInv
<1>1. /\ <<>> \in Seq({"START", "UPDATE", "END"}) /\ Len(<<>>) = 0
      /\ <<>> \in Seq(1..0) /\ 1..0 = {} /\ DOMAIN <<>> = {}
  BY EmptySeq
<1>2. conn \in Conns(0, 0) /\ conn.subscribed = FALSE /\ Line(conn) = <<>>
  <2>1. NoConn.subscribed = FALSE
    BY DEF NoConn
  <2> QED
    BY <2>1, NoConnConn DEF Init
<1>3. phase = <<>> /\ Len(phase) = 0 /\ Boundaries = {}
  BY <1>1 DEF Init, Boundaries
<1>4. daemon = [pc |-> "off", cursor |-> 0] /\ acked = 0
  BY DEF Init, Idle
<1>5. StreamTypes
  <2>1. daemon \in [pc : {"off", "wait", "live", "store", "ack", "stopped"}, cursor : 0..0]
    BY <1>4
  <2>2. MaxCursor \in Nat /\ MaxFaults \in Nat
    BY StreamAssumption
  <2>3. Len(phase) <= MaxCursor /\ 0 \in 0..MaxFaults
    BY <1>3, <2>2
  <2>4. stored \in SUBSET (1..0) /\ acked \in 0..0 /\ hand \in 0..0
    BY DEF Init
  <2> QED
    BY <1>1, <1>2, <1>3, <1>4, <2>1, <2>3, <2>4 DEF Init, StreamTypes
<1>6. JournalKept
  BY <1>1, <1>3 DEF Init, JournalKept, Journal
<1>7. AtHand /\ AckCoversStored
  BY <1>3, <1>4 DEF AtHand, AckCoversStored
<1>8. Covered
  BY <1>2 DEF Covered
<1>9. InOrder
  <2>1. Pipe = <<>>
    <3>1. Feed(conn.subscribed, queue, hand) = <<>>
      BY <1>2 DEF Feed
    <3>2. <<>> \o <<>> = <<>>
      OBVIOUS
    <3> QED
      BY <1>2, <3>1, <3>2 DEF Pipe
  <2>2. 1..Len(<<>>) = {}
    BY <1>1
  <2>3. Ordered(<<>>, 0, 0)
    BY <2>2 DEF Ordered
  <2>4. daemon.cursor = 0 /\ 0 <= 0 + 1
    BY <1>4
  <2> QED
    BY <1>4, <2>1, <2>3, <2>4 DEF InOrder
<1> QED
  BY <1>5, <1>6, <1>7, <1>8, <1>9 DEF StreamInv

\* Every step keeps the invariant.
LEMMA StreamNext ==
    ASSUME StreamInv, [Next]_vars
    PROVE  StreamInv'
<1>1. CASE \E p \in {"START", "UPDATE", "END"} : Emit(p)
  BY <1>1, EmitStep
<1>2. CASE Invoke
  BY <1>2, InvokeStep
<1>3. CASE Dispatch
  BY <1>3, DispatchStep
<1>4. CASE Handle
  BY <1>4, HandleStep
<1>5. CASE Flush
  BY <1>5, FlushStep
<1>6. CASE BroadcastOther
  BY <1>6, BroadcastOtherStep
<1>7. CASE Shutdown \/ Boot
  BY <1>7, LoopStep
<1>8. CASE CloseEngine
  BY <1>8, CloseEngineStep
<1>9. CASE Exit \/ EngineCrash
  BY <1>9, DownStep
<1>10. CASE Dial
  BY <1>10, DialStep
<1>11. CASE Receive
  BY <1>11, ReceiveStep
<1>12. CASE EndOfStream \/ StoreFails \/ StoreRefused \/ DaemonCrash
  BY <1>12, EndStep
<1>13. CASE Store
  BY <1>13, StoreStep
<1>14. CASE Ack
  BY <1>14, AckStep
<1>15. CASE UNCHANGED vars
  <2>1. UNCHANGED <<phase, kept, open, hand, loop, queue, conn, daemon, stored, acked, faults, overtaken>>
    BY <1>15 DEF vars, engineVars, daemonVars
  <2>2. Pipe' = Pipe
    BY <2>1 DEF Pipe
  <2>3. Covered' /\ InOrder'
    BY <2>1, <2>2, PipeKept DEF StreamInv, StreamTypes
  <2> QED
    BY <2>1, <2>3, EngineQuiet DEF StreamInv, StreamTypes
<1> QED
  BY <1>1, <1>2, <1>3, <1>4, <1>5, <1>6, <1>7, <1>8, <1>9, <1>10, <1>11, <1>12, <1>13,
     <1>14, <1>15 DEF Next, EngineStep, DaemonStep

\* The invariant holds in every reachable state, whatever breaks in between.
THEOREM StreamInvariant == Spec => []StreamInv
<1>1. Init => StreamInv
  BY StreamInit
<1>2. StreamInv /\ [Next]_vars => StreamInv'
  BY StreamNext
<1> QED
  BY <1>1, <1>2, PTL DEF Spec

\* The types of the invariant are those of the module.
LEMMA StreamTypeOK ==
    ASSUME StreamInv
    PROVE  TypeOK
<1> DEFINE N == Len(phase)
<1>1. StreamTypes
  BY DEF StreamInv
<1>2. N \in Nat /\ conn \in Conns(N, acked)
  BY <1>1, PipeMessages
<1>3. DOMAIN phase = 1..N /\ Range(phase) \subseteq {"START", "UPDATE", "END"}
  BY <1>1, LenProperties, RangeOfSeq DEF StreamTypes
<1>4. Range(queue) \subseteq 1..N
  BY <1>1, RangeOfSeq DEF StreamTypes
<1>5. Boundaries \subseteq kept /\ kept \subseteq 1..N
  BY DEF StreamInv, JournalKept, Journal
<1>6. Messages(N) = Message
  BY <1>3 DEF Messages, Message
<1>7. /\ Range(conn.wire) \cup Range(conn.out) \subseteq Message
      /\ conn.served \in BOOLEAN /\ conn.subscribed \in BOOLEAN /\ Len(conn.wire) <= SocketSize
  <2>1. conn.wire \in Seq(Messages(N)) /\ conn.out \in Seq(Messages(N))
    BY <1>2 DEF Conns
  <2>2. Range(conn.wire) \subseteq Messages(N) /\ Range(conn.out) \subseteq Messages(N)
    BY <2>1, RangeOfSeq
  <2> QED
    BY <1>2, <1>6, <2>2 DEF Conns
<1>8. /\ hand \in {0} \cup 1..N /\ acked \in {0} \cup 1..N /\ daemon.cursor \in {0} \cup 1..N
      /\ daemon.pc \in {"off", "wait", "live", "store", "ack", "stopped"}
  BY <1>1, <1>2 DEF StreamTypes
<1> QED
  BY <1>1, <1>3, <1>4, <1>5, <1>7, <1>8 DEF TypeOK, StreamTypes

\* Every variable of the stream has its type.
THEOREM StreamTypesHold == Spec => []TypeOK
  BY StreamInvariant, StreamTypeOK, PTL

\* The acknowledged cursor covers no START or END that is not in the outbox,
\* whatever disconnects, fails, dies or is sent twice in between
\* (delivery.go:142-144), unless a delivery has overtaken a queued one.
THEOREM AckCovers == Spec => []AckCoversStored
<1>1. StreamInv => AckCoversStored
  BY DEF StreamInv
<1> QED
  BY <1>1, StreamInvariant, PTL

\* What the pipe has is on its way to the daemon.
LEMMA PipeComes ==
    ASSUME StreamInv, conn.subscribed, NEW c \in 1..Len(phase), Event(c) \in Range(Pipe)
    PROVE  c \in Coming
<1> DEFINE N == Len(phase)
           l == Line(conn)
           f == Feed(conn.subscribed, queue, hand)
<1>1. StreamTypes
  BY DEF StreamInv
<1>2. N \in Nat /\ acked \in Nat /\ conn \in Conns(N, acked)
      /\ l \in Seq(Messages(N)) /\ f \in Seq(Messages(N)) /\ conn.subscribed \in BOOLEAN
  BY <1>1, PipeMessages
<1>3. conn.wire \in Seq(Messages(N)) /\ conn.out \in Seq(Messages(N))
  BY <1>2, LineMessages
<1>4. queue \in Seq(1..N) /\ hand \in 0..N /\ 0 \in 0..N
  BY <1>1, <1>2 DEF StreamTypes
<1>5. Join(N)
  BY Joined
<1>6. \A x, y \in Seq(Messages(N)) : Range(x \o y) = Range(x) \cup Range(y)
  BY <1>5 DEF Join
<1>7. Range(Pipe) = Range(l) \cup Range(f)
  BY <1>2, <1>6 DEF Pipe
<1>8. Range(l) = Range(conn.wire) \cup Range(conn.out)
  BY <1>3, <1>6 DEF Line
<1>9. CASE Event(c) \in Range(l)
  <2> DEFINE E == {n \in Range(conn.wire) \cup Range(conn.out) : n.type = "event"}
  <2>1. Event(c) \in E /\ Event(c).cursor = c
    BY <1>8, <1>9, EventCursor
  <2>2. c \in {m.cursor : m \in E}
    BY <2>1
  <2> QED
    BY <2>2 DEF Coming
<1>10. CASE Event(c) \in Range(f)
  <2> DEFINE q == Delivery(queue)
             h == InHand(hand)
  <2>1. q \in Seq(Messages(N)) /\ h \in Seq(Messages(N))
    BY <1>2, <1>4, FeedMessages
  <2>2. f = q \o h
    BY DEF Feed
  <2>3. Range(f) = Range(q) \cup Range(h)
    BY <1>6, <2>1, <2>2
  <2>4. CASE Event(c) \in Range(q)
    <3>1. Len(q) = Len(queue) /\ \A i \in 1..Len(queue) : q[i] = Event(queue[i])
      BY <1>2, <1>4, DeliveryEvents
    <3>2. Range(q) = {q[i] : i \in 1..Len(q)} /\ Range(queue) = {queue[i] : i \in 1..Len(queue)}
      BY <1>4, <2>1, RangeEquality
    <3>3. PICK i \in 1..Len(queue) : Event(c) = Event(queue[i])
      BY <2>4, <3>1, <3>2
    <3>4. c = queue[i]
      BY <3>3, EventCursor
    <3> QED
      BY <3>2, <3>4 DEF Coming
  <2>5. CASE Event(c) \in Range(h)
    <3>1. Range(h) = {h[i] : i \in 1..Len(h)}
      BY <2>1, RangeEquality
    <3>2. PICK i \in 1..Len(h) : Event(c) = h[i]
      BY <2>5, <3>1
    <3>3. hand # 0
      <4> SUFFICES ASSUME hand = 0 PROVE FALSE
        OBVIOUS
      <4>1. h = <<>>
        BY DEF InHand
      <4>2. Len(<<>>) = 0
        OBVIOUS
      <4> QED
        BY <3>2, <4>1, <4>2
    <3>4. h = <<Event(hand)>>
      BY <3>3 DEF InHand
    <3>5. Event(c) = Event(hand)
      BY <3>2, <3>4
    <3>6. c = hand
      BY <3>5, EventCursor
    <3> QED
      BY <3>6 DEF Coming
  <2> QED
    BY <1>10, <2>3, <2>4, <2>5
<1> QED
  BY <1>7, <1>9, <1>10

\* While the daemon is subscribed, every START and END beyond its
\* acknowledgement is stored or on its way: none falls between the replay and
\* the deliveries queued before, during and after it.
THEOREM NothingFallsBetween == Spec => []NothingBetween
<1>1. ASSUME StreamInv PROVE NothingBetween
  <2> SUFFICES ASSUME conn.subscribed, NEW c \in Boundaries, c > acked
               PROVE  c \in stored \cup Coming
    BY DEF NothingBetween
  <2>1. c \in 1..Len(phase) /\ Len(phase) \in Nat /\ acked \in Nat
    BY <1>1, PipeMessages DEF StreamInv, JournalKept, Journal
  <2>2. c <= acked \/ c = daemon.cursor \/ Event(c) \in Range(Pipe)
    BY <1>1, <2>1 DEF StreamInv, Covered, Covers
  <2>3. ~(c <= acked)
    BY <2>1
  <2>4. c = daemon.cursor => c \in Coming
    BY DEF Coming
  <2> QED
    BY <1>1, <2>1, <2>2, <2>3, <2>4, PipeComes
<1> QED
  BY <1>1, StreamInvariant, PTL

\* The acknowledged cursor moves to the event at hand.
LEMMA OneAtATime ==
    ASSUME StreamInv, [Next]_vars, acked' # acked, ~overtaken
    PROVE  acked' = acked + 1 /\ acked' = daemon.cursor
<1>1. acked \in Nat /\ daemon.cursor \in Nat
  BY PipeMessages DEF StreamInv, StreamTypes
<1>2. Ack
  BY DEF Next, EngineStep, DaemonStep, vars, engineVars, daemonVars, Emit, Invoke,
     Dispatch, Handle, Flush, BroadcastOther, Shutdown, CloseEngine, Exit,
     EngineCrash, Boot, Dial, Receive, EndOfStream, Store, StoreFails,
     StoreRefused, DaemonCrash
<1>3. acked' = daemon.cursor /\ daemon.cursor > acked
  BY <1>2 DEF Ack
<1>4. daemon.cursor <= acked + 1
  BY DEF StreamInv, InOrder
<1> QED
  BY <1>1, <1>3, <1>4

\* As long as no delivery was overtaken, the acknowledged cursor only ever moves
\* to the one that follows it, which the daemon has at hand: it skips nothing
\* and never goes back (Ack of the outbox keeps the larger cursor).
THEOREM AckMovesByOne ==
    Spec => [][acked' # acked /\ ~overtaken =>
                   acked' = acked + 1 /\ acked' = daemon.cursor]_vars
<1>1. StreamInv /\ [Next]_vars =>
          [acked' # acked /\ ~overtaken =>
               acked' = acked + 1 /\ acked' = daemon.cursor]_vars
  BY OneAtATime
<1> QED
  BY <1>1, StreamInvariant, PTL DEF Spec

\* The daemon never acknowledges beyond a cursor it was not sent: an UPDATE that
\* was evicted first stops delivery (gb28181_daemon/README.md:78).
THEOREM NoGapIsPassed == Spec => GapStops
<1>1. ASSUME StreamInv, [Next]_vars, acked' > acked, ~overtaken
      PROVE  \A c \in (acked + 1)..acked' :
                 c \in kept \/ c = daemon.cursor \/ c \in stored
  <2>1. acked \in Nat
    BY <1>1, PipeMessages DEF StreamInv
  <2>2. acked' = acked + 1 /\ acked' = daemon.cursor
    BY <1>1, <2>1, OneAtATime
  <2> TAKE c \in (acked + 1)..acked'
  <2>3. c = daemon.cursor
    BY <2>1, <2>2
  <2> QED
    BY <2>3
<1>2. StreamInv /\ [Next]_vars =>
          [acked' > acked /\ ~overtaken =>
               \A c \in (acked + 1)..acked' :
                   c \in kept \/ c = daemon.cursor \/ c \in stored]_vars
  BY <1>1
<1> QED
  BY <1>2, StreamInvariant, PTL DEF Spec, GapStops

=============================================================================
