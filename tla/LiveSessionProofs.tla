-------------------------- MODULE LiveSessionProofs --------------------------
(***************************************************************************)
(* Proofs about LiveSession for any number of calls, other clients and     *)
(* faults: the slot has one owner, a call that a BYE has released is never *)
(* streamed again, a registered daemon owns what its INVITEs have started, *)
(* and RTP is sent for the reported session alone.                         *)
(***************************************************************************)
EXTENDS LiveSession, Integers, FiniteSetTheorems, SequenceTheorems, TLAPS

(***************************************************************************)
(* The inductive invariant.                                                *)
(***************************************************************************)
Jobs == [kind : {"none", "prepare", "accept", "bye", "release", "lease"},
         call : Call \cup {None},
         step : {"none", "status", "orphan", "again", "start", "undo", "stop",
                 "keepalive"}]
Replies == {"none", "ok", "error", "idle"} \cup Call

DaemonTypes ==
    /\ proc \in {"down", "reconcile", "running", "stopping"}
    /\ live \in [Call -> {"none", "pending", "active", "cleanup"}]
    /\ dialog \in [Call -> {"none", "prepare", "wait", "accept", "start", "fail",
                            "ended"}]
    /\ bye \in [Call -> {"none", "received", "stopping", "released", "failed"}]
    /\ job \in Jobs
    /\ todo \in SUBSET Call

RpcTypes ==
    /\ queue \in Seq(Requests)
    /\ \A i \in DOMAIN queue : queue[i].op = "start" => queue[i].call \in Own
    /\ reply \in [job : Replies, main : Replies]

OneSession == \A c, d \in sessions : c = d
OneEntry == \A c, d \in Call : live[c] # "none" /\ live[d] # "none" => c = d

\* A start of c is on its way to the engine in the queue q.
Starts(q, c) == \E i \in DOMAIN q : q[i].op = "start" /\ q[i].call = c

\* The engine has a session of c, or will have one from what is in the queue.
Coming(s, q, c) == c \in s \/ Starts(q, c)

\* No start is behind the request i.
LastStart(q, i) == \A k \in DOMAIN q : k > i => q[k].op # "start"

\* The request of who at i is the only one.
Alone(q, i, who) == \A k \in DOMAIN q : q[k].from = who => k = i

\* The request that a step of a job waits for.
OpOf(step) == CASE step \in {"status", "again"} -> "status"
                [] step \in {"orphan", "undo", "stop"} -> "stop"
                [] OTHER -> step

\* The request of the job: it is the only one, what the step sends, and the
\* engine serves it after every start.
JobAsks(q, j, r) ==
    \A i \in DOMAIN q : q[i].from = "job" =>
        /\ j # NoJob /\ r.job = "none"
        /\ q[i].op = OpOf(j.step)
        /\ j.step \in {"start", "undo", "stop"} => q[i].call = j.call
        /\ Alone(q, i, "job") /\ LastStart(q, i)

\* After a stop that was answered, or a status without the session, the call of
\* the job is not streamed and will not be.
JobTold ==
    \/ reply.job = "ok" /\ job.step \in {"undo", "stop"}
    \/ /\ job.kind = "lease" /\ job.step = "status"
       /\ reply.job \notin {"none", "error", job.call}
    => ~Coming(sessions, queue, job.call)

\* The requests of reconcileMedia, and what it was told: nothing of the daemon
\* before it is left but the session it is about to stop.
MainAsks(q, p, r, s) ==
    \A i \in DOMAIN q : q[i].from = "main" =>
        /\ p # "down"
        /\ p = "reconcile" =>
               /\ r.main = "none"
               /\ Alone(q, i, "main") /\ LastStart(q, i)
               /\ q[i].op \in {"status", "stop"}
               /\ q[i].op = "stop" =>
                      \A c \in Own : Coming(s, q, c) => c = q[i].call

MainTold ==
    proc = "reconcile" /\ reply.main \notin {"none", "error"} =>
        \A c \in Own : Coming(sessions, queue, c) => c = reply.main

\* Where a job is.
JobState ==
    job # NoJob =>
        /\ proc \in {"running", "stopping"}
        /\ job.call \in Own
        /\ job.kind = "prepare" => /\ dialog[job.call] = "prepare"
                                   /\ job.step \in {"status", "orphan", "again"}
        /\ job.kind = "accept" => /\ live[job.call] = "pending"
                                  /\ job.step \in {"start", "undo"}
        /\ job.kind \in {"bye", "release"} => job.step = "stop"
        /\ job.kind = "bye" => bye[job.call] = "stopping"
        /\ job.kind = "lease" => job.step \in {"keepalive", "status"}
        /\ job.kind # "none"

\* The table is empty unless the daemon is up, and has the calls of its own
\* INVITEs that are, or may yet be, streamed; a reservation is neither before
\* InviteAccepted has taken it up.
Table ==
    /\ \A c \in Call : live[c] # "none" => proc \in {"running", "stopping"} /\ c \in Own
    /\ proc \in {"running", "stopping"} =>
           \A c \in Own : Coming(sessions, queue, c) => live[c] # "none"
    /\ \A c \in Call : live[c] = "pending" /\ Coming(sessions, queue, c) =>
                          job.kind = "accept" /\ job.call = c

\* The calls a BYE has released, and those it cannot be for yet.
ByeState ==
    \A c \in Call :
        /\ bye[c] # "none" => c \in Own /\ dialog[c] \notin {"none", "prepare"}
        /\ bye[c] = "released" => live[c] = "none" /\ ~Coming(sessions, queue, c)

MediaGood == MediaTypeOK /\ OneSession /\ StreamReported

IndInv ==
    /\ MediaGood /\ DaemonTypes /\ RpcTypes /\ OneEntry
    /\ JobAsks(queue, job, reply) /\ JobTold
    /\ MainAsks(queue, proc, reply, sessions) /\ MainTold
    /\ JobState /\ Table /\ ByeState

-----------------------------------------------------------------------------
(* The queue of requests *)

\* q is p with requests served, dropped or given up by their callers.
Shrinks(q, p) ==
    \E f \in [DOMAIN q -> DOMAIN p] :
        /\ \A i, k \in DOMAIN q : i < k => f[i] < f[k]
        /\ \A i \in DOMAIN q : /\ q[i].op = p[f[i]].op
                               /\ q[i].call = p[f[i]].call
                               /\ q[i].from \in {p[f[i]].from, "gone"}

\* A map of the positions that keeps their order shows it.
LEMMA MapShrinks ==
    ASSUME NEW p, NEW q, NEW f \in [DOMAIN q -> DOMAIN p],
           \A i, k \in DOMAIN q : i < k => f[i] < f[k],
           \A i \in DOMAIN q : /\ q[i].op = p[f[i]].op
                               /\ q[i].call = p[f[i]].call
                               /\ q[i].from \in {p[f[i]].from, "gone"}
    PROVE  Shrinks(q, p)
  BY DEF Shrinks

\* What is asked of a queue holds of what is left of it.
LEMMA ShrunkStarts ==
    ASSUME NEW p, NEW q, Shrinks(q, p), NEW c, Starts(q, c)
    PROVE  Starts(p, c)
  BY DEF Shrinks, Starts

\* The starts that are left are for the daemon's own calls.
LEMMA ShrunkOwn ==
    ASSUME NEW p, NEW q, Shrinks(q, p),
           \A i \in DOMAIN p : p[i].op = "start" => p[i].call \in Own
    PROVE  \A i \in DOMAIN q : q[i].op = "start" => q[i].call \in Own
  BY DEF Shrinks

\* A request that is left was there, and is as alone and as late.
LEMMA ShrunkAsks ==
    ASSUME NEW p \in Seq(Requests), NEW q \in Seq(Requests), Shrinks(q, p), NEW who,
           who # "gone", NEW i \in DOMAIN q, q[i].from = who
    PROVE  \E k \in DOMAIN p :
              /\ p[k].from = who /\ p[k].op = q[i].op /\ p[k].call = q[i].call
              /\ Alone(p, k, who) => Alone(q, i, who)
              /\ LastStart(p, k) => LastStart(q, i)
<1>1. PICK f \in [DOMAIN q -> DOMAIN p] :
          /\ \A j, k \in DOMAIN q : j < k => f[j] < f[k]
          /\ \A j \in DOMAIN q : /\ q[j].op = p[f[j]].op
                                 /\ q[j].call = p[f[j]].call
                                 /\ q[j].from \in {p[f[j]].from, "gone"}
  BY DEF Shrinks
<1>2. DOMAIN p \subseteq Nat /\ DOMAIN q \subseteq Nat
  OBVIOUS
<1>3. ASSUME Alone(p, f[i], who), NEW k \in DOMAIN q, q[k].from = who
      PROVE  k = i
  <2>1. f[k] = f[i]
    BY <1>1, <1>3 DEF Alone
  <2>2. ~(k < i) /\ ~(i < k)
    BY <1>1, <1>2, <2>1
  <2> QED
    BY <1>2, <2>2
<1>4. ASSUME LastStart(p, f[i]), NEW k \in DOMAIN q, k > i
      PROVE  q[k].op # "start"
  <2>1. f[k] > f[i]
    BY <1>1, <1>2, <1>4
  <2> QED
    BY <1>1, <1>4, <2>1 DEF LastStart
<1>5. f[i] \in DOMAIN p /\ p[f[i]].from = who /\ p[f[i]].op = q[i].op
      /\ p[f[i]].call = q[i].call
  BY <1>1
<1> QED
  BY <1>3, <1>4, <1>5 DEF Alone, LastStart

\* The head is served.
LEMMA TailShrinks ==
    ASSUME NEW p \in Seq(Requests), p # <<>>
    PROVE  /\ Tail(p) \in Seq(Requests) /\ Shrinks(Tail(p), p)
           /\ 1 \in DOMAIN p /\ Head(p) = p[1] /\ Head(p) \in Requests
           /\ \A i \in DOMAIN Tail(p) : i + 1 \in DOMAIN p /\ i + 1 > 1
                                        /\ Tail(p)[i] = p[i + 1]
<1> DEFINE q == Tail(p)
           f == [i \in DOMAIN q |-> i + 1]
<1>1. /\ q \in Seq(Requests) /\ Len(p) \in Nat /\ Len(p) > 0 /\ DOMAIN p = 1..Len(p)
      /\ DOMAIN q = 1..(Len(p) - 1)
      /\ \A i \in 1..(Len(p) - 1) : q[i] = p[i + 1]
      /\ Head(p) = p[1]
  OBVIOUS
<1> HIDE DEF q
<1>2. f \in [DOMAIN q -> DOMAIN p] /\ \A i \in DOMAIN q : f[i] = i + 1
  BY <1>1
<1>3. \A i, k \in DOMAIN q : i < k => f[i] < f[k]
  BY <1>1, <1>2
<1>4. \A i \in DOMAIN q : q[i] = p[f[i]]
  BY <1>1, <1>2
<1> HIDE DEF f
<1>5. Shrinks(q, p)
  BY <1>2, <1>3, <1>4 DEF Shrinks
<1>6. \A i \in DOMAIN q : i + 1 \in DOMAIN p /\ i + 1 > 1 /\ q[i] = p[i + 1]
  BY <1>1
<1>7. 1 \in DOMAIN p
  BY <1>1
<1> QED
  BY <1>1, <1>5, <1>6, <1>7 DEF q

\* The caller of a request gives up, and the request stays or never was sent.
LEMMA GoneShrinks ==
    ASSUME NEW p \in Seq(Requests), NEW i \in DOMAIN p
    PROVE  LET q == [p EXCEPT ![i].from = "gone"]
           IN  /\ q \in Seq(Requests) /\ Shrinks(q, p)
               /\ \A who : who # "gone" /\ Alone(p, i, who) =>
                              \A k \in DOMAIN q : q[k].from # who
<1> DEFINE q == [p EXCEPT ![i].from = "gone"]
           f == [k \in DOMAIN q |-> k]
<1>1. p[i] \in Requests
  OBVIOUS
<1>2. [p[i] EXCEPT !.from = "gone"] \in Requests
  BY <1>1 DEF Requests
<1>3. DOMAIN q = DOMAIN p /\ q \in Seq(Requests)
  BY <1>2
<1>4. /\ \A k \in DOMAIN p : k # i => q[k] = p[k]
      /\ q[i] = [p[i] EXCEPT !.from = "gone"]
  OBVIOUS
<1>5. q[i].op = p[i].op /\ q[i].call = p[i].call /\ q[i].from = "gone"
  BY <1>1, <1>4 DEF Requests
<1>6. f \in [DOMAIN q -> DOMAIN p] /\ \A k \in DOMAIN q : f[k] = k
  BY <1>3
<1> HIDE DEF q, f
<1>7. Shrinks(q, p)
  <2>1. \A k \in DOMAIN q : /\ q[k].op = p[k].op /\ q[k].call = p[k].call
                            /\ q[k].from \in {p[k].from, "gone"}
    BY <1>3, <1>4, <1>5
  <2> QED
    BY <1>6, <2>1, MapShrinks
<1>8. ASSUME NEW who, who # "gone", Alone(p, i, who), NEW k \in DOMAIN q
      PROVE  q[k].from # who
  BY <1>3, <1>4, <1>5, <1>8 DEF Alone
<1> QED
  BY <1>3, <1>7, <1>8 DEF q

\* The arithmetic of a request that is taken out.
LEMMA DropIndex ==
    ASSUME NEW n \in Nat, NEW i \in 1..n, NEW k \in 1..(n - 1), ~(k < i)
    PROVE  k - (i - 1) \in 1..(n - i) /\ i + (k - (i - 1)) = k + 1 /\ ~(k <= i - 1)
  OBVIOUS

\* The queue without the request at i.
LEMMA DropElements ==
    ASSUME NEW p \in Seq(Requests), NEW i \in 1..Len(p)
    PROVE  LET q == SubSeq(p, 1, i - 1) \o SubSeq(p, i + 1, Len(p))
           IN  /\ q \in Seq(Requests) /\ DOMAIN q = 1..(Len(p) - 1)
               /\ \A k \in 1..(Len(p) - 1) : q[k] = p[IF k < i THEN k ELSE k + 1]
<1> DEFINE a == SubSeq(p, 1, i - 1)
           b == SubSeq(p, i + 1, Len(p))
<1>1. Len(p) \in Nat /\ \A k \in 1..Len(p) : p[k] \in Requests
  OBVIOUS
<1>2. /\ a \in Seq(Requests) /\ Len(a) = i - 1
      /\ \A k \in 1..(i - 1) : a[k] = p[k]
  BY <1>1, SubSeqProperties
<1>3. /\ b \in Seq(Requests) /\ Len(b) = Len(p) - i
      /\ \A k \in 1..(Len(p) - i) : b[k] = p[i + k]
  <2>1. \A k \in (i + 1)..Len(p) : p[k] \in Requests
    BY <1>1
  <2>2. /\ b \in Seq(Requests)
        /\ Len(b) = IF i + 1 <= Len(p) THEN Len(p) - (i + 1) + 1 ELSE 0
        /\ \A k \in 1..(Len(p) - (i + 1) + 1) : b[k] = p[(i + 1) + k - 1]
    BY <1>1, <2>1, SubSeqProperties
  <2> HIDE DEF b
  <2>3. Len(b) = Len(p) - i
    BY <1>1, <2>2
  <2>4. ASSUME NEW k \in 1..(Len(p) - i) PROVE b[k] = p[i + k]
    <3>1. k \in 1..(Len(p) - (i + 1) + 1) /\ (i + 1) + k - 1 = i + k
      BY <1>1
    <3> QED
      BY <2>2, <3>1
  <2> QED
    BY <2>2, <2>3, <2>4
<1> HIDE DEF a, b
<1>4. /\ a \o b \in Seq(Requests) /\ Len(a \o b) = Len(a) + Len(b)
      /\ \A k \in 1..(Len(a) + Len(b)) :
             (a \o b)[k] = IF k <= Len(a) THEN a[k] ELSE b[k - Len(a)]
  BY <1>2, <1>3, ConcatProperties
<1>5. Len(a) + Len(b) = Len(p) - 1
  BY <1>1, <1>2, <1>3
<1>6. DOMAIN (a \o b) = 1..(Len(p) - 1)
  BY <1>4, <1>5
<1>7. ASSUME NEW k \in 1..(Len(p) - 1)
      PROVE  (a \o b)[k] = p[IF k < i THEN k ELSE k + 1]
  <2>1. (a \o b)[k] = IF k <= i - 1 THEN a[k] ELSE b[k - (i - 1)]
    BY <1>2, <1>4, <1>5
  <2>2. CASE k < i
    BY <1>1, <1>2, <2>1, <2>2
  <2>3. CASE ~(k < i)
    BY <1>1, <1>3, <2>1, <2>3, DropIndex
  <2> QED
    BY <2>2, <2>3
<1> QED
  BY <1>4, <1>6, <1>7 DEF a, b

\* A request that never got to the engine is taken out.
LEMMA DropShrinks ==
    ASSUME NEW p \in Seq(Requests), NEW i \in DOMAIN p
    PROVE  LET q == SubSeq(p, 1, i - 1) \o SubSeq(p, i + 1, Len(p))
           IN  /\ q \in Seq(Requests) /\ Shrinks(q, p)
               /\ \A who : Alone(p, i, who) => \A k \in DOMAIN q : q[k].from # who
<1> DEFINE q == SubSeq(p, 1, i - 1) \o SubSeq(p, i + 1, Len(p))
           f == [k \in DOMAIN q |-> IF k < i THEN k ELSE k + 1]
<1>1. Len(p) \in Nat /\ DOMAIN p = 1..Len(p) /\ i \in 1..Len(p)
  OBVIOUS
<1>2. /\ q \in Seq(Requests) /\ DOMAIN q = 1..(Len(p) - 1)
      /\ \A k \in 1..(Len(p) - 1) : q[k] = p[IF k < i THEN k ELSE k + 1]
  BY <1>1, DropElements
<1> HIDE DEF q
<1>3. /\ f \in [DOMAIN q -> DOMAIN p]
      /\ \A k \in DOMAIN q : f[k] = IF k < i THEN k ELSE k + 1
  BY <1>1, <1>2
<1>4. /\ \A j, k \in DOMAIN q : j < k => f[j] < f[k]
      /\ \A k \in DOMAIN q : f[k] # i
  BY <1>1, <1>2, <1>3
<1>5. \A k \in DOMAIN q : q[k] = p[f[k]]
  BY <1>2, <1>3
<1> HIDE DEF f
<1>6. Shrinks(q, p)
  BY <1>3, <1>4, <1>5, MapShrinks
<1>7. \A who : Alone(p, i, who) => \A k \in DOMAIN q : q[k].from # who
  BY <1>3, <1>4, <1>5 DEF Alone
<1> QED
  BY <1>2, <1>6, <1>7 DEF q

\* The process dies: every request is without its caller.
LEMMA AllGoneShrinks ==
    ASSUME NEW p \in Seq(Requests)
    PROVE  LET q == [i \in DOMAIN p |-> [p[i] EXCEPT !.from = "gone"]]
           IN  /\ q \in Seq(Requests) /\ Shrinks(q, p)
               /\ \A i \in DOMAIN q : q[i].from = "gone"
<1> DEFINE q == [i \in DOMAIN p |-> [p[i] EXCEPT !.from = "gone"]]
           f == [k \in DOMAIN q |-> k]
<1>1. ASSUME NEW i \in DOMAIN p
      PROVE  /\ [p[i] EXCEPT !.from = "gone"] \in Requests
             /\ q[i].op = p[i].op /\ q[i].call = p[i].call /\ q[i].from = "gone"
  <2>1. p[i] \in Requests
    OBVIOUS
  <2> QED
    BY <2>1 DEF Requests
<1>2. DOMAIN p = 1..Len(p) /\ Len(p) \in Nat
  OBVIOUS
<1>3. q \in Seq(Requests) /\ DOMAIN q = DOMAIN p
  BY <1>1, <1>2
<1>4. /\ f \in [DOMAIN q -> DOMAIN p] /\ \A k \in DOMAIN q : f[k] = k
      /\ \A i \in DOMAIN q : /\ q[i].op = p[i].op /\ q[i].call = p[i].call
                              /\ q[i].from = "gone"
  BY <1>1, <1>3
<1> HIDE DEF q, f
<1>5. Shrinks(q, p)
  BY <1>4, MapShrinks
<1> QED
  BY <1>3, <1>4, <1>5 DEF q

\* A restarted engine has lost every request.
LEMMA EmptyShrinks ==
    ASSUME NEW p \in Seq(Requests)
    PROVE  Shrinks(<<>>, p)
<1> DEFINE f == [k \in {} |-> k]
<1>1. DOMAIN <<>> = {} /\ f \in [{} -> DOMAIN p]
  OBVIOUS
<1> QED
  BY <1>1 DEF Shrinks

\* A request is sent.
LEMMA AppendAsks ==
    ASSUME NEW p \in Seq(Requests), NEW r \in Requests
    PROVE  LET q == Append(p, r)
           IN  /\ q \in Seq(Requests) /\ DOMAIN q = 1..(Len(p) + 1)
               /\ \A i \in DOMAIN p : q[i] = p[i]
               /\ q[Len(p) + 1] = r
               /\ \A c : Starts(q, c) <=> Starts(p, c) \/ (r.op = "start" /\ r.call = c)
<1> DEFINE q == Append(p, r)
<1>1. /\ q \in Seq(Requests) /\ DOMAIN q = 1..(Len(p) + 1) /\ Len(p) \in Nat
      /\ DOMAIN p = 1..Len(p)
      /\ \A i \in DOMAIN p : q[i] = p[i]
      /\ q[Len(p) + 1] = r
  OBVIOUS
<1> HIDE DEF q
<1>2. DOMAIN q = DOMAIN p \cup {Len(p) + 1}
  BY <1>1
<1>3. \A c : Starts(q, c) <=> Starts(p, c) \/ (r.op = "start" /\ r.call = c)
  BY <1>1, <1>2 DEF Starts
<1> QED
  BY <1>1, <1>3 DEF q

\* A Call-ID is not one of the words of a reply.
LEMMA NotStrings == \A c \in Call : c \notin {"none", "ok", "error", "idle"}
  BY LiveAssumption

-----------------------------------------------------------------------------
(* The media session *)

\* A start that works gives the slot to its call.
LEMMA MediaStarted ==
    ASSUME MediaGood, NEW c \in Call, SessionStart(c)
    PROVE  MediaGood' /\ sessions' = {c}
  BY DEF MediaGood, MediaTypeOK, OneSession, StreamReported, SessionStart, Phase

\* A stop removes at most the session it is for, and the one it was able to.
LEMMA MediaStopped ==
    ASSUME MediaGood, NEW c, NEW ok \in BOOLEAN, SessionStop(c, ok),
           UNCHANGED <<fresh, branch>>, ready' \in BOOLEAN
    PROVE  /\ MediaGood' /\ sessions' \subseteq sessions
           /\ ok => c \notin sessions'
<1>1. sessions' \subseteq sessions /\ (ok => c \notin sessions')
  BY DEF SessionStop, BranchStop
<1>2. phase' \in Phase /\ (phase' = "active" => phase = "active" /\ UNCHANGED sessions)
  BY DEF SessionStop, BranchStop, MediaGood, MediaTypeOK, Phase
<1>3. MediaGood'
  BY <1>1, <1>2 DEF MediaGood, MediaTypeOK, OneSession, StreamReported
<1> QED
  BY <1>1, <1>3

\* A keepalive or a lease that runs out leaves the session as it is.
LEMMA MediaTouched ==
    ASSUME MediaGood, UNCHANGED <<sessions, phase, branch, ready>>, fresh' \in BOOLEAN
    PROVE  MediaGood'
  BY DEF MediaGood, MediaTypeOK, OneSession, StreamReported

\* Nothing happens to the media session.
LEMMA MediaSame ==
    ASSUME MediaGood, UNCHANGED mediaVars
    PROVE  MediaGood'
  BY DEF MediaGood, MediaTypeOK, OneSession, StreamReported, mediaVars

-----------------------------------------------------------------------------
(* Steps of the engine, and of a caller that gives up *)

\* A step that leaves the daemon alone, takes requests away and brings nothing
\* but what was coming.
LEMMA EngineKeeps ==
    ASSUME IndInv, MediaGood', RpcTypes', UNCHANGED <<proc, live, dialog, bye, job, todo>>,
           Shrinks(queue', queue),
           \A c \in Own : Coming(sessions', queue', c) => Coming(sessions, queue, c),
           reply'.job = reply.job \/ \A i \in DOMAIN queue' : queue'[i].from # "job",
           reply'.main = reply.main \/ proc # "reconcile"
               \/ \A i \in DOMAIN queue' : queue'[i].from # "main",
           reply'.job \in {reply.job, "error"} \/ JobTold',
           reply'.main \in {reply.main, "error"} \/ MainTold'
    PROVE  IndInv'
<1>1. queue \in Seq(Requests) /\ queue' \in Seq(Requests)
  BY DEF IndInv, RpcTypes
<1>2. JobAsks(queue', job', reply')
  <2> SUFFICES ASSUME NEW i \in DOMAIN queue', queue'[i].from = "job"
               PROVE  /\ job # NoJob /\ reply.job = "none"
                      /\ queue'[i].op = OpOf(job.step)
                      /\ job.step \in {"start", "undo", "stop"} => queue'[i].call = job.call
                      /\ Alone(queue', i, "job") /\ LastStart(queue', i)
    BY DEF JobAsks
  <2>1. PICK k \in DOMAIN queue :
            /\ queue[k].from = "job" /\ queue[k].op = queue'[i].op
            /\ queue[k].call = queue'[i].call
            /\ Alone(queue, k, "job") => Alone(queue', i, "job")
            /\ LastStart(queue, k) => LastStart(queue', i)
    BY <1>1, ShrunkAsks
  <2> QED
    BY <2>1 DEF IndInv, JobAsks
<1>3. MainAsks(queue', proc', reply', sessions')
  <2> SUFFICES ASSUME NEW i \in DOMAIN queue', queue'[i].from = "main"
               PROVE  /\ proc # "down"
                      /\ proc = "reconcile" =>
                            /\ reply.main = "none"
                            /\ Alone(queue', i, "main") /\ LastStart(queue', i)
                            /\ queue'[i].op \in {"status", "stop"}
                            /\ queue'[i].op = "stop" =>
                                  \A c \in Own : Coming(sessions', queue', c)
                                                    => c = queue'[i].call
    BY DEF MainAsks
  <2>1. PICK k \in DOMAIN queue :
            /\ queue[k].from = "main" /\ queue[k].op = queue'[i].op
            /\ queue[k].call = queue'[i].call
            /\ Alone(queue, k, "main") => Alone(queue', i, "main")
            /\ LastStart(queue, k) => LastStart(queue', i)
    BY <1>1, ShrunkAsks
  <2> QED
    BY <2>1 DEF IndInv, MainAsks
<1>4. JobTold'
  <2>1. CASE reply'.job \in {reply.job, "error"}
    <3>1. job # NoJob => job.call \in Own
      BY DEF IndInv, JobState
    <3> QED
      BY <2>1, <3>1 DEF IndInv, JobTold, NoJob
  <2> QED
    BY <2>1
<1>5. MainTold'
  BY DEF IndInv, MainTold
<1>6. DaemonTypes' /\ OneEntry' /\ JobState'
  BY DEF IndInv, DaemonTypes, OneEntry, JobState
<1>7. Table'
  BY DEF IndInv, Table
<1>8. ByeState'
  BY DEF IndInv, ByeState
<1> QED
  BY <1>2, <1>3, <1>4, <1>5, <1>6, <1>7, <1>8 DEF IndInv

\* What serving the head of the queue does to the queue and the replies.
LEMMA Served ==
    ASSUME IndInv, queue # <<>>, NEW r \in Replies, Serve(r), UNCHANGED daemonVars
    PROVE  /\ RpcTypes' /\ Shrinks(queue', queue)
           /\ \A c : Starts(queue', c) => Starts(queue, c)
           /\ Head(queue).op = "start" => Starts(queue, Head(queue).call)
           /\ reply'.job = reply.job \/ \A i \in DOMAIN queue' : queue'[i].from # "job"
           /\ \/ reply'.main = reply.main \/ proc # "reconcile"
              \/ \A i \in DOMAIN queue' : queue'[i].from # "main"
           /\ \/ reply'.job = reply.job
              \/ /\ reply'.job = r /\ job # NoJob
                 /\ Head(queue).op = OpOf(job.step)
                 /\ job.step \in {"start", "undo", "stop"} => Head(queue).call = job.call
                 /\ \A c : ~Starts(queue', c)
           /\ \/ reply'.main = reply.main \/ proc # "reconcile"
              \/ /\ reply'.main = r
                 /\ Head(queue).op \in {"status", "stop"}
                 /\ Head(queue).op = "stop" =>
                        \A c \in Own : Coming(sessions, queue, c) => c = Head(queue).call
                 /\ \A c : ~Starts(queue', c)
<1> DEFINE h == Head(queue)
<1>1. queue \in Seq(Requests) /\ queue' = Tail(queue)
  BY DEF IndInv, RpcTypes, Serve
<1>2. /\ queue' \in Seq(Requests) /\ Shrinks(queue', queue)
      /\ 1 \in DOMAIN queue /\ h = queue[1] /\ h \in Requests
      /\ \A i \in DOMAIN queue' : i + 1 \in DOMAIN queue /\ i + 1 > 1
                                  /\ queue'[i] = queue[i + 1]
  BY <1>1, TailShrinks
<1>3. h.from \in {"job", "main", "gone"}
  BY <1>2 DEF Requests
<1>4. reply \in [job : Replies, main : Replies]
  BY DEF IndInv, RpcTypes
<1>5. /\ h.from = "gone" => reply' = reply
      /\ h.from = "job" => reply' = [reply EXCEPT !.job = r]
      /\ h.from = "main" => reply' = [reply EXCEPT !.main = r]
  BY <1>3 DEF Serve
<1>6. /\ reply' \in [job : Replies, main : Replies]
      /\ h.from # "job" => reply'.job = reply.job
      /\ h.from # "main" => reply'.main = reply.main
      /\ h.from = "job" => reply'.job = r
      /\ h.from = "main" => reply'.main = r
  BY <1>3, <1>4, <1>5
<1>7. RpcTypes'
  BY <1>2, <1>6, ShrunkOwn DEF IndInv, RpcTypes
<1>8. \A c : Starts(queue', c) => Starts(queue, c)
  BY <1>2, ShrunkStarts
<1>9. h.op = "start" => Starts(queue, h.call)
  BY <1>2 DEF Starts
<1>10. \A i \in DOMAIN queue' : ~(i + 1 = 1)
  BY <1>2
<1>11. Alone(queue, 1, "job") => \A i \in DOMAIN queue' : queue'[i].from # "job"
  BY <1>2, <1>10 DEF Alone
<1>12. Alone(queue, 1, "main") => \A i \in DOMAIN queue' : queue'[i].from # "main"
  BY <1>2, <1>10 DEF Alone
<1>13. LastStart(queue, 1) => \A c : ~Starts(queue', c)
  BY <1>2 DEF LastStart, Starts
<1>14. ASSUME h.from = "job"
       PROVE  /\ Alone(queue, 1, "job") /\ LastStart(queue, 1) /\ job # NoJob
              /\ h.op = OpOf(job.step)
              /\ job.step \in {"start", "undo", "stop"} => h.call = job.call
  BY <1>2, <1>14 DEF IndInv, JobAsks
<1>15. ASSUME h.from = "main", proc = "reconcile"
       PROVE  /\ Alone(queue, 1, "main") /\ LastStart(queue, 1)
              /\ h.op \in {"status", "stop"}
              /\ h.op = "stop" => \A c \in Own : Coming(sessions, queue, c) => c = h.call
  BY <1>2, <1>15 DEF IndInv, MainAsks
<1> QED
  BY <1>2, <1>6, <1>7, <1>8, <1>9, <1>11, <1>12, <1>13, <1>14, <1>15

\* The engine answers a status: it tells the one session, or that there is none.
LEMMA StepStatus ==
    ASSUME IndInv, HandleStatus
    PROVE  IndInv'
<1> DEFINE r == IF sessions = {} THEN "idle" ELSE CHOOSE c \in sessions : TRUE
<1>1. /\ queue # <<>> /\ Head(queue).op = "status" /\ Serve(r)
      /\ UNCHANGED <<mediaVars, daemonVars>>
  BY DEF HandleStatus, Serving
<1>2. \A c \in sessions : r = c
  BY DEF IndInv, MediaGood, OneSession
<1>3. r \in Replies
  BY <1>2 DEF Replies, IndInv, MediaGood, MediaTypeOK
<1> HIDE DEF r
<1>4. MediaGood'
  BY <1>1, MediaSame DEF IndInv
<1>5. sessions' = sessions
  BY <1>1 DEF mediaVars
<1>6. \A c \in Own : Coming(sessions', queue', c) => Coming(sessions, queue, c)
  BY <1>1, <1>3, <1>5, Served DEF Coming
<1>7. reply'.job = reply.job \/ JobTold'
  <2>1. ASSUME reply'.job = r, \A c : ~Starts(queue', c) PROVE JobTold'
    <3>1. job' = job
      BY <1>1 DEF daemonVars
    <3>2. r # "ok" \/ r \in sessions
      BY <1>2 DEF r
    <3>3. CASE r # "ok"
      BY <1>2, <1>5, <2>1, <3>1, <3>3 DEF JobTold, Coming
    <3>4. CASE r \in sessions
      <4>1. r \in Call /\ r # "ok"
        BY <3>4, NotStrings DEF IndInv, MediaGood, MediaTypeOK
      <4> QED
        BY <3>3, <4>1
    <3> QED
      BY <3>2, <3>3, <3>4
  <2> QED
    BY <1>1, <1>3, <2>1, Served
<1>8. reply'.main = reply.main \/ MainTold'
  <2>1. proc' = proc
    BY <1>1 DEF daemonVars
  <2>2. ASSUME reply'.main = r, \A c : ~Starts(queue', c) PROVE MainTold'
    BY <1>2, <1>5, <2>2 DEF MainTold, Coming
  <2>3. proc # "reconcile" => MainTold'
    BY <2>1 DEF MainTold
  <2> QED
    BY <1>1, <1>3, <2>2, <2>3, Served
<1> QED
  BY <1>1, <1>3, <1>4, <1>6, <1>7, <1>8, Served, EngineKeeps DEF daemonVars

\* The engine starts a session: it was on its way.
LEMMA StepStart ==
    ASSUME IndInv, HandleStart
    PROVE  IndInv'
<1>1. /\ queue # <<>> /\ Head(queue).op = "start" /\ SessionStart(Head(queue).call)
      /\ Serve("ok") /\ UNCHANGED daemonVars
  BY DEF HandleStart, Serving
<1>2. "ok" \in Replies
  BY DEF Replies
<1>3. /\ RpcTypes' /\ Shrinks(queue', queue)
      /\ \A c : Starts(queue', c) => Starts(queue, c)
      /\ Starts(queue, Head(queue).call)
      /\ reply'.job = reply.job \/ OpOf(job.step) = "start"
      /\ reply'.main = reply.main \/ proc # "reconcile"
  BY <1>1, <1>2, Served
<1>4. sessions' = {Head(queue).call}
  BY <1>1 DEF SessionStart
<1>5. Head(queue).call \in Own
  BY <1>1, TailShrinks DEF IndInv, RpcTypes
<1>6. MediaGood'
  BY <1>1, <1>5, MediaStarted DEF IndInv, Own
<1>7. \A c \in Own : Coming(sessions', queue', c) => Coming(sessions, queue, c)
  BY <1>3, <1>4 DEF Coming
<1>8. reply'.job = reply.job \/ JobTold'
  <2>1. OpOf(job.step) = "start" => job.step \notin {"undo", "stop", "status"}
    BY DEF OpOf
  <2> QED
    BY <1>1, <1>3, <2>1 DEF JobTold, daemonVars
<1>9. reply'.main = reply.main \/ MainTold'
  BY <1>1, <1>3 DEF MainTold, daemonVars
<1> QED
  BY <1>1, <1>2, <1>3, <1>6, <1>7, <1>8, <1>9, Served, EngineKeeps DEF daemonVars

\* A reply that is an error tells nobody anything.
LEMMA StepRefused ==
    ASSUME IndInv, HandleStartRefused
    PROVE  IndInv'
<1>1. queue # <<>> /\ Serve("error") /\ UNCHANGED <<mediaVars, daemonVars>>
  BY DEF HandleStartRefused, Serving
<1>2. "error" \in Replies
  BY DEF Replies
<1>3. MediaGood' /\ sessions' = sessions
  BY <1>1, MediaSame DEF IndInv, mediaVars
<1>4. \A c \in Own : Coming(sessions', queue', c) => Coming(sessions, queue, c)
  BY <1>1, <1>2, <1>3, Served DEF Coming
<1>5. MainTold' \/ reply'.main \in {reply.main, "error"}
  BY <1>1, <1>2, Served DEF MainTold, daemonVars
<1> QED
  BY <1>1, <1>2, <1>3, <1>4, <1>5, Served, EngineKeeps DEF daemonVars

\* The engine serves a stop: an answer of "ok" says that the call is not there.
LEMMA StepStop ==
    ASSUME IndInv, NEW ok \in BOOLEAN, HandleStop(ok)
    PROVE  IndInv'
<1> DEFINE r == IF ok THEN "ok" ELSE "error"
           h == Head(queue)
<1>1. /\ queue # <<>> /\ h.op = "stop" /\ SessionStop(h.call, ok) /\ Serve(r)
      /\ UNCHANGED <<fresh, branch, ready, daemonVars>>
  BY DEF HandleStop, Serving
<1>2. r \in Replies /\ (r = "ok" => ok) /\ r \in {"ok", "error"}
  BY DEF Replies
<1>3. MediaGood' /\ sessions' \subseteq sessions /\ (ok => h.call \notin sessions')
  <2>1. ready' \in BOOLEAN
    BY <1>1 DEF IndInv, MediaGood, MediaTypeOK
  <2> QED
    BY <1>1, <2>1, MediaStopped DEF IndInv
<1> HIDE DEF r
<1>4. \A c \in Own : Coming(sessions', queue', c) => Coming(sessions, queue, c)
  BY <1>1, <1>2, <1>3, Served DEF Coming
<1>5. reply'.job = reply.job \/ reply'.job = "error" \/ JobTold'
  <2>1. ASSUME reply'.job = "ok", h.op = OpOf(job.step), ok,
               job.step \in {"start", "undo", "stop"} => h.call = job.call,
               \A c : ~Starts(queue', c)
        PROVE  JobTold'
    <3>1. job' = job /\ job.step # "status"
      BY <1>1, <2>1 DEF daemonVars, OpOf
    <3> QED
      BY <1>3, <2>1, <3>1 DEF JobTold, Coming
  <2> QED
    BY <1>1, <1>2, <2>1, Served
<1>6. reply'.main = reply.main \/ reply'.main = "error" \/ MainTold'
  <2>1. ASSUME ok, \A c \in Own : Coming(sessions, queue, c) => c = h.call,
               \A c : ~Starts(queue', c)
        PROVE  MainTold'
    BY <1>3, <2>1 DEF MainTold, Coming
  <2>2. proc # "reconcile" => MainTold'
    BY <1>1 DEF MainTold, daemonVars
  <2> QED
    BY <1>1, <1>2, <2>1, <2>2, Served
<1> QED
  BY <1>1, <1>2, <1>3, <1>4, <1>5, <1>6, Served, EngineKeeps DEF daemonVars

\* The engine serves a keepalive.
LEMMA StepKeepalive ==
    ASSUME IndInv, HandleKeepalive
    PROVE  IndInv'
<1>1. PICK r \in {"ok", "error"} : Serve(r)
  BY DEF HandleKeepalive
<1>2. queue # <<>> /\ Head(queue).op = "keepalive" /\ UNCHANGED daemonVars
  BY DEF HandleKeepalive, Serving
<1>3. MediaGood' /\ sessions' = sessions
  <2>1. UNCHANGED mediaVars \/ SessionTouch(Head(queue).call)
    BY DEF HandleKeepalive
  <2> QED
    BY <2>1, MediaSame, MediaTouched DEF IndInv, mediaVars, SessionTouch
<1>4. r \in Replies
  BY DEF Replies
<1>5. \A c \in Own : Coming(sessions', queue', c) => Coming(sessions, queue, c)
  BY <1>1, <1>2, <1>3, <1>4, Served DEF Coming
<1>6. reply'.job = reply.job \/ JobTold'
  <2>1. OpOf(job.step) = "keepalive" => job.step \notin {"undo", "stop", "status"}
    BY DEF OpOf
  <2> QED
    BY <1>1, <1>2, <1>4, <2>1, Served DEF JobTold, daemonVars
<1>7. reply'.main = reply.main \/ MainTold'
  BY <1>1, <1>2, <1>4, Served DEF MainTold, daemonVars
<1> QED
  BY <1>1, <1>2, <1>3, <1>4, <1>5, <1>6, <1>7, Served, EngineKeeps DEF daemonVars

\* The caller gives up: there is no other request of a job, or of the main
\* goroutine while it reconciles.
LEMMA StepCallFails ==
    ASSUME IndInv, NEW who \in {"job", "main"}, CallFails(who)
    PROVE  IndInv'
<1>1. PICK i \in DOMAIN queue :
          /\ queue[i].from = who
          /\ \/ queue' = [queue EXCEPT ![i].from = "gone"]
             \/ queue' = SubSeq(queue, 1, i - 1) \o SubSeq(queue, i + 1, Len(queue))
  BY DEF CallFails
<1>2. reply' = [reply EXCEPT ![who] = "error"] /\ UNCHANGED <<mediaVars, daemonVars>>
  BY DEF CallFails
<1>3. queue \in Seq(Requests) /\ reply \in [job : Replies, main : Replies]
  BY DEF IndInv, RpcTypes
<1>4. /\ queue' \in Seq(Requests) /\ Shrinks(queue', queue)
      /\ Alone(queue, i, who) => \A k \in DOMAIN queue' : queue'[k].from # who
  <2>1. CASE queue' = [queue EXCEPT ![i].from = "gone"]
    BY <1>3, <2>1, GoneShrinks
  <2>2. CASE queue' = SubSeq(queue, 1, i - 1) \o SubSeq(queue, i + 1, Len(queue))
    BY <1>3, <2>2, DropShrinks
  <2> QED
    BY <1>1, <2>1, <2>2
<1>5. /\ reply' \in [job : Replies, main : Replies]
      /\ who = "job" => reply'.job = "error" /\ reply'.main = reply.main
      /\ who = "main" => reply'.main = "error" /\ reply'.job = reply.job
  BY <1>2, <1>3 DEF Replies
<1>6. RpcTypes'
  BY <1>4, <1>5, ShrunkOwn DEF IndInv, RpcTypes
<1>7. MediaGood' /\ sessions' = sessions
  BY <1>2, MediaSame DEF IndInv, mediaVars
<1>8. \A c \in Own : Coming(sessions', queue', c) => Coming(sessions, queue, c)
  BY <1>4, <1>7, ShrunkStarts DEF Coming
<1>9. /\ who = "job" => Alone(queue, i, who)
      /\ who = "main" /\ proc = "reconcile" => Alone(queue, i, who)
  BY <1>1 DEF IndInv, JobAsks, MainAsks
<1> QED
  BY <1>2, <1>4, <1>5, <1>6, <1>7, <1>8, <1>9, EngineKeeps DEF daemonVars

-----------------------------------------------------------------------------
(* The engine on its own *)

\* A step of the media session alone.
LEMMA EngineAlone ==
    ASSUME IndInv, MediaGood', sessions' \cap Own \subseteq sessions,
           UNCHANGED <<daemonVars, rpcVars>>
    PROVE  IndInv'
<1>1. RpcTypes'
  BY DEF IndInv, RpcTypes, rpcVars
<1>2. \A c \in Own : Coming(sessions', queue', c) => Coming(sessions, queue, c)
  BY DEF Coming, rpcVars
<1> DEFINE f == [i \in DOMAIN queue |-> i]
<1>3. f \in [DOMAIN queue -> DOMAIN queue] /\ \A i \in DOMAIN queue : f[i] = i
  OBVIOUS
<1> HIDE DEF f
<1>4. Shrinks(queue', queue)
  BY <1>3, MapShrinks DEF rpcVars
<1> QED
  BY <1>1, <1>2, <1>4, EngineKeeps DEF daemonVars, rpcVars

\* GStreamer faults, the end of a branch and the lease.
LEMMA StepMedia ==
    ASSUME IndInv, MediaFault \/ MediaIdle \/ LeaseTimeout \/ MediaReap
    PROVE  IndInv'
<1>1. UNCHANGED <<daemonVars, rpcVars>>
  BY DEF MediaFault, MediaIdle, LeaseTimeout, MediaReap
<1>2. MediaGood
  BY DEF IndInv
<1>3. CASE MediaFault
  <2>1. ASSUME NEW error \in BOOLEAN, NEW ok \in BOOLEAN, GstFault(error, ok)
        PROVE  IndInv'
    <3>1. SessionStop(branch, ok) /\ ready' \in BOOLEAN /\ UNCHANGED <<fresh, branch>>
      BY <2>1 DEF GstFault
    <3> QED
      BY <1>1, <1>2, <3>1, MediaStopped, EngineAlone
  <2>2. CASE GstBaseError
    <3>1. MediaGood' /\ sessions' = sessions
      BY <1>2, <2>2 DEF GstBaseError, MediaGood, MediaTypeOK, OneSession, StreamReported
    <3> QED
      BY <1>1, <3>1, EngineAlone
  <2> QED
    BY <1>3, <2>1, <2>2 DEF MediaFault
<1>4. CASE MediaIdle
  <2>1. MediaGood' /\ sessions' = sessions
    BY <1>2, <1>4 DEF MediaIdle, NullReached, DestroyIdle, MediaGood, MediaTypeOK,
                      OneSession, StreamReported, Phase
  <2> QED
    BY <1>1, <2>1, EngineAlone
<1>5. CASE LeaseTimeout
  <2>1. MediaGood' /\ sessions' = sessions
    BY <1>2, <1>5, MediaTouched DEF LeaseTimeout, LeaseRunsOut
  <2> QED
    BY <1>1, <2>1, EngineAlone
<1>6. CASE MediaReap
  <2>1. PICK ok \in BOOLEAN, c \in sessions : SessionStop(c, ok)
    BY <1>6 DEF MediaReap, Reap
  <2>2. UNCHANGED <<fresh, branch>> /\ ready' \in BOOLEAN
    BY <1>2, <1>6 DEF MediaReap, Reap, MediaGood, MediaTypeOK
  <2> QED
    BY <1>1, <1>2, <2>1, <2>2, MediaStopped, EngineAlone
<1> QED
  BY <1>3, <1>4, <1>5, <1>6

\* The engine restarts.
LEMMA StepRestart ==
    ASSUME IndInv, EngineRestart
    PROVE  IndInv'
<1>1. /\ sessions' = {} /\ queue' = <<>> /\ UNCHANGED daemonVars
      /\ reply' = [w \in {"job", "main"} |->
                      IF \E i \in DOMAIN queue : queue[i].from = w
                      THEN "error" ELSE reply[w]]
  BY DEF EngineRestart
<1>2. MediaGood'
  BY DEF EngineRestart, MediaGood, MediaTypeOK, OneSession, StreamReported, Phase
<1>3. queue \in Seq(Requests) /\ reply \in [job : Replies, main : Replies]
  BY DEF IndInv, RpcTypes
<1>4. /\ reply' \in [job : Replies, main : Replies]
      /\ reply'.job \in {reply.job, "error"} /\ reply'.main \in {reply.main, "error"}
  BY <1>1, <1>3 DEF Replies
<1>5. DOMAIN queue' = {} /\ queue' \in Seq(Requests) /\ Shrinks(queue', queue)
  BY <1>1, <1>3, EmptyShrinks
<1>6. RpcTypes'
  BY <1>4, <1>5 DEF RpcTypes
<1>7. \A c \in Own : ~Coming(sessions', queue', c)
  BY <1>1, <1>5 DEF Coming, Starts
<1> QED
  BY <1>1, <1>2, <1>4, <1>5, <1>6, <1>7, EngineKeeps DEF daemonVars

-----------------------------------------------------------------------------
(* The daemon: what a request, an answer and a quiet step do to the RPCs *)

\* Nothing is asked or answered.
LEMMA RpcSame ==
    ASSUME IndInv, UNCHANGED <<queue, reply, sessions, proc, job>>
    PROVE  /\ RpcTypes' /\ JobAsks(queue, job, reply)' /\ JobTold'
           /\ MainAsks(queue, proc, reply, sessions)' /\ MainTold'
           /\ \A d : Coming(sessions', queue', d) <=> Coming(sessions, queue, d)
<1>1. RpcTypes' /\ JobTold' /\ MainTold'
  BY DEF IndInv, RpcTypes, JobTold, MainTold
<1>2. JobAsks(queue, job, reply)' /\ MainAsks(queue, proc, reply, sessions)'
  BY DEF IndInv, JobAsks, MainAsks
<1> QED
  BY <1>1, <1>2

\* The job sends a request: it has no other, and no start is sent behind it.
LEMMA SendJob ==
    ASSUME IndInv, job = NoJob \/ reply.job # "none",
           NEW op \in {"status", "start", "stop", "keepalive"},
           NEW c \in Call \cup {None}, Send("job", op, c),
           UNCHANGED <<sessions, proc>>, proc \in {"running", "stopping"},
           job' # NoJob, op = OpOf(job'.step),
           job'.step \in {"start", "undo", "stop"} => c = job'.call,
           op = "start" => c \in Own
    PROVE  /\ RpcTypes' /\ JobAsks(queue, job, reply)' /\ JobTold'
           /\ MainAsks(queue, proc, reply, sessions)' /\ MainTold'
           /\ \A d : Coming(sessions', queue', d) <=>
                         Coming(sessions, queue, d) \/ (op = "start" /\ d = c)
<1> DEFINE r == [op |-> op, call |-> c, from |-> "job"]
<1>1. queue \in Seq(Requests) /\ reply \in [job : Replies, main : Replies]
  BY DEF IndInv, RpcTypes
<1>2. r \in Requests /\ r.op = op /\ r.call = c /\ r.from = "job"
  BY DEF Requests
<1>3. queue' = Append(queue, r) /\ reply' = [reply EXCEPT !.job = "none"]
  BY DEF Send
<1>4. /\ reply' \in [job : Replies, main : Replies]
      /\ reply'.job = "none" /\ reply'.main = reply.main
  BY <1>1, <1>3 DEF Replies
<1> HIDE DEF r
<1> DEFINE n == Len(queue) + 1
<1>5. /\ queue' \in Seq(Requests) /\ DOMAIN queue' = 1..n /\ Len(queue) \in Nat
      /\ DOMAIN queue = 1..Len(queue)
      /\ \A i \in DOMAIN queue : queue'[i] = queue[i]
      /\ queue'[n] = r
      /\ \A d : Starts(queue', d) <=> Starts(queue, d) \/ (r.op = "start" /\ r.call = d)
  <2>1. Len(queue) \in Nat /\ DOMAIN queue = 1..Len(queue)
    BY <1>1
  <2> QED
    BY <1>1, <1>2, <1>3, <2>1, AppendAsks
<1>6. DOMAIN queue' = DOMAIN queue \cup {n}
  BY <1>5
<1>7. \A i \in DOMAIN queue : queue[i].from # "job"
  BY DEF IndInv, JobAsks
<1>8. JobAsks(queue', job', reply')
  <2>1. \A i \in DOMAIN queue' : queue'[i].from = "job" => i = n
    BY <1>5, <1>6, <1>7
  <2>2. LastStart(queue', n)
    BY <1>5 DEF LastStart
  <2> QED
    BY <1>2, <1>4, <1>5, <2>1, <2>2 DEF JobAsks, Alone
<1>9. MainAsks(queue', proc', reply', sessions')
  BY <1>2, <1>5, <1>6 DEF IndInv, MainAsks
<1>10. RpcTypes'
  BY <1>2, <1>4, <1>5, <1>6 DEF IndInv, RpcTypes
<1>11. JobTold' /\ MainTold'
  BY <1>4 DEF JobTold, MainTold
<1>12. \A d : Coming(sessions', queue', d) <=>
                 Coming(sessions, queue, d) \/ (op = "start" /\ d = c)
  BY <1>2, <1>5 DEF Coming
<1> QED
  BY <1>8, <1>9, <1>10, <1>11, <1>12

\* The job is done and mediaMu free.
LEMMA UnlockJob ==
    ASSUME IndInv, reply.job # "none", Unlock, UNCHANGED <<sessions, proc>>
    PROVE  /\ RpcTypes' /\ JobAsks(queue, job, reply)' /\ JobTold'
           /\ MainAsks(queue, proc, reply, sessions)' /\ MainTold'
           /\ \A d : Coming(sessions', queue', d) <=> Coming(sessions, queue, d)
<1>1. reply \in [job : Replies, main : Replies]
  BY DEF IndInv, RpcTypes
<1>2. /\ job' = NoJob /\ queue' = queue
      /\ reply' = [reply EXCEPT !.job = "none"]
  BY DEF Unlock, Received
<1>3. /\ reply' \in [job : Replies, main : Replies]
      /\ reply'.job = "none" /\ reply'.main = reply.main
  BY <1>1, <1>2 DEF Replies
<1>4. \A i \in DOMAIN queue : queue[i].from # "job"
  BY DEF IndInv, JobAsks
<1>5. JobAsks(queue', job', reply')
  BY <1>2, <1>4 DEF JobAsks
<1>6. MainAsks(queue', proc', reply', sessions') /\ MainTold'
  BY <1>2, <1>3 DEF IndInv, MainAsks, MainTold
<1>7. RpcTypes' /\ JobTold'
  BY <1>2, <1>3 DEF IndInv, RpcTypes, JobTold, NoJob
<1> QED
  BY <1>2, <1>5, <1>6, <1>7

\* The pieces of the invariant.
LEMMA Combine ==
    ASSUME /\ RpcTypes' /\ JobAsks(queue, job, reply)' /\ JobTold'
           /\ MainAsks(queue, proc, reply, sessions)' /\ MainTold',
           MediaGood', DaemonTypes', OneEntry', JobState', Table', ByeState'
    PROVE  IndInv'
  BY DEF IndInv

-----------------------------------------------------------------------------
(* The critical sections *)

Locks == {<<"prepare", "status">>, <<"accept", "start">>, <<"bye", "stop">>,
          <<"release", "stop">>, <<"lease", "keepalive">>}

\* A job takes the lock; a start is sent for a reservation alone.
LEMMA LockKeeps ==
    ASSUME IndInv, NEW c \in Own, NEW kind, NEW op, <<kind, op>> \in Locks,
           Lock(kind, c, op), UNCHANGED <<mediaVars, proc, live, todo>>,
           op = "start" => live[c] = "pending",
           kind = "prepare" => dialog'[c] = "prepare",
           kind = "bye" => bye'[c] = "stopping",
           dialog' \in [Call -> {"none", "prepare", "wait", "accept", "start", "fail",
                                 "ended"}],
           bye' \in [Call -> {"none", "received", "stopping", "released", "failed"}],
           \A d \in Call :
               /\ bye'[d] # "none" => d \in Own /\ dialog'[d] \notin {"none", "prepare"}
               /\ bye'[d] = "released" => bye[d] = "released"
    PROVE  IndInv'
<1>1. /\ proc \in {"running", "stopping"} /\ job = NoJob
      /\ job' = [kind |-> kind, call |-> c, step |-> op] /\ Send("job", op, c)
  BY DEF Lock, Up
<1>2. /\ op \in {"status", "start", "stop", "keepalive"} /\ OpOf(op) = op
      /\ kind \in {"prepare", "accept", "bye", "release", "lease"}
  BY DEF Locks, OpOf
<1>3. /\ kind = "prepare" => op = "status"
      /\ kind = "accept" <=> op = "start"
      /\ kind \in {"bye", "release"} => op = "stop"
      /\ kind = "lease" => op = "keepalive"
  BY DEF Locks
<1>4. job'.kind = kind /\ job'.call = c /\ job'.step = op
  BY <1>1
<1>5. job' # NoJob
  BY <1>2, <1>4 DEF NoJob
<1>6. c \in Call
  BY DEF Own
<1>7. /\ RpcTypes' /\ JobAsks(queue, job, reply)' /\ JobTold'
      /\ MainAsks(queue, proc, reply, sessions)' /\ MainTold'
      /\ \A d : Coming(sessions', queue', d) <=>
                    Coming(sessions, queue, d) \/ (op = "start" /\ d = c)
  BY <1>1, <1>2, <1>4, <1>5, <1>6, SendJob DEF mediaVars
<1>8. MediaGood' /\ OneEntry'
  BY MediaSame DEF IndInv, OneEntry
<1>9. DaemonTypes'
  <2>1. job' \in Jobs
    BY <1>1, <1>2, <1>6 DEF Jobs
  <2> QED
    BY <2>1 DEF IndInv, DaemonTypes
<1>10. JobState'
  BY <1>1, <1>2, <1>3, <1>4 DEF JobState
<1>11. Table'
  <2>1. \A d \in Call : live[d] = "pending" /\ Coming(sessions, queue, d) => FALSE
    BY <1>1 DEF IndInv, Table, NoJob
  <2> QED
    BY <1>1, <1>3, <1>4, <1>7, <2>1 DEF IndInv, Table
<1>12. ByeState'
  BY <1>7 DEF IndInv, ByeState
<1> QED
  BY <1>7, <1>8, <1>9, <1>10, <1>11, <1>12, Combine

\* The steps that take mediaMu.
LEMMA StepLock ==
    ASSUME IndInv, NEW c \in Call,
           \/ Invite(c) \/ Accept(c) \/ Bye(c) \/ LeaseCleanup(c) \/ LeaseMaxLive(c)
           \/ LeaseRefresh(c) \/ PlatformLost(c)
    PROVE  IndInv'
<1>1. DaemonTypes /\ ByeState
  BY DEF IndInv
<1>2. live[c] # "none" => c \in Own
  BY DEF IndInv, Table
<1>3. CASE Invite(c)
  <2>1. /\ c \in Own /\ dialog[c] = "none" /\ Lock("prepare", c, "status")
        /\ dialog' = [dialog EXCEPT ![c] = "prepare"]
        /\ UNCHANGED <<mediaVars, proc, live, bye, todo>>
    BY <1>3 DEF Invite
  <2>2. dialog'[c] = "prepare" /\ \A d \in Call : d # c => dialog'[d] = dialog[d]
    BY <1>1, <2>1 DEF DaemonTypes
  <2>3. /\ dialog' \in [Call -> {"none", "prepare", "wait", "accept", "start", "fail",
                                 "ended"}]
        /\ bye' \in [Call -> {"none", "received", "stopping", "released", "failed"}]
    BY <1>1, <2>1 DEF DaemonTypes
  <2>4. bye[c] = "none"
    BY <1>1, <2>1 DEF ByeState
  <2>5. \A d \in Call :
            /\ bye'[d] # "none" => d \in Own /\ dialog'[d] \notin {"none", "prepare"}
            /\ bye'[d] = "released" => bye[d] = "released"
    BY <1>1, <2>1, <2>2, <2>4 DEF ByeState
  <2>6. <<"prepare", "status">> \in Locks
    BY DEF Locks
  <2> QED
    BY <2>1, <2>2, <2>3, <2>5, <2>6, LockKeeps
<1>4. CASE Accept(c)
  <2>1. /\ live[c] = "pending" /\ Lock("accept", c, "start")
        /\ dialog' = [dialog EXCEPT ![c] = "start"]
        /\ UNCHANGED <<mediaVars, proc, live, bye, todo>>
    BY <1>4 DEF Accept
  <2>2. dialog'[c] = "start" /\ \A d \in Call : d # c => dialog'[d] = dialog[d]
    BY <1>1, <2>1 DEF DaemonTypes
  <2>3. /\ dialog' \in [Call -> {"none", "prepare", "wait", "accept", "start", "fail",
                                 "ended"}]
        /\ bye' \in [Call -> {"none", "received", "stopping", "released", "failed"}]
    BY <1>1, <2>1 DEF DaemonTypes
  <2>4. \A d \in Call :
            /\ bye'[d] # "none" => d \in Own /\ dialog'[d] \notin {"none", "prepare"}
            /\ bye'[d] = "released" => bye[d] = "released"
    BY <1>1, <2>1, <2>2 DEF ByeState
  <2>5. <<"accept", "start">> \in Locks
    BY DEF Locks
  <2> QED
    BY <1>2, <2>1, <2>3, <2>4, <2>5, LockKeeps
<1>5. CASE Bye(c)
  <2>1. /\ bye[c] = "received" /\ Lock("bye", c, "stop")
        /\ bye' = [bye EXCEPT ![c] = "stopping"]
        /\ UNCHANGED <<mediaVars, proc, live, dialog, todo>>
    BY <1>5 DEF Bye
  <2>2. bye'[c] = "stopping" /\ \A d \in Call : d # c => bye'[d] = bye[d]
    BY <1>1, <2>1 DEF DaemonTypes
  <2>3. /\ dialog' \in [Call -> {"none", "prepare", "wait", "accept", "start", "fail",
                                 "ended"}]
        /\ bye' \in [Call -> {"none", "received", "stopping", "released", "failed"}]
    BY <1>1, <2>1 DEF DaemonTypes
  <2>4. \A d \in Call :
            /\ bye'[d] # "none" => d \in Own /\ dialog'[d] \notin {"none", "prepare"}
            /\ bye'[d] = "released" => bye[d] = "released"
    BY <1>1, <2>1, <2>2 DEF ByeState
  <2>5. <<"bye", "stop">> \in Locks /\ c \in Own
    BY <1>1, <2>1 DEF Locks, ByeState
  <2> QED
    BY <2>1, <2>2, <2>3, <2>4, <2>5, LockKeeps
<1>6. CASE LeaseCleanup(c) \/ LeaseMaxLive(c) \/ LeaseRefresh(c) \/ PlatformLost(c)
  <2>1. /\ live[c] # "none"
        /\ Lock("release", c, "stop") \/ Lock("lease", c, "keepalive")
        /\ UNCHANGED <<mediaVars, proc, live, dialog, bye, todo>>
    BY <1>6 DEF LeaseCleanup, LeaseMaxLive, LeaseRefresh, PlatformLost
  <2>2. /\ dialog' \in [Call -> {"none", "prepare", "wait", "accept", "start", "fail",
                                 "ended"}]
        /\ bye' \in [Call -> {"none", "received", "stopping", "released", "failed"}]
        /\ \A d \in Call :
               /\ bye'[d] # "none" => d \in Own /\ dialog'[d] \notin {"none", "prepare"}
               /\ bye'[d] = "released" => bye[d] = "released"
    BY <1>1, <2>1 DEF DaemonTypes, ByeState
  <2>3. <<"release", "stop">> \in Locks /\ <<"lease", "keepalive">> \in Locks
    BY DEF Locks
  <2>4. CASE Lock("release", c, "stop")
    BY <1>2, <2>1, <2>2, <2>3, <2>4, LockKeeps
  <2>5. CASE Lock("lease", c, "keepalive")
    BY <1>2, <2>1, <2>2, <2>3, <2>5, LockKeeps
  <2> QED
    BY <2>1, <2>4, <2>5
<1> QED
  BY <1>3, <1>4, <1>5, <1>6

Goes == {<<"prepare", "orphan", "stop">>, <<"prepare", "again", "status">>,
         <<"accept", "undo", "stop">>, <<"lease", "status", "status">>}

\* A job that has its answer.
LEMMA AtFacts ==
    ASSUME IndInv, NEW kind, NEW step, kind # "none", At(kind, step)
    PROVE  /\ job.kind = kind /\ job.step = step /\ job # NoJob /\ reply.job # "none"
           /\ UNCHANGED <<mediaVars, proc, todo>> /\ UNCHANGED sessions /\ MediaGood'
           /\ proc \in {"running", "stopping"} /\ job.call \in Own /\ job.call \in Call
<1>1. /\ job.kind = kind /\ job.step = step /\ reply.job # "none"
      /\ UNCHANGED <<mediaVars, proc, todo>>
  BY DEF At, Answered
<1>2. job # NoJob
  BY <1>1 DEF NoJob
<1>3. MediaGood' /\ UNCHANGED sessions
  BY <1>1, MediaSame DEF IndInv, mediaVars
<1> QED
  BY <1>1, <1>2, <1>3 DEF IndInv, JobState, Own

\* The job goes on with another RPC.
LEMMA GoOnKeeps ==
    ASSUME IndInv, NEW kind, NEW from, NEW step, NEW op, NEW c \in Call \cup {None},
           At(kind, from), <<kind, step, op>> \in Goes, GoOn(step, op, c),
           step = "undo" => c = job.call, UNCHANGED <<live, dialog, bye>>
    PROVE  IndInv'
<1>1. /\ op \in {"status", "stop"} /\ op = OpOf(step) /\ kind # "none"
      /\ step \in {"orphan", "again", "undo", "status"}
      /\ kind \in {"prepare", "accept", "lease"}
      /\ kind = "prepare" => step \in {"orphan", "again"}
      /\ kind = "accept" => step = "undo"
      /\ kind = "lease" => step = "status"
  BY DEF Goes, OpOf
<1>2. /\ job.kind = kind /\ job # NoJob /\ reply.job # "none"
      /\ UNCHANGED <<mediaVars, proc, todo>> /\ UNCHANGED sessions /\ MediaGood'
      /\ proc \in {"running", "stopping"} /\ job.call \in Own
  BY <1>1, AtFacts
<1>3. job' = [job EXCEPT !.step = step] /\ Send("job", op, c)
  BY DEF GoOn
<1>4. job \in Jobs
  BY DEF IndInv, DaemonTypes
<1>5. job' \in Jobs /\ job'.kind = kind /\ job'.call = job.call /\ job'.step = step
  BY <1>1, <1>2, <1>3, <1>4 DEF Jobs
<1>6. job' # NoJob
  BY <1>1, <1>5 DEF NoJob
<1>7. /\ RpcTypes' /\ JobAsks(queue, job, reply)' /\ JobTold'
      /\ MainAsks(queue, proc, reply, sessions)' /\ MainTold'
      /\ \A d : Coming(sessions', queue', d) <=>
                    Coming(sessions, queue, d) \/ (op = "start" /\ d = c)
  BY <1>1, <1>2, <1>3, <1>5, <1>6, SendJob
<1>8. \A d : Coming(sessions', queue', d) <=> Coming(sessions, queue, d)
  BY <1>1, <1>7
<1>9. DaemonTypes' /\ OneEntry'
  BY <1>2, <1>5 DEF IndInv, DaemonTypes, OneEntry
<1>10. JobState'
  BY <1>1, <1>2, <1>5 DEF IndInv, JobState
<1>11. Table'
  BY <1>2, <1>5, <1>8 DEF IndInv, Table
<1>12. ByeState'
  BY <1>8 DEF IndInv, ByeState
<1> QED
  BY <1>2, <1>7, <1>9, <1>10, <1>11, <1>12, Combine

\* The job is done: what is streamed, or may yet be, has its entry, and what a
\* BYE has released is not and has none.
LEMMA UnlockKeeps ==
    ASSUME IndInv, NEW kind, NEW step, kind # "none", At(kind, step), Unlock,
           live' \in [Call -> {"none", "pending", "active", "cleanup"}],
           dialog' \in [Call -> {"none", "prepare", "wait", "accept", "start", "fail",
                                 "ended"}],
           bye' \in [Call -> {"none", "received", "stopping", "released", "failed"}],
           OneEntry',
           \A d \in Call :
               /\ live'[d] # "none" => d \in Own
               /\ d \in Own /\ Coming(sessions, queue, d) => live'[d] # "none"
               /\ live'[d] = "pending" => ~Coming(sessions, queue, d)
               /\ bye'[d] # "none" => d \in Own /\ dialog'[d] \notin {"none", "prepare"}
               /\ bye'[d] = "released" => /\ live'[d] = "none"
                                          /\ ~Coming(sessions, queue, d)
    PROVE  IndInv'
<1>1. /\ reply.job # "none"
      /\ UNCHANGED <<mediaVars, proc, todo>> /\ UNCHANGED sessions /\ MediaGood'
      /\ proc \in {"running", "stopping"}
  BY AtFacts
<1>2. /\ RpcTypes' /\ JobAsks(queue, job, reply)' /\ JobTold'
      /\ MainAsks(queue, proc, reply, sessions)' /\ MainTold'
      /\ \A d : Coming(sessions', queue', d) <=> Coming(sessions, queue, d)
  BY <1>1, UnlockJob
<1>3. job' = NoJob /\ job' \in Jobs
  BY DEF Unlock, NoJob, Jobs
<1>4. DaemonTypes' /\ JobState'
  BY <1>1, <1>3 DEF IndInv, DaemonTypes, JobState
<1>5. Table' /\ ByeState'
  BY <1>1, <1>2, Zenon DEF Own, Table, ByeState
<1> QED
  BY <1>1, <1>2, <1>4, <1>5, Combine

\* PrepareInvite ends: the call gets the free slot, or is refused.
LEMMA ReserveKeeps ==
    ASSUME IndInv, NEW step, At("prepare", step), Reserve, UNCHANGED bye
    PROVE  IndInv'
<1> DEFINE c == job.call
<1>1. /\ job.kind = "prepare" /\ job # NoJob /\ proc \in {"running", "stopping"}
      /\ c \in Own /\ c \in Call
  BY AtFacts
<1>2. DaemonTypes /\ OneEntry /\ Table /\ ByeState /\ dialog[c] = "prepare"
  BY <1>1 DEF IndInv, JobState
<1>3. Unlock
  BY DEF Reserve
<1>4. bye[c] = "none"
  BY <1>1, <1>2 DEF ByeState
<1>5. \A d \in Call : live[d] = "pending" => ~Coming(sessions, queue, d)
  BY <1>1, <1>2 DEF Table
<1>6. CASE live' = live /\ dialog' = Rejected
  <2>1. /\ dialog' \in [Call -> {"none", "prepare", "wait", "accept", "start", "fail",
                                 "ended"}]
        /\ dialog'[c] = "ended" /\ \A d \in Call : d # c => dialog'[d] = dialog[d]
    BY <1>1, <1>2, <1>6 DEF DaemonTypes, Rejected
  <2>2. OneEntry' /\ live' \in [Call -> {"none", "pending", "active", "cleanup"}]
        /\ bye' \in [Call -> {"none", "received", "stopping", "released", "failed"}]
    BY <1>2, <1>6 DEF OneEntry, DaemonTypes
  <2>3. \A d \in Call :
            /\ live'[d] # "none" => d \in Own
            /\ d \in Own /\ Coming(sessions, queue, d) => live'[d] # "none"
            /\ live'[d] = "pending" => ~Coming(sessions, queue, d)
            /\ bye'[d] # "none" => d \in Own /\ dialog'[d] \notin {"none", "prepare"}
            /\ bye'[d] = "released" => /\ live'[d] = "none"
                                       /\ ~Coming(sessions, queue, d)
    BY <1>1, <1>2, <1>5, <1>6, <2>1 DEF Table, ByeState
  <2> QED
    BY <1>3, <2>1, <2>2, <2>3, UnlockKeeps
<1>7. CASE /\ Entries = {} /\ live' = [live EXCEPT ![c] = "pending"]
           /\ dialog' = [dialog EXCEPT ![c] = "wait"]
  <2>1. /\ dialog' \in [Call -> {"none", "prepare", "wait", "accept", "start", "fail",
                                 "ended"}]
        /\ dialog'[c] = "wait" /\ \A d \in Call : d # c => dialog'[d] = dialog[d]
    BY <1>1, <1>2, <1>7 DEF DaemonTypes
  <2>2. /\ live' \in [Call -> {"none", "pending", "active", "cleanup"}]
        /\ live'[c] = "pending" /\ \A d \in Call : d # c => live'[d] = "none"
        /\ \A d \in Call : live[d] = "none"
    BY <1>1, <1>2, <1>7 DEF DaemonTypes, Entries
  <2>3. OneEntry' /\ bye' \in [Call -> {"none", "received", "stopping", "released", "failed"}]
    BY <1>2, <2>2 DEF OneEntry, DaemonTypes
  <2>4. \A d \in Own : ~Coming(sessions, queue, d)
    BY <1>1, <1>2, <2>2 DEF Table, Own
  <2>5. \A d \in Call :
            /\ live'[d] # "none" => d \in Own
            /\ d \in Own /\ Coming(sessions, queue, d) => live'[d] # "none"
            /\ live'[d] = "pending" => ~Coming(sessions, queue, d)
            /\ bye'[d] # "none" => d \in Own /\ dialog'[d] \notin {"none", "prepare"}
            /\ bye'[d] = "released" => /\ live'[d] = "none"
                                       /\ ~Coming(sessions, queue, d)
    BY <1>1, <1>2, <1>4, <2>1, <2>2, <2>4 DEF ByeState
  <2> QED
    BY <1>3, <2>1, <2>2, <2>3, <2>5, UnlockKeeps
<1>8. \/ live' = live /\ dialog' = Rejected
      \/ /\ Entries = {} /\ live' = [live EXCEPT ![c] = "pending"]
         /\ dialog' = [dialog EXCEPT ![c] = "wait"]
  BY DEF Reserve
<1> QED
  BY <1>6, <1>7, <1>8

\* PrepareInvite after each of its answers.
LEMMA StepPrepare ==
    ASSUME IndInv, PrepareStatus \/ PrepareOrphan \/ PrepareAgain
    PROVE  IndInv'
<1>1. CASE PrepareStatus
  <2>1. CASE Reserve
    BY <1>1, <2>1, ReserveKeeps DEF PrepareStatus
  <2>2. ASSUME NEW c \in Call, GoOn("orphan", "stop", c), UNCHANGED <<live, dialog>>
        PROVE  IndInv'
    <3>1. <<"prepare", "orphan", "stop">> \in Goes
      BY DEF Goes
    <3> QED
      BY <1>1, <2>2, <3>1, GoOnKeeps DEF PrepareStatus
  <2> QED
    BY <1>1, <2>1, <2>2 DEF PrepareStatus
<1>2. CASE PrepareOrphan
  <2>1. At("prepare", "orphan") /\ UNCHANGED <<live, bye>>
    BY <1>2 DEF PrepareOrphan
  <2>2. CASE GoOn("again", "status", None) /\ UNCHANGED dialog
    <3>1. <<"prepare", "again", "status">> \in Goes
      BY DEF Goes
    <3> QED
      BY <2>1, <2>2, <3>1, GoOnKeeps
  <2>3. CASE Unlock /\ dialog' = Rejected
    <3>1. job.kind = "prepare" /\ job.call \in Call
      BY <2>1, AtFacts
    <3>2. DaemonTypes /\ OneEntry /\ Table /\ ByeState
          /\ proc \in {"running", "stopping"}
      BY <2>1, AtFacts DEF IndInv
    <3>3. /\ dialog' \in [Call -> {"none", "prepare", "wait", "accept", "start", "fail",
                                   "ended"}]
          /\ \A d \in Call : dialog'[d] \in {dialog[d], "ended"}
      BY <2>3, <3>1, <3>2 DEF DaemonTypes, Rejected
    <3>4. OneEntry' /\ live' \in [Call -> {"none", "pending", "active", "cleanup"}]
          /\ bye' \in [Call -> {"none", "received", "stopping", "released", "failed"}]
      BY <2>1, <3>2 DEF OneEntry, DaemonTypes
    <3>5. \A d \in Call :
              /\ live'[d] # "none" => d \in Own
              /\ d \in Own /\ Coming(sessions, queue, d) => live'[d] # "none"
              /\ live'[d] = "pending" => ~Coming(sessions, queue, d)
              /\ bye'[d] # "none" => d \in Own /\ dialog'[d] \notin {"none", "prepare"}
              /\ bye'[d] = "released" => /\ live'[d] = "none"
                                         /\ ~Coming(sessions, queue, d)
      BY <2>1, <3>1, <3>2, <3>3 DEF Table, ByeState
    <3> QED
      BY <2>1, <2>3, <3>3, <3>4, <3>5, UnlockKeeps
  <2> QED
    BY <1>2, <2>2, <2>3 DEF PrepareOrphan
<1>3. CASE PrepareAgain
  BY <1>3, ReserveKeeps DEF PrepareAgain
<1> QED
  BY <1>1, <1>2, <1>3

\* A job ends with the entry of its call changed to v.
LEMMA EntryKeeps ==
    ASSUME IndInv, NEW kind \in {"accept", "bye", "release", "lease"}, NEW step,
           At(kind, step), Unlock,
           NEW v \in {"none", "active", "cleanup"},
           live' = [live EXCEPT ![job.call] = v],
           v # "none" => live[job.call] # "none",
           v = "none" => ~Coming(sessions, queue, job.call),
           NEW x \in {dialog[job.call], "ended", "fail"},
           dialog' = [dialog EXCEPT ![job.call] = x],
           NEW y \in {bye[job.call], "released", "failed"},
           bye' = [bye EXCEPT ![job.call] = y],
           y # bye[job.call] => bye[job.call] # "none",
           y # bye[job.call] /\ y = "released" => v = "none"
    PROVE  IndInv'
<1> DEFINE c == job.call
<1>1. /\ job.kind = kind /\ job # NoJob /\ proc \in {"running", "stopping"}
      /\ c \in Own /\ c \in Call
  BY AtFacts
<1>2. DaemonTypes /\ OneEntry /\ Table /\ ByeState
  BY DEF IndInv
<1>3. /\ live' \in [Call -> {"none", "pending", "active", "cleanup"}]
      /\ live'[c] = v /\ \A d \in Call : d # c => live'[d] = live[d]
  BY <1>1, <1>2 DEF DaemonTypes
<1>4. /\ dialog' \in [Call -> {"none", "prepare", "wait", "accept", "start", "fail",
                               "ended"}]
      /\ dialog'[c] = x /\ \A d \in Call : d # c => dialog'[d] = dialog[d]
  BY <1>1, <1>2 DEF DaemonTypes
<1>5. /\ bye' \in [Call -> {"none", "received", "stopping", "released", "failed"}]
      /\ bye'[c] = y /\ \A d \in Call : d # c => bye'[d] = bye[d]
  BY <1>1, <1>2 DEF DaemonTypes
<1> HIDE DEF c
<1>6. OneEntry'
  BY <1>1, <1>2, <1>3 DEF OneEntry, c
<1>7. ASSUME NEW d \in Call, d # c
      PROVE  /\ live'[d] # "none" => d \in Own
             /\ d \in Own /\ Coming(sessions, queue, d) => live'[d] # "none"
             /\ live'[d] = "pending" => ~Coming(sessions, queue, d)
             /\ bye'[d] # "none" => d \in Own /\ dialog'[d] \notin {"none", "prepare"}
             /\ bye'[d] = "released" => /\ live'[d] = "none"
                                        /\ ~Coming(sessions, queue, d)
  BY <1>1, <1>2, <1>3, <1>4, <1>5, <1>7 DEF Table, ByeState, c
<1>8. /\ live'[c] # "none" => c \in Own
      /\ c \in Own /\ Coming(sessions, queue, c) => live'[c] # "none"
      /\ live'[c] = "pending" => ~Coming(sessions, queue, c)
      /\ bye'[c] # "none" => c \in Own /\ dialog'[c] \notin {"none", "prepare"}
      /\ bye'[c] = "released" => /\ live'[c] = "none"
                                 /\ ~Coming(sessions, queue, c)
  <2>1. v = "none" => ~Coming(sessions, queue, c)
    BY DEF c
  <2>2. bye'[c] # "none" => bye[c] # "none" /\ x \notin {"none", "prepare"}
    BY <1>1, <1>2, <1>5 DEF ByeState, c
  <2>3. bye'[c] = "released" => v = "none"
    BY <1>1, <1>2, <1>5 DEF ByeState, c
  <2> QED
    BY <1>1, <1>3, <1>4, <1>5, <2>1, <2>2, <2>3
<1>9. kind # "none"
  OBVIOUS
<1> QED
  BY <1>3, <1>4, <1>5, <1>6, <1>7, <1>8, <1>9, UnlockKeeps

\* An entry, a dialog or a BYE that stays as it is.
LEMMA SameEntry ==
    ASSUME DaemonTypes, NEW c \in Call
    PROVE  /\ dialog = [dialog EXCEPT ![c] = dialog[c]]
           /\ bye = [bye EXCEPT ![c] = bye[c]]
           /\ live = [live EXCEPT ![c] = live[c]]
  BY DEF DaemonTypes

\* InviteAccepted after each of its answers.
LEMMA StepAccept ==
    ASSUME IndInv, AcceptStarted \/ AcceptUndone
    PROVE  IndInv'
<1> DEFINE c == job.call
<1>1. CASE AcceptStarted
  <2>1. At("accept", "start") /\ UNCHANGED bye
    BY <1>1 DEF AcceptStarted
  <2>2. c \in Call /\ live[c] = "pending" /\ DaemonTypes
    BY <2>1, AtFacts DEF IndInv, JobState
  <2>3. CASE reply.job = "ok"
    <3>1. /\ live' = [live EXCEPT ![c] = "active"]
          /\ dialog' = [dialog EXCEPT ![c] = "ended"]
          /\ Unlock
      <4>1. /\ live' = [live EXCEPT ![c] = CASE @ = "pending" -> "active"
                                             [] @ = "none" -> "none"
                                             [] OTHER -> "cleanup"]
            /\ dialog' = [dialog EXCEPT ![c] = IF live[c] = "pending"
                                               THEN "ended" ELSE "fail"]
            /\ Unlock
        BY <1>1, <2>3 DEF AcceptStarted, Answered
      <4> QED
        BY <2>2, <4>1
    <3>2. bye' = [bye EXCEPT ![c] = bye[c]]
      BY <2>1, <2>2, SameEntry
    <3> QED
      BY <2>1, <2>2, <3>1, <3>2, EntryKeeps
  <2>4. CASE reply.job # "ok"
    <3>1. GoOn("undo", "stop", c) /\ UNCHANGED <<live, dialog>>
      BY <1>1, <2>4 DEF AcceptStarted, Answered
    <3>2. <<"accept", "undo", "stop">> \in Goes
      BY DEF Goes
    <3> QED
      BY <2>1, <2>2, <3>1, <3>2, GoOnKeeps
  <2> QED
    BY <2>3, <2>4
<1>2. CASE AcceptUndone
  <2>1. /\ At("accept", "undo") /\ UNCHANGED bye /\ Unlock
        /\ live' = [live EXCEPT ![c] = IF reply.job = "ok" THEN "none" ELSE "cleanup"]
        /\ dialog' = [dialog EXCEPT ![c] = "fail"]
    BY <1>2 DEF AcceptUndone, Answered
  <2>2. c \in Call /\ live[c] = "pending" /\ DaemonTypes /\ job.step = "undo"
    BY <2>1, AtFacts DEF IndInv, JobState
  <2>3. bye' = [bye EXCEPT ![c] = bye[c]]
    BY <2>1, <2>2, SameEntry
  <2>4. reply.job = "ok" => ~Coming(sessions, queue, c)
    BY <2>2 DEF IndInv, JobTold
  <2> DEFINE v == IF reply.job = "ok" THEN "none" ELSE "cleanup"
  <2>5. /\ v \in {"none", "active", "cleanup"} /\ live' = [live EXCEPT ![c] = v]
        /\ v # "none" => live[c] # "none"
        /\ v = "none" => ~Coming(sessions, queue, c)
    BY <2>1, <2>2, <2>4
  <2> HIDE DEF v
  <2> QED
    BY <2>1, <2>2, <2>3, <2>5, EntryKeeps
<1> QED
  BY <1>1, <1>2

\* Bye and releaseMedia after the stop.
LEMMA StepStopped ==
    ASSUME IndInv, ByeStopped \/ Released
    PROVE  IndInv'
<1> DEFINE c == job.call
           v == AfterStop(c)
<1>1. PICK kind \in {"bye", "release"} : At(kind, "stop")
  BY DEF ByeStopped, Released
<1>2. /\ c \in Call /\ DaemonTypes /\ job.step = "stop"
      /\ job.kind = "bye" => bye[c] = "stopping"
  BY <1>1, AtFacts DEF IndInv, JobState
<1>3. Unlock /\ live' = [live EXCEPT ![c] = v] /\ UNCHANGED dialog
  BY DEF ByeStopped, Released
<1>4. dialog' = [dialog EXCEPT ![c] = dialog[c]]
  BY <1>2, <1>3, SameEntry
<1>5. /\ v \in {"none", "active", "cleanup"}
      /\ v # "none" => live[c] # "none"
      /\ v = "none" => ~Coming(sessions, queue, c)
  <2>1. reply.job = "ok" => ~Coming(sessions, queue, c)
    BY <1>2 DEF IndInv, JobTold
  <2>2. live[c] = "none" => ~Coming(sessions, queue, c)
    BY <1>1, AtFacts DEF IndInv, Table
  <2> QED
    BY <2>1, <2>2 DEF AfterStop, Answered
<1>6. reply.job = "ok" => v = "none"
  BY DEF AfterStop, Answered
<1> HIDE DEF v
<1>7. CASE ByeStopped
  <2> DEFINE y == IF reply.job = "ok" THEN "released" ELSE "failed"
  <2>1. At("bye", "stop") /\ bye' = [bye EXCEPT ![c] = y]
    BY <1>7 DEF ByeStopped, Answered
  <2>2. bye[c] = "stopping"
    BY <1>2, <2>1 DEF At
  <2>3. y \in {"released", "failed"} /\ (y = "released" => v = "none")
    BY <1>6
  <2> HIDE DEF y
  <2> QED
    BY <1>3, <1>4, <1>5, <2>1, <2>2, <2>3, EntryKeeps
<1>8. CASE Released
  <2>1. At("release", "stop") /\ bye' = bye
    BY <1>8 DEF Released
  <2>2. bye' = [bye EXCEPT ![c] = bye[c]]
    BY <1>2, <2>1, SameEntry
  <2> QED
    BY <1>3, <1>4, <1>5, <2>1, <2>2, EntryKeeps
<1> QED
  BY <1>7, <1>8

\* The lease loop after its keepalive and its status.
LEMMA StepLease ==
    ASSUME IndInv, LeaseRefreshed \/ LeaseStatus
    PROVE  IndInv'
<1> DEFINE c == job.call
<1>1. UNCHANGED <<dialog, bye>>
  BY DEF LeaseRefreshed, LeaseStatus
<1>2. PICK step : At("lease", step)
  BY DEF LeaseRefreshed, LeaseStatus
<1>3. c \in Call /\ job.kind = "lease" /\ proc \in {"running", "stopping"}
  BY <1>2, AtFacts
<1>4. DaemonTypes /\ OneEntry /\ Table /\ ByeState
  BY DEF IndInv
<1>5. ASSUME Unlock, UNCHANGED live PROVE IndInv'
  <2>1. OneEntry' /\ live' \in [Call -> {"none", "pending", "active", "cleanup"}]
        /\ dialog' \in [Call -> {"none", "prepare", "wait", "accept", "start", "fail",
                                 "ended"}]
        /\ bye' \in [Call -> {"none", "received", "stopping", "released", "failed"}]
    BY <1>1, <1>4, <1>5 DEF OneEntry, DaemonTypes
  <2>2. \A d \in Call :
            /\ live'[d] # "none" => d \in Own
            /\ d \in Own /\ Coming(sessions, queue, d) => live'[d] # "none"
            /\ live'[d] = "pending" => ~Coming(sessions, queue, d)
            /\ bye'[d] # "none" => d \in Own /\ dialog'[d] \notin {"none", "prepare"}
            /\ bye'[d] = "released" => /\ live'[d] = "none"
                                       /\ ~Coming(sessions, queue, d)
    BY <1>1, <1>3, <1>4, <1>5 DEF Table, ByeState
  <2> QED
    BY <1>2, <1>5, <2>1, <2>2, UnlockKeeps
<1>6. CASE LeaseRefreshed
  <2>1. At("lease", "keepalive") /\ UNCHANGED live
        /\ (Unlock \/ GoOn("status", "status", None))
    BY <1>6 DEF LeaseRefreshed
  <2>2. <<"lease", "status", "status">> \in Goes
    BY DEF Goes
  <2> QED
    BY <1>1, <1>5, <2>1, <2>2, GoOnKeeps
<1>7. CASE LeaseStatus
  <2>1. At("lease", "status") /\ Unlock
    BY <1>7 DEF LeaseStatus
  <2>2. CASE reply.job \in {"error", c}
    BY <1>5, <1>7, <2>1, <2>2 DEF LeaseStatus
  <2>3. CASE reply.job \notin {"error", c}
    <3>1. live' = [live EXCEPT ![c] = "none"]
      BY <1>7, <2>3 DEF LeaseStatus
    <3>2. ~Coming(sessions, queue, c)
      BY <2>1, <2>3, AtFacts DEF IndInv, JobTold
    <3>3. dialog' = [dialog EXCEPT ![c] = dialog[c]] /\ bye' = [bye EXCEPT ![c] = bye[c]]
      BY <1>1, <1>3, <1>4, SameEntry
    <3> QED
      BY <2>1, <3>1, <3>2, <3>3, EntryKeeps
  <2> QED
    BY <2>2, <2>3
<1> QED
  BY <1>6, <1>7

-----------------------------------------------------------------------------
(* Steps that ask the engine nothing *)

\* Handlers move on; an entry goes only where nothing is, or will be, streamed.
LEMMA QuietKeeps ==
    ASSUME IndInv, UNCHANGED <<mediaVars, rpcVars, proc, job, todo>>,
           live' \in [Call -> {"none", "pending", "active", "cleanup"}],
           dialog' \in [Call -> {"none", "prepare", "wait", "accept", "start", "fail",
                                 "ended"}],
           bye' \in [Call -> {"none", "received", "stopping", "released", "failed"}],
           \A d \in Call :
               /\ live'[d] = live[d] \/ (live'[d] = "none" /\ ~Coming(sessions, queue, d)
                                         /\ job = NoJob)
               /\ dialog'[d] = dialog[d] \/ dialog[d] # "prepare"
               /\ bye'[d] = bye[d] \/ bye[d] # "stopping"
               /\ bye'[d] # "none" => d \in Own /\ dialog'[d] \notin {"none", "prepare"}
               /\ bye'[d] = "released" => bye[d] = "released"
    PROVE  IndInv'
<1>1. MediaGood' /\ UNCHANGED <<queue, reply, sessions>>
  BY MediaSame DEF IndInv, mediaVars, rpcVars
<1>2. /\ RpcTypes' /\ JobAsks(queue, job, reply)' /\ JobTold'
      /\ MainAsks(queue, proc, reply, sessions)' /\ MainTold'
      /\ \A d : Coming(sessions', queue', d) <=> Coming(sessions, queue, d)
  BY <1>1, RpcSame
<1>3. DaemonTypes'
  BY DEF IndInv, DaemonTypes
<1>4. OneEntry'
  BY DEF IndInv, OneEntry
<1>5. JobState'
  BY DEF IndInv, JobState, Own
<1>6. Table'
  BY <1>2 DEF IndInv, Table, Own
<1>7. ByeState'
  BY <1>2 DEF IndInv, ByeState
<1> QED
  BY <1>1, <1>2, <1>3, <1>4, <1>5, <1>6, <1>7, Combine

\* The ACK, its timeout, a reservation that is gone or given up, and a BYE.
LEMMA StepDialog ==
    ASSUME IndInv, NEW c \in Call,
           \/ Ack(c) \/ AckTimeout(c) \/ AcceptCancelled(c) \/ InviteFailed(c)
           \/ ByeReceived(c)
    PROVE  IndInv'
<1>1. DaemonTypes /\ ByeState /\ Table
  BY DEF IndInv
<1>2. UNCHANGED <<mediaVars, rpcVars, proc, job, todo>>
  BY DEF Ack, AckTimeout, AcceptCancelled, InviteFailed, ByeReceived
<1>3. CASE Ack(c) \/ AckTimeout(c) \/ AcceptCancelled(c)
  <2>1. /\ dialog[c] \in {"wait", "accept"} /\ UNCHANGED <<live, bye>>
        /\ dialog' \in {[dialog EXCEPT ![c] = "accept"], [dialog EXCEPT ![c] = "fail"]}
    BY <1>3 DEF Ack, AckTimeout, AcceptCancelled
  <2>2. /\ dialog' \in [Call -> {"none", "prepare", "wait", "accept", "start", "fail",
                                 "ended"}]
        /\ dialog'[c] \in {"accept", "fail"}
        /\ \A d \in Call : d # c => dialog'[d] = dialog[d]
    BY <1>1, <2>1 DEF DaemonTypes
  <2>3. \A d \in Call :
            /\ live'[d] = live[d]
            /\ dialog'[d] = dialog[d] \/ dialog[d] # "prepare"
            /\ bye'[d] = bye[d]
            /\ bye'[d] # "none" => d \in Own /\ dialog'[d] \notin {"none", "prepare"}
    BY <1>1, <2>1, <2>2 DEF ByeState
  <2> QED
    BY <1>1, <1>2, <2>1, <2>2, <2>3, QuietKeeps DEF DaemonTypes
<1>4. CASE InviteFailed(c)
  <2>1. /\ job = NoJob /\ dialog[c] = "fail" /\ UNCHANGED bye
        /\ live' = [live EXCEPT ![c] = IF @ = "pending" THEN "none" ELSE @]
        /\ dialog' = [dialog EXCEPT ![c] = "ended"]
    BY <1>4 DEF InviteFailed
  <2>2. /\ dialog' \in [Call -> {"none", "prepare", "wait", "accept", "start", "fail",
                                 "ended"}]
        /\ dialog'[c] = "ended"
        /\ \A d \in Call : d # c => dialog'[d] = dialog[d]
    BY <1>1, <2>1 DEF DaemonTypes
  <2>3. /\ live' \in [Call -> {"none", "pending", "active", "cleanup"}]
        /\ live'[c] = live[c] \/ (live[c] = "pending" /\ live'[c] = "none")
        /\ \A d \in Call : d # c => live'[d] = live[d]
    BY <1>1, <2>1 DEF DaemonTypes
  <2>4. live[c] = "pending" => ~Coming(sessions, queue, c)
    BY <1>1, <2>1 DEF Table, NoJob
  <2>5. \A d \in Call :
            /\ live'[d] = live[d] \/ (live'[d] = "none" /\ ~Coming(sessions, queue, d))
            /\ dialog'[d] = dialog[d] \/ dialog[d] # "prepare"
            /\ bye'[d] = bye[d]
            /\ bye'[d] # "none" => d \in Own /\ dialog'[d] \notin {"none", "prepare"}
    BY <1>1, <2>1, <2>2, <2>3, <2>4 DEF ByeState
  <2> QED
    BY <1>1, <1>2, <2>1, <2>2, <2>3, <2>5, QuietKeeps DEF DaemonTypes
<1>5. CASE ByeReceived(c)
  <2>1. /\ c \in Own /\ dialog[c] \notin {"none", "prepare"} /\ bye[c] = "none"
        /\ bye' = [bye EXCEPT ![c] = "received"] /\ UNCHANGED <<live, dialog>>
    BY <1>5 DEF ByeReceived
  <2>2. /\ bye' \in [Call -> {"none", "received", "stopping", "released", "failed"}]
        /\ bye'[c] = "received" /\ \A d \in Call : d # c => bye'[d] = bye[d]
    BY <1>1, <2>1 DEF DaemonTypes
  <2>3. \A d \in Call :
            /\ live'[d] = live[d] /\ dialog'[d] = dialog[d]
            /\ bye'[d] = bye[d] \/ bye[d] # "stopping"
            /\ bye'[d] # "none" => d \in Own /\ dialog'[d] \notin {"none", "prepare"}
            /\ bye'[d] = "released" => bye[d] = "released"
    BY <1>1, <2>1, <2>2 DEF ByeState
  <2> QED
    BY <1>1, <1>2, <2>1, <2>2, <2>3, QuietKeeps DEF DaemonTypes
<1> QED
  BY <1>3, <1>4, <1>5

\* Another client takes the slot: the daemon's own calls are not concerned.
LEMMA StepForeign ==
    ASSUME IndInv, NEW c \in Call, ForeignStart(c)
    PROVE  IndInv'
<1>1. /\ c \in Foreign /\ dialog[c] = "none" /\ SessionStart(c)
      /\ dialog' = [dialog EXCEPT ![c] = "ended"]
      /\ UNCHANGED <<rpcVars, proc, live, bye, job, todo>>
  BY DEF ForeignStart
<1>2. DaemonTypes /\ ByeState /\ Table /\ JobState
  BY DEF IndInv
<1>3. MediaGood' /\ sessions' = {c} /\ c \notin Own
  BY <1>1, MediaStarted DEF IndInv, Own
<1>4. UNCHANGED <<queue, reply>>
  BY <1>1 DEF rpcVars
<1>5. \A d \in Own : Coming(sessions', queue', d) => Coming(sessions, queue, d)
  BY <1>3, <1>4 DEF Coming
<1>6. /\ dialog' \in [Call -> {"none", "prepare", "wait", "accept", "start", "fail",
                               "ended"}]
      /\ dialog'[c] = "ended" /\ \A d \in Call : d # c => dialog'[d] = dialog[d]
  BY <1>1, <1>2 DEF DaemonTypes
<1>7. RpcTypes' /\ JobAsks(queue, job, reply)'
  BY <1>1, <1>4 DEF IndInv, RpcTypes, JobAsks
<1>8. JobTold'
  <2>1. job # NoJob => job.call \in Own
    BY <1>2 DEF JobState
  <2> QED
    BY <1>1, <1>4, <1>5, <2>1 DEF IndInv, JobTold, NoJob
<1>9. MainAsks(queue, proc, reply, sessions)' /\ MainTold'
  BY <1>1, <1>4, <1>5 DEF IndInv, MainAsks, MainTold
<1>10. DaemonTypes' /\ OneEntry'
  BY <1>1, <1>6 DEF IndInv, DaemonTypes, OneEntry
<1>11. JobState'
  BY <1>1, <1>2, <1>6 DEF JobState, Own
<1>12. Table'
  BY <1>1, <1>2, <1>5 DEF Table
<1>13. ByeState'
  BY <1>1, <1>2, <1>5, <1>6 DEF ByeState
<1> QED
  BY <1>3, <1>7, <1>8, <1>9, <1>10, <1>11, <1>12, <1>13, Combine

-----------------------------------------------------------------------------
(* The daemon process *)

\* The main goroutine sends a request, which is no start.
LEMMA SendMain ==
    ASSUME IndInv, NEW op \in {"status", "stop"}, NEW c \in Call \cup {None},
           Send("main", op, c), UNCHANGED <<sessions, job>>, proc' # "down",
           proc' = "reconcile" =>
               /\ \A i \in DOMAIN queue : queue[i].from # "main"
               /\ op = "stop" => \A d \in Own : Coming(sessions, queue, d) => d = c
    PROVE  /\ RpcTypes' /\ JobAsks(queue, job, reply)' /\ JobTold'
           /\ MainAsks(queue, proc, reply, sessions)' /\ MainTold'
           /\ \A d : Coming(sessions', queue', d) <=> Coming(sessions, queue, d)
<1> DEFINE r == [op |-> op, call |-> c, from |-> "main"]
<1>1. queue \in Seq(Requests) /\ reply \in [job : Replies, main : Replies]
  BY DEF IndInv, RpcTypes
<1>2. /\ r \in Requests /\ r.op = op /\ r.call = c /\ r.from = "main"
      /\ r.op # "start"
  BY DEF Requests
<1>3. queue' = Append(queue, r) /\ reply' = [reply EXCEPT !.main = "none"]
  BY DEF Send
<1>4. /\ reply' \in [job : Replies, main : Replies]
      /\ reply'.main = "none" /\ reply'.job = reply.job
  BY <1>1, <1>3 DEF Replies
<1> HIDE DEF r
<1> DEFINE n == Len(queue) + 1
<1>5. /\ queue' \in Seq(Requests) /\ DOMAIN queue' = 1..n /\ Len(queue) \in Nat
      /\ DOMAIN queue = 1..Len(queue)
      /\ \A i \in DOMAIN queue : queue'[i] = queue[i]
      /\ queue'[n] = r
      /\ \A d : Starts(queue', d) <=> Starts(queue, d) \/ (r.op = "start" /\ r.call = d)
  <2>1. Len(queue) \in Nat /\ DOMAIN queue = 1..Len(queue)
    BY <1>1
  <2> QED
    BY <1>1, <1>2, <1>3, <2>1, AppendAsks
<1>6. DOMAIN queue' = DOMAIN queue \cup {n}
  BY <1>5
<1>7. \A d : Coming(sessions', queue', d) <=> Coming(sessions, queue, d)
  BY <1>2, <1>5 DEF Coming
<1>8. LastStart(queue', n)
  BY <1>5 DEF LastStart
<1>9. RpcTypes'
  BY <1>2, <1>4, <1>5, <1>6 DEF IndInv, RpcTypes
<1> HIDE DEF n
<1>10. JobAsks(queue', job', reply')
  <2> SUFFICES ASSUME NEW i \in DOMAIN queue', queue'[i].from = "job"
               PROVE  /\ job # NoJob /\ reply.job = "none"
                      /\ queue'[i].op = OpOf(job.step)
                      /\ job.step \in {"start", "undo", "stop"} => queue'[i].call = job.call
                      /\ Alone(queue', i, "job") /\ LastStart(queue', i)
    BY <1>4 DEF JobAsks
  <2>1. i \in DOMAIN queue /\ queue[i] = queue'[i]
    BY <1>2, <1>5, <1>6
  <2>2. /\ job # NoJob /\ reply.job = "none" /\ queue[i].op = OpOf(job.step)
        /\ job.step \in {"start", "undo", "stop"} => queue[i].call = job.call
        /\ Alone(queue, i, "job") /\ LastStart(queue, i)
    BY <2>1 DEF IndInv, JobAsks
  <2>3. Alone(queue', i, "job")
    BY <1>2, <1>5, <1>6, <2>2 DEF Alone
  <2>4. LastStart(queue', i)
    BY <1>2, <1>5, <1>6, <2>2 DEF LastStart
  <2> QED
    BY <2>1, <2>2, <2>3, <2>4
<1>11. MainAsks(queue', proc', reply', sessions')
  <2>1. CASE proc' = "reconcile"
    <3>1. \A i \in DOMAIN queue' : queue'[i].from = "main" => i = n
      BY <1>5, <1>6, <2>1
    <3>2. op = "stop" => \A d \in Own : Coming(sessions', queue', d) => d = c
      BY <1>7, <2>1
    <3> QED
      BY <1>2, <1>4, <1>5, <1>8, <2>1, <3>1, <3>2 DEF MainAsks, Alone
  <2>2. CASE proc' # "reconcile"
    BY <2>2 DEF MainAsks
  <2> QED
    BY <2>1, <2>2
<1>12. JobTold' /\ MainTold'
  BY <1>4, <1>7 DEF IndInv, JobTold, MainTold
<1> QED
  BY <1>7, <1>9, <1>10, <1>11, <1>12

\* What there is not while the daemon is not up.
LEMMA NotUp ==
    ASSUME IndInv, proc \notin {"running", "stopping"}
    PROVE  job = NoJob /\ \A c \in Call : live[c] = "none"
  BY DEF IndInv, JobState, Table

\* Run begins with the status of the engine.
LEMMA StepStartDaemon ==
    ASSUME IndInv, Start
    PROVE  IndInv'
<1>1. /\ proc = "down" /\ proc' = "reconcile" /\ Send("main", "status", None)
      /\ UNCHANGED <<mediaVars, live, dialog, bye, job, todo>>
  BY DEF Start
<1>2. job = NoJob /\ \A c \in Call : live[c] = "none"
  BY <1>1, NotUp
<1>3. MediaGood' /\ UNCHANGED sessions
  BY <1>1, MediaSame DEF IndInv, mediaVars
<1>4. \A i \in DOMAIN queue : queue[i].from # "main"
  BY <1>1 DEF IndInv, MainAsks
<1>5. /\ RpcTypes' /\ JobAsks(queue, job, reply)' /\ JobTold'
      /\ MainAsks(queue, proc, reply, sessions)' /\ MainTold'
      /\ \A d : Coming(sessions', queue', d) <=> Coming(sessions, queue, d)
  BY <1>1, <1>3, <1>4, SendMain
<1>6. DaemonTypes' /\ OneEntry' /\ JobState' /\ Table'
  BY <1>1, <1>2 DEF IndInv, DaemonTypes, OneEntry, JobState, Table
<1>7. ByeState'
  BY <1>1, <1>5 DEF IndInv, ByeState
<1> QED
  BY <1>3, <1>5, <1>6, <1>7, Combine

\* reconcileMedia stops the session it was told of, which is the only one of the
\* daemon's own that is, or will be, there; or there is none, and it registers.
LEMMA StepReconcile ==
    ASSUME IndInv, Reconcile
    PROVE  IndInv'
<1>1. proc = "reconcile" /\ UNCHANGED <<mediaVars, live, dialog, bye, job, todo>>
  BY DEF Reconcile
<1>2. job = NoJob /\ \A c \in Call : live[c] = "none"
  BY <1>1, NotUp
<1>3. MediaGood' /\ UNCHANGED sessions
  BY <1>1, MediaSame DEF IndInv, mediaVars
<1>4. CASE reply.main \in Call /\ Send("main", "stop", reply.main) /\ UNCHANGED proc
  <2>1. reply.main \notin {"none", "error"}
    BY <1>4, NotStrings
  <2>2. /\ \A i \in DOMAIN queue : queue[i].from # "main"
        /\ \A d \in Own : Coming(sessions, queue, d) => d = reply.main
    BY <1>1, <2>1 DEF IndInv, MainAsks, MainTold
  <2>3. /\ RpcTypes' /\ JobAsks(queue, job, reply)' /\ JobTold'
        /\ MainAsks(queue, proc, reply, sessions)' /\ MainTold'
        /\ \A d : Coming(sessions', queue', d) <=> Coming(sessions, queue, d)
    BY <1>1, <1>3, <1>4, <2>2, SendMain
  <2>4. DaemonTypes' /\ OneEntry' /\ JobState' /\ Table'
    BY <1>1, <1>2, <1>4 DEF IndInv, DaemonTypes, OneEntry, JobState, Table
  <2>5. ByeState'
    BY <1>1, <2>3 DEF IndInv, ByeState
  <2> QED
    BY <1>3, <2>3, <2>4, <2>5, Combine
<1>5. CASE reply.main \in {"idle", "ok"} /\ proc' = "running" /\ Received("main")
  <2>1. \A i \in DOMAIN queue : queue[i].from \notin {"main", "job"}
    BY <1>1, <1>2, <1>5 DEF IndInv, MainAsks, JobAsks
  <2>2. \A d \in Own : ~Coming(sessions, queue, d)
    <3>1. \A d \in Own : Coming(sessions, queue, d) => d = reply.main
      BY <1>1, <1>5 DEF IndInv, MainTold
    <3>2. \A d \in Own : d \in Call
      BY DEF Own
    <3> QED
      BY <1>5, <3>1, <3>2, NotStrings
  <2>3. reply \in [job : Replies, main : Replies]
    BY DEF IndInv, RpcTypes
  <2>4. /\ queue' = queue /\ reply' \in [job : Replies, main : Replies]
    BY <1>5, <2>3 DEF Received, Replies
  <2>5. RpcTypes' /\ JobAsks(queue, job, reply)' /\ JobTold'
        /\ MainAsks(queue, proc, reply, sessions)' /\ MainTold'
    BY <1>1, <1>2, <1>5, <2>1, <2>4
       DEF IndInv, RpcTypes, JobAsks, JobTold, MainAsks, MainTold, NoJob
  <2>6. DaemonTypes' /\ OneEntry' /\ JobState'
    BY <1>1, <1>2, <1>5 DEF IndInv, DaemonTypes, OneEntry, JobState
  <2>7. Table'
    BY <1>1, <1>2, <1>3, <2>2, <2>4 DEF Table
  <2>8. ByeState'
    BY <1>1, <1>3, <2>4 DEF IndInv, ByeState
  <2> QED
    BY <1>3, <2>5, <2>6, <2>7, <2>8, Combine
<1> QED
  BY <1>4, <1>5 DEF Reconcile

\* The process is gone: its requests are served for nobody.
LEMMA StepEnded ==
    ASSUME IndInv, Ended, UNCHANGED mediaVars
    PROVE  IndInv'
<1>1. MediaGood' /\ UNCHANGED sessions
  BY MediaSame DEF IndInv, mediaVars
<1>2. /\ queue' = [i \in DOMAIN queue |-> [queue[i] EXCEPT !.from = "gone"]]
      /\ job' = NoJob /\ proc' = "down" /\ todo' = {}
      /\ reply' = [job |-> "none", main |-> "none"]
      /\ live' = [c \in Call |-> "none"]
  BY DEF Ended
<1>3. queue \in Seq(Requests)
  BY DEF IndInv, RpcTypes
<1>4. /\ queue' \in Seq(Requests) /\ Shrinks(queue', queue)
      /\ \A i \in DOMAIN queue' : queue'[i].from = "gone"
  BY <1>2, <1>3, AllGoneShrinks
<1>5. reply' \in [job : Replies, main : Replies] /\ reply'.main = "none"
  BY <1>2 DEF Replies
<1>6. RpcTypes'
  BY <1>4, <1>5, ShrunkOwn DEF IndInv, RpcTypes
<1>7. JobAsks(queue', job', reply') /\ MainAsks(queue', proc', reply', sessions')
  BY <1>4 DEF JobAsks, MainAsks
<1>8. JobTold' /\ MainTold'
  BY <1>2 DEF JobTold, MainTold, NoJob
<1>9. \A c : Coming(sessions', queue', c) => Coming(sessions, queue, c)
  BY <1>1, <1>4, ShrunkStarts DEF Coming
<1>10. DaemonTypes'
  BY <1>2 DEF IndInv, DaemonTypes, Ended, Jobs, NoJob
<1>11. \A c \in Call :
          /\ live'[c] = "none"
          /\ bye'[c] # "none" => bye[c] # "none"
          /\ bye'[c] = "released" => bye[c] = "released"
          /\ dialog[c] # "none" => dialog'[c] = "ended"
  BY DEF Ended
<1>12. OneEntry' /\ JobState' /\ Table'
  BY <1>2, <1>11 DEF OneEntry, JobState, Table
<1>13. ByeState'
  BY <1>9, <1>11 DEF IndInv, ByeState
<1> QED
  BY <1>1, <1>6, <1>7, <1>8, <1>10, <1>12, <1>13, Combine

\* The shutdown loop: the list of sessions, and the stop of one of them.
LEMMA StepShutdown ==
    ASSUME IndInv, Shutdown \/ \E c \in Call : ShutdownStop(c)
    PROVE  IndInv'
<1>1. /\ proc \in {"running", "stopping"} /\ proc' = "stopping"
      /\ UNCHANGED <<mediaVars, live, dialog, bye, job>>
  BY DEF Shutdown, ShutdownStop
<1>2. MediaGood' /\ UNCHANGED sessions
  BY <1>1, MediaSame DEF IndInv, mediaVars
<1>3. todo' \in SUBSET Call
  BY DEF Shutdown, ShutdownStop, Entries, IndInv, DaemonTypes
<1>4. /\ RpcTypes' /\ JobAsks(queue, job, reply)' /\ JobTold'
      /\ MainAsks(queue, proc, reply, sessions)' /\ MainTold'
      /\ \A d : Coming(sessions', queue', d) <=> Coming(sessions, queue, d)
  <2>1. CASE Shutdown
    <3>1. UNCHANGED <<queue, reply>>
      BY <2>1 DEF Shutdown, rpcVars
    <3>2. RpcTypes' /\ JobTold' /\ MainTold'
      BY <1>1, <1>2, <3>1 DEF IndInv, RpcTypes, JobTold, MainTold
    <3>3. JobAsks(queue', job', reply') /\ MainAsks(queue', proc', reply', sessions')
      BY <1>1, <1>2, <3>1 DEF IndInv, JobAsks, MainAsks
    <3> QED
      BY <1>2, <3>1, <3>2, <3>3
  <2>2. ASSUME NEW c \in Call, ShutdownStop(c)
        PROVE  /\ RpcTypes' /\ JobAsks(queue, job, reply)' /\ JobTold'
               /\ MainAsks(queue, proc, reply, sessions)' /\ MainTold'
               /\ \A d : Coming(sessions', queue', d) <=> Coming(sessions, queue, d)
    <3>1. Send("main", "stop", c)
      BY <2>2 DEF ShutdownStop
    <3> QED
      BY <1>1, <1>2, <3>1, SendMain
  <2> QED
    BY <2>1, <2>2
<1>5. DaemonTypes' /\ OneEntry'
  BY <1>1, <1>3 DEF IndInv, DaemonTypes, OneEntry
<1>6. JobState'
  BY <1>1 DEF IndInv, JobState
<1>7. Table'
  BY <1>1, <1>4 DEF IndInv, Table
<1>8. ByeState'
  BY <1>1, <1>4 DEF IndInv, ByeState
<1> QED
  BY <1>2, <1>4, <1>5, <1>6, <1>7, <1>8, Combine

-----------------------------------------------------------------------------
(* The invariant is inductive *)

\* A daemon that was never started and an idle engine satisfy the invariant.
LEMMA LiveInit ==
    ASSUME Init
    PROVE  IndInv
<1>1. MediaGood
  BY DEF Init, MediaInit, MediaGood, MediaTypeOK, OneSession, StreamReported, Phase
<1>2. DaemonTypes /\ OneEntry /\ JobState /\ job = NoJob
  BY DEF Init, DaemonTypes, OneEntry, JobState, Jobs, NoJob
<1>3. queue = <<>> /\ DOMAIN queue = {} /\ queue \in Seq(Requests)
  BY DEF Init
<1>4. reply \in [job : Replies, main : Replies] /\ reply.main = "none"
  BY DEF Init, Replies
<1>5. /\ RpcTypes /\ JobAsks(queue, job, reply)
      /\ MainAsks(queue, proc, reply, sessions)
  BY <1>3, <1>4 DEF RpcTypes, JobAsks, MainAsks
<1>6. JobTold /\ MainTold
  BY <1>2, <1>4 DEF JobTold, MainTold, NoJob
<1>7. Table /\ ByeState
  BY DEF Init, Table, ByeState
<1> QED
  BY <1>1, <1>2, <1>5, <1>6, <1>7 DEF IndInv

\* A step that changes nothing.
LEMMA StepNothing ==
    ASSUME IndInv, UNCHANGED vars
    PROVE  IndInv'
<1>1. UNCHANGED <<daemonVars, rpcVars>> /\ UNCHANGED mediaVars
  BY DEF vars
<1>2. MediaGood' /\ sessions' \cap Own \subseteq sessions
  BY <1>1, MediaSame DEF IndInv, mediaVars
<1> QED
  BY <1>1, <1>2, EngineAlone

\* Every step keeps the invariant.
LEMMA LiveStep ==
    ASSUME IndInv, [Next]_vars
    PROVE  IndInv'
<1>1. CASE Handle
  BY <1>1, StepStatus, StepStart, StepRefused, StepStop, StepKeepalive DEF Handle
<1>2. CASE JobStep
  BY <1>2, StepPrepare, StepAccept, StepStopped, StepLease DEF JobStep
<1>3. CASE MainStep
  <2>1. CASE ReconcileFails \/ ShutdownExit
    BY <2>1, StepEnded DEF ReconcileFails, ShutdownExit
  <2> QED
    BY <1>3, <2>1, StepReconcile, StepShutdown DEF MainStep
<1>4. CASE \E who \in {"job", "main"} : CallFails(who)
  BY <1>4, StepCallFails
<1>5. ASSUME NEW c \in Call,
             \/ Invite(c) \/ Ack(c) \/ HandlerStep(c) \/ ByeReceived(c) \/ Bye(c)
             \/ LeaseCleanup(c) \/ LeaseMaxLive(c) \/ LeaseRefresh(c)
             \/ PlatformLost(c) \/ ForeignStart(c)
      PROVE  IndInv'
  BY <1>5, StepLock, StepDialog, StepForeign DEF HandlerStep
<1>6. CASE Start \/ Shutdown
  BY <1>6, StepStartDaemon, StepShutdown
<1>7. CASE DaemonCrash
  BY <1>7, StepEnded DEF DaemonCrash
<1>8. CASE MediaFault \/ MediaIdle \/ LeaseTimeout \/ MediaReap \/ EngineRestart
  BY <1>8, StepMedia, StepRestart
<1>9. CASE UNCHANGED vars
  BY <1>9, StepNothing
<1> QED
  BY <1>1, <1>2, <1>3, <1>4, <1>5, <1>6, <1>7, <1>8, <1>9 DEF Next

\* The number of faults is kept within its bound by every step.
LEMMA FaultsStep ==
    ASSUME faults \in 0..MaxFaults, [Next]_vars
    PROVE  faults' \in 0..MaxFaults
<1>1. MaxFaults \in Nat
  BY LiveAssumption
<1>2. ASSUME Fault PROVE faults' \in 0..MaxFaults
  BY <1>1, <1>2 DEF Fault
<1>3. ASSUME Fine PROVE faults' \in 0..MaxFaults
  BY <1>3 DEF Fine
<1>4. CASE Handle
  BY <1>2, <1>3, <1>4 DEF Handle, HandleStatus, HandleStart, HandleStartRefused,
     HandleStop, HandleKeepalive, FaultUnless
<1>5. CASE JobStep
  BY <1>3, <1>5 DEF JobStep, PrepareStatus, PrepareOrphan, PrepareAgain, AcceptStarted,
     AcceptUndone, ByeStopped, Released, LeaseRefreshed, LeaseStatus, At
<1>6. CASE MainStep
  BY <1>3, <1>6 DEF MainStep, Reconcile, ReconcileFails, ShutdownExit, ShutdownStop
<1>7. CASE \E who \in {"job", "main"} : CallFails(who)
  BY <1>2, <1>7 DEF CallFails
<1>8. ASSUME NEW c \in Call,
             \/ Invite(c) \/ Ack(c) \/ HandlerStep(c) \/ ByeReceived(c) \/ Bye(c)
             \/ LeaseCleanup(c) \/ LeaseMaxLive(c) \/ LeaseRefresh(c)
             \/ PlatformLost(c) \/ ForeignStart(c)
      PROVE  faults' \in 0..MaxFaults
  BY <1>3, <1>8 DEF HandlerStep, Invite, Ack, AckTimeout, Accept, AcceptCancelled,
     InviteFailed, ByeReceived, Bye, LeaseCleanup, LeaseMaxLive, LeaseRefresh,
     PlatformLost, ForeignStart
<1>9. CASE Start \/ Shutdown \/ DaemonCrash
  BY <1>2, <1>3, <1>9 DEF Start, Shutdown, DaemonCrash
<1>10. CASE MediaFault \/ MediaIdle \/ LeaseTimeout \/ MediaReap \/ EngineRestart
  BY <1>2, <1>3, <1>10 DEF MediaFault, MediaIdle, LeaseTimeout, MediaReap, EngineRestart,
     FaultUnless
<1>11. CASE UNCHANGED vars
  BY <1>11 DEF vars
<1> QED
  BY <1>4, <1>5, <1>6, <1>7, <1>8, <1>9, <1>10, <1>11 DEF Next

\* What holds in every reachable state.
LEMMA LiveInvariant == Spec => [](IndInv /\ faults \in 0..MaxFaults)
<1>1. Init => IndInv /\ faults \in 0..MaxFaults
  <2>1. 0 \in 0..MaxFaults
    BY LiveAssumption
  <2> QED
    BY <2>1, LiveInit DEF Init
<1>2. IndInv /\ faults \in 0..MaxFaults /\ [Next]_vars
          => (IndInv /\ faults \in 0..MaxFaults)'
  BY LiveStep, FaultsStep
<1> QED
  BY <1>1, <1>2, PTL DEF Spec

\* A set without two members has at most one.
LEMMA AtMostOne ==
    ASSUME NEW S, \A x, y \in S : x = y
    PROVE  Cardinality(S) <= 1
<1>1. CASE S = {}
  <2>1. Cardinality(S) = 0
    BY <1>1, FS_EmptySet
  <2> QED
    BY <2>1
<1>2. CASE S # {}
  <2>1. PICK x : x \in S
    BY <1>2
  <2>2. S = {x}
    BY <2>1
  <2>3. Cardinality(S) = 1
    BY <2>2, FS_Singleton
  <2> QED
    BY <2>3
<1> QED
  BY <1>1, <1>2

-----------------------------------------------------------------------------
(* Theorems *)

\* Every variable has its type, and the one media slot has at most one owner,
\* in the session table of the engine and in session.Manager.
THEOREM SlotHasOneOwner == Spec => []TypeOK
<1>1. ASSUME IndInv, faults \in 0..MaxFaults PROVE TypeOK
  <2>1. /\ MediaTypeOK /\ OneSession /\ DaemonTypes /\ RpcTypes /\ OneEntry
    BY <1>1 DEF IndInv, MediaGood
  <2>2. Cardinality(sessions) <= 1
    BY <2>1, AtMostOne DEF OneSession
  <2>3. Cardinality(Entries) <= 1
    BY <2>1, AtMostOne DEF OneEntry, Entries
  <2>4. reply \in [{"job", "main"} -> {"none", "ok", "error", "idle"} \cup Call]
    BY <2>1 DEF RpcTypes, Replies
  <2>5. /\ job.kind \in {"none", "prepare", "accept", "bye", "release", "lease"}
        /\ job.call \in Call \cup {None}
        /\ job.step \in {"none", "status", "orphan", "again", "start", "undo", "stop",
                         "keepalive"}
    BY <2>1 DEF DaemonTypes, Jobs
  <2> QED
    BY <1>1, <2>1, <2>2, <2>3, <2>4, <2>5 DEF TypeOK, DaemonTypes, RpcTypes
<1> QED
  BY <1>1, LiveInvariant, PTL

\* A call that handleBye has released is never streamed again: the job of the
\* BYE asked last, so no start of the call was behind its stop, and the entry
\* it removed is what InviteAccepted would have needed for another.
THEOREM ReleasedStaysReleased == Spec => []NoStartAfterBye
<1>1. ASSUME IndInv PROVE NoStartAfterBye
  BY <1>1 DEF IndInv, ByeState, NoStartAfterBye, Coming
<1> QED
  BY <1>1, LiveInvariant, PTL

\* A registered daemon has an entry for every session its INVITEs have started,
\* those of a process before it included.
THEOREM NothingIsForgotten == Spec => []NoOrphan
<1>1. ASSUME IndInv PROVE NoOrphan
  <2> SUFFICES ASSUME proc = "running", NEW c \in sessions \cap Own
               PROVE  c \in Entries
    BY DEF NoOrphan
  <2>1. c \in Call /\ Coming(sessions, queue, c)
    BY DEF Own, Coming
  <2> QED
    BY <1>1, <2>1 DEF IndInv, Table, Entries
<1> QED
  BY <1>1, LiveInvariant, PTL

\* The engine sends RTP for the session its status reports, and no other.
THEOREM StreamIsReported == Spec => []StreamReported
<1>1. IndInv => StreamReported
  BY DEF IndInv, MediaGood
<1> QED
  BY <1>1, LiveInvariant, PTL

=============================================================================
