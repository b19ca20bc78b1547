------------------------ MODULE EvidenceCacheProofs ------------------------
(***************************************************************************)
(* Proofs about EvidenceCache for every budget, window, retention, number  *)
(* of frames, events, processes and faults: a record of the cache is       *)
(* whole, a lease is kept through crashes and power losses, an exact       *)
(* picture is the picture of its event, for the cache and for the daemon,  *)
(* and the bytes on disk stay within the budget, whatever comes back.      *)
(***************************************************************************)
EXTENDS EvidenceCache, FiniteSetTheorems, WellFoundedInduction, TLAPS

(***************************************************************************)
(* The inductive invariant.                                                *)
(***************************************************************************)
Event == [id : Id, epoch : 1..MaxEpoch, frame : 1..MaxFrame,
          pts : {NoTime} \cup 1..MaxFrame, life : 1..MaxLife]
Jpeg == [frame : 1..MaxFrame, size : Sizes, note : Labels]
Files == [jpg : Image \cup {NoFile}, json : Metadata \cup {NoFile}]

\* The two queues and the observation in hand.
StreamTypes ==
    /\ up \in {"off", "open", "unavailable"}
    /\ life \in 0..MaxLife /\ (up # "off" => life > 0)
    /\ now \in Nat
    /\ begin \in Seq(1..MaxFrame) /\ Len(begin) \in 1..MaxEpoch /\ begin[1] = 1
    /\ noted \in 0..MaxFrame /\ encoded \in 0..MaxFrame
    /\ notes \in Seq(Labels)
    /\ frames \in Seq(Jpeg)
    /\ serial \in 0..MaxSerial
    /\ obs \in Labels
    /\ obs # NoLabel => /\ up = "open"
                        /\ obs.epoch > 0 /\ obs.frame \in 1..noted

\* The files and what is derived from them.
FileTypes ==
    /\ disk \in [Id -> Files] /\ synced \in [Id -> Files]
    /\ records \in SUBSET Metadata /\ leased \in SUBSET Metadata
    /\ work \in [pc : {"free", "prune", "jpg", "json", "sync"},
                 event : Event \cup {NoEvent}, meta : Metadata \cup {NoFile},
                 at : Nat]
    /\ journal \in SUBSET Event
    /\ reader \in [pc : {"idle", "image"}, event : Event \cup {NoEvent},
                   meta : Metadata \cup {NoFile}]
    /\ reader.pc = "image" => reader.event \in Event /\ reader.meta \in Metadata
    /\ staged \in SUBSET [event : Event, meta : Metadata,
                          image : Image \cup {NoFile}]

\* EpochOf, for the beginnings b.
EpochIn(b, f) == Max({e \in DOMAIN b : b[e] <= f})

\* A label with a time tells the stream of its frame, and a JPEG only carries
\* the label of its own frame.
Labelled(label, b, n) ==
    label.pts # NoTime => /\ label.pts = label.frame
                          /\ label.frame <= n
                          /\ label.epoch = EpochIn(b, label.frame)

StreamLabels ==
    /\ Labelled(obs, begin, noted)
    /\ \A i \in DOMAIN notes : Labelled(notes[i], begin, noted)
    /\ \A i \in DOMAIN frames :
           /\ frames[i].frame <= encoded
           /\ frames[i].note # NoLabel =>
                  /\ frames[i].note.pts = frames[i].frame
                  /\ Labelled(frames[i].note, begin, noted)

\* The lock is held by a process that has the cache open; a publication is for
\* an id without a record, and has written what its place in the code says.
Working ==
    /\ work.pc # "free" => up = "open" /\ work.at <= now
    /\ work.pc = "free" => work.event = NoEvent
    /\ work.pc \in {"jpg", "json", "sync"} => work.event # NoEvent
    /\ work.event # NoEvent =>
           /\ work.meta \in Metadata
           /\ work.meta.id = work.event.id
           /\ \A r \in records : r.id # work.event.id
           /\ work.event.frame <= noted
           /\ work.meta.image[2] <= encoded
           /\ work.meta.image[1] = life /\ work.event.life = life
           /\ work.event.id[2] <= serial
           /\ work.pc # "prune" => disk[work.event.id].jpg = work.meta.image
           /\ work.pc = "sync" => disk[work.event.id].json = work.meta
    /\ up # "open" => records = {}

\* A lease is on disk and synced, and a process that is up has its record.
Leases ==
    \A r \in leased :
        /\ r.expires > now
        /\ disk[r.id] = [jpg |-> r.image, json |-> r]
        /\ synced[r.id] = [jpg |-> r.image, json |-> r]
        /\ up = "open" => r \in records

\* m may be shown for e when the two meet.
Shows(m, e) ==
    m.exact /\ m.id = e.id /\ m.image[1] = e.life => m.image[2] = e.frame

Metas ==
    ({disk[i].json : i \in Id} \cup {synced[i].json : i \in Id}
        \cup {work.meta, reader.meta}) \ {NoFile}

Events == (journal \cup {work.event, reader.event}) \ {NoEvent}

\* Numbers of this process are not used up yet: what has the number of this
\* process and is known anywhere has a serial that was given out.
Numbered ==
    /\ \A i \in Id : disk[i].json # NoFile => disk[i].json.id = i
    /\ \A i \in Id : synced[i].json # NoFile => synced[i].json.id = i
    /\ \A m \in Metas : /\ m.image[1] <= life
                        /\ m.image[1] = life /\ up # "off" => m.id[2] <= serial
    /\ \A e \in Events : /\ e.life <= life
                         /\ e.life = life /\ up # "off" => e.id[2] <= serial

Exact ==
    /\ \A m \in Metas, e \in Events : Shows(m, e)
    /\ reader.pc = "image" => reader.meta.id = reader.event.id
    /\ \A s \in staged : /\ s.image = s.meta.image
                         /\ s.meta.id = s.event.id
                         /\ Shows(s.meta, s.event)

\* RightPicture, for the work w and the beginnings b.
Right(w, b) ==
    w.event # NoEvent =>
        /\ EpochIn(b, w.meta.image[2]) = w.event.epoch
        /\ w.meta.exact => w.meta.image[2] = w.event.frame

IndInv ==
    /\ StreamTypes
    /\ StreamLabels
    /\ FileTypes
    /\ Working
    /\ Right(work, begin)
    /\ RecordWhole
    /\ Leases
    /\ Numbered
    /\ Exact

-----------------------------------------------------------------------------
(* Maxima, and what the queues hold *)

\* A nonempty set of naturals has a least element.
LEMMA LeastNatural ==
    ASSUME NEW T \in SUBSET Nat, T # {}
    PROVE  \E m \in T : \A n \in T : m <= n
<1> DEFINE R == {ss \in Nat \X Nat : ss[1] < ss[2]}
<1>1. IsWellFoundedOn(R, Nat)
  BY NatLessThanWellFounded DEF OpToRel
<1>2. PICK m \in T : \A n \in T : ~(<<n, m>> \in R)
  BY <1>1, WFMin
<1>3. ASSUME NEW n \in T PROVE m <= n
  <2>1. <<n, m>> \in Nat \X Nat
    OBVIOUS
  <2> QED
    BY <1>2, <2>1
<1> QED
  BY <1>3

\* The maximum of a nonempty bounded set of naturals is one of them.
LEMMA MaxMember ==
    ASSUME NEW N \in Nat, NEW C \in SUBSET (0..N), C # {}
    PROVE  Max(C) \in C /\ \A y \in C : Max(C) >= y
<1> DEFINE T == {n \in 0..N : N - n \in C}
<1>1. PICK c \in C : TRUE
  OBVIOUS
<1>2. N - c \in T /\ T \in SUBSET Nat
  OBVIOUS
<1>3. PICK t \in T : \A u \in T : t <= u
  BY <1>2, LeastNatural
<1>4. ASSUME NEW y \in C PROVE N - t >= y
  <2>1. N - y \in T
    OBVIOUS
  <2>2. t <= N - y
    BY <1>3, <2>1
  <2> QED
    BY <2>2
<1> QED
  BY <1>4 DEF Max

\* The frame a new stream begins with is beyond both queues.
LEMMA MaxOfTwo ==
    ASSUME NEW a \in Nat, NEW b \in Nat
    PROVE  Max({a, b}) \in Nat /\ Max({a, b}) >= a /\ Max({a, b}) >= b
  BY DEF Max

\* The bounds are numbers.
LEMMA Bounds ==
    /\ MaxFrame \in Nat /\ MaxEpoch \in Nat /\ MaxSerial \in Nat
    /\ MaxLife \in Nat /\ Retention \in Nat \ {0}
    /\ MaxFrame > 0 /\ MaxEpoch > 0
  BY EvidenceAssumption

\* A frame belongs to an epoch that has begun.
LEMMA EpochBegun ==
    ASSUME StreamTypes, NEW f \in 1..MaxFrame
    PROVE  EpochIn(begin, f) \in 1..Len(begin)
<1> DEFINE C == {e \in DOMAIN begin : begin[e] <= f}
<1>1. DOMAIN begin = 1..Len(begin) /\ Len(begin) \in Nat /\ 1 \in C
  BY Bounds DEF StreamTypes
<1>2. C \in SUBSET (0..Len(begin)) /\ C # {}
  BY <1>1
<1>3. Max(C) \in C
  BY <1>1, <1>2, MaxMember
<1> QED
  BY <1>1, <1>3 DEF EpochIn

\* A stream that begins later does not change the epoch of a frame.
LEMMA EpochKept ==
    ASSUME NEW b \in Seq(1..MaxFrame), NEW g \in 1..MaxFrame, NEW f \in Nat, f < g
    PROVE  EpochIn(Append(b, g), f) = EpochIn(b, f)
<1> DEFINE c == Append(b, g)
<1>1. /\ DOMAIN b = 1..Len(b) /\ DOMAIN c = 1..(Len(b) + 1)
      /\ \A e \in 1..Len(b) : c[e] = b[e]
      /\ c[Len(b) + 1] = g
      /\ Len(b) \in Nat
  OBVIOUS
<1>2. {e \in DOMAIN c : c[e] <= f} = {e \in DOMAIN b : b[e] <= f}
  BY <1>1, Bounds
<1> QED
  BY <1>2 DEF EpochIn

\* The label a JPEG finds is one of its own frame.
LEMMA FoundNote ==
    ASSUME StreamTypes, StreamLabels, NEW f \in 1..MaxFrame
    PROVE  /\ LatestNote(f) \in Labels
           /\ LatestNote(f) # NoLabel =>
                  LatestNote(f).pts = f /\ Labelled(LatestNote(f), begin, noted)
<1> DEFINE found == {i \in DOMAIN notes : notes[i].pts = f}
<1>1. CASE found = {}
  <2>1. LatestNote(f) = NoLabel
    BY <1>1 DEF LatestNote
  <2> QED
    BY <2>1, Bounds DEF NoLabel, Labels
<1>2. CASE found # {}
  <2>1. found \in SUBSET (0..Len(notes)) /\ Len(notes) \in Nat
    BY DEF StreamTypes
  <2>2. Max(found) \in found
    BY <1>2, <2>1, MaxMember
  <2>3. LatestNote(f) = notes[Max(found)]
    BY <1>2 DEF LatestNote
  <2>4. \A i \in found : notes[i] \in Labels /\ notes[i].pts = f /\ Labelled(notes[i], begin, noted)
    BY DEF StreamTypes, StreamLabels
  <2> HIDE DEF found
  <2> QED
    BY <2>2, <2>3, <2>4
<1> QED
  BY <1>1, <1>2

\* Trimming leaves a part of the window.
LEMMA TrimmedPart ==
    ASSUME NEW S, NEW q \in Seq(S), NEW t \in Trimmed(q)
    PROVE  /\ t \in Seq(S)
           /\ \A i \in DOMAIN t : \E j \in DOMAIN q : t[i] = q[j]
<1>1. PICK k \in 1..(Len(q) + 1) : t = SubSeq(q, k, Len(q))
  BY DEF Trimmed
<1>2. /\ t \in Seq(S)
      /\ Len(t) = Len(q) - k + 1
      /\ \A i \in 1..(Len(q) - k + 1) : t[i] = q[k + i - 1]
  BY <1>1
<1>3. DOMAIN t = 1..(Len(q) - k + 1) /\ DOMAIN q = 1..Len(q) /\ Len(q) \in Nat
  BY <1>2
<1>4. \A i \in DOMAIN t : k + i - 1 \in DOMAIN q /\ t[i] = q[k + i - 1]
  BY <1>2, <1>3
<1> QED
  BY <1>2, <1>4

\* The frame capture selects is one of the window and of the event's stream.
LEMMA SelectedFrame ==
    ASSUME StreamTypes, NEW e, e.pts \in {NoTime} \cup 1..MaxFrame,
           Selected(e) # 0
    PROVE  /\ Selected(e) \in DOMAIN frames
           /\ Matches(frames[Selected(e)], e)
<1> DEFINE exact == {i \in DOMAIN frames : IsExact(frames[i], e)}
           matching == {i \in DOMAIN frames : Matches(frames[i], e)}
           nearest == {i \in matching : \A j \in matching :
                           Delta(frames[i], e) <= Delta(frames[j], e)}
<1>1. DOMAIN frames \subseteq 0..Len(frames) /\ Len(frames) \in Nat
  BY DEF StreamTypes
<1>2. exact \subseteq matching /\ nearest \subseteq matching
      /\ matching \subseteq 0..Len(frames)
  BY <1>1 DEF IsExact
<1>3. ASSUME matching # {}, e.pts # NoTime PROVE nearest # {}
  <2> DEFINE deltas == {Delta(frames[i], e) : i \in matching}
  <2>1. \A i \in matching : Delta(frames[i], e) \in Nat
    <3> TAKE i \in matching
    <3>1. frames[i] \in Jpeg
      BY DEF StreamTypes
    <3>2. frames[i].frame \in Nat /\ e.pts \in Nat
      BY <1>3, <3>1, Bounds DEF Jpeg
    <3> QED
      BY <3>2 DEF Delta
  <2>2. deltas \in SUBSET Nat /\ deltas # {}
    BY <1>3, <2>1
  <2>3. PICK m \in deltas : \A n \in deltas : m <= n
    BY <2>2, LeastNatural
  <2>4. PICK i \in matching : m = Delta(frames[i], e)
    OBVIOUS
  <2>5. \A j \in matching : Delta(frames[i], e) <= Delta(frames[j], e)
    BY <2>3, <2>4
  <2> QED
    BY <2>4, <2>5
<1>4. Selected(e) = CASE exact # {} -> Max(exact)
                      [] matching = {} -> 0
                      [] exact = {} /\ matching # {} /\ e.pts # NoTime -> Max(nearest)
                      [] OTHER -> Max(matching)
  BY DEF Selected
<1> HIDE DEF exact, nearest
<1>5. Selected(e) \in matching
  <2>1. CASE exact # {}
    <3>1. Selected(e) = Max(exact)
      BY <1>2, <1>4, <2>1
    <3>2. Max(exact) \in exact
      BY <1>1, <1>2, <2>1, MaxMember
    <3> QED
      BY <1>2, <3>1, <3>2
  <2>2. CASE exact = {} /\ matching # {} /\ e.pts # NoTime
    <3>1. Selected(e) = Max(nearest)
      BY <1>4, <2>2
    <3>2. Max(nearest) \in nearest
      BY <1>1, <1>2, <1>3, <2>2, MaxMember
    <3> QED
      BY <1>2, <3>1, <3>2
  <2>3. CASE exact = {} /\ matching # {} /\ e.pts = NoTime
    <3>1. Selected(e) = Max(matching)
      BY <1>4, <2>3
    <3>2. Max(matching) \in matching
      BY <1>1, <1>2, <2>3, MaxMember
    <3> QED
      BY <3>1, <3>2
  <2>4. exact # {} \/ matching # {}
    BY <1>4
  <2> QED
    BY <1>2, <2>1, <2>2, <2>3, <2>4
<1> QED
  BY <1>5

-----------------------------------------------------------------------------
(* The streams: labels, JPEGs and the observation in hand *)

\* The fields of a JPEG in the cache have their types.
LEMMA JpegTypes ==
    ASSUME StreamTypes, NEW i \in DOMAIN frames
    PROVE  /\ frames[i] \in Jpeg
           /\ frames[i].frame \in 1..MaxFrame
           /\ frames[i].size \in Sizes
           /\ frames[i].note \in Labels
<1>1. frames[i] \in Jpeg
  BY DEF StreamTypes
<1> QED
  BY <1>1 DEF Jpeg

\* What the stream invariants are about is left alone.
streamVars == <<up, life, now, begin, noted, encoded, notes, frames, serial, obs>>

\* Steps that leave the stream variables alone keep what is known of them.
LEMMA StreamSame ==
    StreamTypes /\ StreamLabels /\ UNCHANGED streamVars
        => StreamTypes' /\ StreamLabels'
  BY DEF StreamTypes, StreamLabels, Labelled, streamVars

\* A result in the worker's hands is gone.
LEMMA StreamObsDone ==
    StreamTypes /\ StreamLabels
    /\ UNCHANGED <<up, life, now, begin, noted, encoded, notes, frames, serial>>
    /\ obs' = NoLabel
        => StreamTypes' /\ StreamLabels'
<1> SUFFICES ASSUME StreamTypes, StreamLabels, obs' = NoLabel,
                    UNCHANGED <<up, life, now, begin, noted, encoded, notes,
                                frames, serial>>
             PROVE  StreamTypes' /\ StreamLabels'
  OBVIOUS
<1>1. NoLabel \in Labels /\ NoLabel.pts = NoTime
  BY Bounds DEF NoLabel, Labels
<1> QED
  BY <1>1 DEF StreamTypes, StreamLabels, Labelled

\* A new stream keeps the types and labels of the frames.
LEMMA StreamSetStream ==
    ASSUME StreamTypes, StreamLabels, SetStream
    PROVE  StreamTypes' /\ StreamLabels'
<1>1. PICK g \in (Max({noted, encoded}) + 1)..MaxFrame : begin' = Append(begin, g)
  BY DEF SetStream
<1>2. noted \in Nat /\ encoded \in Nat /\ MaxFrame \in Nat /\ MaxEpoch \in Nat
  BY Bounds DEF StreamTypes
<1>3. g \in 1..MaxFrame /\ noted < g /\ encoded < g
  BY <1>1, <1>2, MaxOfTwo
<1>4. \A f \in Nat : f <= noted => EpochIn(begin', f) = EpochIn(begin, f)
  BY <1>1, <1>2, <1>3, EpochKept DEF StreamTypes
<1>5. StreamTypes'
  BY <1>1, <1>2, <1>3 DEF StreamTypes, SetStream
<1>6. \A l \in Labels : Labelled(l, begin, noted) => Labelled(l, begin', noted')
  BY <1>2, <1>4 DEF Labelled, Labels, NoTime, SetStream
<1>7. \A i \in DOMAIN frames : frames[i].note \in Labels
  BY JpegTypes
<1>8. StreamLabels'
  <2>1. obs' = obs /\ notes' = notes /\ frames' = frames /\ encoded' = encoded
    BY DEF SetStream
  <2>2. obs \in Labels /\ \A i \in DOMAIN notes : notes[i] \in Labels
    BY DEF StreamTypes
  <2>3. Labelled(obs, begin, noted)' /\ \A i \in DOMAIN notes : Labelled(notes[i], begin, noted)'
    BY <1>6, <2>1, <2>2 DEF StreamLabels
  <2> QED
    BY <1>6, <1>7, <2>1, <2>3 DEF StreamLabels
<1> QED
  BY <1>5, <1>8

\* A pushed JPEG, and the trimming after it, keep the labels.
LEMMA StreamPushJpeg ==
    ASSUME StreamTypes, StreamLabels, NEW f \in 1..MaxFrame, NEW size \in Sizes,
           PushJpeg(f, size)
    PROVE  StreamTypes' /\ StreamLabels'
<1> DEFINE new == [frame |-> f, size |-> size, note |-> LatestNote(f)]
           all == Append(frames, new)
<1>1. frames' \in Trimmed(all) /\ encoded' = f /\ f > encoded
  BY DEF PushJpeg
<1>2. new \in Jpeg /\ (new.note # NoLabel => new.note.pts = f /\ Labelled(new.note, begin, noted))
  BY FoundNote DEF Jpeg
<1>3. all \in Seq(Jpeg)
  BY <1>2 DEF StreamTypes
<1>4. /\ frames' \in Seq(Jpeg)
      /\ \A i \in DOMAIN frames' : \E j \in DOMAIN all : frames'[i] = all[j]
  BY <1>1, <1>3, TrimmedPart
<1>5. \A j \in DOMAIN all : all[j] = new \/ \E k \in DOMAIN frames : all[j] = frames[k]
  BY DEF StreamTypes
<1> HIDE DEF all
<1>6. StreamTypes'
  BY <1>1, <1>4, Bounds DEF StreamTypes, PushJpeg
<1>7. ASSUME NEW i \in DOMAIN frames'
      PROVE  /\ frames'[i].frame <= f
             /\ frames'[i].note # NoLabel => /\ frames'[i].note.pts = frames'[i].frame
                                             /\ Labelled(frames'[i].note, begin, noted)
  <2>1. CASE frames'[i] = new
    BY <1>2, <2>1, Bounds
  <2>2. ASSUME NEW k \in DOMAIN frames, frames'[i] = frames[k]
        PROVE  /\ frames'[i].frame <= f
               /\ frames'[i].note # NoLabel => /\ frames'[i].note.pts = frames'[i].frame
                                               /\ Labelled(frames'[i].note, begin, noted)
    <3>1. frames[k] \in Jpeg
      BY DEF StreamTypes
    <3>2. frames[k].frame \in 1..MaxFrame /\ encoded \in 0..MaxFrame
      BY <3>1 DEF StreamTypes, Jpeg
    <3> QED
      BY <1>1, <2>2, <3>2, Bounds DEF StreamLabels
  <2> QED
    BY <1>4, <1>5, <2>1, <2>2
<1>8. StreamLabels'
  BY <1>1, <1>7 DEF StreamLabels, Labelled, PushJpeg
<1> QED
  BY <1>6, <1>8

\* A noted frame keeps the labels.
LEMMA StreamNoteFrame ==
    ASSUME StreamTypes, StreamLabels, NEW f \in 1..MaxFrame, NEW timed \in BOOLEAN,
           NoteFrame(f, timed)
    PROVE  StreamTypes' /\ StreamLabels'
<1> DEFINE label == Label(f, timed)
           all == Append(notes, label)
<1>0. /\ f > noted /\ noted' = f /\ up = "open" /\ obs' = label
      /\ UNCHANGED <<up, life, now, begin, encoded, serial>>
  BY DEF NoteFrame
<1>1. EpochIn(begin, f) \in 1..Len(begin) /\ Len(begin) \in 1..MaxEpoch
  BY EpochBegun DEF StreamTypes
<1>2. /\ label \in Labels /\ label.epoch > 0 /\ label.frame = f
      /\ label.pts # NoTime => label.pts = f /\ label.epoch = EpochIn(begin, f)
  BY <1>1, Bounds DEF Label, Labels, EpochOf, EpochIn, NoTime
<1> HIDE DEF label
<1>3. label # NoLabel
  BY <1>2 DEF NoLabel
<1>4. /\ notes' \in Seq(Labels)
      /\ \A i \in DOMAIN notes' : notes'[i] = label
                                   \/ \E j \in DOMAIN notes : notes'[i] = notes[j]
  <2>1. /\ all \in Seq(Labels) /\ Len(all) = Len(notes) + 1 /\ Len(notes) \in Nat
        /\ DOMAIN notes = 1..Len(notes)
        /\ \A i \in 1..Len(notes) : all[i] = notes[i]
        /\ all[Len(notes) + 1] = label
    BY <1>2 DEF StreamTypes
  <2>2. notes' = all \/ notes' = Tail(all)
    BY DEF NoteFrame, label
  <2> HIDE DEF all
  <2>3. CASE notes' = all
    BY <2>1, <2>3
  <2>4. CASE notes' = Tail(all)
    <3>1. /\ notes' \in Seq(Labels) /\ DOMAIN notes' = 1..Len(notes)
          /\ \A i \in 1..Len(notes) : notes'[i] = all[i + 1]
      BY <2>1, <2>4
    <3>2. \A i \in 1..Len(notes) : i + 1 \in 1..Len(notes) \/ i + 1 = Len(notes) + 1
      BY <2>1
    <3>3. ASSUME NEW i \in 1..Len(notes)
          PROVE  notes'[i] = label \/ \E j \in DOMAIN notes : notes'[i] = notes[j]
      BY <2>1, <3>1, <3>2
    <3> QED
      BY <3>1, <3>3
  <2> QED
    BY <2>2, <2>3, <2>4
<1>5. \A i \in DOMAIN frames : frames[i].note \in Labels
  BY JpegTypes
<1>6. /\ DOMAIN frames' = DOMAIN frames
      /\ \A i \in DOMAIN frames :
             \/ frames'[i] = frames[i]
             \/ /\ frames[i].frame = label.pts
                /\ frames'[i] = [frames[i] EXCEPT !.note = label]
  BY DEF NoteFrame, label
<1>7. \A i \in DOMAIN frames :
          /\ frames'[i] \in Jpeg /\ frames'[i].frame = frames[i].frame
          /\ \/ frames'[i] = frames[i]
             \/ frames[i].frame = label.pts /\ frames'[i].note = label
  <2> TAKE i \in DOMAIN frames
  <2>1. frames[i] \in Jpeg
    BY JpegTypes
  <2>2. [frames[i] EXCEPT !.note = label] \in Jpeg
        /\ [frames[i] EXCEPT !.note = label].note = label
        /\ [frames[i] EXCEPT !.note = label].frame = frames[i].frame
    BY <1>2, <2>1 DEF Jpeg
  <2> QED
    BY <1>6, <2>1, <2>2
<1>8. frames' \in Seq(Jpeg)
  <2>1. frames' = [i \in 1..Len(frames) |-> frames'[i]] /\ Len(frames) \in Nat
        /\ DOMAIN frames = 1..Len(frames)
    BY DEF NoteFrame, StreamTypes
  <2> QED
    BY <1>7, <2>1
<1>9. StreamTypes'
  BY <1>0, <1>2, <1>4, <1>8, Bounds DEF StreamTypes
<1>10. \A l \in Labels : Labelled(l, begin, noted) => Labelled(l, begin', noted')
  <2> TAKE l \in Labels
  <2>1. l.frame \in 0..MaxFrame /\ noted \in 0..MaxFrame
    BY DEF Labels, StreamTypes
  <2> QED
    BY <1>0, <2>1, Bounds DEF Labelled
<1>11. Labelled(label, begin', noted')
  BY <1>0, <1>2, Bounds DEF Labelled
<1>12. StreamLabels'
  <2>1. \A i \in DOMAIN notes' : Labelled(notes'[i], begin', noted')
    <3> TAKE i \in DOMAIN notes'
    <3>1. \A j \in DOMAIN notes : notes[j] \in Labels /\ Labelled(notes[j], begin, noted)
      BY DEF StreamTypes, StreamLabels
    <3> QED
      BY <1>4, <1>10, <1>11, <3>1
  <2>2. \A i \in DOMAIN frames' :
           /\ frames'[i].frame <= encoded'
           /\ frames'[i].note # NoLabel =>
                  /\ frames'[i].note.pts = frames'[i].frame
                  /\ Labelled(frames'[i].note, begin', noted')
    BY <1>0, <1>5, <1>6, <1>7, <1>10, <1>11 DEF StreamLabels
  <2> QED
    BY <1>0, <1>11, <2>1, <2>2 DEF StreamLabels
<1> QED
  BY <1>9, <1>12

\* A new life of the process starts with empty queues.
LEMMA StreamEnded ==
    ASSUME StreamTypes, Ended
    PROVE  StreamTypes' /\ StreamLabels'
<1>1. NoLabel \in Labels /\ NoLabel.pts = NoTime
  BY Bounds DEF NoLabel, Labels
<1>2. /\ begin' = <<1>> /\ notes' = <<>> /\ frames' = <<>> /\ obs' = NoLabel
      /\ noted' = 0 /\ encoded' = 0 /\ serial' = 0 /\ up' = "off"
      /\ UNCHANGED <<life, now>>
  BY DEF Ended
<1>3. begin' \in Seq(1..MaxFrame) /\ Len(begin') = 1 /\ begin'[1] = 1
  BY <1>2, Bounds
<1>4. notes' \in Seq(Labels) /\ frames' \in Seq(Jpeg)
      /\ DOMAIN notes' = {} /\ DOMAIN frames' = {}
  BY <1>2
<1> QED
  BY <1>1, <1>2, <1>3, <1>4, Bounds DEF StreamTypes, StreamLabels, Labelled

\* Every step keeps the streams and their labels.
LEMMA StreamStep ==
    ASSUME StreamTypes, StreamLabels, Next
    PROVE  StreamTypes' /\ StreamLabels'
<1>1. CASE SetStream
  BY <1>1, StreamSetStream
<1>2. ASSUME NEW f \in 1..MaxFrame, NEW size \in Sizes, PushJpeg(f, size)
      PROVE  StreamTypes' /\ StreamLabels'
  BY <1>2, StreamPushJpeg
<1>3. ASSUME NEW f \in 1..MaxFrame, NEW timed \in BOOLEAN, NoteFrame(f, timed)
      PROVE  StreamTypes' /\ StreamLabels'
  BY <1>3, StreamNoteFrame
<1>4. CASE Quiet \/ PruneDone \/ Publish \/ PublishFails
  BY <1>4, StreamObsDone DEF Quiet, PruneDone, Publish, PublishFails, Release
<1>5. CASE Capture
  <2>1. /\ serial < MaxSerial /\ serial' = serial + 1
        /\ obs' = NoLabel \/ obs' = obs
        /\ UNCHANGED <<up, life, now, begin, noted, encoded, notes, frames>>
    BY <1>5 DEF Capture
  <2>2. NoLabel \in Labels /\ NoLabel.pts = NoTime
    BY Bounds DEF NoLabel, Labels
  <2> QED
    BY <2>1, <2>2, Bounds DEF StreamTypes, StreamLabels, Labelled
<1>6. CASE PruneJpeg \/ PruneJson \/ PruneFails \/ WriteJpeg \/ SyncJpeg
           \/ WriteJson \/ ReadMetadata \/ ReadImage
  BY <1>6, StreamSame
  DEF PruneJpeg, PruneJson, PruneFails, Forget, WriteJpeg, SyncJpeg, WriteJson,
      ReadMetadata, ReadImage, memory, streamVars
<1>7. CASE Open \/ OpenFails
  <2>1. /\ up = "off" /\ life < MaxLife /\ life' = life + 1
        /\ up' \in {"open", "unavailable"}
        /\ UNCHANGED <<now, begin, noted, encoded, notes, frames, serial, obs>>
    BY <1>7 DEF Open, OpenFails, Start
  <2> QED
    BY <2>1, Bounds DEF StreamTypes, StreamLabels, Labelled
<1>8. CASE Crash \/ PowerLoss
  BY <1>8, StreamEnded DEF Crash, PowerLoss
<1>9. CASE Tick
  <2>1. now' = now + 1
        /\ UNCHANGED <<up, life, begin, noted, encoded, notes, frames, serial, obs>>
    BY <1>9 DEF Tick, memory
  <2> QED
    BY <2>1 DEF StreamTypes, StreamLabels, Labelled
<1> QED
  BY <1>1, <1>2, <1>3, <1>4, <1>5, <1>6, <1>7, <1>8, <1>9 DEF Next

-----------------------------------------------------------------------------
(* The files *)

\* Writing or removing one file of a pair.
LEMMA SetJpg ==
    ASSUME NEW d \in [Id -> Files], NEW i \in Id, NEW x \in Image \cup {NoFile}
    PROVE  LET c == [d EXCEPT ![i].jpg = x]
           IN  /\ c \in [Id -> Files]
               /\ c[i].jpg = x /\ c[i].json = d[i].json
               /\ \A j \in Id : j # i => c[j] = d[j]
  BY DEF Files

\* Writing one sidecar leaves the other files alone.
LEMMA SetJson ==
    ASSUME NEW d \in [Id -> Files], NEW i \in Id, NEW x \in Metadata \cup {NoFile}
    PROVE  LET c == [d EXCEPT ![i].json = x]
           IN  /\ c \in [Id -> Files]
               /\ c[i].json = x /\ c[i].jpg = d[i].jpg
               /\ \A j \in Id : j # i => c[j] = d[j]
  BY DEF Files

\* A pair of files is what its two files are.
LEMMA PairOfFiles ==
    ASSUME NEW p \in Files, NEW q \in Files, p.jpg = q.jpg, p.json = q.json
    PROVE  p = q
  BY DEF Files

\* A pair of files is the record r when it has the picture and the metadata of r.
LEMMA WholePair ==
    ASSUME NEW p \in Files, NEW r
    PROVE  p = [jpg |-> r.image, json |-> r] <=> p.jpg = r.image /\ p.json = r
  BY DEF Files

\* Metadata and events are told from their absence.
LEMMA Something ==
    /\ \A m \in Metadata : m # NoFile /\ m.id \in Id
    /\ \A e \in Event : e # NoEvent /\ e.id \in Id
<1>1. \A m \in Metadata : m # NoFile /\ m.id \in Id
  BY DEF Metadata, NoFile
<1>2. \A e \in Event : e.id \in Id
  BY DEF Event
<1>3. \A i \in Id : i # <<0, 0>>
  BY Bounds DEF Id
<1>4. NoEvent.id = <<0, 0>>
  BY DEF NoEvent
<1> QED
  BY <1>1, <1>2, <1>3, <1>4

\* The fields of an event and of the metadata.
LEMMA EventFields ==
    ASSUME NEW e \in Event
    PROVE  /\ e.id \in Id /\ e.id[2] \in Nat /\ e.epoch \in 1..MaxEpoch
           /\ e.frame \in Nat /\ e.life \in Nat
<1>1. /\ e.id \in Id /\ e.epoch \in 1..MaxEpoch
      /\ e.frame \in 1..MaxFrame /\ e.life \in 1..MaxLife
  BY DEF Event
<1>2. e.id[2] \in 1..MaxSerial
  BY <1>1 DEF Id
<1> QED
  BY <1>1, <1>2, Bounds

\* What a sidecar says of its JPEG.
LEMMA MetadataFields ==
    ASSUME NEW m \in Metadata
    PROVE  /\ m.id \in Id /\ m.id[2] \in Nat
           /\ m.image \in Image /\ m.image[1] \in Nat /\ m.image[2] \in Nat
           /\ m.exact \in BOOLEAN /\ m.expires \in Nat
<1>1. m.id \in Id /\ m.image \in Image /\ m.exact \in BOOLEAN /\ m.expires \in Nat
  BY DEF Metadata
<1>2. m.id[2] \in 1..MaxSerial /\ m.image[1] \in 1..MaxLife /\ m.image[2] \in 1..MaxFrame
  BY <1>1 DEF Id, Image
<1> QED
  BY <1>1, <1>2, Bounds

\* A record of the cache is the only one of its id.
LEMMA RecordsById ==
    ASSUME RecordWhole, NEW r \in records, NEW q \in records, r.id = q.id
    PROVE  r = q
  BY DEF RecordWhole

\* The steps of the streams leave the files alone.  While a publication is
\* under way only SetStream can happen, and its frame is beyond both queues.
fileVars == <<records, leased, work, disk, synced, journal, reader, staged>>

\* Steps of the stream alone keep what is known of the files.
LEMMA FilesStream ==
    ASSUME IndInv, UNCHANGED <<fileVars, life, now, serial, up>>,
           begin' \in Seq(1..MaxFrame),
           noted' \in Nat, encoded' \in Nat, noted <= noted', encoded <= encoded',
           work.pc = "free" \/ SetStream
    PROVE  /\ FileTypes' /\ Working' /\ Right(work, begin)' /\ RecordWhole'
           /\ Leases' /\ Numbered' /\ Exact'
<1> USE DEF fileVars
<1>1. FileTypes' /\ RecordWhole' /\ Leases'
  BY DEF IndInv, FileTypes, RecordWhole, Expired, Leases
<1>2. Numbered' /\ Exact'
  BY DEF IndInv, Numbered, Exact, Metas, Events
<1>3. Working'
  <2>1. ASSUME work.event # NoEvent
        PROVE  work.event.frame <= noted' /\ work.meta.image[2] <= encoded'
    <3>1. work.event \in Event /\ work.meta \in Metadata
      BY <2>1 DEF IndInv, FileTypes, Working
    <3>2. work.event.frame \in Nat /\ work.meta.image[2] \in Nat
      BY <3>1, EventFields, MetadataFields
    <3>3. noted \in Nat /\ encoded \in Nat /\ noted' \in Nat /\ encoded' \in Nat
      BY Bounds DEF IndInv, StreamTypes
    <3>4. work.event.frame <= noted /\ work.meta.image[2] <= encoded
      BY <2>1 DEF IndInv, Working
    <3> QED
      BY <3>2, <3>3, <3>4
  <2> QED
    BY <2>1 DEF IndInv, Working
<1>4. Right(work, begin)'
  <2>1. CASE work.event = NoEvent
    BY <2>1 DEF Right
  <2>2. CASE work.event # NoEvent
    <3>1. PICK g \in (Max({noted, encoded}) + 1)..MaxFrame : begin' = Append(begin, g)
      BY <2>2 DEF IndInv, Working, SetStream
    <3>2. noted \in Nat /\ encoded \in Nat /\ MaxFrame \in Nat
      BY Bounds DEF IndInv, StreamTypes
    <3>3. g \in 1..MaxFrame /\ encoded < g
      BY <3>1, <3>2, MaxOfTwo
    <3>4. work.meta.image[2] \in Nat /\ work.meta.image[2] < g
      <4>1. work.meta \in Metadata /\ work.meta.image[2] <= encoded
        BY <2>2 DEF IndInv, Working
      <4>2. work.meta.image[2] \in Nat
        BY <4>1, MetadataFields
      <4> QED
        BY <3>2, <3>3, <4>1, <4>2
    <3>5. begin \in Seq(1..MaxFrame)
      BY DEF IndInv, StreamTypes
    <3>6. EpochIn(begin', work.meta.image[2]) = EpochIn(begin, work.meta.image[2])
      BY <3>1, <3>3, <3>4, <3>5, EpochKept
    <3> QED
      BY <3>6 DEF IndInv, Right
  <2> QED
    BY <2>1, <2>2
<1> QED
  BY <1>1, <1>2, <1>3, <1>4

\* Those steps: a new stream, a JPEG, a frame, a frame that raises no event.
LEMMA FilesStreamSteps ==
    ASSUME IndInv,
           \/ SetStream \/ Quiet
           \/ \E f \in 1..MaxFrame, size \in Sizes : PushJpeg(f, size)
           \/ \E f \in 1..MaxFrame, timed \in BOOLEAN : NoteFrame(f, timed)
    PROVE  IndInv'
<1>1. StreamTypes' /\ StreamLabels'
  BY StreamStep DEF IndInv, Next
<1>2. begin' \in Seq(1..MaxFrame)
  BY <1>1 DEF StreamTypes
<1>3. noted \in Nat /\ encoded \in Nat
  BY Bounds DEF IndInv, StreamTypes
<1>4. UNCHANGED <<fileVars, life, now, serial, up>> /\ (work.pc = "free" \/ SetStream)
  BY DEF SetStream, PushJpeg, NoteFrame, Quiet, fileVars, daemonVars, history
<1>5. noted' \in Nat /\ encoded' \in Nat /\ noted <= noted' /\ encoded <= encoded'
  <2>1. CASE SetStream \/ Quiet
    BY <1>3, <2>1 DEF SetStream, Quiet
  <2>2. ASSUME NEW f \in 1..MaxFrame, NEW size \in Sizes, PushJpeg(f, size)
        PROVE  noted' = noted /\ encoded' = f /\ f > encoded
    BY <2>2 DEF PushJpeg
  <2>3. ASSUME NEW f \in 1..MaxFrame, NEW timed \in BOOLEAN, NoteFrame(f, timed)
        PROVE  encoded' = encoded /\ noted' = f /\ f > noted
    BY <2>3 DEF NoteFrame
  <2> QED
    BY <1>3, <2>1, <2>2, <2>3
<1> QED
  BY <1>1, <1>2, <1>4, <1>5, FilesStream DEF IndInv

\* What capture makes of the event in hand and the frame it selects.
LEMMA CaptureFacts ==
    ASSUME IndInv, obs # NoLabel, serial < MaxSerial,
           NEW e, e = [id |-> <<obs.epoch, serial + 1>>, epoch |-> obs.epoch,
                       frame |-> obs.frame, pts |-> obs.pts, life |-> life]
    PROVE  /\ e \in Event /\ e.id[2] = serial + 1 /\ e.life = life /\ e.frame <= noted
           /\ Selected(e) # 0 =>
                 LET m == Candidate(e, frames[Selected(e)])
                 IN  /\ m \in Metadata /\ m.id = e.id
                     /\ m.image[1] = life /\ m.image[2] <= encoded
                     /\ EpochIn(begin, m.image[2]) = e.epoch
                     /\ m.exact => m.image[2] = e.frame
<1>1. /\ obs.epoch \in 1..MaxEpoch /\ obs.frame \in 1..MaxFrame /\ obs.frame <= noted
      /\ obs.pts \in {NoTime} \cup 1..MaxFrame
      /\ life \in 1..MaxLife /\ serial + 1 \in 1..MaxSerial
  BY Bounds DEF IndInv, StreamTypes, Labels
<1>2. e \in Event /\ e.id[2] = serial + 1 /\ e.life = life /\ e.frame <= noted
  BY <1>1 DEF Event, Id
<1>3. ASSUME Selected(e) # 0
      PROVE  LET m == Candidate(e, frames[Selected(e)])
             IN  /\ m \in Metadata /\ m.id = e.id
                 /\ m.image[1] = life /\ m.image[2] <= encoded
                 /\ EpochIn(begin, m.image[2]) = e.epoch
                 /\ m.exact => m.image[2] = e.frame
  <2> DEFINE f == frames[Selected(e)]
             m == Candidate(e, f)
  <2>1. Selected(e) \in DOMAIN frames /\ Matches(f, e)
    BY <1>1, <1>3, SelectedFrame DEF IndInv
  <2>2. f.frame \in 1..MaxFrame /\ f.size \in Sizes
    BY <2>1, JpegTypes DEF IndInv
  <2>3. /\ f.frame <= encoded /\ f.note.epoch = e.epoch
        /\ f.note.pts = f.frame /\ Labelled(f.note, begin, noted)
    BY <2>1 DEF IndInv, StreamLabels, Matches
  <2>4. f.note.frame = f.frame /\ EpochIn(begin, f.frame) = e.epoch
    BY <2>2, <2>3, Bounds DEF Labelled, NoTime
  <2>5. IsExact(f, e) => f.frame = e.frame
    <3>1. obs.pts # NoTime => obs.pts = obs.frame
      BY DEF IndInv, StreamLabels, Labelled
    <3> QED
      BY <2>3, <2>4, <3>1 DEF IsExact
  <2>6. IsExact(f, e) \in BOOLEAN /\ now + Retention \in Nat
    BY Bounds DEF IsExact, IndInv, StreamTypes
  <2>7. <<life, f.frame, f.size>> \in Image
    BY <1>1, <2>2 DEF Image
  <2> HIDE DEF f
  <2>8. m \in Metadata
    BY <1>1, <1>2, <2>2, <2>6, <2>7 DEF Candidate, Metadata, Event
  <2>9. /\ m.id = e.id /\ m.image[1] = life /\ m.image[2] = f.frame
        /\ m.exact = IsExact(f, e)
    BY DEF Candidate
  <2> QED
    BY <2>3, <2>4, <2>5, <2>8, <2>9 DEF f
<1> QED
  BY <1>2, <1>3

\* What is known anywhere is typed.
LEMMA KnownTypes ==
    ASSUME FileTypes
    PROVE  Metas \subseteq Metadata /\ Events \subseteq Event
<1>1. \A i \in Id : disk[i] \in Files /\ synced[i] \in Files
  BY DEF FileTypes
<1>2. \A i \in Id : /\ disk[i].json \in Metadata \cup {NoFile}
                    /\ synced[i].json \in Metadata \cup {NoFile}
  BY <1>1 DEF Files
<1>3. {work.meta, reader.meta} \subseteq Metadata \cup {NoFile}
  BY DEF FileTypes
<1>4. Metas \subseteq Metadata
  BY <1>2, <1>3 DEF Metas
<1>5. Events \subseteq Event
  BY DEF Events, FileTypes
<1> QED
  BY <1>4, <1>5

\* A step after which nothing new is known keeps the numbers and the exactness;
\* a process that starts has given out no number yet.
LEMMA KnownKept ==
    ASSUME IndInv, Metas' \subseteq Metas, Events' \subseteq Events,
           staged' = staged, reader' = reader \/ reader' = Reading,
           \A i \in Id : disk'[i].json # NoFile => disk'[i].json.id = i,
           \A i \in Id : synced'[i].json # NoFile => synced'[i].json.id = i,
           \/ life' = life /\ up' = up /\ serial' = serial
           \/ life' = life /\ up' = "off"
           \/ life' = life + 1
    PROVE  Numbered' /\ Exact'
<1>1. life \in Nat
  BY Bounds DEF IndInv, StreamTypes
<1>2. /\ \A m \in Metas : m.image[1] \in Nat /\ m.image[1] <= life
      /\ \A e \in Events : e.life \in Nat /\ e.life <= life
  BY KnownTypes, EventFields, MetadataFields DEF IndInv, Numbered
<1>3. /\ \A m \in Metas' : /\ m.image[1] <= life'
                           /\ m.image[1] = life' /\ up' # "off" => m.id[2] <= serial'
      /\ \A e \in Events' : /\ e.life <= life'
                            /\ e.life = life' /\ up' # "off" => e.id[2] <= serial'
  BY <1>1, <1>2 DEF IndInv, Numbered
<1>4. Numbered'
  BY <1>3 DEF Numbered
<1>5. Exact'
  BY DEF IndInv, Exact, Reading
<1> QED
  BY <1>4, <1>5

\* An expired record has no lease.
LEMMA ExpiredUnleased ==
    ASSUME IndInv, work.pc = "prune", NEW r \in Expired
    PROVE  /\ r \in records /\ r \in Metadata /\ r.id \in Id
           /\ \A q \in leased : q.id # r.id
<1>1. r \in records /\ r.expires <= work.at
  BY DEF Expired
<1>2. r \in Metadata /\ r.id \in Id /\ r.expires \in Nat /\ work.at \in Nat /\ now \in Nat
  BY <1>1, MetadataFields DEF IndInv, FileTypes, StreamTypes
<1>3. up = "open" /\ work.at <= now
  BY DEF IndInv, Working
<1>4. ASSUME NEW q \in leased, q.id = r.id PROVE FALSE
  <2>1. q \in records /\ q.expires > now
    BY <1>3 DEF IndInv, Leases
  <2>2. q = r
    BY <1>1, <1>4, <2>1, RecordsById DEF IndInv
  <2> QED
    BY <1>1, <1>2, <1>3, <2>1, <2>2
<1> QED
  BY <1>1, <1>2, <1>4

\* A step of the pruning changes the files of an expired record alone.
LEMMA FilesPruneJpeg ==
    ASSUME IndInv, PruneJpeg
    PROVE  /\ FileTypes' /\ Working' /\ Right(work, begin)' /\ RecordWhole'
           /\ Leases' /\ Numbered' /\ Exact'
<1>1. PICK r \in Expired : disk' = [disk EXCEPT ![r.id].jpg = NoFile]
  BY DEF PruneJpeg
<1>2. /\ work.pc = "prune"
      /\ UNCHANGED <<up, life, now, memory, synced, daemonVars, faults, history>>
  BY DEF PruneJpeg
<1>3. /\ r \in records /\ r \in Metadata /\ r.id \in Id
      /\ \A q \in leased : q.id # r.id
  BY <1>2, ExpiredUnleased
<1>4. disk \in [Id -> Files] /\ \A q \in records \cup leased : q.id \in Id
  BY MetadataFields DEF IndInv, FileTypes
<1>5. /\ disk' \in [Id -> Files]
      /\ disk'[r.id].jpg = NoFile /\ disk'[r.id].json = disk[r.id].json
      /\ \A j \in Id : j # r.id => disk'[j] = disk[j]
  BY <1>1, <1>3, <1>4, SetJpg
<1>6. \A j \in Id : disk'[j].json = disk[j].json
  BY <1>5
<1> USE <1>2 DEF memory, daemonVars, history
<1>7. FileTypes' /\ Right(work, begin)'
  BY <1>5 DEF IndInv, FileTypes, Right
<1>8. Working'
  BY DEF IndInv, Working
<1>9. RecordWhole'
  <2> SUFFICES ASSUME NEW q \in records
               PROVE  /\ disk'[q.id].json = q
                      /\ disk'[q.id].jpg = q.image \/ q \in Expired'
    BY DEF RecordWhole
  <2>1. disk[q.id].json = q /\ (disk[q.id].jpg = q.image \/ q \in Expired)
    BY DEF IndInv, RecordWhole
  <2>2. Expired' = Expired
    BY DEF Expired
  <2>3. CASE q.id = r.id
    BY <1>3, <1>4, <1>6, <2>1, <2>2, <2>3, RecordsById DEF IndInv
  <2>4. CASE q.id # r.id
    BY <1>4, <1>5, <2>1, <2>2, <2>4
  <2> QED
    BY <2>3, <2>4
<1>10. Leases'
  BY <1>3, <1>4, <1>5 DEF IndInv, Leases
<1>11. Metas' = Metas /\ Events' = Events
  BY <1>6 DEF Metas, Events
<1>12. Numbered' /\ Exact'
  BY <1>6, <1>11, KnownKept DEF IndInv, Numbered
<1> QED
  BY <1>7, <1>8, <1>9, <1>10, <1>12

\* A record is forgotten, with its metadata or without.
LEMMA FilesForget ==
    ASSUME IndInv, work.pc = "prune", NEW r \in Expired, Forget(r),
           disk' \in {disk, [disk EXCEPT ![r.id].json = NoFile]}
    PROVE  /\ FileTypes' /\ Working' /\ Right(work, begin)' /\ RecordWhole'
           /\ Leases' /\ Numbered' /\ Exact'
<1>1. /\ r \in records /\ r \in Metadata /\ r.id \in Id
      /\ \A q \in leased : q.id # r.id
  BY ExpiredUnleased
<1>2. disk \in [Id -> Files] /\ \A q \in records \cup leased : q.id \in Id
  BY MetadataFields DEF IndInv, FileTypes
<1>3. /\ disk' \in [Id -> Files]
      /\ disk'[r.id].json \in {NoFile, disk[r.id].json}
      /\ \A j \in Id : j # r.id => disk'[j] = disk[j]
  <2>1. CASE disk' = disk
    BY <1>2, <2>1
  <2>2. CASE disk' = [disk EXCEPT ![r.id].json = NoFile]
    BY <1>1, <1>2, <2>2, SetJson
  <2> QED
    BY <2>1, <2>2
<1>4. /\ records' = records \ {r}
      /\ UNCHANGED <<up, life, now, begin, noted, encoded, serial, work, synced,
                     journal, reader, staged, leased>>
  BY DEF Forget, daemonVars, history
<1>5. \A j \in Id : disk'[j].json \in {NoFile, disk[j].json}
  BY <1>3
<1>6. FileTypes' /\ Right(work, begin)'
  BY <1>3, <1>4 DEF IndInv, FileTypes, Right
<1>7. Working'
  BY <1>4 DEF IndInv, Working
<1>8. RecordWhole'
  <2> SUFFICES ASSUME NEW q \in records, q # r
               PROVE  /\ disk'[q.id].json = q
                      /\ disk'[q.id].jpg = q.image \/ q \in Expired'
    BY <1>4 DEF RecordWhole
  <2>1. disk[q.id].json = q /\ (disk[q.id].jpg = q.image \/ q \in Expired)
    BY DEF IndInv, RecordWhole
  <2>2. q \in Expired => q \in Expired'
    BY <1>4 DEF Expired
  <2>3. q.id # r.id
    BY <1>1, RecordsById DEF IndInv
  <2> QED
    BY <1>2, <1>3, <2>1, <2>2, <2>3
<1>9. Leases'
  <2> SUFFICES ASSUME NEW q \in leased
               PROVE  /\ q.expires > now
                      /\ disk'[q.id] = [jpg |-> q.image, json |-> q]
                      /\ synced[q.id] = [jpg |-> q.image, json |-> q]
                      /\ up = "open" => q \in records'
    BY <1>4 DEF Leases
  <2> QED
    BY <1>1, <1>2, <1>3, <1>4 DEF IndInv, Leases
<1>10. Metas' \subseteq Metas /\ Events' = Events
  BY <1>4, <1>5 DEF Metas, Events
<1>11. Numbered' /\ Exact'
  BY <1>4, <1>5, <1>10, KnownKept DEF IndInv, Numbered
<1> QED
  BY <1>6, <1>7, <1>8, <1>9, <1>11

\* The lock is released: the event of the work is handed to the daemon.
LEMMA Released ==
    ASSUME IndInv, Release, UNCHANGED <<reader, staged>>,
           disk' \in [Id -> Files], synced' \in [Id -> Files],
           \A i \in Id : disk'[i].json \in {NoFile, disk[i].json},
           \A i \in Id : synced'[i].json \in {NoFile, synced[i].json, disk[i].json}
    PROVE  /\ Right(work, begin)'
           /\ Metas' \subseteq Metas /\ Events' \subseteq Events
           /\ journal' \in SUBSET Event
           /\ work' \in [pc : {"free", "prune", "jpg", "json", "sync"},
                         event : Event \cup {NoEvent}, meta : Metadata \cup {NoFile},
                         at : Nat]
           /\ work'.pc = "free" /\ work'.event = NoEvent
<1>1. /\ work'.pc = "free" /\ work'.event = NoEvent /\ work'.meta = NoFile
      /\ work' \in [pc : {"free", "prune", "jpg", "json", "sync"},
                    event : Event \cup {NoEvent}, meta : Metadata \cup {NoFile},
                    at : Nat]
  BY DEF Release, Free
<1>2. Right(work, begin)'
  BY <1>1 DEF Right
<1>3. journal' \in SUBSET Event /\ journal' \subseteq journal \cup {work.event}
  <2>1. work.event # NoEvent => work.event \in Event
    BY DEF IndInv, FileTypes
  <2> QED
    BY <2>1 DEF Release, IndInv, FileTypes
<1>4. Events' \subseteq Events
  BY <1>1, <1>3 DEF Events
<1>5. Metas' \subseteq Metas
  BY <1>1 DEF Metas
<1> QED
  BY <1>1, <1>2, <1>3, <1>4, <1>5

\* While a publication is under way no record and no lease has its id, and all
\* records are whole once what is expired has gone.
LEMMA Publishing ==
    ASSUME IndInv, work.event # NoEvent, work.pc = "prune" => Expired = {}
    PROVE  /\ up = "open" /\ work.event \in Event /\ work.event.id \in Id
           /\ work.meta \in Metadata /\ work.meta.id = work.event.id
           /\ work.meta.image \in Image
           /\ \A q \in records \cup leased : q.id \in Id /\ q.id # work.event.id
           /\ \A q \in records : disk[q.id].json = q /\ disk[q.id].jpg = q.image
<1>1. up = "open" /\ work.event \in Event
  BY DEF IndInv, Working, FileTypes
<1>2. work.meta \in Metadata /\ work.meta.id = work.event.id
  BY DEF IndInv, Working
<1>3. \A q \in records \cup leased : q.id \in Id
  BY MetadataFields DEF IndInv, FileTypes
<1>4. leased \subseteq records
  BY <1>1 DEF IndInv, Leases
<1>5. \A q \in records : q.id # work.event.id
  BY DEF IndInv, Working
<1>6. \A q \in records : disk[q.id].json = q /\ disk[q.id].jpg = q.image
  BY DEF IndInv, RecordWhole
<1> QED
  BY <1>1, <1>2, <1>3, <1>4, <1>5, <1>6, EventFields, MetadataFields

\* A step of a publication changes the files of its own id alone: what was
\* published stays as it is.
LEMMA OthersKept ==
    ASSUME IndInv, work.event # NoEvent, work.pc = "prune" => Expired = {},
           \A j \in Id : j # work.event.id => disk'[j] = disk[j],
           synced' = synced \/ synced' = disk,
           UNCHANGED <<up, now, records, leased>>
    PROVE  RecordWhole' /\ Leases'
<1>1. RecordWhole'
  BY Publishing DEF RecordWhole
<1>2. Leases'
  BY Publishing DEF IndInv, Leases
<1> QED
  BY <1>1, <1>2

\* Nothing is expired any more: the cache is open, or full.
LEMMA FilesPruneDone ==
    ASSUME IndInv, PruneDone
    PROVE  /\ FileTypes' /\ Working' /\ Right(work, begin)' /\ RecordWhole'
           /\ Leases' /\ Numbered' /\ Exact'
<1>1. /\ Release /\ Expired = {}
      /\ UNCHANGED <<up, life, now, records, serial, disk, synced, reader, staged, leased>>
  BY DEF PruneDone, history
<1>2. disk \in [Id -> Files] /\ synced \in [Id -> Files]
  BY DEF IndInv, FileTypes
<1>3. /\ Right(work, begin)'
      /\ Metas' \subseteq Metas /\ Events' \subseteq Events
      /\ journal' \in SUBSET Event
      /\ work' \in [pc : {"free", "prune", "jpg", "json", "sync"},
                    event : Event \cup {NoEvent}, meta : Metadata \cup {NoFile},
                    at : Nat]
      /\ work'.pc = "free" /\ work'.event = NoEvent
  BY <1>1, <1>2, Released
<1>4. FileTypes'
  BY <1>1, <1>3 DEF IndInv, FileTypes
<1>5. Working'
  BY <1>1, <1>3 DEF IndInv, Working
<1>6. RecordWhole' /\ Leases'
  BY <1>1 DEF IndInv, RecordWhole, Leases
<1>7. Numbered' /\ Exact'
  BY <1>1, <1>3, KnownKept DEF IndInv, Numbered
<1> QED
  BY <1>3, <1>4, <1>5, <1>6, <1>7

\* The JPEG of a capture is written.
LEMMA FilesWriteJpeg ==
    ASSUME IndInv, WriteJpeg
    PROVE  /\ FileTypes' /\ Working' /\ Right(work, begin)' /\ RecordWhole'
           /\ Leases' /\ Numbered' /\ Exact'
<1>1. /\ work.pc = "prune" /\ Expired = {} /\ work.event # NoEvent
      /\ disk' = [disk EXCEPT ![work.event.id].jpg = work.meta.image]
      /\ work' = [work EXCEPT !.pc = "jpg"]
      /\ UNCHANGED <<up, life, now, begin, noted, encoded, records, serial, synced,
                     journal, reader, staged, leased>>
  BY DEF WriteJpeg, daemonVars, history
<1>2. disk \in [Id -> Files] /\ work.event.id \in Id /\ work.meta.image \in Image
  BY <1>1, Publishing DEF IndInv, FileTypes
<1>3. /\ disk' \in [Id -> Files]
      /\ disk'[work.event.id].jpg = work.meta.image
      /\ disk'[work.event.id].json = disk[work.event.id].json
      /\ \A j \in Id : j # work.event.id => disk'[j] = disk[j]
  BY <1>1, <1>2, SetJpg
<1>4. \A j \in Id : disk'[j].json = disk[j].json
  BY <1>3
<1>5. /\ work'.pc = "jpg" /\ work'.event = work.event /\ work'.meta = work.meta
      /\ work'.at = work.at
      /\ work' \in [pc : {"free", "prune", "jpg", "json", "sync"},
                    event : Event \cup {NoEvent}, meta : Metadata \cup {NoFile},
                    at : Nat]
  BY <1>1 DEF IndInv, FileTypes
<1>6. FileTypes'
  BY <1>1, <1>3, <1>5 DEF IndInv, FileTypes
<1>7. Working'
  BY <1>1, <1>3, <1>5 DEF IndInv, Working
<1>8. Right(work, begin)'
  BY <1>1, <1>5 DEF IndInv, Right
<1>9. RecordWhole' /\ Leases'
  BY <1>1, <1>3, OthersKept
<1>10. Metas' = Metas /\ Events' = Events
  BY <1>1, <1>4, <1>5 DEF Metas, Events
<1>11. Numbered' /\ Exact'
  BY <1>1, <1>4, <1>10, KnownKept DEF IndInv, Numbered
<1> QED
  BY <1>6, <1>7, <1>8, <1>9, <1>11

\* The JPEG is synced.
LEMMA FilesSyncJpeg ==
    ASSUME IndInv, SyncJpeg
    PROVE  /\ FileTypes' /\ Working' /\ Right(work, begin)' /\ RecordWhole'
           /\ Leases' /\ Numbered' /\ Exact'
<1>1. /\ work.pc = "jpg" /\ synced' = disk
      /\ work' = [work EXCEPT !.pc = "json"]
      /\ UNCHANGED <<up, life, now, begin, noted, encoded, records, serial, disk,
                     journal, reader, staged, leased>>
  BY DEF SyncJpeg, daemonVars, history
<1>2. disk \in [Id -> Files] /\ work.event # NoEvent
  BY <1>1 DEF IndInv, FileTypes, Working
<1>3. /\ work'.pc = "json" /\ work'.event = work.event /\ work'.meta = work.meta
      /\ work'.at = work.at
      /\ work' \in [pc : {"free", "prune", "jpg", "json", "sync"},
                    event : Event \cup {NoEvent}, meta : Metadata \cup {NoFile},
                    at : Nat]
  BY <1>1 DEF IndInv, FileTypes
<1>4. FileTypes'
  BY <1>1, <1>2, <1>3 DEF IndInv, FileTypes
<1>5. Working'
  BY <1>1, <1>2, <1>3 DEF IndInv, Working
<1>6. Right(work, begin)'
  BY <1>1, <1>3 DEF IndInv, Right
<1>7. RecordWhole' /\ Leases'
  BY <1>1, <1>2, OthersKept
<1>8. Metas' \subseteq Metas /\ Events' = Events
  BY <1>1, <1>3 DEF Metas, Events
<1>9. Numbered' /\ Exact'
  BY <1>1, <1>8, KnownKept DEF IndInv, Numbered
<1> QED
  BY <1>4, <1>5, <1>6, <1>7, <1>9

\* The sidecar is written.
LEMMA FilesWriteJson ==
    ASSUME IndInv, WriteJson
    PROVE  /\ FileTypes' /\ Working' /\ Right(work, begin)' /\ RecordWhole'
           /\ Leases' /\ Numbered' /\ Exact'
<1>1. /\ work.pc = "json"
      /\ disk' = [disk EXCEPT ![work.event.id].json = work.meta]
      /\ work' = [work EXCEPT !.pc = "sync"]
      /\ UNCHANGED <<up, life, now, begin, noted, encoded, records, serial, synced,
                     journal, reader, staged, leased>>
  BY DEF WriteJson, daemonVars, history
<1>2. work.event # NoEvent /\ disk \in [Id -> Files]
  BY <1>1 DEF IndInv, Working, FileTypes
<1>3. work.event.id \in Id /\ work.meta \in Metadata /\ work.meta.id = work.event.id
  BY <1>1, <1>2, Publishing
<1>4. /\ disk' \in [Id -> Files]
      /\ disk'[work.event.id].json = work.meta
      /\ disk'[work.event.id].jpg = disk[work.event.id].jpg
      /\ \A j \in Id : j # work.event.id => disk'[j] = disk[j]
  BY <1>1, <1>2, <1>3, SetJson
<1>5. \A j \in Id : /\ disk'[j].json \in {work.meta, disk[j].json}
                    /\ disk'[j].json # NoFile => disk'[j].json.id = j
  BY <1>3, <1>4 DEF IndInv, Numbered
<1>6. /\ work'.pc = "sync" /\ work'.event = work.event /\ work'.meta = work.meta
      /\ work'.at = work.at
      /\ work' \in [pc : {"free", "prune", "jpg", "json", "sync"},
                    event : Event \cup {NoEvent}, meta : Metadata \cup {NoFile},
                    at : Nat]
  BY <1>1 DEF IndInv, FileTypes
<1>7. FileTypes'
  BY <1>1, <1>4, <1>6 DEF IndInv, FileTypes
<1>8. Working'
  BY <1>1, <1>2, <1>4, <1>6 DEF IndInv, Working
<1>9. Right(work, begin)'
  BY <1>1, <1>6 DEF IndInv, Right
<1>10. RecordWhole' /\ Leases'
  BY <1>1, <1>2, <1>4, OthersKept
<1>11. Metas' \subseteq Metas /\ Events' = Events
  BY <1>1, <1>5, <1>6 DEF Metas, Events
<1>12. Numbered' /\ Exact'
  BY <1>1, <1>5, <1>11, KnownKept DEF IndInv, Numbered
<1> QED
  BY <1>7, <1>8, <1>9, <1>10, <1>12

\* The sidecar is in place and synced: the record is published.
LEMMA FilesPublish ==
    ASSUME IndInv, Publish
    PROVE  /\ FileTypes' /\ Working' /\ Right(work, begin)' /\ RecordWhole'
           /\ Leases' /\ Numbered' /\ Exact'
<1>1. /\ work.pc = "sync" /\ synced' = disk /\ Release
      /\ records' = records \cup {work.meta}
      /\ leased' = {r \in leased \cup {work.meta} : r.expires > now}
      /\ UNCHANGED <<up, life, now, serial, disk, reader, staged>>
  BY DEF Publish
<1>2. work.event # NoEvent /\ disk \in [Id -> Files]
  BY <1>1 DEF IndInv, Working, FileTypes
<1>3. /\ up = "open" /\ work.event.id \in Id
      /\ work.meta \in Metadata /\ work.meta.id = work.event.id
      /\ \A q \in records : disk[q.id].json = q /\ disk[q.id].jpg = q.image
  BY <1>1, <1>2, Publishing
<1>4. disk[work.meta.id].jpg = work.meta.image /\ disk[work.meta.id].json = work.meta
  BY <1>1, <1>2, <1>3 DEF IndInv, Working
<1>5. /\ Right(work, begin)'
      /\ Metas' \subseteq Metas /\ Events' \subseteq Events
      /\ journal' \in SUBSET Event
      /\ work' \in [pc : {"free", "prune", "jpg", "json", "sync"},
                    event : Event \cup {NoEvent}, meta : Metadata \cup {NoFile},
                    at : Nat]
      /\ work'.pc = "free" /\ work'.event = NoEvent
  BY <1>1, <1>2, Released
<1>6. FileTypes'
  BY <1>1, <1>2, <1>3, <1>5 DEF IndInv, FileTypes
<1>7. Working'
  BY <1>1, <1>3, <1>5 DEF IndInv, Working
<1>8. RecordWhole'
  BY <1>1, <1>3, <1>4, <1>5 DEF RecordWhole
<1>9. Leases'
  <2>1. disk[work.meta.id] = [jpg |-> work.meta.image, json |-> work.meta]
    BY <1>2, <1>3, <1>4, WholePair
  <2> SUFFICES ASSUME NEW q \in leased'
               PROVE  /\ q.expires > now
                      /\ disk[q.id] = [jpg |-> q.image, json |-> q]
                      /\ q \in records'
    BY <1>1 DEF Leases
  <2>2. q.expires > now /\ (q \in leased \/ q = work.meta)
    BY <1>1
  <2> QED
    BY <1>1, <1>3, <2>1, <2>2 DEF IndInv, Leases
<1>10. Numbered' /\ Exact'
  BY <1>1, <1>5, KnownKept DEF IndInv, Numbered
<1> QED
  BY <1>5, <1>6, <1>7, <1>8, <1>9, <1>10

\* A write, fsync or rename fails, and the files are removed as far as they can be.
LEMMA FilesPublishFails ==
    ASSUME IndInv, PublishFails
    PROVE  /\ FileTypes' /\ Working' /\ Right(work, begin)' /\ RecordWhole'
           /\ Leases' /\ Numbered' /\ Exact'
<1>1. PICK jpg \in {NoFile, disk[work.event.id].jpg},
           json \in {NoFile, disk[work.event.id].json} :
              disk' = [disk EXCEPT ![work.event.id] = [jpg |-> jpg, json |-> json]]
  BY DEF PublishFails
<1>2. /\ work.event # NoEvent /\ (work.pc = "prune" => Expired = {}) /\ Release
      /\ UNCHANGED <<up, life, now, records, serial, synced, reader, staged, leased>>
  BY DEF PublishFails
<1>3. disk \in [Id -> Files] /\ synced \in [Id -> Files] /\ work.event.id \in Id
  BY <1>2, Publishing DEF IndInv, FileTypes
<1>4. [jpg |-> jpg, json |-> json] \in Files
  <2>1. disk[work.event.id] \in Files
    BY <1>3
  <2> QED
    BY <2>1 DEF Files
<1>5. /\ disk' \in [Id -> Files]
      /\ disk'[work.event.id] = [jpg |-> jpg, json |-> json]
      /\ \A j \in Id : j # work.event.id => disk'[j] = disk[j]
  BY <1>1, <1>3, <1>4
<1>6. \A j \in Id : disk'[j].json \in {NoFile, disk[j].json}
  BY <1>1, <1>3, <1>5
<1>7. /\ Right(work, begin)'
      /\ Metas' \subseteq Metas /\ Events' \subseteq Events
      /\ journal' \in SUBSET Event
      /\ work' \in [pc : {"free", "prune", "jpg", "json", "sync"},
                    event : Event \cup {NoEvent}, meta : Metadata \cup {NoFile},
                    at : Nat]
      /\ work'.pc = "free" /\ work'.event = NoEvent
  BY <1>2, <1>3, <1>5, <1>6, Released
<1>8. FileTypes'
  BY <1>2, <1>3, <1>5, <1>7 DEF IndInv, FileTypes
<1>9. Working'
  BY <1>2, <1>7 DEF IndInv, Working
<1>10. RecordWhole' /\ Leases'
  BY <1>2, <1>5, OthersKept
<1>11. Numbered' /\ Exact'
  BY <1>2, <1>6, <1>7, KnownKept DEF IndInv, Numbered
<1> QED
  BY <1>7, <1>8, <1>9, <1>10, <1>11

\* The event and the picture of a capture have a number nobody has seen.
LEMMA CaptureFresh ==
    ASSUME IndInv, up = "open", NEW e \in Event, e.id[2] = serial + 1, e.life = life
    PROVE  /\ \A m \in Metas : Shows(m, e)
           /\ \A m \in Metadata : m.id = e.id /\ m.image[1] = life =>
                  \A d \in Events : Shows(m, d)
<1>1. serial \in Nat
  BY Bounds DEF IndInv, StreamTypes
<1>2. ASSUME NEW m \in Metas PROVE Shows(m, e)
  <2>1. m.id[2] \in Nat /\ (m.image[1] = life => m.id[2] <= serial)
    BY KnownTypes, MetadataFields DEF IndInv, Numbered
  <2> QED
    BY <1>1, <2>1 DEF Shows
<1>3. ASSUME NEW m \in Metadata, m.id = e.id, m.image[1] = life, NEW d \in Events
      PROVE  Shows(m, d)
  <2>1. d.id[2] \in Nat /\ (d.life = life => d.id[2] <= serial)
    BY KnownTypes, EventFields DEF IndInv, Numbered
  <2> QED
    BY <1>1, <1>3, <2>1 DEF Shows
<1> QED
  BY <1>2, <1>3

\* A capture begins with the picture it has chosen.
LEMMA FilesCapture ==
    ASSUME IndInv, Capture
    PROVE  /\ FileTypes' /\ Working' /\ Right(work, begin)' /\ RecordWhole'
           /\ Leases' /\ Numbered' /\ Exact'
<1> DEFINE e == [id |-> <<obs.epoch, serial + 1>>, epoch |-> obs.epoch,
                 frame |-> obs.frame, pts |-> obs.pts, life |-> life]
           m == Candidate(e, frames[Selected(e)])
<1>1. /\ obs # NoLabel /\ work.pc = "free" /\ serial < MaxSerial /\ serial' = serial + 1
      /\ \/ journal' = journal \cup {e} /\ UNCHANGED work
         \/ /\ Selected(e) # 0 /\ \A r \in records : r.id # e.id
            /\ work' = [pc |-> "prune", event |-> e, meta |-> m, at |-> now]
            /\ UNCHANGED journal
      /\ UNCHANGED <<up, life, now, begin, noted, encoded, records, disk, synced,
                     reader, staged, leased>>
  BY DEF Capture, history
<1>2. up = "open" /\ serial \in Nat /\ now \in Nat /\ life \in Nat
  BY <1>1, Bounds DEF IndInv, StreamTypes
<1>3. /\ e \in Event /\ e.id[2] = serial + 1 /\ e.life = life /\ e.frame <= noted
      /\ Selected(e) # 0 =>
             /\ m \in Metadata /\ m.id = e.id
             /\ m.image[1] = life /\ m.image[2] <= encoded
             /\ EpochIn(begin, m.image[2]) = e.epoch
             /\ m.exact => m.image[2] = e.frame
  BY <1>1, CaptureFacts
<1> HIDE DEF e, m
<1>4. /\ \A n \in Metas : Shows(n, e)
      /\ Selected(e) # 0 => /\ \A d \in Events : Shows(m, d)
                            /\ Shows(m, e)
  BY <1>2, <1>3, CaptureFresh DEF Shows
<1>5. Metas \subseteq Metadata /\ Events \subseteq Event
  BY KnownTypes DEF IndInv
<1>6. /\ \A n \in Metas : /\ n.image[1] <= life
                          /\ n.image[1] = life => n.id[2] <= serial + 1
      /\ \A d \in Events : d.life <= life /\ (d.life = life => d.id[2] <= serial + 1)
  <2>1. \A n \in Metas : n.id[2] \in Nat /\ n.image[1] \in Nat
    BY <1>5, MetadataFields
  <2>2. \A d \in Events : d.id[2] \in Nat /\ d.life \in Nat
    BY <1>5, EventFields
  <2> QED
    BY <1>2, <2>1, <2>2 DEF IndInv, Numbered
<1>7. RecordWhole' /\ Leases'
  BY <1>1 DEF IndInv, RecordWhole, Leases
<1>8. CASE journal' = journal \cup {e} /\ UNCHANGED work
  <2>1. Metas' = Metas /\ Events' \subseteq Events \cup {e}
    BY <1>1, <1>8 DEF Metas, Events
  <2>2. FileTypes'
    BY <1>1, <1>3, <1>8 DEF IndInv, FileTypes
  <2>3. work.event = NoEvent
    BY <1>1 DEF IndInv, Working
  <2>4. Working' /\ Right(work, begin)'
    BY <1>1, <1>8, <2>3 DEF IndInv, Working, Right
  <2>5. Numbered'
    BY <1>1, <1>2, <1>3, <1>6, <2>1 DEF IndInv, Numbered
  <2>6. Exact'
    BY <1>1, <1>4, <2>1 DEF IndInv, Exact
  <2> QED
    BY <1>7, <2>2, <2>4, <2>5, <2>6
<1>9. CASE /\ Selected(e) # 0 /\ \A r \in records : r.id # e.id
           /\ work' = [pc |-> "prune", event |-> e, meta |-> m, at |-> now]
           /\ UNCHANGED journal
  <2>1. Metas' \subseteq Metas \cup {m} /\ Events' \subseteq Events \cup {e}
    BY <1>1, <1>9 DEF Metas, Events
  <2>2. FileTypes'
    BY <1>1, <1>2, <1>3, <1>9 DEF IndInv, FileTypes
  <2>3. e.id[2] <= serial'
    BY <1>1, <1>2, <1>3
  <2>4. Working'
    BY <1>1, <1>2, <1>3, <1>9, <2>3 DEF IndInv, Working
  <2>5. Right(work, begin)'
    BY <1>1, <1>3, <1>9 DEF Right
  <2>6. Numbered'
    BY <1>1, <1>2, <1>3, <1>6, <1>9, <2>1 DEF IndInv, Numbered
  <2>7. Exact'
    BY <1>1, <1>4, <1>9, <2>1 DEF IndInv, Exact
  <2> QED
    BY <1>7, <2>2, <2>4, <2>5, <2>6, <2>7
<1> QED
  BY <1>1, <1>8, <1>9

-----------------------------------------------------------------------------
(* The process starts and ends, time passes, the daemon reads *)

\* A start accepts every leased pair it can read.
LEMMA FilesOpen ==
    ASSUME IndInv, Open
    PROVE  /\ FileTypes' /\ Working' /\ Right(work, begin)' /\ RecordWhole'
           /\ Leases' /\ Numbered' /\ Exact'
<1>1. PICK unread \in SUBSET Whole :
          /\ leased' = {r \in leased : r.id \notin unread}
          /\ records' = {disk[i].json : i \in Whole \ unread}
          /\ disk' = [i \in Id |-> IF i \in Whole \ unread THEN disk[i] ELSE NoFiles]
  BY DEF Open
<1>2. /\ up = "off" /\ up' = "open" /\ life' = life + 1
      /\ synced' \in {synced, disk'}
      /\ work' = [Free EXCEPT !.pc = "prune", !.at = now]
      /\ UNCHANGED <<now, begin, noted, encoded, serial, journal, reader, staged>>
  BY DEF Open, Start, daemonVars
<1>3. /\ work'.pc = "prune" /\ work'.event = NoEvent /\ work'.meta = NoFile
      /\ work'.at = now /\ now \in Nat
      /\ work' \in [pc : {"free", "prune", "jpg", "json", "sync"},
                    event : Event \cup {NoEvent}, meta : Metadata \cup {NoFile},
                    at : Nat]
  BY <1>2 DEF Free, IndInv, StreamTypes
<1>4. disk \in [Id -> Files] /\ synced \in [Id -> Files]
  BY DEF IndInv, FileTypes
<1>5. NoFiles \in Files /\ NoFiles.json = NoFile
  BY DEF NoFiles, Files
<1>6. /\ disk' \in [Id -> Files] /\ synced' \in [Id -> Files]
      /\ \A i \in Id : disk'[i] = IF i \in Whole \ unread THEN disk[i] ELSE NoFiles
  BY <1>1, <1>2, <1>4, <1>5
<1>7. \A i \in Whole : /\ i \in Id /\ disk[i].json \in Metadata /\ disk[i].json.id = i
                       /\ disk[i].jpg = disk[i].json.image
  <2>1. \A i \in Id : disk[i].json \in Metadata \cup {NoFile}
    BY <1>4 DEF Files
  <2> QED
    BY <2>1 DEF Whole, HasMetadata
<1>8. FileTypes'
  BY <1>1, <1>2, <1>3, <1>6, <1>7 DEF IndInv, FileTypes
<1>9. Working' /\ Right(work, begin)'
  BY <1>2, <1>3 DEF Working, Right, IndInv, StreamTypes
<1>10. RecordWhole'
  BY <1>1, <1>6, <1>7 DEF RecordWhole
<1>11. Leases'
  <2> SUFFICES ASSUME NEW r \in leased'
               PROVE  /\ r.expires > now
                      /\ disk'[r.id] = [jpg |-> r.image, json |-> r]
                      /\ synced'[r.id] = [jpg |-> r.image, json |-> r]
                      /\ r \in records'
    BY <1>2 DEF Leases
  <2>1. r \in leased /\ r.id \notin unread /\ r.id \in Id /\ r \in Metadata
    BY <1>1, MetadataFields DEF IndInv, FileTypes
  <2>2. /\ r.expires > now
        /\ disk[r.id] = [jpg |-> r.image, json |-> r]
        /\ synced[r.id] = [jpg |-> r.image, json |-> r]
    BY <2>1 DEF IndInv, Leases
  <2>3. disk[r.id].json = r /\ disk[r.id].jpg = r.image
    BY <2>2
  <2>4. r.id \in Whole
    BY <2>1, <2>3, Something DEF Whole, HasMetadata
  <2> QED
    BY <1>1, <1>2, <1>6, <2>1, <2>2, <2>3, <2>4
<1>12. \A i \in Id : /\ disk'[i].json \in {NoFile, disk[i].json}
                     /\ synced'[i].json \in {NoFile, disk[i].json, synced[i].json}
  BY <1>2, <1>5, <1>6
<1>13. Metas' \subseteq Metas /\ Events' \subseteq Events
  BY <1>2, <1>3, <1>12 DEF Metas, Events
<1>14. Numbered' /\ Exact'
  BY <1>2, <1>12, <1>13, KnownKept DEF IndInv, Numbered
<1> QED
  BY <1>8, <1>9, <1>10, <1>11, <1>14

\* evidence_cache_new fails after it has removed part of what is not whole.
LEMMA FilesOpenFails ==
    ASSUME IndInv, OpenFails
    PROVE  /\ FileTypes' /\ Working' /\ Right(work, begin)' /\ RecordWhole'
           /\ Leases' /\ Numbered' /\ Exact'
<1>1. PICK gone \in SUBSET ((Id \ Whole) \X File) :
          disk' = [i \in Id |-> [f \in File |-> IF <<i, f>> \in gone THEN NoFile
                                                                   ELSE disk[i][f]]]
  BY DEF OpenFails
<1>2. /\ up = "off" /\ up' = "unavailable" /\ life' = life + 1
      /\ UNCHANGED <<now, begin, noted, encoded, serial, journal, reader, staged,
                     records, work, synced, leased>>
  BY DEF OpenFails, Start, daemonVars, history
<1>3. disk \in [Id -> Files] /\ synced \in [Id -> Files]
  BY DEF IndInv, FileTypes
<1>4. ASSUME NEW i \in Id
      PROVE  /\ disk'[i] \in Files
             /\ disk'[i].json \in {NoFile, disk[i].json}
             /\ i \in Whole => disk'[i] = disk[i]
  <2>1. /\ disk[i] \in Files
        /\ disk'[i] = [f \in File |-> IF <<i, f>> \in gone THEN NoFile ELSE disk[i][f]]
    BY <1>1, <1>3
  <2>2. /\ disk'[i] \in Files
        /\ disk'[i].json \in {NoFile, disk[i].json}
        /\ i \in Whole => disk'[i].json = disk[i].json /\ disk'[i].jpg = disk[i].jpg
    BY <2>1 DEF Files, File
  <2> QED
    BY <2>1, <2>2, PairOfFiles
<1>5. disk' \in [Id -> Files]
  BY <1>1, <1>4
<1>6. FileTypes'
  BY <1>2, <1>5 DEF IndInv, FileTypes
<1>7. work.pc = "free" /\ work.event = NoEvent /\ records = {}
  BY <1>2 DEF IndInv, Working
<1>8. Working' /\ Right(work, begin)' /\ RecordWhole'
  BY <1>2, <1>7 DEF Working, Right, RecordWhole
<1>9. Leases'
  <2> SUFFICES ASSUME NEW r \in leased
               PROVE  /\ r.expires > now
                      /\ disk'[r.id] = [jpg |-> r.image, json |-> r]
                      /\ synced[r.id] = [jpg |-> r.image, json |-> r]
    BY <1>2 DEF Leases
  <2>1. r.id \in Id /\ r \in Metadata
    BY MetadataFields DEF IndInv, FileTypes
  <2>2. /\ r.expires > now
        /\ disk[r.id] = [jpg |-> r.image, json |-> r]
        /\ synced[r.id] = [jpg |-> r.image, json |-> r]
    BY DEF IndInv, Leases
  <2>3. r.id \in Whole
    BY <2>1, <2>2, Something DEF Whole, HasMetadata
  <2> QED
    BY <1>4, <2>1, <2>2, <2>3
<1>10. Metas' \subseteq Metas /\ Events' \subseteq Events
  BY <1>2, <1>4 DEF Metas, Events
<1>11. Numbered' /\ Exact'
  BY <1>2, <1>4, <1>10, KnownKept DEF IndInv, Numbered
<1> QED
  BY <1>6, <1>8, <1>9, <1>11

\* The process ends and the files are, name by name, what they were or what the
\* last sync left: leased pairs are the same in both.
LEMMA FilesEnded ==
    ASSUME IndInv, Ended,
           disk' \in [Id -> Files], synced' \in [Id -> Files],
           \A i \in Id : disk'[i].jpg \in {disk[i].jpg, synced[i].jpg},
           \A i \in Id : disk'[i].json \in {disk[i].json, synced[i].json},
           synced' = synced \/ synced' = disk',
           reader' = reader \/ reader' = Reading
    PROVE  /\ FileTypes' /\ Working' /\ Right(work, begin)' /\ RecordWhole'
           /\ Leases' /\ Numbered' /\ Exact'
<1>1. /\ up' = "off" /\ records' = {} /\ work' = Free
      /\ UNCHANGED <<life, now, journal, staged, leased>>
  BY DEF Ended, history
<1>2. /\ work'.pc = "free" /\ work'.event = NoEvent /\ work'.meta = NoFile
      /\ work' \in [pc : {"free", "prune", "jpg", "json", "sync"},
                    event : Event \cup {NoEvent}, meta : Metadata \cup {NoFile},
                    at : Nat]
  BY <1>1 DEF Free
<1>3. reader' = Reading => /\ reader'.pc = "idle" /\ reader'.event = NoEvent
                           /\ reader'.meta = NoFile
                           /\ reader' \in [pc : {"idle", "image"},
                                           event : Event \cup {NoEvent},
                                           meta : Metadata \cup {NoFile}]
  BY DEF Reading
<1>4. FileTypes'
  BY <1>1, <1>2, <1>3 DEF IndInv, FileTypes
<1>5. Working' /\ Right(work, begin)' /\ RecordWhole'
  BY <1>1, <1>2 DEF Working, Right, RecordWhole
<1>6. Leases'
  <2> SUFFICES ASSUME NEW r \in leased
               PROVE  /\ r.expires > now
                      /\ disk'[r.id] = [jpg |-> r.image, json |-> r]
                      /\ synced'[r.id] = [jpg |-> r.image, json |-> r]
    BY <1>1 DEF Leases
  <2>1. r.id \in Id /\ disk'[r.id] \in Files
    BY MetadataFields DEF IndInv, FileTypes
  <2>2. /\ r.expires > now
        /\ disk[r.id] = [jpg |-> r.image, json |-> r]
        /\ synced[r.id] = [jpg |-> r.image, json |-> r]
    BY DEF IndInv, Leases
  <2>3. disk'[r.id].jpg = r.image /\ disk'[r.id].json = r
    BY <2>1, <2>2
  <2>4. disk'[r.id] = [jpg |-> r.image, json |-> r]
    BY <2>1, <2>3, WholePair
  <2> QED
    BY <2>2, <2>4
<1>7. \A i \in Id : /\ disk'[i].json \in {disk[i].json, synced[i].json}
                    /\ synced'[i].json \in {disk[i].json, synced[i].json}
  OBVIOUS
<1>8. Metas' \subseteq Metas /\ Events' \subseteq Events
  BY <1>1, <1>2, <1>3, <1>7 DEF Metas, Events
<1>9. Numbered' /\ Exact'
  BY <1>1, <1>7, <1>8, KnownKept DEF IndInv, Numbered
<1> QED
  BY <1>4, <1>5, <1>6, <1>9

\* The process dies: files stay, what it was at is gone.
LEMMA FilesCrash ==
    ASSUME IndInv, Crash
    PROVE  /\ FileTypes' /\ Working' /\ Right(work, begin)' /\ RecordWhole'
           /\ Leases' /\ Numbered' /\ Exact'
<1>1. disk \in [Id -> Files] /\ synced \in [Id -> Files]
  BY DEF IndInv, FileTypes
<1> QED
  BY <1>1, FilesEnded DEF Crash

\* Power is lost: a file may be back at what was synced of it.
LEMMA FilesPowerLoss ==
    ASSUME IndInv, PowerLoss
    PROVE  /\ FileTypes' /\ Working' /\ Right(work, begin)' /\ RecordWhole'
           /\ Leases' /\ Numbered' /\ Exact'
<1>1. PICK old : disk' = [i \in Id |-> [f \in File |-> IF <<i, f>> \in old
                                                       THEN synced[i][f]
                                                       ELSE disk[i][f]]]
  BY DEF PowerLoss
<1>2. disk \in [Id -> Files] /\ synced \in [Id -> Files]
  BY DEF IndInv, FileTypes
<1>3. ASSUME NEW i \in Id
      PROVE  /\ disk'[i] \in Files
             /\ disk'[i].jpg \in {disk[i].jpg, synced[i].jpg}
             /\ disk'[i].json \in {disk[i].json, synced[i].json}
  <2>1. /\ disk[i] \in Files /\ synced[i] \in Files
        /\ disk'[i] = [f \in File |-> IF <<i, f>> \in old THEN synced[i][f]
                                                          ELSE disk[i][f]]
    BY <1>1, <1>2
  <2> QED
    BY <2>1 DEF Files, File
<1>4. disk' \in [Id -> Files]
  BY <1>1, <1>3
<1> QED
  BY <1>3, <1>4, FilesEnded DEF PowerLoss

\* Time passes, and leases run out.
LEMMA FilesTick ==
    ASSUME IndInv, Tick
    PROVE  /\ FileTypes' /\ Working' /\ Right(work, begin)' /\ RecordWhole'
           /\ Leases' /\ Numbered' /\ Exact'
<1>1. /\ now' = now + 1 /\ leased' = {r \in leased : r.expires > now'}
      /\ UNCHANGED <<up, life, begin, noted, encoded, records, serial, work, disk,
                     synced, journal, reader, staged>>
  BY DEF Tick, memory, daemonVars
<1>2. now \in Nat /\ work.at \in Nat
  BY DEF IndInv, StreamTypes, FileTypes
<1>3. FileTypes' /\ Right(work, begin)'
  BY <1>1 DEF IndInv, FileTypes, Right
<1>4. Working'
  <2>1. work.pc # "free" => work.at <= now'
    BY <1>1, <1>2 DEF IndInv, Working
  <2> QED
    BY <1>1, <2>1 DEF IndInv, Working
<1>5. RecordWhole' /\ Leases'
  BY <1>1 DEF IndInv, RecordWhole, Expired, Leases
<1>6. Metas' = Metas /\ Events' = Events
  BY <1>1 DEF Metas, Events
<1>7. Numbered' /\ Exact'
  BY <1>1, <1>6, KnownKept DEF IndInv, Numbered
<1> QED
  BY <1>3, <1>4, <1>5, <1>7

\* The daemon reads metadata of the event's id ...
LEMMA FilesReadMetadata ==
    ASSUME IndInv, ReadMetadata
    PROVE  /\ FileTypes' /\ Working' /\ Right(work, begin)' /\ RecordWhole'
           /\ Leases' /\ Numbered' /\ Exact'
<1>1. PICK e \in journal :
          /\ disk[e.id].json # NoFile
          /\ reader' = [pc |-> "image", event |-> e, meta |-> disk[e.id].json]
  BY DEF ReadMetadata
<1>2. UNCHANGED <<up, life, now, begin, noted, encoded, records, serial, work, disk,
                  synced, journal, staged, leased>>
  BY DEF ReadMetadata, memory, history
<1>3. e \in Event /\ e # NoEvent /\ e.id \in Id
  BY Something DEF IndInv, FileTypes
<1>4. disk[e.id].json \in Metadata /\ disk[e.id].json.id = e.id
  <2>1. disk[e.id] \in Files
    BY <1>3 DEF IndInv, FileTypes
  <2> QED
    BY <1>1, <1>3, <2>1 DEF Files, IndInv, Numbered
<1>5. FileTypes'
  BY <1>1, <1>2, <1>3, <1>4 DEF IndInv, FileTypes
<1>6. Working' /\ Right(work, begin)' /\ RecordWhole' /\ Leases'
  BY <1>2 DEF IndInv, Working, Right, RecordWhole, Expired, Leases
<1>7. Metas' \subseteq Metas /\ Events' \subseteq Events
  BY <1>1, <1>2, <1>3 DEF Metas, Events
<1>8. Numbered'
  BY <1>2, <1>7 DEF IndInv, Numbered
<1>9. Exact'
  BY <1>1, <1>2, <1>4, <1>7 DEF IndInv, Exact
<1> QED
  BY <1>5, <1>6, <1>8, <1>9

\* ... and takes the image only when it is the one of that metadata.
LEMMA FilesReadImage ==
    ASSUME IndInv, ReadImage
    PROVE  /\ FileTypes' /\ Working' /\ Right(work, begin)' /\ RecordWhole'
           /\ Leases' /\ Numbered' /\ Exact'
<1> DEFINE s == [event |-> reader.event, meta |-> reader.meta,
                 image |-> disk[reader.event.id].jpg]
<1>1. /\ reader.pc = "image" /\ reader' = Reading
      /\ \/ staged' = staged
         \/ s.image = reader.meta.image /\ staged' = staged \cup {s}
      /\ UNCHANGED <<up, life, now, begin, noted, encoded, records, serial, work, disk,
                     synced, journal, leased>>
  BY DEF ReadImage, memory, history
<1>2. /\ reader.event \in Event /\ reader.meta \in Metadata
      /\ reader.meta.id = reader.event.id /\ reader.event.id \in Id
  BY <1>1, Something DEF IndInv, FileTypes, Exact
<1>3. s.event = reader.event /\ s.meta = reader.meta
  OBVIOUS
<1>4. s \in [event : Event, meta : Metadata, image : Image \cup {NoFile}]
  <2>1. disk[reader.event.id].jpg \in Image \cup {NoFile}
    BY <1>2 DEF IndInv, FileTypes, Files
  <2> QED
    BY <1>2, <2>1
<1>5. Shows(reader.meta, reader.event)
  <2>1. reader.meta \in Metas /\ reader.event \in Events
    BY <1>2, Something DEF Metas, Events
  <2> QED
    BY <2>1 DEF IndInv, Exact
<1> HIDE DEF s
<1>6. /\ reader'.pc = "idle" /\ reader'.event = NoEvent /\ reader'.meta = NoFile
      /\ reader' \in [pc : {"idle", "image"}, event : Event \cup {NoEvent},
                      meta : Metadata \cup {NoFile}]
  BY <1>1 DEF Reading
<1>7. FileTypes'
  BY <1>1, <1>4, <1>6 DEF IndInv, FileTypes
<1>8. Working' /\ Right(work, begin)' /\ RecordWhole' /\ Leases'
  BY <1>1 DEF IndInv, Working, Right, RecordWhole, Expired, Leases
<1>9. Metas' \subseteq Metas /\ Events' \subseteq Events
  BY <1>1, <1>6 DEF Metas, Events
<1>10. Numbered'
  BY <1>1, <1>9 DEF IndInv, Numbered
<1>11. Exact'
  BY <1>1, <1>2, <1>3, <1>5, <1>6, <1>9 DEF IndInv, Exact
<1> QED
  BY <1>7, <1>8, <1>10, <1>11

-----------------------------------------------------------------------------
(* The inductive invariant holds, and the properties follow from it *)

\* An empty cache satisfies the invariant.
LEMMA EvidenceInit == Init => IndInv
<1> SUFFICES ASSUME Init PROVE IndInv
  OBVIOUS
<1>1. NoLabel \in Labels /\ NoLabel.pts = NoTime
  BY Bounds DEF NoLabel, Labels
<1>2. begin \in Seq(1..MaxFrame) /\ Len(begin) = 1 /\ begin[1] = 1
  BY Bounds DEF Init
<1>3. StreamTypes /\ StreamLabels
  BY <1>1, <1>2, Bounds DEF Init, StreamTypes, StreamLabels, Labelled
<1>4. NoFiles \in Files /\ NoFiles.json = NoFile
  BY DEF NoFiles, Files
<1>5. /\ disk \in [Id -> Files] /\ synced \in [Id -> Files]
      /\ \A i \in Id : disk[i].json = NoFile /\ synced[i].json = NoFile
  BY <1>4 DEF Init
<1>6. FileTypes
  BY <1>5 DEF Init, FileTypes, Free, Reading
<1>7. Working /\ Right(work, begin) /\ RecordWhole /\ Leases
  BY DEF Init, Working, Right, RecordWhole, Leases, Free
<1>8. Metas = {} /\ Events = {}
  BY <1>5 DEF Init, Metas, Events, Free, Reading
<1>9. Numbered /\ Exact
  BY <1>5, <1>8 DEF Init, Numbered, Exact, Reading
<1> QED
  BY <1>3, <1>6, <1>7, <1>9 DEF IndInv

\* Every step keeps the inductive invariant.
LEMMA EvidenceStep == IndInv /\ [Next]_vars => IndInv'
<1> SUFFICES ASSUME IndInv, [Next]_vars PROVE IndInv'
  OBVIOUS
<1>1. CASE UNCHANGED vars
  <2>1. UNCHANGED <<streamVars, fileVars>>
    BY <1>1 DEF vars, memory, daemonVars, history, streamVars, fileVars
  <2>2. StreamTypes' /\ StreamLabels'
    BY <2>1, StreamSame DEF IndInv
  <2>3. FileTypes' /\ Working' /\ Right(work, begin)' /\ RecordWhole' /\ Leases'
    BY <2>1 DEF IndInv, streamVars, fileVars, FileTypes, Working, Right, RecordWhole,
                Expired, Leases
  <2>4. Numbered' /\ Exact'
    BY <2>1 DEF IndInv, streamVars, fileVars, Numbered, Exact, Metas, Events
  <2> QED
    BY <2>2, <2>3, <2>4 DEF IndInv
<1>2. CASE \/ SetStream \/ Quiet
           \/ \E f \in 1..MaxFrame, size \in Sizes : PushJpeg(f, size)
           \/ \E f \in 1..MaxFrame, timed \in BOOLEAN : NoteFrame(f, timed)
  BY <1>2, FilesStreamSteps
<1>3. ASSUME Next,
             /\ FileTypes' /\ Working' /\ Right(work, begin)' /\ RecordWhole'
             /\ Leases' /\ Numbered' /\ Exact'
      PROVE  IndInv'
  BY <1>3, StreamStep DEF IndInv
<1>4. CASE Capture
  BY <1>3, <1>4, FilesCapture DEF Next
<1>5. CASE PruneJpeg
  BY <1>3, <1>5, FilesPruneJpeg DEF Next
<1>6. CASE PruneJson
  BY <1>3, <1>6, FilesForget DEF Next, PruneJson, Halfway
<1>7. CASE PruneFails
  BY <1>3, <1>7, FilesForget DEF Next, PruneFails
<1>8. CASE PruneDone
  BY <1>3, <1>8, FilesPruneDone DEF Next
<1>9. CASE WriteJpeg
  BY <1>3, <1>9, FilesWriteJpeg DEF Next
<1>10. CASE SyncJpeg
  BY <1>3, <1>10, FilesSyncJpeg DEF Next
<1>11. CASE WriteJson
  BY <1>3, <1>11, FilesWriteJson DEF Next
<1>12. CASE Publish
  BY <1>3, <1>12, FilesPublish DEF Next
<1>13. CASE PublishFails
  BY <1>3, <1>13, FilesPublishFails DEF Next
<1>14. CASE Open
  BY <1>3, <1>14, FilesOpen DEF Next
<1>15. CASE OpenFails
  BY <1>3, <1>15, FilesOpenFails DEF Next
<1>16. CASE Crash
  BY <1>3, <1>16, FilesCrash DEF Next
<1>17. CASE PowerLoss
  BY <1>3, <1>17, FilesPowerLoss DEF Next
<1>18. CASE Tick
  BY <1>3, <1>18, FilesTick DEF Next
<1>19. CASE ReadMetadata
  BY <1>3, <1>19, FilesReadMetadata DEF Next
<1>20. CASE ReadImage
  BY <1>3, <1>20, FilesReadImage DEF Next
<1> QED
  BY <1>1, <1>2, <1>4, <1>5, <1>6, <1>7, <1>8, <1>9, <1>10, <1>11, <1>12, <1>13,
     <1>14, <1>15, <1>16, <1>17, <1>18, <1>19, <1>20 DEF Next

\* The invariant holds in every reachable state.
LEMMA EvidenceInductive == Spec => []IndInv
  BY EvidenceInit, EvidenceStep, PTL DEF Spec

\* A record of the cache has its metadata and its complete JPEG on disk, except
\* the one the pruning (prune_expired_locked) is about to forget.
THEOREM RecordsAreWhole == Spec => []RecordWhole
<1>1. IndInv => RecordWhole
  BY DEF IndInv
<1> QED
  BY <1>1, EvidenceInductive, PTL

\* Published evidence is on disk until it expires, whatever crash, power loss,
\* failing publication or restart comes (publish_locked, load_records).
THEOREM LeasesAreKept == Spec => []LeaseKept
<1>1. IndInv => LeaseKept
  BY DEF IndInv, Leases, LeaseKept
<1> QED
  BY <1>1, EvidenceInductive, PTL

\* The picture select_frame_locked chooses shows the event's stream, and the
\* event's own frame when frame_is_exact says so.
THEOREM PictureIsRight == Spec => []RightPicture
<1>1. IndInv => RightPicture
  BY DEF IndInv, Right, RightPicture, EpochOf, EpochIn
<1> QED
  BY <1>1, EvidenceInductive, PTL

\* What loadEvidence stages as the exact picture of an event shows its frame,
\* although the pair may have been replaced between the two reads.
THEOREM StagedIsExact == Spec => []StagedPicture
<1>1. IndInv => StagedPicture
  BY DEF IndInv, Exact, Shows, StagedPicture
<1> QED
  BY <1>1, EvidenceInductive, PTL

-----------------------------------------------------------------------------
(***************************************************************************)
(* The budget.  What a process finds on disk is bounded by what its        *)
(* predecessors published, and a power loss can put files back to the last *)
(* sync one by one, so the budget must hold for everything that could be   *)
(* made whole from the two: Recoverable.  Expired evidence is not counted, *)
(* for the pruning of the next open removes it.                            *)
(***************************************************************************)
Recoverable(d, s, t) ==
    {m \in Metadata :
        /\ m.expires > t
        /\ \E i \in Id : m \in {d[i].json, s[i].json} /\ m.image \in {d[i].jpg, s[i].jpg}}

\* A running process knows every unexpired sidecar on disk, but the one it is
\* just publishing.
KnownOnDisk ==
    up = "open" /\ ~leftover =>
        \A i \in Id : disk[i].json # NoFile /\ disk[i].json.expires > now =>
            disk[i].json \in records \cup IF work.pc = "sync" THEN {work.meta} ELSE {}

\* The sync behind the JPEG has made the removals of the pruning final.
SyncedBehind ==
    work.pc \in {"json", "sync"} /\ ~leftover =>
        \A i \in Id : synced[i].json # NoFile /\ synced[i].json.expires > now =>
            synced[i].json \in records

\* No sidecar of an earlier publication is one for the picture of this one.
UnusedId ==
    work.event # NoEvent /\ work.pc \in {"prune", "jpg"} =>
        \A m \in {disk[work.event.id].json, synced[work.event.id].json} :
            m # NoFile => m.image[1] # life

\* The budget of the records, and of what an open may find.
Budget ==
    /\ stored = Bytes(records)
    /\ work.pc \in {"jpg", "json", "sync"} => stored + work.meta.size <= MaxBytes
    /\ ~leftover =>
          IF work.pc = "prune" /\ work.event = NoEvent
            THEN Bytes({r \in records : r.expires > work.at}) <= MaxBytes
            ELSE stored <= MaxBytes
    /\ ~leftover => Bytes(Recoverable(disk, synced, now)) <= MaxBytes

BudgetInv ==
    /\ leftover \in BOOLEAN
    /\ KnownOnDisk
    /\ SyncedBehind
    /\ UnusedId
    /\ Budget

\* The bytes of a finite set of records, counted one by one.
Units(rs) == UNION {{r} \X (1..r.size) : r \in rs}

\* Finitely many records have finitely many bytes.
LEMMA UnitsFinite ==
    ASSUME NEW rs \in SUBSET Metadata, IsFiniteSet(rs)
    PROVE  IsFiniteSet(Units(rs))
<1> DEFINE f == [r \in rs |-> {r} \X (1..r.size)]
           T == {{r} \X (1..r.size) : r \in rs}
<1>1. \A r \in rs : r.size \in Nat
  BY EvidenceAssumption DEF Metadata
<1>2. f \in Surjection(rs, T)
  BY DEF Surjection
<1>3. IsFiniteSet(T)
  BY <1>2, FS_Surjection
<1>4. ASSUME NEW r \in rs PROVE IsFiniteSet({r} \X (1..r.size))
  <2>1. IsFiniteSet({r})
    BY FS_Singleton
  <2>2. IsFiniteSet(1..r.size)
    BY <1>1, FS_Interval
  <2> QED
    BY <2>1, <2>2, FS_Product
<1>5. \A t \in T : IsFiniteSet(t)
  BY <1>4
<1> HIDE DEF T
<1>6. IsFiniteSet(UNION T)
  BY <1>3, <1>5, FS_UNION
<1> QED
  BY <1>6 DEF Units, T

\* Bytes of fewer records are fewer bytes.
LEMMA BytesLess ==
    ASSUME NEW rs \in SUBSET Metadata, IsFiniteSet(rs), NEW qs \in SUBSET rs
    PROVE  Bytes(qs) \in Nat /\ Bytes(rs) \in Nat /\ Bytes(qs) <= Bytes(rs)
<1>1. IsFiniteSet(Units(rs)) /\ Units(qs) \in SUBSET Units(rs)
  BY UnitsFinite DEF Units
<1>2. Bytes(qs) = Cardinality(Units(qs)) /\ Bytes(rs) = Cardinality(Units(rs))
  BY DEF Bytes, Units
<1> QED
  BY <1>1, <1>2, FS_Subset, FS_CardinalityType

\* A record more has its size more.
LEMMA BytesMore ==
    ASSUME NEW rs \in SUBSET Metadata, IsFiniteSet(rs), NEW m \in Metadata, m \notin rs
    PROVE  Bytes(rs \cup {m}) = Bytes(rs) + m.size
<1> DEFINE u == {m} \X (1..m.size)
<1>1. m.size \in Nat
  BY EvidenceAssumption DEF Metadata
<1>2. IsFiniteSet(u) /\ Cardinality(u) = m.size
  <2>1. IsFiniteSet({m}) /\ Cardinality({m}) = 1
    BY FS_Singleton
  <2>2. IsFiniteSet(1..m.size) /\ Cardinality(1..m.size) = m.size
    BY <1>1, FS_Interval
  <2>3. IsFiniteSet(u) /\ Cardinality(u) = 1 * m.size
    BY <2>1, <2>2, FS_Product
  <2> QED
    BY <1>1, <2>3
<1>3. Units(rs \cup {m}) = Units(rs) \cup u
  BY DEF Units
<1>4. Units(rs) \cap u = {}
  BY DEF Units
<1> HIDE DEF u
<1>5. Cardinality(Units(rs) \cup u) = Cardinality(Units(rs)) + m.size
  <2>1. IsFiniteSet(Units(rs)) /\ Cardinality(Units(rs)) \in Nat
    BY UnitsFinite, FS_CardinalityType
  <2>2. Cardinality(Units(rs) \cup u)
            = Cardinality(Units(rs)) + Cardinality(u) - Cardinality({})
    BY <1>2, <1>4, <2>1, FS_Union
  <2> QED
    BY <1>1, <1>2, <2>1, <2>2, FS_EmptySet
<1> QED
  BY <1>3, <1>5 DEF Bytes, Units

\* No record, no bytes.
LEMMA BytesNone == Bytes({}) = 0
<1>1. UNION {{r} \X (1..r.size) : r \in {}} = {}
  OBVIOUS
<1> QED
  BY <1>1, FS_EmptySet DEF Bytes

\* The records and what is recoverable are finite sets.
LEMMA BudgetFinite ==
    ASSUME IndInv
    PROVE  /\ IsFiniteSet(records) /\ records \in SUBSET Metadata
           /\ \A t : /\ IsFiniteSet(Recoverable(disk, synced, t))
                     /\ Recoverable(disk, synced, t) \in SUBSET Metadata
<1> DEFINE D == {disk[i].json : i \in Id}
           S == {synced[i].json : i \in Id}
<1>1. IsFiniteSet(Id)
  <2>1. IsFiniteSet(1..MaxEpoch) /\ IsFiniteSet(1..MaxSerial)
    BY Bounds, FS_Interval
  <2> QED
    BY <2>1, FS_Product DEF Id
<1>2. IsFiniteSet(D)
  <2> DEFINE f == [i \in Id |-> disk[i].json]
  <2>1. f \in Surjection(Id, D)
    BY DEF Surjection
  <2> QED
    BY <1>1, <2>1, FS_Surjection
<1>3. IsFiniteSet(S)
  <2> DEFINE f == [i \in Id |-> synced[i].json]
  <2>1. f \in Surjection(Id, S)
    BY DEF Surjection
  <2> QED
    BY <1>1, <2>1, FS_Surjection
<1>4. IsFiniteSet(D \cup S)
  BY <1>2, <1>3, FS_Union
<1>5. records \in SUBSET Metadata /\ \A r \in records : r.id \in Id /\ disk[r.id].json = r
  BY MetadataFields DEF IndInv, FileTypes, RecordWhole
<1>6. records \in SUBSET (D \cup S)
  BY <1>5
<1>7. ASSUME NEW t PROVE Recoverable(disk, synced, t) \in SUBSET (D \cup S)
  BY DEF Recoverable
<1>8. \A t : Recoverable(disk, synced, t) \in SUBSET Metadata
  BY DEF Recoverable
<1> HIDE DEF D, S
<1> QED
  BY <1>4, <1>5, <1>6, <1>7, <1>8, FS_Subset

\* The bytes are numbers, and no set of recoverable evidence or of records has
\* more than the whole.
LEMMA BudgetBytes ==
    ASSUME IndInv
    PROVE  /\ MaxBytes \in Nat /\ Bytes(records) \in Nat
           /\ \A t : Bytes(Recoverable(disk, synced, t)) \in Nat
           /\ \A rs \in SUBSET records : Bytes(rs) \in Nat /\ Bytes(rs) <= Bytes(records)
           /\ \A t : \A rs \in SUBSET Recoverable(disk, synced, t) :
                  Bytes(rs) \in Nat /\ Bytes(rs) <= Bytes(Recoverable(disk, synced, t))
<1>1. MaxBytes \in Nat
  BY EvidenceAssumption
<1>2. \A rs \in SUBSET records :
          Bytes(rs) \in Nat /\ Bytes(records) \in Nat /\ Bytes(rs) <= Bytes(records)
  BY BudgetFinite, BytesLess
<1>3. ASSUME NEW t, NEW rs \in SUBSET Recoverable(disk, synced, t)
      PROVE  /\ Bytes(rs) \in Nat /\ Bytes(Recoverable(disk, synced, t)) \in Nat
             /\ Bytes(rs) <= Bytes(Recoverable(disk, synced, t))
  BY BudgetFinite, BytesLess
<1> QED
  BY <1>1, <1>2, <1>3

\* Each file of c and b is one of d or s, or gone.
Survives(c, b, d, s) ==
    \A i \in Id : /\ c[i].json \in {NoFile, d[i].json, s[i].json}
                  /\ b[i].json \in {NoFile, d[i].json, s[i].json}
                  /\ c[i].jpg \in {NoFile, d[i].jpg, s[i].jpg}
                  /\ b[i].jpg \in {NoFile, d[i].jpg, s[i].jpg}

\* What the pruning, the publication or an end of the process leaves recoverable
\* was recoverable: each file is what it was on disk or in the last sync.
LEMMA RecoverableLess ==
    ASSUME NEW d, NEW s, NEW c, NEW b, NEW t \in Nat, NEW u \in Nat, t <= u,
           Survives(c, b, d, s)
    PROVE  Recoverable(c, b, u) \in SUBSET Recoverable(d, s, t)
<1> SUFFICES ASSUME NEW m \in Recoverable(c, b, u) PROVE m \in Recoverable(d, s, t)
  OBVIOUS
<1>1. m \in Metadata /\ m.expires > u /\ m.expires \in Nat
  BY MetadataFields DEF Recoverable
<1>2. m # NoFile /\ m.image # NoFile
  <2>1. m # NoFile /\ m.image \in Image
    BY <1>1, Something, MetadataFields
  <2> QED
    BY <2>1 DEF Image, NoFile
<1>3. PICK i \in Id : m \in {c[i].json, b[i].json} /\ m.image \in {c[i].jpg, b[i].jpg}
  BY DEF Recoverable
<1>4. m \in {d[i].json, s[i].json}
  BY <1>2, <1>3 DEF Survives
<1>5. m.image \in {d[i].jpg, s[i].jpg}
  BY <1>2, <1>3 DEF Survives
<1>6. m.expires > t
  BY <1>1
<1> QED
  BY <1>1, <1>4, <1>5, <1>6 DEF Recoverable

\* So the budget of an open is kept.
LEMMA OpenBudgetKept ==
    ASSUME IndInv, BudgetInv, now' \in Nat, now <= now',
           Survives(disk', synced', disk, synced)
    PROVE  ~leftover => Bytes(Recoverable(disk', synced', now')) <= MaxBytes
<1>0. now \in Nat
  BY DEF IndInv, StreamTypes
<1>1. Recoverable(disk', synced', now') \in SUBSET Recoverable(disk, synced, now)
  BY <1>0, RecoverableLess
<1>2. /\ Bytes(Recoverable(disk', synced', now')) \in Nat
      /\ Bytes(Recoverable(disk', synced', now')) <= Bytes(Recoverable(disk, synced, now))
      /\ Bytes(Recoverable(disk, synced, now)) \in Nat /\ MaxBytes \in Nat
  BY <1>1, BudgetBytes
<1>3. ~leftover => Bytes(Recoverable(disk, synced, now)) <= MaxBytes
  BY DEF BudgetInv, Budget
<1> QED
  BY <1>2, <1>3

\* The steps of the streams and of the daemon do not touch the budget.
LEMMA BudgetSame ==
    ASSUME BudgetInv,
           UNCHANGED <<up, life, now, records, stored, work, disk, synced, leftover>>
    PROVE  BudgetInv'
  BY DEF BudgetInv, KnownOnDisk, SyncedBehind, UnusedId, Budget

\* capture begins a publication under an id this process has not used.
LEMMA BudgetCapture ==
    ASSUME IndInv, BudgetInv, Capture
    PROVE  BudgetInv'
<1>1. CASE UNCHANGED work
  BY <1>1, BudgetSame DEF Capture, history
<1>2. CASE work' # work
  <2> DEFINE e == [id |-> <<obs.epoch, serial + 1>>, epoch |-> obs.epoch,
                   frame |-> obs.frame, pts |-> obs.pts, life |-> life]
  <2>1. /\ obs # NoLabel /\ work.pc = "free" /\ serial < MaxSerial
        /\ UNCHANGED <<up, life, now, records, stored, disk, synced, leftover>>
    BY DEF Capture, history
  <2>2. work'.pc = "prune" /\ work'.event = e
    BY <1>2 DEF Capture
  <2>3. e \in Event /\ e.id[2] = serial + 1 /\ e.life = life /\ e.id \in Id
    BY <2>1, CaptureFacts, Something
  <2> HIDE DEF e
  <2>4. KnownOnDisk' /\ SyncedBehind'
    BY <2>1, <2>2 DEF BudgetInv, KnownOnDisk, SyncedBehind
  <2>5. UnusedId'
    <3> SUFFICES ASSUME NEW m \in {disk[e.id].json, synced[e.id].json}, m # NoFile
                 PROVE  m.image[1] # life
      BY <2>1, <2>2 DEF UnusedId
    <3>1. m \in Metas /\ m.id = e.id /\ serial \in Nat /\ up # "off"
      BY <2>1, <2>3 DEF Metas, IndInv, Numbered, StreamTypes
    <3>2. m.image[1] = life => m.id[2] <= serial
      BY <3>1 DEF IndInv, Numbered
    <3> QED
      BY <2>3, <3>1, <3>2
  <2>6. Budget'
    <3>1. work'.event # NoEvent
      BY <2>2, <2>3, Something
    <3> QED
      BY <2>1, <2>2, <3>1 DEF BudgetInv, Budget
  <2> QED
    BY <2>1, <2>4, <2>5, <2>6 DEF BudgetInv
<1> QED
  BY <1>1, <1>2

\* The JPEG of an expired record goes.
LEMMA BudgetPruneJpeg ==
    ASSUME IndInv, BudgetInv, PruneJpeg
    PROVE  BudgetInv'
<1>1. PICK r \in Expired : disk' = [disk EXCEPT ![r.id].jpg = NoFile]
  BY DEF PruneJpeg
<1>2. /\ work.pc = "prune" /\ now \in Nat
      /\ UNCHANGED <<up, life, now, records, stored, work, synced, leftover>>
  BY DEF PruneJpeg, memory, history, IndInv, StreamTypes
<1>3. r.id \in Id /\ disk \in [Id -> Files]
  BY <1>2, ExpiredUnleased DEF IndInv, FileTypes
<1>4. \A i \in Id : disk'[i].json = disk[i].json /\ disk'[i].jpg \in {NoFile, disk[i].jpg}
  BY <1>1, <1>3, SetJpg
<1>5. KnownOnDisk' /\ SyncedBehind'
  BY <1>2, <1>4 DEF BudgetInv, KnownOnDisk, SyncedBehind
<1>6. UnusedId'
  <2>1. work.event # NoEvent => work.event.id \in Id
    BY Something DEF IndInv, FileTypes
  <2> QED
    BY <1>2, <1>4, <2>1 DEF BudgetInv, UnusedId
<1>7. ~leftover => Bytes(Recoverable(disk', synced', now')) <= MaxBytes
  <2>1. Survives(disk', synced', disk, synced)
    BY <1>2, <1>4 DEF Survives
  <2> QED
    BY <1>2, <2>1, OpenBudgetKept
<1>8. Budget'
  BY <1>2, <1>7 DEF BudgetInv, Budget
<1> QED
  BY <1>2, <1>5, <1>6, <1>8 DEF BudgetInv

\* An expired record is forgotten, and its bytes are given back.
LEMMA BudgetForget ==
    ASSUME IndInv, BudgetInv, work.pc = "prune", NEW r \in Expired, Forget(r),
           disk' \in {disk, [disk EXCEPT ![r.id].json = NoFile]}
    PROVE  BudgetInv'
<1>1. r \in records /\ r \in Metadata /\ r.id \in Id /\ disk \in [Id -> Files]
  BY ExpiredUnleased DEF IndInv, FileTypes
<1>2. /\ records' = records \ {r}
      /\ stored' = IF stored >= r.size THEN stored - r.size ELSE 0
      /\ UNCHANGED <<up, life, now, work, synced, leftover>>
  BY DEF Forget, history
<1>3. /\ now \in Nat /\ work.at \in Nat /\ work.at <= now /\ r.expires <= work.at
      /\ r.expires \in Nat
  BY <1>1, MetadataFields DEF IndInv, StreamTypes, FileTypes, Working, Expired
<1>4. \A i \in Id : /\ disk'[i].json \in {NoFile, disk[i].json}
                    /\ disk'[i].jpg = disk[i].jpg
  <2>1. CASE disk' = disk
    BY <2>1
  <2>2. CASE disk' = [disk EXCEPT ![r.id].json = NoFile]
    BY <1>1, <2>2, SetJson
  <2> QED
    BY <2>1, <2>2
<1>5. KnownOnDisk'
  <2> SUFFICES ASSUME up = "open", ~leftover, NEW i \in Id, disk'[i].json # NoFile,
                      disk'[i].json.expires > now
               PROVE  disk'[i].json \in records'
    BY <1>2 DEF KnownOnDisk
  <2>1. disk'[i].json = disk[i].json /\ disk[i].json \in records
    BY <1>4 DEF BudgetInv, KnownOnDisk
  <2>2. disk[i].json # r
    BY <1>3, <2>1
  <2> QED
    BY <1>2, <2>1, <2>2
<1>6. SyncedBehind'
  BY <1>2 DEF SyncedBehind
<1>7. UnusedId'
  <2>1. work.event # NoEvent => work.event.id \in Id
    BY Something DEF IndInv, FileTypes
  <2> QED
    BY <1>2, <1>4, <2>1 DEF BudgetInv, UnusedId
<1>8. ~leftover => Bytes(Recoverable(disk', synced', now')) <= MaxBytes
  <2>1. Survives(disk', synced', disk, synced)
    BY <1>2, <1>4 DEF Survives
  <2> QED
    BY <1>2, <1>3, <2>1, OpenBudgetKept
<1>9. stored' = Bytes(records') /\ stored' \in Nat /\ stored \in Nat /\ stored' <= stored
  <2>1. /\ records' \in SUBSET Metadata /\ IsFiniteSet(records')
        /\ records' \cup {r} = records /\ r \notin records' /\ records' \in SUBSET records
    BY <1>1, <1>2, BudgetFinite, FS_Subset
  <2>2. Bytes(records) = Bytes(records') + r.size
    BY <1>1, <2>1, BytesMore
  <2>3. Bytes(records') \in Nat /\ Bytes(records) \in Nat /\ r.size \in Nat
    BY <1>1, <2>1, BudgetBytes, EvidenceAssumption DEF Metadata
  <2>4. stored = Bytes(records)
    BY DEF BudgetInv, Budget
  <2> QED
    BY <1>2, <2>2, <2>3, <2>4
<1>10. {q \in records' : q.expires > work.at} = {q \in records : q.expires > work.at}
  BY <1>2, <1>3
<1>11. Budget'
  <2>1. ~leftover /\ work.event = NoEvent =>
            Bytes({q \in records' : q.expires > work.at}) <= MaxBytes
    BY <1>10 DEF BudgetInv, Budget
  <2>2. ~leftover /\ work.event # NoEvent => stored' <= MaxBytes
    BY <1>9, BudgetBytes DEF BudgetInv, Budget
  <2> QED
    BY <1>2, <1>8, <1>9, <2>1, <2>2 DEF Budget
<1> QED
  BY <1>2, <1>5, <1>6, <1>7, <1>11 DEF BudgetInv

\* The pruning is done: what is left is not expired, and fits.
LEMMA BudgetPruneDone ==
    ASSUME IndInv, BudgetInv, PruneDone
    PROVE  BudgetInv'
<1>1. /\ work.pc = "prune" /\ Expired = {}
      /\ UNCHANGED <<up, life, now, records, stored, disk, synced, leftover>>
      /\ work'.pc = "free" /\ work'.event = NoEvent
  BY DEF PruneDone, Release, Free, history
<1>2. {r \in records : r.expires > work.at} = records
  <2>1. \A r \in records : r.expires \in Nat /\ work.at \in Nat
    BY MetadataFields DEF IndInv, FileTypes
  <2> QED
    BY <1>1, <2>1 DEF Expired
<1>3. KnownOnDisk' /\ SyncedBehind' /\ UnusedId'
  BY <1>1 DEF BudgetInv, KnownOnDisk, SyncedBehind, UnusedId
<1>4. Budget'
  BY <1>1, <1>2 DEF BudgetInv, Budget
<1> QED
  BY <1>1, <1>3, <1>4 DEF BudgetInv

\* The JPEG is written only where its bytes fit, and completes no sidecar.
LEMMA BudgetWriteJpeg ==
    ASSUME IndInv, BudgetInv, WriteJpeg
    PROVE  BudgetInv'
<1> DEFINE k == work.event.id
<1>1. /\ work.pc = "prune" /\ Expired = {} /\ work.event # NoEvent
      /\ stored + work.meta.size <= MaxBytes
      /\ disk' = [disk EXCEPT ![k].jpg = work.meta.image]
      /\ work' = [work EXCEPT !.pc = "jpg"]
      /\ UNCHANGED <<up, life, now, records, stored, synced, leftover>>
  BY DEF WriteJpeg, history
<1>2. /\ up = "open" /\ k \in Id /\ work.meta.image \in Image /\ work.meta \in Metadata
      /\ \A q \in records : q.id # k
      /\ work.meta.image[1] = life
  BY <1>1, Publishing DEF IndInv, Working
<1>3. disk \in [Id -> Files] /\ now \in Nat
  BY DEF IndInv, FileTypes, StreamTypes
<1>4. /\ disk'[k].jpg = work.meta.image
      /\ \A i \in Id : disk'[i].json = disk[i].json
      /\ \A i \in Id : i # k => disk'[i].jpg = disk[i].jpg
  BY <1>1, <1>2, <1>3, SetJpg
<1>5. /\ work'.pc = "jpg" /\ work'.event = work.event /\ work'.meta = work.meta
  BY <1>1 DEF IndInv, FileTypes
<1> HIDE DEF k
<1>6. KnownOnDisk' /\ SyncedBehind'
  BY <1>1, <1>4, <1>5 DEF BudgetInv, KnownOnDisk, SyncedBehind
<1>7. /\ disk[k].json # NoFile => disk[k].json.image[1] # life
      /\ synced[k].json # NoFile => synced[k].json.image[1] # life
  BY <1>1 DEF BudgetInv, UnusedId, k
<1>8. UnusedId'
  BY <1>1, <1>2, <1>4, <1>5, <1>7 DEF UnusedId, k
<1>9. Recoverable(disk', synced', now') \in SUBSET Recoverable(disk, synced, now)
  <2> SUFFICES ASSUME NEW m \in Recoverable(disk', synced', now')
               PROVE  m \in Recoverable(disk, synced, now)
    OBVIOUS
  <2>1. PICK i \in Id : /\ m \in {disk'[i].json, synced[i].json}
                        /\ m.image \in {disk'[i].jpg, synced[i].jpg}
    BY <1>1 DEF Recoverable
  <2>2. m \in Metadata /\ m.expires > now /\ m # NoFile
    BY <1>1, Something DEF Recoverable
  <2>3. m \in {disk[i].json, synced[i].json}
    BY <1>4, <2>1
  <2>4. m.image \in {disk[i].jpg, synced[i].jpg}
    <3>1. CASE i # k
      BY <1>4, <2>1, <3>1
    <3>2. CASE i = k
      <4>1. m.image[1] # life
        BY <1>7, <2>2, <2>3, <3>2
      <4>2. m.image # disk'[k].jpg
        BY <1>2, <1>4, <4>1
      <4> QED
        BY <2>1, <3>2, <4>2
    <3> QED
      BY <3>1, <3>2
  <2> QED
    BY <2>2, <2>3, <2>4 DEF Recoverable
<1>10. ~leftover => Bytes(Recoverable(disk', synced', now')) <= MaxBytes
  <2>1. /\ Bytes(Recoverable(disk', synced', now')) \in Nat
        /\ Bytes(Recoverable(disk', synced', now')) <= Bytes(Recoverable(disk, synced, now))
        /\ Bytes(Recoverable(disk, synced, now)) \in Nat /\ MaxBytes \in Nat
    BY <1>9, BudgetBytes
  <2>2. ~leftover => Bytes(Recoverable(disk, synced, now)) <= MaxBytes
    BY DEF BudgetInv, Budget
  <2> QED
    BY <2>1, <2>2
<1>11. Budget'
  BY <1>1, <1>5, <1>10 DEF BudgetInv, Budget
<1> QED
  BY <1>1, <1>6, <1>8, <1>11 DEF BudgetInv

\* The sync makes what was pruned unrecoverable.
LEMMA BudgetSyncJpeg ==
    ASSUME IndInv, BudgetInv, SyncJpeg
    PROVE  BudgetInv'
<1>1. /\ work.pc = "jpg" /\ synced' = disk /\ work' = [work EXCEPT !.pc = "json"]
      /\ UNCHANGED <<up, life, now, records, stored, disk, leftover>>
  BY DEF SyncJpeg, history
<1>2. /\ work'.pc = "json" /\ work'.event = work.event /\ work'.meta = work.meta
      /\ up = "open" /\ now \in Nat
  BY <1>1 DEF IndInv, FileTypes, StreamTypes, Working
<1>3. KnownOnDisk' /\ SyncedBehind' /\ UnusedId'
  BY <1>1, <1>2 DEF BudgetInv, KnownOnDisk, SyncedBehind, UnusedId
<1>4. ~leftover => Bytes(Recoverable(disk', synced', now')) <= MaxBytes
  <2>1. Survives(disk', synced', disk, synced)
    BY <1>1 DEF Survives
  <2> QED
    BY <1>1, <1>2, <2>1, OpenBudgetKept
<1>5. Budget'
  BY <1>1, <1>2, <1>4 DEF BudgetInv, Budget
<1> QED
  BY <1>1, <1>3, <1>5 DEF BudgetInv

\* The sidecar joins the records within the budget.
LEMMA BudgetWriteJson ==
    ASSUME IndInv, BudgetInv, WriteJson
    PROVE  BudgetInv'
<1> DEFINE k == work.event.id
<1>1. /\ work.pc = "json" /\ work.event # NoEvent
      /\ disk' = [disk EXCEPT ![k].json = work.meta]
      /\ work' = [work EXCEPT !.pc = "sync"]
      /\ UNCHANGED <<up, life, now, records, stored, synced, leftover>>
  BY DEF WriteJson, history, IndInv, Working
<1>2. /\ up = "open" /\ k \in Id /\ work.meta \in Metadata /\ work.meta.id = k
      /\ \A q \in records : q.id # k
  BY <1>1, Publishing
<1>3. disk \in [Id -> Files]
  BY DEF IndInv, FileTypes
<1>4. disk'[k].json = work.meta /\ \A i \in Id : i # k => disk'[i].json = disk[i].json
  BY <1>1, <1>2, <1>3, SetJson
<1>5. /\ work'.pc = "sync" /\ work'.event = work.event /\ work'.meta = work.meta
  BY <1>1 DEF IndInv, FileTypes
<1> HIDE DEF k
<1>6. SyncedBehind' /\ UnusedId'
  BY <1>1, <1>5 DEF BudgetInv, SyncedBehind, UnusedId
<1>7. KnownOnDisk'
  <2> SUFFICES ASSUME ~leftover, NEW i \in Id, disk'[i].json # NoFile,
                      disk'[i].json.expires > now
               PROVE  disk'[i].json \in records \cup {work.meta}
    BY <1>1, <1>5 DEF KnownOnDisk
  <2> QED
    BY <1>1, <1>2, <1>4 DEF BudgetInv, KnownOnDisk
<1>8. ~leftover => Bytes(Recoverable(disk', synced', now')) <= MaxBytes
  <2> SUFFICES ASSUME ~leftover
               PROVE  Bytes(Recoverable(disk', synced', now')) <= MaxBytes
    OBVIOUS
  <2>1. Recoverable(disk', synced', now') \in SUBSET (records \cup {work.meta})
    <3> SUFFICES ASSUME NEW m \in Recoverable(disk', synced', now')
                 PROVE  m \in records \cup {work.meta}
      OBVIOUS
    <3>1. PICK i \in Id : m \in {disk'[i].json, synced[i].json}
      BY <1>1 DEF Recoverable
    <3>2. m \in Metadata /\ m.expires > now /\ m # NoFile
      BY <1>1, Something DEF Recoverable
    <3>3. m = synced[i].json => m \in records
      BY <1>1, <3>2 DEF BudgetInv, SyncedBehind
    <3>4. m = disk[i].json => m \in records
      BY <1>1, <1>2, <3>2 DEF BudgetInv, KnownOnDisk
    <3> QED
      BY <1>4, <3>1, <3>3, <3>4
  <2>2. IsFiniteSet(records) /\ records \in SUBSET Metadata /\ work.meta \notin records
    BY <1>2, BudgetFinite
  <2>3. /\ IsFiniteSet(records \cup {work.meta})
        /\ (records \cup {work.meta}) \in SUBSET Metadata
    BY <1>2, <2>2, FS_AddElement
  <2>4. /\ Bytes(Recoverable(disk', synced', now')) \in Nat
        /\ Bytes(records \cup {work.meta}) \in Nat
        /\ Bytes(Recoverable(disk', synced', now')) <= Bytes(records \cup {work.meta})
    BY <2>1, <2>3, BytesLess
  <2>5. Bytes(records \cup {work.meta}) = Bytes(records) + work.meta.size
    BY <1>2, <2>2, BytesMore
  <2>6. Bytes(records) + work.meta.size <= MaxBytes
    BY <1>1 DEF BudgetInv, Budget
  <2>7. MaxBytes \in Nat
    BY EvidenceAssumption
  <2> QED
    BY <2>4, <2>5, <2>6, <2>7
<1>9. Budget'
  BY <1>1, <1>5, <1>8 DEF BudgetInv, Budget
<1> QED
  BY <1>1, <1>6, <1>7, <1>9 DEF BudgetInv

\* The publication is done, and its bytes are counted.
LEMMA BudgetPublish ==
    ASSUME IndInv, BudgetInv, Publish
    PROVE  BudgetInv'
<1>1. /\ work.pc = "sync" /\ work.event # NoEvent /\ synced' = disk
      /\ records' = records \cup {work.meta}
      /\ stored' = stored + work.meta.size
      /\ work'.pc = "free" /\ work'.event = NoEvent
      /\ UNCHANGED <<up, life, now, disk, leftover>>
  BY DEF Publish, Release, Free, IndInv, Working
<1>2. work.meta \in Metadata /\ now \in Nat /\ \A q \in records : q.id # work.meta.id
  BY <1>1, Publishing DEF IndInv, StreamTypes
<1>3. KnownOnDisk' /\ SyncedBehind' /\ UnusedId'
  BY <1>1 DEF BudgetInv, KnownOnDisk, SyncedBehind, UnusedId
<1>4. ~leftover => Bytes(Recoverable(disk', synced', now')) <= MaxBytes
  <2>1. Survives(disk', synced', disk, synced)
    BY <1>1 DEF Survives
  <2> QED
    BY <1>1, <1>2, <2>1, OpenBudgetKept
<1>5. stored' = Bytes(records') /\ stored' <= MaxBytes
  <2>1. Bytes(records \cup {work.meta}) = Bytes(records) + work.meta.size
    BY <1>2, BudgetFinite, BytesMore
  <2> QED
    BY <1>1, <2>1 DEF BudgetInv, Budget
<1>6. Budget'
  BY <1>1, <1>4, <1>5 DEF Budget
<1> QED
  BY <1>1, <1>3, <1>6 DEF BudgetInv

\* A publication that fails leaves nothing, or is remembered as a leftover.
LEMMA BudgetPublishFails ==
    ASSUME IndInv, BudgetInv, PublishFails
    PROVE  BudgetInv'
<1> DEFINE k == work.event.id
<1>1. PICK jpg \in {NoFile, disk[k].jpg}, json \in {NoFile, disk[k].json} :
          disk' = [disk EXCEPT ![k] = [jpg |-> jpg, json |-> json]]
  BY DEF PublishFails
<1>2. /\ work.event # NoEvent /\ (work.pc = "prune" => Expired = {})
      /\ leftover' = (leftover \/ disk'[k] # NoFiles)
      /\ work'.pc = "free" /\ work'.event = NoEvent
      /\ UNCHANGED <<up, life, now, records, stored, synced>>
  BY DEF PublishFails, Release, Free
<1>3. k \in Id /\ up = "open" /\ disk \in [Id -> Files] /\ now \in Nat
  BY <1>2, Publishing DEF IndInv, FileTypes, StreamTypes
<1>4. /\ disk'[k].jpg \in {NoFile, disk[k].jpg} /\ disk'[k].json \in {NoFile, disk[k].json}
      /\ \A i \in Id : i # k => disk'[i] = disk[i]
  BY <1>1, <1>3
<1>5. leftover' \in BOOLEAN /\ (~leftover' => ~leftover /\ disk'[k] = NoFiles)
  BY <1>2 DEF BudgetInv
<1>6. NoFiles.json = NoFile
  BY DEF NoFiles
<1> HIDE DEF k
<1>7. KnownOnDisk'
  <2> SUFFICES ASSUME ~leftover', NEW i \in Id, disk'[i].json # NoFile,
                      disk'[i].json.expires > now
               PROVE  disk'[i].json \in records
    BY <1>2 DEF KnownOnDisk
  <2>1. i # k /\ disk'[i] = disk[i]
    BY <1>4, <1>5, <1>6
  <2>2. disk[i].json \in records \cup IF work.pc = "sync" THEN {work.meta} ELSE {}
    BY <1>3, <1>5, <2>1 DEF BudgetInv, KnownOnDisk
  <2>3. disk[i].json # work.meta
    <3>1. work.meta.id = k /\ work.meta # NoFile
      BY <1>2, Publishing, Something DEF k
    <3>2. disk[i].json.id = i
      BY <2>1 DEF IndInv, Numbered
    <3> QED
      BY <2>1, <3>1, <3>2
  <2> QED
    BY <2>1, <2>2, <2>3
<1>8. SyncedBehind' /\ UnusedId'
  BY <1>2 DEF SyncedBehind, UnusedId
<1>9. ~leftover => Bytes(Recoverable(disk', synced', now')) <= MaxBytes
  <2>1. Survives(disk', synced', disk, synced)
    BY <1>2, <1>4 DEF Survives
  <2> QED
    BY <1>2, <1>3, <2>1, OpenBudgetKept
<1>10. Budget'
  <2>1. stored' = Bytes(records')
    BY <1>2 DEF BudgetInv, Budget
  <2>2. ~leftover' => stored' <= MaxBytes
    BY <1>2, <1>5 DEF BudgetInv, Budget
  <2> QED
    BY <1>2, <1>5, <1>9, <2>1, <2>2 DEF Budget
<1> QED
  BY <1>5, <1>7, <1>8, <1>10 DEF BudgetInv

\* A start loads what was recoverable, so what is not expired of it fits.
LEMMA BudgetOpen ==
    ASSUME IndInv, IndInv', BudgetInv, Open
    PROVE  BudgetInv'
<1>1. PICK unread \in SUBSET Whole :
          /\ records' = {disk[i].json : i \in Whole \ unread}
          /\ stored' = Bytes(records')
          /\ disk' = [i \in Id |-> IF i \in Whole \ unread THEN disk[i] ELSE NoFiles]
          /\ UNCHANGED leftover
  BY DEF Open
<1>2. /\ up = "off" /\ synced' \in {synced, disk'} /\ now' = now /\ now \in Nat
      /\ work' = [Free EXCEPT !.pc = "prune", !.at = now]
  BY DEF Open, Start, IndInv, StreamTypes
<1>3. work'.pc = "prune" /\ work'.event = NoEvent /\ work'.at = now
  BY <1>2 DEF Free
<1>4. NoFiles.json = NoFile /\ NoFiles.jpg = NoFile
  BY DEF NoFiles
<1>5. \A i \in Id : disk'[i] = IF i \in Whole \ unread THEN disk[i] ELSE NoFiles
  BY <1>1
<1>6. KnownOnDisk'
  <2> SUFFICES ASSUME NEW i \in Id, disk'[i].json # NoFile
               PROVE  disk'[i].json \in records'
    BY <1>3 DEF KnownOnDisk
  <2>1. i \in Whole \ unread /\ disk'[i] = disk[i]
    BY <1>4, <1>5
  <2> QED
    BY <1>1, <2>1
<1>7. SyncedBehind' /\ UnusedId'
  BY <1>3 DEF SyncedBehind, UnusedId
<1>8. ~leftover => Bytes(Recoverable(disk', synced', now')) <= MaxBytes
  <2>1. Survives(disk', synced', disk, synced)
    BY <1>2, <1>4, <1>5 DEF Survives
  <2> QED
    BY <1>2, <2>1, OpenBudgetKept
<1>9. {r \in records' : r.expires > now} \in SUBSET Recoverable(disk, synced, now)
  <2> SUFFICES ASSUME NEW r \in records', r.expires > now
               PROVE  r \in Recoverable(disk, synced, now)
    OBVIOUS
  <2>1. PICK i \in Whole : r = disk[i].json
    BY <1>1
  <2>2. i \in Id /\ disk[i].jpg = r.image
    BY <2>1 DEF Whole
  <2>3. r \in Metadata
    BY DEF IndInv, FileTypes
  <2> QED
    BY <2>1, <2>2, <2>3 DEF Recoverable
<1>10. ~leftover => Bytes({r \in records' : r.expires > now}) <= MaxBytes
  <2>1. /\ Bytes({r \in records' : r.expires > now}) \in Nat
        /\ Bytes({r \in records' : r.expires > now}) <= Bytes(Recoverable(disk, synced, now))
        /\ Bytes(Recoverable(disk, synced, now)) \in Nat /\ MaxBytes \in Nat
    BY <1>9, BudgetBytes
  <2>2. ~leftover => Bytes(Recoverable(disk, synced, now)) <= MaxBytes
    BY DEF BudgetInv, Budget
  <2> QED
    BY <2>1, <2>2
<1>11. Budget'
  BY <1>1, <1>3, <1>8, <1>10 DEF Budget
<1> QED
  BY <1>1, <1>6, <1>7, <1>11 DEF BudgetInv

\* A failing start removes files, and the process goes on without evidence.
LEMMA BudgetOpenFails ==
    ASSUME IndInv, BudgetInv, OpenFails
    PROVE  BudgetInv'
<1>1. PICK gone \in SUBSET ((Id \ Whole) \X File) :
          disk' = [i \in Id |-> [f \in File |-> IF <<i, f>> \in gone THEN NoFile
                                                                   ELSE disk[i][f]]]
  BY DEF OpenFails
<1>2. /\ up = "off" /\ up' = "unavailable" /\ now \in Nat
      /\ UNCHANGED <<now, records, stored, work, synced, leftover>>
  BY DEF OpenFails, Start, history, IndInv, StreamTypes
<1>3. work.pc = "free" /\ work.event = NoEvent
  BY <1>2 DEF IndInv, Working
<1>4. ASSUME NEW i \in Id
      PROVE  /\ disk'[i].json \in {NoFile, disk[i].json}
             /\ disk'[i].jpg \in {NoFile, disk[i].jpg}
  <2>1. /\ disk[i] \in Files
        /\ disk'[i] = [f \in File |-> IF <<i, f>> \in gone THEN NoFile ELSE disk[i][f]]
    BY <1>1 DEF IndInv, FileTypes
  <2> QED
    BY <2>1 DEF Files, File
<1>5. ~leftover => Bytes(Recoverable(disk', synced', now')) <= MaxBytes
  <2>1. Survives(disk', synced', disk, synced)
    BY <1>2, <1>4 DEF Survives
  <2> QED
    BY <1>2, <2>1, OpenBudgetKept
<1>6. KnownOnDisk' /\ SyncedBehind' /\ UnusedId'
  BY <1>2, <1>3 DEF KnownOnDisk, SyncedBehind, UnusedId
<1>7. Budget'
  BY <1>2, <1>5 DEF BudgetInv, Budget
<1> QED
  BY <1>2, <1>6, <1>7 DEF BudgetInv

\* A process that ends leaves files that were on disk or in the last sync.
LEMMA BudgetEnded ==
    ASSUME IndInv, BudgetInv, Crash \/ PowerLoss
    PROVE  BudgetInv'
<1>1. /\ up' = "off" /\ records' = {} /\ stored' = 0 /\ now' = now /\ now \in Nat
      /\ work'.pc = "free" /\ work'.event = NoEvent /\ leftover' = leftover
  BY DEF Crash, PowerLoss, Ended, Free, history, IndInv, StreamTypes
<1>2. Survives(disk', synced', disk, synced)
  <2>1. CASE Crash
    BY <2>1 DEF Crash, Survives
  <2>2. CASE PowerLoss
    <3>1. PICK old : disk' = [i \in Id |-> [f \in File |-> IF <<i, f>> \in old
                                                           THEN synced[i][f]
                                                           ELSE disk[i][f]]]
      BY <2>2 DEF PowerLoss
    <3>2. synced' = disk'
      BY <2>2 DEF PowerLoss
    <3>3. ASSUME NEW i \in Id
          PROVE  /\ disk'[i].jpg \in {disk[i].jpg, synced[i].jpg}
                 /\ disk'[i].json \in {disk[i].json, synced[i].json}
      <4>1. /\ disk[i] \in Files /\ synced[i] \in Files
            /\ disk'[i] = [f \in File |-> IF <<i, f>> \in old THEN synced[i][f]
                                                              ELSE disk[i][f]]
        BY <3>1 DEF IndInv, FileTypes
      <4> QED
        BY <4>1 DEF Files, File
    <3> QED
      BY <3>2, <3>3 DEF Survives
  <2> QED
    BY <2>1, <2>2
<1>3. ~leftover => Bytes(Recoverable(disk', synced', now')) <= MaxBytes
  BY <1>1, <1>2, OpenBudgetKept
<1>4. KnownOnDisk' /\ SyncedBehind' /\ UnusedId'
  BY <1>1 DEF KnownOnDisk, SyncedBehind, UnusedId
<1>5. Budget'
  BY <1>1, <1>3, BytesNone, EvidenceAssumption DEF Budget
<1> QED
  BY <1>1, <1>4, <1>5 DEF BudgetInv

\* Time passes, and less is unexpired.
LEMMA BudgetTick ==
    ASSUME IndInv, BudgetInv, Tick
    PROVE  BudgetInv'
<1>1. /\ now' = now + 1 /\ now \in Nat
      /\ UNCHANGED <<up, life, records, stored, work, disk, synced, leftover>>
  BY DEF Tick, memory, IndInv, StreamTypes
<1>2. \A i \in Id : /\ disk[i].json # NoFile => disk[i].json.expires \in Nat
                    /\ synced[i].json # NoFile => synced[i].json.expires \in Nat
  <2>1. \A i \in Id : /\ disk[i].json \in Metadata \cup {NoFile}
                      /\ synced[i].json \in Metadata \cup {NoFile}
    BY DEF IndInv, FileTypes, Files
  <2> QED
    BY <2>1, MetadataFields
<1>3. KnownOnDisk' /\ SyncedBehind'
  BY <1>1, <1>2 DEF BudgetInv, KnownOnDisk, SyncedBehind
<1>4. UnusedId'
  BY <1>1 DEF BudgetInv, UnusedId
<1>5. ~leftover => Bytes(Recoverable(disk', synced', now')) <= MaxBytes
  <2>1. Survives(disk', synced', disk, synced)
    BY <1>1 DEF Survives
  <2> QED
    BY <1>1, <2>1, OpenBudgetKept
<1>6. Budget'
  BY <1>1, <1>5 DEF BudgetInv, Budget
<1> QED
  BY <1>1, <1>3, <1>4, <1>6 DEF BudgetInv

\* The empty cache is within its budget.
LEMMA BudgetInit == Init => BudgetInv
<1> SUFFICES ASSUME Init PROVE BudgetInv
  OBVIOUS
<1>1. \A i \in Id : disk[i] = NoFiles /\ synced[i] = NoFiles
  BY DEF Init
<1>2. Recoverable(disk, synced, now) = {}
  <2>1. NoFiles.json = NoFile
    BY DEF NoFiles
  <2> QED
    BY <1>1, <2>1, Something DEF Recoverable
<1>3. Budget
  <2>1. stored = 0 /\ records = {} /\ work.pc = "free" /\ MaxBytes \in Nat
    BY EvidenceAssumption DEF Init, Free
  <2> QED
    BY <1>2, <2>1, BytesNone DEF Budget
<1>4. KnownOnDisk /\ SyncedBehind /\ UnusedId
  BY DEF Init, Free, KnownOnDisk, SyncedBehind, UnusedId
<1> QED
  BY <1>3, <1>4 DEF BudgetInv, Init

\* Every step keeps the budget.
LEMMA BudgetStep == IndInv /\ IndInv' /\ BudgetInv /\ [Next]_vars => BudgetInv'
<1> SUFFICES ASSUME IndInv, IndInv', BudgetInv, [Next]_vars PROVE BudgetInv'
  OBVIOUS
<1>1. CASE \/ UNCHANGED vars \/ SetStream \/ Quiet \/ ReadMetadata \/ ReadImage
           \/ \E f \in 1..MaxFrame, size \in Sizes : PushJpeg(f, size)
           \/ \E f \in 1..MaxFrame, timed \in BOOLEAN : NoteFrame(f, timed)
  <2>1. UNCHANGED <<up, life, now, records, stored, work, disk, synced, leftover>>
    BY <1>1 DEF vars, memory, daemonVars, history, SetStream, Quiet, ReadMetadata,
                ReadImage, PushJpeg, NoteFrame
  <2> QED
    BY <2>1, BudgetSame
<1>2. CASE PruneJson \/ PruneFails
  <2>1. /\ work.pc = "prune"
        /\ \E r \in Expired : /\ Forget(r)
                              /\ disk' \in {disk, [disk EXCEPT ![r.id].json = NoFile]}
    BY <1>2 DEF PruneJson, PruneFails, Halfway
  <2> QED
    BY <2>1, BudgetForget
<1>3. CASE Capture \/ PruneJpeg \/ PruneDone \/ WriteJpeg \/ SyncJpeg
  BY <1>3, BudgetCapture, BudgetPruneJpeg, BudgetPruneDone, BudgetWriteJpeg,
     BudgetSyncJpeg
<1>4. CASE WriteJson \/ Publish \/ PublishFails \/ Open \/ OpenFails
  BY <1>4, BudgetWriteJson, BudgetPublish, BudgetPublishFails, BudgetOpen,
     BudgetOpenFails
<1>5. CASE Crash \/ PowerLoss \/ Tick
  BY <1>5, BudgetEnded, BudgetTick
<1> QED
  BY <1>1, <1>2, <1>3, <1>4, <1>5 DEF Next

\* stored_bytes is what the records take, and stays within evidence_max_bytes
\* with the picture being published (me_evidence_cache_capture), although failing
\* removals and power losses bring pruned evidence back.
THEOREM BudgetIsKept == Spec => []WithinBudget
<1>1. IndInv /\ BudgetInv => WithinBudget
  <2> SUFFICES ASSUME IndInv, BudgetInv, work.pc # "prune", ~leftover
               PROVE  /\ stored = Bytes(records)
                      /\ stored + (IF work.pc = "free" THEN 0 ELSE work.meta.size) <= MaxBytes
    BY DEF WithinBudget
  <2>1. stored = Bytes(records) /\ stored \in Nat /\ stored <= MaxBytes
    BY BudgetBytes DEF BudgetInv, Budget
  <2>2. work.pc # "free" => stored + work.meta.size <= MaxBytes
    BY DEF BudgetInv, Budget, IndInv, FileTypes
  <2> QED
    BY <2>1, <2>2
<1> QED
  BY <1>1, EvidenceInductive, BudgetInit, BudgetStep, PTL DEF Spec

=============================================================================
