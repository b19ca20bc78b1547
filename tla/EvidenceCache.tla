---------------------------- MODULE EvidenceCache ----------------------------
(***************************************************************************)
(* The evidence cache of media_engine (analytics/evidence_cache.c, called  *)
(* by gst_runner.c and engine.c): recent JPEGs are matched with the frames *)
(* RockIVA reports, the picture of a START is published as a JPEG and a    *)
(* JSON file, and the daemon reads the pair from the same directory        *)
(* (loadEvidence in delivery/evidence.go).                                 *)
(*                                                                         *)
(* Abstractions.  Frame f of a process has the presentation time f.  A     *)
(* result that comes after the release of its frame is labelled with the   *)
(* stream of now and has no time (detect_callback); a JPEG without a time  *)
(* never matches and is left out.  A stream epoch stands for its channel   *)
(* too.  An evidence id is the event id, of which it is a hash.  A picture *)
(* is its process, frame and size, and equality of pictures stands for     *)
(* equality of size and SHA-256.  A JPEG of the window is never larger     *)
(* than the cache, so that check of capture is left out.  Temporary files  *)
(* are seen by the clean-up alone and are left out.  For an UPDATE or END  *)
(* capture only looks the record up, so START events alone are modelled.   *)
(***************************************************************************)
EXTENDS Integers, Sequences, FiniteSets, FiniteSetsExt, SequencesExt

CONSTANTS
    MaxBytes,       \* evidence_max_bytes
    Window,         \* frame_cache_max_bytes
    NoteLimit,      \* ME_EVIDENCE_NOTE_LIMIT
    Retention,      \* evidence_retention_s
    Sizes,          \* sizes of a JPEG
    MaxFrame,       \* bound: frames of a process
    MaxEpoch,       \* bound: stream epochs of a process
    MaxSerial,      \* bound: events of a process
    MaxLife,        \* bound: processes
    MaxTime,        \* bound: the wall clock
    MaxFaults       \* bound: failing calls and power losses

ASSUME EvidenceAssumption ==
    /\ {MaxBytes, NoteLimit, Retention, MaxFrame, MaxEpoch} \subseteq Nat \ {0}
    /\ {MaxSerial, MaxLife, MaxTime, MaxFaults} \subseteq Nat
    /\ Window \in 1..MaxBytes
    /\ Sizes \subseteq Nat \ {0}

VARIABLES
    up,         \* "off", "open", or "unavailable" when open has failed
    life,       \* number of the process
    now,        \* the wall clock
    begin,      \* first frame of each stream epoch of the process
    noted,      \* last frame RockIVA has reported
    encoded,    \* last frame the JPEG encoder has delivered
    notes,      \* the notes queue
    frames,     \* the window of recent JPEGs
    records,    \* the metadata of the published evidence
    stored,     \* stored_bytes
    serial,     \* events of the process so far
    obs,        \* the observation in the worker's hands, or NoLabel
    work,       \* what the holder of cache->lock is doing
    disk,       \* the files as every process sees them
    synced,     \* the files as the last directory fsync left them
    journal,    \* START events handed to the daemon with an evidence id
    reader,     \* loadEvidence of the daemon
    staged,     \* what loadEvidence has returned
    faults,     \* faults so far
    leased,     \* history: evidence published, not expired and not misread
    leftover    \* history: files of a failed publication could not be removed

memory == <<begin, noted, encoded, notes, frames, records, stored, serial, obs, work>>
daemonVars == <<journal, reader, staged>>
history == <<leased, leftover>>
vars == <<up, life, now, memory, disk, synced, daemonVars, faults, history>>

NoTime == -1
NoLabel == [epoch |-> 0, frame |-> 0, pts |-> NoTime]
NoFile == <<>>
NoFiles == [jpg |-> NoFile, json |-> NoFile]
NoEvent == [id |-> <<0, 0>>]
Free == [pc |-> "free", event |-> NoEvent, meta |-> NoFile, at |-> 0]
Reading == [pc |-> "idle", event |-> NoEvent, meta |-> NoFile]

Id == (1..MaxEpoch) \X (1..MaxSerial)

Fault ==
    /\ faults < MaxFaults
    /\ faults' = faults + 1

\* Bytes of a set of metadata records: the sum of their sizes.
Bytes(rs) == Cardinality(UNION {{r} \X (1..r.size) : r \in rs})

Init ==
    /\ up = "off"
    /\ life = 0
    /\ now = 0
    /\ begin = <<1>>
    /\ noted = 0
    /\ encoded = 0
    /\ notes = <<>>
    /\ frames = <<>>
    /\ records = {}
    /\ stored = 0
    /\ serial = 0
    /\ obs = NoLabel
    /\ work = Free
    /\ disk = [i \in Id |-> NoFiles]
    /\ synced = disk
    /\ journal = {}
    /\ reader = Reading
    /\ staged = {}
    /\ faults = 0
    /\ leased = {}
    /\ leftover = FALSE

-----------------------------------------------------------------------------
(* Notes and JPEGs *)

EpochOf(f) == Max({e \in DOMAIN begin : begin[e] <= f})

Label(f, timed) ==
    IF timed THEN [epoch |-> EpochOf(f), frame |-> f, pts |-> f]
             ELSE [epoch |-> Len(begin), frame |-> f, pts |-> NoTime]

\* latest_note_for_pts_locked
LatestNote(pts) ==
    LET found == {i \in DOMAIN notes : notes[i].pts = pts}
    IN  IF found = {} THEN NoLabel ELSE notes[Max(found)]

\* The window q once its oldest frames are dropped until the rest fits.
Trimmed(q) ==
    LET size(from) == FoldSeq(LAMBDA x, y : x.size + y, 0,
                              SubSeq(q, from, Len(q)))
    IN  {SubSeq(q, i, Len(q)) : i \in {j \in 1..(Len(q) + 1) :
             size(j) <= Window /\ (j > 1 => size(j - 1) > Window)}}

\* gst_runner_start_live begins a new stream.
SetStream ==
    /\ up = "open"
    /\ Len(begin) < MaxEpoch
    /\ \E f \in (Max({noted, encoded}) + 1)..MaxFrame : begin' = Append(begin, f)
    /\ UNCHANGED <<up, life, now, noted, encoded, notes, frames, records, stored,
                   serial, obs, work, disk, synced, daemonVars, faults, history>>

\* me_evidence_cache_push_jpeg, from the encoder's thread; the encoder may skip
\* frames.
PushJpeg(f, size) ==
    /\ up = "open"
    /\ work.pc = "free"
    /\ f > encoded
    /\ encoded' = f
    /\ frames' \in Trimmed(Append(frames, [frame |-> f, size |-> size,
                                           note |-> LatestNote(f)]))
    /\ UNCHANGED <<up, life, now, begin, noted, notes, records, stored, serial,
                   obs, work, disk, synced, daemonVars, faults, history>>

\* me_evidence_cache_note_frame, first thing in the observation callback.  Here
\* results come in the order of their frames; RockivaRunner has them in any.
NoteFrame(f, timed) ==
    LET label == Label(f, timed)
        all == Append(notes, label)
    IN  /\ up = "open"
        /\ work.pc = "free"
        /\ obs = NoLabel
        /\ f > noted
        /\ noted' = f
        /\ obs' = label
        /\ notes' = IF Len(all) > NoteLimit THEN Tail(all) ELSE all
        /\ frames' = [i \in DOMAIN frames |->
                         IF frames[i].note = NoLabel /\ frames[i].frame = label.pts
                           THEN [frames[i] EXCEPT !.note = label]
                           ELSE frames[i]]
        /\ UNCHANGED <<up, life, now, begin, encoded, records, stored, serial,
                       work, disk, synced, daemonVars, faults, history>>

\* The observation raises no event.
Quiet ==
    /\ obs # NoLabel
    /\ work.pc = "free"
    /\ obs' = NoLabel
    /\ UNCHANGED <<up, life, now, begin, noted, encoded, notes, frames, records,
                   stored, serial, work, disk, synced, daemonVars, faults, history>>

-----------------------------------------------------------------------------
(* me_evidence_cache_capture of a START, under cache->lock *)

\* frame_matches_event
Matches(f, e) == f.note # NoLabel /\ f.note.epoch = e.epoch

\* Mutant of IsExact: the presentation times are not compared.
IsExactLoose(f, e) == Matches(f, e)

\* frame_is_exact
IsExact(f, e) ==
    /\ Matches(f, e)
    /\ IF e.pts # NoTime THEN f.note.pts = e.pts ELSE f.note.frame = e.frame

Delta(f, e) == IF f.frame < e.pts THEN e.pts - f.frame ELSE f.frame - e.pts

\* select_frame_locked looks from the newest frame to the oldest: for an exact
\* frame, else for the nearest in time, else for any of the stream.  The result
\* is the index into the window, or 0.
Selected(e) ==
    LET exact == {i \in DOMAIN frames : IsExact(frames[i], e)}
        matching == {i \in DOMAIN frames : Matches(frames[i], e)}
        nearest == {i \in matching : \A j \in matching :
                        Delta(frames[i], e) <= Delta(frames[j], e)}
    IN  CASE exact # {} -> Max(exact)
          [] matching = {} -> 0
          [] exact = {} /\ matching # {} /\ e.pts # NoTime -> Max(nearest)
          [] OTHER -> Max(matching)

Candidate(e, f) ==
    [id |-> e.id, epoch |-> e.epoch, image |-> <<life, f.frame, f.size>>, size |-> f.size,
     exact |-> IsExact(f, e), expires |-> now + Retention]

\* A START event of the observation in hand: capture finds published evidence
\* of that id, finds no frame, or selects one.
Capture ==
    LET e == [id |-> <<obs.epoch, serial + 1>>, epoch |-> obs.epoch,
              frame |-> obs.frame, pts |-> obs.pts, life |-> life]
        i == Selected(e)
    IN  /\ obs # NoLabel
        /\ work.pc = "free"
        /\ serial < MaxSerial
        /\ serial' = serial + 1
        /\ \/ /\ i = 0 \/ \E r \in records : r.id = e.id
              /\ journal' = journal \cup {e}
              /\ obs' = NoLabel
              /\ UNCHANGED work
           \/ /\ i # 0
              /\ \A r \in records : r.id # e.id
              /\ work' = [pc |-> "prune", event |-> e,
                          meta |-> Candidate(e, frames[i]), at |-> now]
              /\ UNCHANGED <<journal, obs>>
        /\ UNCHANGED <<up, life, now, begin, noted, encoded, notes, frames, records,
                       stored, disk, synced, reader, staged, faults, history>>

\* The lock is released; the worker that held it has the event journaled.
Release ==
    /\ work' = Free
    /\ obs' = NoLabel
    /\ journal' = IF work.event = NoEvent THEN journal
                                          ELSE journal \cup {work.event}

\* Mutant of Expired: what has just been written is pruned too.
ExpiredEarly == {r \in records : r.expires <= work.at + 1}

Expired == {r \in records : r.expires <= work.at}

\* An expired record of which the JPEG is already gone.
Halfway == {r \in Expired : disk[r.id].jpg = NoFile}

\* remove_record_locked of prune_expired_locked: the JPEG goes first ...
PruneJpeg ==
    /\ work.pc = "prune"
    /\ Halfway = {}
    /\ \E r \in Expired : disk' = [disk EXCEPT ![r.id].jpg = NoFile]
    /\ UNCHANGED <<up, life, now, memory, synced, daemonVars, faults, history>>

Forget(r) ==
    /\ records' = records \ {r}
    /\ stored' = IF stored >= r.size THEN stored - r.size ELSE 0
    /\ UNCHANGED <<up, life, now, begin, noted, encoded, notes, frames, serial, obs,
                   work, synced, daemonVars, history>>

\* Mutant of PruneJson: the bytes of the record are not given back.
PruneJsonLeaky ==
    /\ work.pc = "prune"
    /\ \E r \in Halfway :
           /\ disk' = [disk EXCEPT ![r.id].json = NoFile]
           /\ records' = records \ {r}
    /\ UNCHANGED <<up, life, now, begin, noted, encoded, notes, frames, stored,
                   serial, obs, work, synced, daemonVars, faults, history>>

\* ... then the metadata and the record ...
PruneJson ==
    /\ work.pc = "prune"
    /\ \E r \in Halfway :
           /\ disk' = [disk EXCEPT ![r.id].json = NoFile]
           /\ Forget(r)
    /\ UNCHANGED faults

\* ... which is forgotten also when its files cannot be removed.
PruneFails ==
    /\ work.pc = "prune"
    /\ Fault
    /\ \E r \in Expired :
           /\ Halfway \subseteq {r}
           /\ disk' \in {disk, [disk EXCEPT ![r.id].json = NoFile]}
           /\ Forget(r)

\* Nothing is expired any more: open is done, or the cache is full.
PruneDone ==
    /\ work.pc = "prune"
    /\ Expired = {}
    /\ work.event # NoEvent => stored + work.meta.size > MaxBytes
    /\ Release
    /\ UNCHANGED <<up, life, now, begin, noted, encoded, notes, frames, records,
                   stored, serial, disk, synced, reader, staged, faults, history>>

\* Mutant of WriteJpeg: the size of the new picture is left out of the check.
WriteJpegUnchecked ==
    /\ work.pc = "prune"
    /\ Expired = {}
    /\ work.event # NoEvent
    /\ disk' = [disk EXCEPT ![work.event.id].jpg = work.meta.image]
    /\ work' = [work EXCEPT !.pc = "jpg"]
    /\ UNCHANGED <<up, life, now, begin, noted, encoded, notes, frames, records,
                   stored, serial, obs, synced, daemonVars, faults, history>>

\* write_atomic of the JPEG: the temporary file is synced and renamed.
WriteJpeg ==
    /\ work.pc = "prune"
    /\ Expired = {}
    /\ work.event # NoEvent
    /\ stored + work.meta.size <= MaxBytes
    /\ disk' = [disk EXCEPT ![work.event.id].jpg = work.meta.image]
    /\ work' = [work EXCEPT !.pc = "jpg"]
    /\ UNCHANGED <<up, life, now, begin, noted, encoded, notes, frames, records,
                   stored, serial, obs, synced, daemonVars, faults, history>>

\* The directory is synced behind the JPEG.
SyncJpeg ==
    /\ work.pc = "jpg"
    /\ synced' = disk
    /\ work' = [work EXCEPT !.pc = "json"]
    /\ UNCHANGED <<up, life, now, begin, noted, encoded, notes, frames, records,
                   stored, serial, obs, disk, daemonVars, faults, history>>

WriteJson ==
    /\ work.pc = "json"
    /\ disk' = [disk EXCEPT ![work.event.id].json = work.meta]
    /\ work' = [work EXCEPT !.pc = "sync"]
    /\ UNCHANGED <<up, life, now, begin, noted, encoded, notes, frames, records,
                   stored, serial, obs, synced, daemonVars, faults, history>>

\* Mutant of Publish: the directory is not synced behind the metadata.
PublishUnsynced ==
    /\ work.pc = "sync"
    /\ records' = records \cup {work.meta}
    /\ stored' = stored + work.meta.size
    /\ leased' = {r \in leased \cup {work.meta} : r.expires > now}
    /\ UNCHANGED leftover
    /\ Release
    /\ UNCHANGED <<up, life, now, begin, noted, encoded, notes, frames, serial, disk,
                   synced, reader, staged, faults>>

\* The directory is synced behind the metadata, and the evidence is published.
Publish ==
    /\ work.pc = "sync"
    /\ synced' = disk
    /\ records' = records \cup {work.meta}
    /\ stored' = stored + work.meta.size
    /\ leased' = {r \in leased \cup {work.meta} : r.expires > now}
    /\ UNCHANGED leftover
    /\ Release
    /\ UNCHANGED <<up, life, now, begin, noted, encoded, notes, frames, serial, disk,
                   reader, staged, faults>>

\* A write, fsync or rename fails, before or after its file got its name, and
\* both files are removed; that may fail too and is not looked at.
PublishFails ==
    /\ work.pc \in {"prune", "jpg", "json", "sync"}
    /\ work.event # NoEvent
    /\ work.pc = "prune" => Expired = {} /\ stored + work.meta.size <= MaxBytes
    /\ Fault
    /\ \E jpg \in {NoFile, disk[work.event.id].jpg},
          json \in {NoFile, disk[work.event.id].json} :
              disk' = [disk EXCEPT ![work.event.id] = [jpg |-> jpg, json |-> json]]
    /\ leftover' = (leftover \/ disk'[work.event.id] # NoFiles)
    /\ Release
    /\ UNCHANGED <<up, life, now, begin, noted, encoded, notes, frames, records,
                   stored, serial, synced, reader, staged, leased>>

-----------------------------------------------------------------------------
(* me_evidence_cache_open and the end of the process *)

\* record_from_json accepts the file, which is named after its record.
HasMetadata(i) == disk[i].json # NoFile /\ disk[i].json.id = i

\* Mutant of Whole: the metadata is trusted and the JPEG not looked at.
WholeUnverified == {i \in Id : HasMetadata(i)}

\* The pairs load_records accepts.
Whole == {i \in Id : HasMetadata(i) /\ disk[i].jpg = disk[i].json.image}

Start ==
    /\ up = "off"
    /\ life < MaxLife
    /\ life' = life + 1
    /\ UNCHANGED <<now, begin, noted, encoded, notes, frames, serial, obs, daemonVars>>

\* load_records and cleanup_orphan_files, then the pruning.  Files without a
\* record are removed, also when they just could not be read; the directory is
\* synced when the clean-up has found one that load_records left.  Every process
\* has the same evidence_max_bytes.
Open ==
    /\ Start
    /\ up' = "open"
    /\ \E unread \in SUBSET Whole :
           LET loaded == Whole \ unread
           IN  /\ (unread = {} /\ UNCHANGED faults) \/ (unread # {} /\ Fault)
               /\ leased' = {r \in leased : r.id \notin unread}
               /\ UNCHANGED leftover
               /\ records' = {disk[i].json : i \in loaded}
               /\ stored' = Bytes(records')
               /\ disk' = [i \in Id |-> IF i \in loaded THEN disk[i] ELSE NoFiles]
    /\ IF \E i \in Id : disk[i].json = NoFile /\ disk[i].jpg # NoFile
         THEN synced' = disk'
         ELSE synced' \in {synced, disk'}
    /\ work' = [Free EXCEPT !.pc = "prune", !.at = now]

File == {"jpg", "json"}

\* An orphan cannot be removed or the directory not be synced: the process goes
\* on without evidence.
OpenFails ==
    /\ Start
    /\ Fault
    /\ up' = "unavailable"
    /\ \E gone \in SUBSET ((Id \ Whole) \X File) :
           disk' = [i \in Id |-> [f \in File |-> IF <<i, f>> \in gone THEN NoFile
                                                                  ELSE disk[i][f]]]
    /\ UNCHANGED <<records, stored, work, synced, history>>

Ended ==
    /\ up # "off"
    /\ up' = "off"
    /\ begin' = <<1>>
    /\ noted' = 0
    /\ encoded' = 0
    /\ notes' = <<>>
    /\ frames' = <<>>
    /\ records' = {}
    /\ stored' = 0
    /\ serial' = 0
    /\ obs' = NoLabel
    /\ work' = Free
    /\ UNCHANGED <<life, now, journal, staged, history>>

\* The process stops (me_evidence_cache_close) or crashes.
Crash ==
    /\ Ended
    /\ UNCHANGED <<disk, synced, reader, faults>>

\* Power is lost: of every name changed since the last sync of the directory the
\* old or the new state survives.
PowerLoss ==
    /\ Ended
    /\ Fault
    /\ \E old \in SUBSET {x \in Id \X File : disk[x[1]][x[2]] # synced[x[1]][x[2]]} :
           disk' = [i \in Id |-> [f \in File |-> IF <<i, f>> \in old THEN synced[i][f]
                                                                 ELSE disk[i][f]]]
    /\ synced' = disk'
    /\ reader' = Reading

Tick ==
    /\ now < MaxTime
    /\ now' = now + 1
    /\ leased' = {r \in leased : r.expires > now'}
    /\ UNCHANGED leftover
    /\ UNCHANGED <<up, life, memory, disk, synced, daemonVars, faults>>

-----------------------------------------------------------------------------
(* loadEvidence of the daemon *)

\* The metadata is there and has the identity of the event.
ReadMetadata ==
    /\ reader.pc = "idle"
    /\ \E e \in journal \ {s.event : s \in staged} :
           /\ disk[e.id].json # NoFile
           /\ disk[e.id].json.epoch = e.epoch
           /\ reader' = [pc |-> "image", event |-> e, meta |-> disk[e.id].json]
    /\ UNCHANGED <<up, life, now, memory, disk, synced, journal, staged, faults,
                   history>>

\* Mutant of ReadImage: the checksum is not verified.
ReadImageUnverified ==
    /\ reader.pc = "image"
    /\ reader' = Reading
    /\ staged' = IF disk[reader.event.id].jpg # NoFile
                   THEN staged \cup {[event |-> reader.event, meta |-> reader.meta,
                                      image |-> disk[reader.event.id].jpg]}
                   ELSE staged
    /\ UNCHANGED <<up, life, now, memory, disk, synced, journal, faults, history>>

\* The image has the size and the checksum of the metadata, or is refused.
ReadImage ==
    /\ reader.pc = "image"
    /\ reader' = Reading
    /\ staged' = IF disk[reader.event.id].jpg = reader.meta.image
                   THEN staged \cup {[event |-> reader.event, meta |-> reader.meta,
                                      image |-> disk[reader.event.id].jpg]}
                   ELSE staged
    /\ UNCHANGED <<up, life, now, memory, disk, synced, journal, faults, history>>

-----------------------------------------------------------------------------
Next ==
    \/ SetStream
    \/ \E f \in 1..MaxFrame, size \in Sizes : PushJpeg(f, size)
    \/ \E f \in 1..MaxFrame, timed \in BOOLEAN : NoteFrame(f, timed)
    \/ Quiet \/ Capture \/ PruneJpeg \/ PruneJson \/ PruneFails \/ PruneDone
    \/ WriteJpeg \/ SyncJpeg \/ WriteJson \/ Publish \/ PublishFails
    \/ Open \/ OpenFails \/ Crash \/ PowerLoss \/ Tick
    \/ ReadMetadata \/ ReadImage

Spec == Init /\ [][Next]_vars

-----------------------------------------------------------------------------
(* Properties *)

Labels == [epoch : 0..MaxEpoch, frame : 0..MaxFrame, pts : {NoTime} \cup 1..MaxFrame]
Image == (1..MaxLife) \X (1..MaxFrame) \X Sizes
Metadata == [id : Id, epoch : 1..MaxEpoch, image : Image, size : Sizes,
             exact : BOOLEAN, expires : Nat]

\* Every variable has its type, and the two queues keep to their limits.
TypeOK ==
    /\ up \in {"off", "open", "unavailable"}
    /\ life \in 0..MaxLife /\ now \in 0..MaxTime /\ faults \in 0..MaxFaults
    /\ Len(begin) \in 1..MaxEpoch /\ Range(begin) \subseteq 1..MaxFrame
    /\ {noted, encoded} \subseteq 0..MaxFrame
    /\ Range(notes) \cup {obs} \subseteq Labels
    /\ Len(notes) <= NoteLimit
    /\ FoldSeq(LAMBDA x, y : x.size + y, 0, frames) <= Window
    /\ \A i \in DOMAIN frames : frames[i].note \in Labels
    /\ records \cup leased \subseteq Metadata
    /\ stored \in Nat /\ serial \in 0..MaxSerial
    /\ work.pc \in {"free", "prune", "jpg", "json", "sync"}
    /\ reader.pc \in {"idle", "image"}
    /\ \A i \in Id : \A d \in {disk, synced} :
           /\ d[i].jpg = NoFile \/ d[i].jpg \in Image
           /\ d[i].json = NoFile \/ d[i].json \in Metadata
    /\ \A e \in journal \cup {s.event : s \in staged} : e.id \in Id

\* Every record of the cache has its metadata and its complete JPEG on disk,
\* also after a crash or a power loss at any point of an earlier publication or
\* pruning (evidence_cache.h: "a recovered record always points at a complete
\* JPEG"); only the pruning that is about to forget it may have removed the JPEG.
RecordWhole ==
    \A r \in records :
        /\ disk[r.id].json = r
        /\ disk[r.id].jpg = r.image \/ (work.pc = "prune" /\ r \in Expired)

\* Published evidence is kept until its lease expires, through crashes, power
\* losses, restarts, failing publications and a full cache
\* (media_engine/README.md:140), unless an open could not read it.
LeaseKept ==
    \A r \in leased : disk[r.id] = [jpg |-> r.image, json |-> r]

\* Outside the pruning, stored_bytes is what the records take and stays within
\* evidence_max_bytes with the picture being published, also when power losses
\* or failing removals bring evidence back that was pruned, unless the files
\* of a failed publication could not be removed.
WithinBudget ==
    work.pc # "prune" /\ ~leftover =>
        /\ stored = Bytes(records)
        /\ stored + (IF work.pc = "free" THEN 0 ELSE work.meta.size) <= MaxBytes

\* The picture published for an event shows a frame of the event's stream, and
\* the event's own frame when it is called exact, however the results and the
\* JPEGs of the two threads are interleaved and whatever label a late result
\* got.
RightPicture ==
    work.event # NoEvent =>
        LET shown == work.meta.image[2]
        IN  /\ EpochOf(shown) = work.event.epoch
            /\ work.meta.exact => shown = work.event.frame

\* An image the daemon stages as the exact one of an event is the picture of
\* that event's frame, although the files may be pruned, and published again
\* under the same id by a later process, between its two reads.
StagedPicture ==
    \A s \in staged :
        s.meta.exact /\ s.meta.image[1] = s.event.life =>
            s.image[1] = s.event.life /\ s.image[2] = s.event.frame

=============================================================================
