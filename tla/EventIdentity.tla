---------------------------- MODULE EventIdentity ----------------------------
(***************************************************************************)
(* The ids of the event engine as the other side sees them, which outlives *)
(* the engine's process: the daemon's outbox recognises a record by        *)
(* device, channel, event id, phase and sequence number, so that two       *)
(* events with one id are one event to it.                                 *)
(***************************************************************************)
EXTENDS MCEventEngine

CONSTANT MaxLife    \* bound: lives told apart

VARIABLES
    life,       \* how many times the process has been started
    known       \* [life, id] of every event of which a START has come

idVars == <<vars, life, known>>

IdInit == /\ Init
          /\ life = 1
          /\ known = {}

IdNext == /\ Next
          /\ life' = IF ~up /\ up' /\ life < MaxLife THEN life + 1 ELSE life
          /\ known' = known \cup {[life |-> life, id |-> i] : i \in Starts(eng')}

IdSpec == IdInit /\ [][IdNext]_idVars

\* An event id names one event, in every life of the process: new_event_id
\* makes it from the channel, the stream epoch, which the documents say goes
\* up when the process starts, and a serial number.
EventIdUnique == \A s, t \in known : s.id = t.id => s = t
=============================================================================
