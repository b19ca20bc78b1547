--------------------------- MODULE MCEventJournal ---------------------------
(***************************************************************************)
(* Small instances of EventJournal.  Two records fit at most, so that the  *)
(* third event of a behaviour already meets the pressure policy; the       *)
(* smaller configuration makes a restart meet a journal over its limits.   *)
(***************************************************************************)
EXTENDS EventJournal

MCLimits == {[records |-> 2, bytes |-> 3], [records |-> 1, bytes |-> 2]}
=============================================================================
