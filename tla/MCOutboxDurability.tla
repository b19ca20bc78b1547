------------------------- MODULE MCOutboxDurability -------------------------
(***************************************************************************)
(* One event with its START, two UPDATEs and END.  Two records fit, so the *)
(* third event meets the eviction and coalescing paths; three or four      *)
(* units of file make compaction and byte pressure happen.                 *)
(***************************************************************************)
EXTENDS OutboxDurability

Event(phase) == [id |-> "e", phase |-> phase, evidence |-> phase = "START"]

MCStream == <<Event("START"), Event("UPDATE"), Event("UPDATE"), Event("END")>>
MCAlarmPhases == {"START", "END"}
MCLimits == {[records |-> 2, bytes |-> 4], [records |-> 3, bytes |-> 3]}
=============================================================================
