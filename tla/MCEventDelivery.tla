-------------------------- MODULE MCEventDelivery --------------------------
(***************************************************************************)
(* A START with evidence, an UPDATE and the END of one event; a log that   *)
(* never fills up, and one of a single record and four units, where every  *)
(* event meets eviction, coalescing, drops or ErrCapacity.  Liveness is    *)
(* checked on the START alone, in a log that compacts at every fourth      *)
(* entry and one whose snapshot leaves no room for another entry.          *)
(***************************************************************************)
EXTENDS EventDelivery

MCStream == <<[id |-> "e", phase |-> "START", evidence |-> TRUE],
              [id |-> "e", phase |-> "UPDATE", evidence |-> FALSE],
              [id |-> "e", phase |-> "END", evidence |-> FALSE]>>
MCStartStream == <<MCStream[1]>>
MCStartOnly == {"START"}
MCLimits == {[records |-> 3, bytes |-> 100], [records |-> 1, bytes |-> 4]}
MCTight == {[records |-> 1, bytes |-> 3], [records |-> 1, bytes |-> 2]}
=============================================================================
