--------------------------- MODULE MCLiveSession ---------------------------
(***************************************************************************)
(* Two calls of the platform compete for the slot, and a third session is  *)
(* started by another client of the control socket.                        *)
(***************************************************************************)
EXTENDS LiveSession, TLC

CONSTANTS c1, c2, c3

Symmetry == Permutations({c1, c2})
=============================================================================
