--------------------------- MODULE EventLifecycle ---------------------------
(***************************************************************************)
(* What the event engine promises the journal behind it, without tracks,   *)
(* timers and configurations: at most one event is open; an event is a     *)
(* START numbered 1, updates numbered consecutively and at most one END,   *)
(* in this order; its id is new in this life of the process; a process     *)
(* that is shut down closes its event first, unless the numbers have run   *)
(* out.  out is what the last step has emitted.                            *)
(***************************************************************************)
EXTENDS Naturals, Sequences

CONSTANTS
    Ids,        \* event ids
    NoId,       \* no event is open
    MaxSeq      \* the last sequence number

VARIABLES up, open, seq, used, out

vars == <<up, open, seq, used, out>>

Rec(id, phase, n) == [id |-> id, phase |-> phase, seq |-> n]

Closed == /\ open = NoId
          /\ seq = 0

Init == /\ up = TRUE
        /\ Closed
        /\ used = {}
        /\ out = << >>

Quiet == /\ out' = << >>
         /\ UNCHANGED <<up, open, seq, used>>

Begin == /\ up
         /\ Closed
         /\ \E id \in Ids \ used :
               /\ open' = id
               /\ used' = used \cup {id}
               /\ out' = <<Rec(id, "START", 1)>>
         /\ seq' = 1
         /\ UNCHANGED up

Update == /\ open # NoId
          /\ seq < MaxSeq
          /\ seq' = seq + 1
          /\ out' = <<Rec(open, "UPDATE", seq + 1)>>
          /\ UNCHANGED <<up, open, used>>

Finish == /\ open # NoId
          /\ seq < MaxSeq
          /\ open' = NoId
          /\ seq' = 0
          /\ out' = <<Rec(open, "END", seq + 1)>>
          /\ UNCHANGED <<up, used>>

\* A stream that replaces another closes the event of the old one and may
\* open its own at once.
FinishAndBegin ==
    /\ open # NoId
    /\ seq < MaxSeq
    /\ \E id \in Ids \ used :
          /\ open' = id
          /\ used' = used \cup {id}
          /\ out' = <<Rec(open, "END", seq + 1), Rec(id, "START", 1)>>
    /\ seq' = 1
    /\ UNCHANGED up

\* An orderly end of the process.
Exit == /\ up
        /\ up' = FALSE
        /\ out' = IF open # NoId /\ seq < MaxSeq
                  THEN <<Rec(open, "END", seq + 1)>> ELSE << >>
        /\ open' = NoId
        /\ seq' = 0
        /\ used' = {}

Crash == /\ up
         /\ up' = FALSE
         /\ open' = NoId
         /\ seq' = 0
         /\ used' = {}
         /\ out' = << >>

Boot == /\ ~up
        /\ up' = TRUE
        /\ out' = << >>
        /\ UNCHANGED <<open, seq, used>>

Next == \/ Quiet
        \/ Begin
        \/ Update
        \/ Finish
        \/ FinishAndBegin
        \/ Exit
        \/ Crash
        \/ Boot

Spec == Init /\ [][Next]_vars
=============================================================================
