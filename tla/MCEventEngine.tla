--------------------------- MODULE MCEventEngine ---------------------------
(* Small instances of EventEngine. *)
EXTENDS EventEngine, TLC

CONSTANTS a, b, c

MCTrackIds == {a, b, c}

Occupancy == [enabled |-> TRUE, rule |-> "occupancy", confirmFrames |-> 2,
              confirm |-> 2, debounce |-> 1, grace |-> 2, cooldown |-> 2,
              interval |-> 1]
Line == [enabled |-> TRUE, rule |-> "fact", confirmFrames |-> 1,
         confirm |-> 1, debounce |-> 0, grace |-> 2, cooldown |-> 1,
         interval |-> 2]
Off == [Line EXCEPT !.enabled = FALSE]

MCConfigs == {Occupancy, Line, Off}

\* Nobody, one person inside, more persons than the table holds, and one
\* outside while another leaves; nobody passes the line, one does, and two do.
MCScenes ==
    [occupancy |->
        {[tracks |-> f, facts |-> {}] :
            f \in {<< >>, a :> "inside", [t \in MCTrackIds |-> "inside"],
                   a :> "removed" @@ b :> "outside"} },
     fact |->
        {[tracks |-> << >>, facts |-> f] :
            f \in {{}, {[track |-> a, dir |-> "in"]},
                   {[track |-> a, dir |-> "in"],
                    [track |-> b, dir |-> "out"]}} }]

\* The second frame may carry a later time than the third, and the times of
\* the last are far enough to pass every period.
MCTimes == <<{0}, {1, 3}, {2}, {5}>>
=============================================================================
