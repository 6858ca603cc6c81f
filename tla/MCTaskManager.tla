---------------------------- MODULE MCTaskManager ----------------------------
(* Two tasks and two operators of one quorum, whose stakes change with the *)
(* blocks: o1 leaves when o2's stake grows.                                *)
EXTENDS TaskManager

CONSTANTS o1, o2, q1, agg, gen

MCOperators == {o1, o2}
MCStakeAt ==
    [b \in Blocks |-> [q \in {q1} |-> [o \in MCOperators |->
        IF b < 2 THEN (IF o = o1 THEN 2 ELSE 1)
        ELSE IF o = o1 THEN 0 ELSE 3]]]
=============================================================================
