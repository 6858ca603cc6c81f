---------------------------- MODULE MCAggregator ----------------------------
(* Two operators give the same answer to task 1, for which o1 alone is a   *)
(* quorum and o2 alone is not.  Task 2 is only initialised, if its         *)
(* percentage is not too wide, and expires while the loop may be waiting   *)
(* for task 1.                                                             *)
EXTENDS Aggregator

CONSTANTS r1, r2, o1, o2, d1

MCResponses == {r1, r2}
MCTaskOf == [r \in MCResponses |-> 1]
MCDigest == [r \in MCResponses |-> d1]
MCSignerOf == [r \in MCResponses |-> IF r = r2 THEN o2 ELSE o1]
=============================================================================
