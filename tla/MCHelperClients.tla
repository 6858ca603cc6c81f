---------------------------- MODULE MCHelperClients ----------------------------
(* Two transactions of one storage key each or none, one group, two         *)
(* overlapping executions and fetches.                                     *)
EXTENDS HelperClients

CONSTANTS t1, t2, a1, k1

MCAnswers == {{}, {[address |-> a1, storageKeys |-> {k1}]}}

MCMaxSimulations == [t \in Txs |-> 1]
================================================================================
