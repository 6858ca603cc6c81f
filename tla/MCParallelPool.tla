--------------------------- MODULE MCParallelPool ---------------------------
(* Two accounts and two heads.  p1 and p2 are tagged, p2 with too little   *)
(* gas; p1 can be accepted twice.  s1 and s2 are plain and compete for one *)
(* nonce, which is the next one or a later one according to the head; u is *)
(* below the price limit and x is a legacy transaction, which is what      *)
(* TagTransaction builds.                                                  *)
EXTENDS ParallelPool

CONSTANTS p1, p2, s1, s2, u, x, A, B

MCTxs == {p1, p2, s1, s2, u, x}
MCAccounts == {A, B}
MCFrom == [t \in MCTxs |-> IF t \in {p2, u} THEN B ELSE A]
MCNonce == [t \in MCTxs |-> IF t \in {s1, s2} THEN 1 ELSE 0]
MCPrice == [t \in MCTxs |-> IF t = s2 THEN 2 ELSE IF t = u THEN 0 ELSE 1]
MCCost == [t \in MCTxs |-> IF t = p2 THEN 2 ELSE 1]
MCParallelType == MCTxs \ {x}
MCTagged == {p1, p2, x}
MCLowGas == {p2}
MCAdds == {[txs |-> <<x, p1, s1>>, local |-> FALSE]}
MCSubmissions ==
    {[tx |-> t, local |-> FALSE] : t \in {s2, u}} \cup {[tx |-> p2, local |-> TRUE]}
MCSizes == {0, 1, 3}
MCMaxTagged == [a \in MCAccounts |-> IF a = A THEN 2 ELSE 1]

AccountState(nonceOfA, balance) ==
    [nonce |-> [a \in MCAccounts |-> IF a = A THEN nonceOfA ELSE 0],
     balance |-> [a \in MCAccounts |-> balance]]

MCHeadStates == {AccountState(0, 2), AccountState(1, 1)}
=============================================================================
