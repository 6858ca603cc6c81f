--------------------------- MODULE MCBatchExecutor ---------------------------
(* Two senders, a contract, an account and the coinbase.  Tagged: x1 and   *)
(* x2 are independent; x3 competes with x1 for a nonce and pays the same   *)
(* contract; x4 pays the sender of x1; r reverts, n creates a contract, g  *)
(* has too little gas; w calls a contract that pays on to B, and v one     *)
(* that pays back.  In order: y1 follows x1, y2 has too little gas.        *)
EXTENDS BatchExecutor

CONSTANTS x1, x2, x3, x4, r, n, g, v, w, y1, y2, A, B, C, D, F

MCTxs == {x1, x2, x3, x4, r, n, g, v, w, y1, y2}
MCAccounts == {A, B, C, D, F}
MCTagged == MCTxs \ {y1, y2}
MCFrom == [t \in MCTxs |-> IF t \in {x2, x4, y2, g} THEN B ELSE A]
MCTarget ==
    [t \in MCTxs |-> CASE t \in {x1, x3, r, v, w, y2} -> C [] t = x4 -> A [] OTHER -> D]
MCForward == [t \in MCTxs |-> CASE t = w -> B [] t = v -> A [] OTHER -> MCTarget[t]]
MCNonce == [t \in MCTxs |-> IF t \in {y1, r} THEN 1 ELSE 0]
MCValue == [t \in MCTxs |-> IF t = x3 THEN 2 ELSE 1]
MCFee == [t \in MCTxs |-> IF t = n THEN 0 ELSE 1]

MCEvents ==
    {<<>>, <<x1, x2, y1>>, <<x1, x3>>, <<x1, g, y2>>, <<x2, r>>, <<n, x4>>, <<x1, x4, y1>>, <<y1, x2>>,
     <<w, x2>>, <<v, x2>>}

HeadState(nonceOfA, balance) ==
    [nonce |-> [a \in MCAccounts |-> IF a = A THEN nonceOfA ELSE 0],
     balance |-> [a \in MCAccounts |-> balance],
     storage |-> [a \in MCAccounts |-> 0]]

MCHeads == {HeadState(0, 4), HeadState(1, 2), HeadState(0, 1)}
=============================================================================
