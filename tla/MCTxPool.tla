------------------------------ MODULE MCTxPool ------------------------------
(* Two accounts, a replacement, a nonce gap, and a fork of depth two whose *)
(* other side cannot pay again for all that the first side included.       *)
EXTENDS TxPool, TLC

CONSTANTS alice, bob, a0, a0x, a1, a2, b0, g, x1, y1, x2, c1, s1

MCFrom == a0 :> alice @@ a0x :> alice @@ a1 :> alice @@ a2 :> alice @@ b0 :> bob
MCNonce == a0 :> 0 @@ a0x :> 0 @@ a1 :> 1 @@ a2 :> 2 @@ b0 :> 0
MCPrice == a0 :> 1 @@ a0x :> 2 @@ a1 :> 2 @@ a2 :> 3 @@ b0 :> 2
MCCost == a0 :> 1 @@ a0x :> 1 @@ a1 :> 2 @@ a2 :> 1 @@ b0 :> 1

MCParent == g :> g @@ x1 :> g @@ y1 :> g @@ x2 :> x1
MCNumber == g :> 0 @@ x1 :> 1 @@ y1 :> 1 @@ x2 :> 2
MCIncluded == g :> <<>> @@ x1 :> <<a0x>> @@ y1 :> <<b0>> @@ x2 :> <<a1>>
Nonces(n, m) == alice :> n @@ bob :> m
MCStateNonce == g :> Nonces(0, 0) @@ x1 :> Nonces(1, 0) @@ y1 :> Nonces(0, 1) @@ x2 :> Nonces(2, 0)
MCBalance == g :> Nonces(3, 2) @@ x1 :> Nonces(2, 2) @@ y1 :> Nonces(2, 1) @@ x2 :> Nonces(2, 1)
=============================================================================
