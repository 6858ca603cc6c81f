---------------------------- MODULE MCBatchHelper ----------------------------
(* Small instances of BatchHelper: two contracts, two storage keys, two    *)
(* groups.                                                                 *)
EXTENDS BatchHelper

CONSTANTS t1, t2, t3, a1, a2, k1, k2

MCTxs == {t1, t2, t3}
MCAddresses == {a1, a2}
MCSlots == {k1, k2}

Entry(a, keys) == [address |-> a, storageKeys |-> keys]

(* No storage access, a key alone, the same key of another contract, both  *)
(* keys, and an answer without a list.                                     *)
MCAnswers ==
    {NoList, {}, {Entry(a1, {k1})}, {Entry(a2, {k1}), Entry(a1, {})},
     {Entry(a1, {k1}), Entry(a2, {k2})}, {Entry(a2, {k2})}}

(* Two hashes are announced, and simulated, twice.                         *)
MCMaxSimulations == [t \in MCTxs |-> IF t = t3 THEN 1 ELSE 2]
=============================================================================
