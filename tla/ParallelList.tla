---------------------------- MODULE ParallelList ----------------------------
(***************************************************************************)
(* parallelList of the geth client                                         *)
(* (parallelizable-client-go-ethereum/core/txpool/parallelpool/list.go):   *)
(* one account's transactions, held twice, by nonce (items) and by hash    *)
(* (txs).  Every method takes the list's own mutex for its whole body and  *)
(* the pool calls them one at a time, so a method is an operator from list *)
(* to list.                                                                *)
(***************************************************************************)
EXTENDS Naturals, FiniteSets

CONSTANTS
    Txs,     \* transactions, identified with their hashes
    Nonce,   \* Nonce[t]
    Price    \* Price[t]: the gas price

ASSUME ParallelListAssumption ==
    Nonce \in [Txs -> Nat] /\ Price \in [Txs -> Nat]

(* Also for an account without a list: the pool creates a list only to add *)
(* to it and deletes it when it becomes empty, so the two differ only      *)
(* between those steps, which the pool's own state tells (ParallelPool).   *)
NewList == [items |-> <<>>, txs |-> {}]

Put(list, t) ==
    [items |-> [n \in DOMAIN list.items \cup {Nonce[t]} |->
                   IF n = Nonce[t] THEN t ELSE list.items[n]],
     txs   |-> list.txs \cup {t}]

MutantAdd(list, t) ==
    CASE t \in list.txs -> list
      [] t \notin list.txs /\ Nonce[t] \notin DOMAIN list.items -> Put(list, t)
      [] OTHER -> IF Price[t] > Price[list.items[Nonce[t]]]
                  THEN Put(list, t)
                  ELSE list

(* A nonce that is taken goes to the transaction with the higher price.    *)
Add(list, t) ==
    CASE t \in list.txs -> list
      [] t \notin list.txs /\ Nonce[t] \notin DOMAIN list.items -> Put(list, t)
      [] OTHER -> IF Price[t] > Price[list.items[Nonce[t]]]
                  THEN Put([list EXCEPT !.txs = @ \ {list.items[Nonce[t]]}], t)
                  ELSE list

RemoveHash(list, t) ==
    IF t \in list.txs
    THEN [items |-> [n \in DOMAIN list.items \ {Nonce[t]} |-> list.items[n]],
          txs   |-> list.txs \ {t}]
    ELSE list

(* Ready and Flatten.  No transaction has dependencies and nonces are the  *)
(* keys of items, so the sort by nonce decides the whole order.            *)
Ready(list) ==
    LET rank(n) == Cardinality({m \in DOMAIN list.items : m <= n})
    IN  [i \in 1..Cardinality(DOMAIN list.items) |->
            list.items[CHOOSE n \in DOMAIN list.items : rank(n) = i]]

(* The two maps hold the same transactions, each under its own nonce.      *)
Consistent(list) ==
    /\ {list.items[n] : n \in DOMAIN list.items} = list.txs
    /\ \A n \in DOMAIN list.items : Nonce[list.items[n]] = n
=============================================================================
