-------------------------- MODULE ParallelPoolProofs --------------------------
(***************************************************************************)
(* Proofs about ParallelList and ParallelPool, for any transactions,       *)
(* accounts, heads and calls.                                              *)
(***************************************************************************)
EXTENDS ParallelPool, RecursionFacts

-----------------------------------------------------------------------------
(* The operations of a list.                                               *)

LEMMA NewListOK == NewList \in ListType /\ Consistent(NewList)
  <1>1. <<>> \in [{} -> Txs]
    OBVIOUS
  <1>2. NewList \in ListType
    BY <1>1 DEF NewList, ListType
  <1>3. Consistent(NewList)
    BY DEF NewList, Consistent
  <1> QED
    BY <1>2, <1>3

(* What a list holds in two maps can be read off the one by nonce.         *)
LEMMA ConsistentMembers ==
    ASSUME NEW list \in ListType, Consistent(list)
    PROVE  /\ \A n \in DOMAIN list.items :
                 /\ list.items[n] \in list.txs /\ list.items[n] \in Txs
                 /\ Nonce[list.items[n]] = n
           /\ \A t \in list.txs : /\ t \in Txs /\ Nonce[t] \in DOMAIN list.items
                                  /\ list.items[Nonce[t]] = t
  BY DEF Consistent, ListType

LEMMA PutOK ==
    ASSUME NEW list \in ListType, NEW t \in Txs
    PROVE  Put(list, t) \in ListType
  <1> DEFINE D == DOMAIN list.items \cup {Nonce[t]}
             items == [n \in D |-> IF n = Nonce[t] THEN t ELSE list.items[n]]
  <1>1. PICK S \in SUBSET {Nonce[u] : u \in Txs} : list.items \in [S -> Txs]
    BY DEF ListType
  <1>2. D \in SUBSET {Nonce[u] : u \in Txs}
    BY <1>1
  <1>3. items \in [D -> Txs]
    BY <1>1
  <1>4. list.txs \cup {t} \in SUBSET Txs
    BY DEF ListType
  <1> QED
    BY <1>2, <1>3, <1>4 DEF Put, ListType

(* Add keeps the maps in step and brings in nothing but t.                 *)
LEMMA AddOK ==
    ASSUME NEW list \in ListType, Consistent(list), NEW t \in Txs
    PROVE  /\ Add(list, t) \in ListType /\ Consistent(Add(list, t))
           /\ Add(list, t).txs \subseteq list.txs \cup {t}
           /\ DOMAIN Add(list, t).items \subseteq DOMAIN list.items \cup {Nonce[t]}
  <1>1. CASE t \in list.txs
    BY <1>1 DEF Add
  <1>2. CASE t \notin list.txs /\ Nonce[t] \notin DOMAIN list.items
    <2>1. Add(list, t) = Put(list, t)
      BY <1>2 DEF Add
    <2>2. Consistent(Put(list, t))
      <3>1. /\ DOMAIN Put(list, t).items = DOMAIN list.items \cup {Nonce[t]}
            /\ Put(list, t).items[Nonce[t]] = t
            /\ \A n \in DOMAIN list.items : Put(list, t).items[n] = list.items[n]
            /\ Put(list, t).txs = list.txs \cup {t}
        BY <1>2 DEF Put
      <3> QED
        BY <3>1 DEF Consistent
    <2>3. /\ Put(list, t).txs = list.txs \cup {t}
          /\ DOMAIN Put(list, t).items = DOMAIN list.items \cup {Nonce[t]}
      BY DEF Put
    <2> QED
      BY <2>1, <2>2, <2>3, PutOK
  <1>3. CASE t \notin list.txs /\ Nonce[t] \in DOMAIN list.items
    <2> DEFINE old == list.items[Nonce[t]]
               less == [list EXCEPT !.txs = @ \ {old}]
    <2>1. Add(list, t) = IF Price[t] > Price[old] THEN Put(less, t) ELSE list
      BY <1>3 DEF Add
    <2>2. less \in ListType /\ less.items = list.items /\ less.txs = list.txs \ {old}
      BY DEF ListType
    <2>3. Consistent(Put(less, t))
      <3> HIDE DEF less
      <3>1. /\ Put(less, t).txs = (list.txs \ {old}) \cup {t}
            /\ DOMAIN Put(less, t).items = DOMAIN list.items
            /\ Put(less, t).items[Nonce[t]] = t
            /\ \A n \in DOMAIN list.items :
                  n # Nonce[t] => Put(less, t).items[n] = list.items[n]
        BY <1>3, <2>2 DEF Put
      <3>2. \A n \in DOMAIN list.items : n # Nonce[t] => list.items[n] # old
        BY <1>3, ConsistentMembers
      <3>3. \A n \in DOMAIN list.items : Nonce[Put(less, t).items[n]] = n
        BY <3>1, ConsistentMembers
      <3>4. \A u : u \in Put(less, t).txs <=>
                     \E n \in DOMAIN list.items : u = Put(less, t).items[n]
        BY <1>3, <3>1, <3>2, ConsistentMembers
      <3> QED
        BY <3>1, <3>3, <3>4 DEF Consistent
    <2>4. /\ Put(less, t).txs \subseteq list.txs \cup {t}
          /\ DOMAIN Put(less, t).items = DOMAIN list.items \cup {Nonce[t]}
      BY <2>2 DEF Put
    <2>5. Put(less, t) \in ListType
      BY <2>2, PutOK
    <2> QED
      BY <2>1, <2>3, <2>4, <2>5
  <1> QED
    BY <1>1, <1>2, <1>3

-----------------------------------------------------------------------------
(* The inductive invariant, by the goroutine that keeps each part.         *)

(* The call that holds p.mu, and what it has still to announce.            *)
CallInv ==
    call # NoCall =>
        /\ call \in Calls /\ call.next >= 1
        /\ call.step # "add" => call.next <= Len(call.txs)
        /\ unannounced \subseteq ToSet(call.txs)
        /\ call.kind = "Process" =>
              /\ Len(call.txs) = 1
              /\ call.next = 1 /\ call.step # "batch" => unannounced = {}

(* The batches and those who size, rebuild and execute them.  They hold    *)
(* tagged transactions only.                                               *)
BatchInv ==
    /\ parallelizableTxs \in [Accounts -> Seq(Tagged)]
    /\ batchedTxs \in Seq(Seq(Tagged))
    /\ batchSize \in 1..MaxBatchSize
    /\ resizing \in BOOLEAN

ExecInv ==
    /\ toExecute \in Seq(Seq(Tagged))
    /\ toExecute = <<>> => results = {}
    /\ toExecute # <<>> => results \subseteq DOMAIN Head(toExecute)
    /\ removing = Idle \/ (removing \in Removals /\ removing.index \in results)

(* A list holds transactions of its own account only, and none that is     *)
(* tagged: what removeTx removes, with or without the mutex, is in no list. *)
OwnLists ==
    \A a \in Accounts : \A t \in pending[a].txs \cup queue[a].txs :
        From[t] = a /\ t \notin Tagged

ListInv ==
    /\ pending \in [Accounts -> ListType] /\ queue \in [Accounts -> ListType]
    /\ ListsConsistent
    /\ OwnLists

(* pending is for the head's nonce alone, queue for later ones.            *)
NonceInv ==
    \A a \in Accounts :
        /\ \A n \in DOMAIN pending[a].items : n = currentState.nonce[a]
        /\ \A n \in DOMAIN queue[a].items : n > currentState.nonce[a]

HeadInv ==
    /\ currentState \in State
    /\ locals \subseteq Accounts

(* What add has established about the transaction it is inserting; p.mu    *)
(* keeps Reset out, and removeTx takes no untagged one away.               *)
InsertInv ==
    call # NoCall /\ call.step # "add" =>
        /\ Current \in all \cup Tagged
        /\ currentState.nonce[From[Current]] <= Nonce[Current]
        /\ call.step \in {"fill", "broken"} => Current \notin Tagged

(* The price entry follows the entry in the lookup.                        *)
PricedInv ==
    \A t \in all \ Tagged :
        t \in BagToSet(priced) \/ (call # NoCall /\ call.step = "price" /\ t = Current)

KnownInv ==
    /\ all \subseteq Txs
    /\ IsABag(priced) /\ BagToSet(priced) \subseteq Txs
    /\ \A list \in Lists : list.txs \subseteq all
    /\ PricedInv

Inv ==
    /\ CallInv /\ BatchInv /\ ExecInv /\ HeadInv
    /\ ListInv /\ NonceInv /\ KnownInv /\ InsertInv
    /\ unannounced \subseteq Txs

LEMMA TaggedSeqs == Seq(Tagged) \subseteq Seq(Txs) /\ Seq(Seq(Tagged)) \subseteq Seq(Seq(Txs))
  <1>1. ASSUME NEW S, NEW T, S \subseteq T
        PROVE  Seq(S) \subseteq Seq(T)
    <2> SUFFICES ASSUME NEW s \in Seq(S) PROVE s \in Seq(T)
      OBVIOUS
    <2>1. Len(s) \in Nat /\ s \in [1..Len(s) -> S]
      BY LenProperties
    <2>2. s \in [1..Len(s) -> T]
      BY <1>1, <2>1
    <2> QED
      BY <2>1, <2>2
  <1>2. Tagged \subseteq Txs
    BY ParallelPoolAssumption
  <1>3. Seq(Tagged) \subseteq Seq(Txs)
    BY <1>1, <1>2
  <1> QED
    BY <1>1, <1>3

LEMMA BatchTyped ==
    ASSUME BatchInv
    PROVE  parallelizableTxs \in [Accounts -> Seq(Txs)] /\ batchedTxs \in Seq(Seq(Txs))
  <1>1. batchedTxs \in Seq(Seq(Txs))
    BY TaggedSeqs DEF BatchInv
  <1>2. parallelizableTxs \in [Accounts -> Seq(Txs)]
    BY TaggedSeqs DEF BatchInv
  <1> QED
    BY <1>1, <1>2

LEMMA IdleTyped == Idle \in Removals
  BY DEF Idle, Removals

LEMMA InvTyped == Inv => TypeOK
  <1> SUFFICES ASSUME Inv PROVE TypeOK
    OBVIOUS
  <1>1. \A list \in Lists : list \in ListType
    BY DEF Inv, ListInv, Lists
  <1>2. call \in Calls \cup {NoCall} /\ unannounced \subseteq Txs
    BY DEF Inv, CallInv
  <1>3. currentState \in State /\ locals \subseteq Accounts
    BY DEF Inv, HeadInv
  <1>4. /\ parallelizableTxs \in [Accounts -> Seq(Txs)] /\ batchedTxs \in Seq(Seq(Txs))
        /\ batchSize \in 1..MaxBatchSize /\ resizing \in BOOLEAN
    BY BatchTyped DEF Inv, BatchInv
  <1>5. /\ toExecute \in Seq(Seq(Txs))
        /\ toExecute # <<>> => results \subseteq DOMAIN Head(toExecute)
        /\ removing \in Removals /\ (removing = Idle \/ removing.index \in results)
    BY TaggedSeqs, IdleTyped DEF Inv, ExecInv
  <1>6. all \subseteq Txs /\ IsABag(priced) /\ BagToSet(priced) \subseteq Txs
    BY DEF Inv, KnownInv
  <1> QED
    BY <1>1, <1>2, <1>3, <1>4, <1>5, <1>6 DEF TypeOK

LEMMA InvInit == Init => Inv
  <1> SUFFICES ASSUME Init PROVE Inv
    OBVIOUS
  <1> USE ParallelPoolAssumption
  <1>1. CallInv /\ InsertInv /\ unannounced \subseteq Txs
    BY DEF Init, CallInv, InsertInv
  <1>2. BatchInv
    <2>1. resizing \in BOOLEAN
      BY DEF Init
    <2> QED
      BY <2>1 DEF Init, BatchInv
  <1>3. ExecInv
    BY DEF Init, ExecInv
  <1>4. HeadInv
    BY DEF Init, HeadInv
  <1>5. /\ pending \in [Accounts -> ListType] /\ queue \in [Accounts -> ListType]
        /\ \A a \in Accounts : pending[a] = NewList /\ queue[a] = NewList
    BY NewListOK DEF Init
  <1>6. ListInv
    <2>1. ListsConsistent
      BY <1>5, NewListOK DEF ListsConsistent, Lists
    <2>2. OwnLists
      BY <1>5 DEF OwnLists, NewList
    <2> QED
      BY <1>5, <2>1, <2>2 DEF ListInv
  <1>7. KnownInv
    <2>1. DOMAIN priced = {} /\ IsABag(priced) /\ all = {}
      BY DEF Init, IsABag, EmptyBag, SetToBag
    <2>2. \A list \in Lists : list.txs = {}
      BY <1>5 DEF Lists, NewList
    <2> QED
      BY <2>1, <2>2 DEF KnownInv, PricedInv, BagToSet
  <1>8. NonceInv
    BY <1>5 DEF NonceInv, NewList
  <1> QED
    BY <1>1, <1>2, <1>3, <1>4, <1>6, <1>7, <1>8 DEF Inv
-----------------------------------------------------------------------------
(* The calls.                                                              *)

(* The transaction a running call is at.                                   *)
LEMMA CurrentOK ==
    ASSUME CallInv, NEW step, Running(step)
    PROVE  /\ Current \in Txs /\ Current \in ToSet(call.txs)
           /\ call \in Calls /\ call # NoCall /\ call.step = step
           /\ call.txs \in Seq(Txs) /\ call.next \in 1..Len(call.txs)
  BY DEF CallInv, Running, Current, Calls, ToSet

(* A call goes from one step to another and stays where it is.             *)
LEMMA StepTo ==
    ASSUME call \in Calls, call' = [call EXCEPT !.step = "price"]
             \/ call' = [call EXCEPT !.step = "list"] \/ call' = [call EXCEPT !.step = "fill"]
             \/ call' = [call EXCEPT !.step = "broken"] \/ call' = [call EXCEPT !.step = "batch"]
    PROVE  /\ call' \in Calls /\ call' # NoCall /\ call'.step # "add"
           /\ call'.kind = call.kind /\ call'.txs = call.txs /\ call'.next = call.next
           /\ Current' = Current
  <1>1. NoCall \notin Calls
    BY ParallelPoolAssumption
  <1>2. PICK s \in {"price", "list", "fill", "broken", "batch"} :
           call' = [call EXCEPT !.step = s]
    OBVIOUS
  <1>3. /\ call' \in Calls /\ call'.step = s
        /\ call'.kind = call.kind /\ call'.txs = call.txs /\ call'.next = call.next
    BY <1>2 DEF Calls
  <1> QED
    BY <1>1, <1>3 DEF Current

LEMMA CallNext == Inv /\ [Next]_vars => CallInv' /\ (unannounced \subseteq Txs)'
  <1> SUFFICES ASSUME Inv, [Next]_vars
               PROVE  CallInv' /\ (unannounced \subseteq Txs)'
    OBVIOUS
  <1>0. CallInv /\ unannounced \subseteq Txs
    BY DEF Inv
  <1>a. NoCall \notin Calls
    BY ParallelPoolAssumption
  <1>1. ASSUME UNCHANGED <<call, unannounced>>
        PROVE  CallInv' /\ (unannounced \subseteq Txs)'
    BY <1>0, <1>1 DEF CallInv
  <1>2. ASSUME NEW kind \in {"Add", "Process"}, NEW txs \in Seq(Txs), NEW local \in BOOLEAN,
               kind = "Process" => Len(txs) = 1, Begin(kind, txs, local)
        PROVE  CallInv' /\ (unannounced \subseteq Txs)'
    <2>1. /\ unannounced' = {}
          /\ call' = [kind |-> kind, txs |-> txs, local |-> local, next |-> 1, step |-> "add"]
      BY <1>2 DEF Begin
    <2>2. /\ call' \in Calls /\ call'.next = 1 /\ call'.kind = kind /\ call'.txs = txs
          /\ call'.step = "add"
      BY <2>1 DEF Calls
    <2> QED
      BY <1>0, <1>2, <1>a, <2>1, <2>2 DEF CallInv
  <1>3. CASE BeginAdd
    <2>1. PICK c \in Adds : Begin("Add", c.txs, c.local)
      BY <1>3 DEF BeginAdd
    <2>2. c.txs \in Seq(Txs) /\ c.local \in BOOLEAN
      BY ParallelPoolAssumption
    <2> QED
      BY <1>2, <2>1, <2>2
  <1>4. CASE BeginProcess
    <2>1. PICK c \in Submissions : Begin("Process", <<c.tx>>, c.local)
      BY <1>4 DEF BeginProcess
    <2>2. c.tx \in Txs /\ c.local \in BOOLEAN
      BY ParallelPoolAssumption
    <2>3. <<c.tx>> \in Seq(Txs) /\ Len(<<c.tx>>) = 1
      BY <2>2
    <2> QED
      BY <1>2, <2>1, <2>2, <2>3
  <1>5. CASE RejectTx
    <2>1. /\ call \in Calls /\ call # NoCall /\ call.step = "add"
          /\ call.next \in 1..Len(call.txs)
      BY <1>0, <1>5, CurrentOK DEF RejectTx
    <2>2. unannounced' = unannounced
      BY <1>5 DEF RejectTx
    <2>3. CASE call.kind = "Process"
      <3>1. call' = NoCall
        BY <1>5, <2>3 DEF RejectTx
      <3> QED
        BY <1>0, <2>2, <3>1 DEF CallInv
    <2>4. CASE call.kind # "Process"
      <3>1. call' = [call EXCEPT !.next = @ + 1]
        BY <1>5, <2>4 DEF RejectTx
      <3>2. /\ call' \in Calls /\ call'.kind = call.kind /\ call'.txs = call.txs
            /\ call'.next >= 1 /\ call'.step = "add"
        BY <2>1, <3>1 DEF Calls
      <3> QED
        BY <1>0, <1>a, <2>1, <2>2, <2>4, <3>2 DEF CallInv
    <2> QED
      BY <2>3, <2>4
  (* A step inside add that inserts nothing, and one that does.            *)
  <1>6. ASSUME NEW step, Running(step), step # "batch", unannounced' = unannounced,
               \/ call' = [call EXCEPT !.step = "price"]
               \/ call' = [call EXCEPT !.step = "list"]
               \/ call' = [call EXCEPT !.step = "fill"]
               \/ call' = [call EXCEPT !.step = "broken"]
        PROVE  CallInv' /\ (unannounced \subseteq Txs)'
    <2>1. /\ call \in Calls /\ call # NoCall /\ call.step # "batch"
          /\ call.next \in 1..Len(call.txs)
      BY <1>0, <1>6, CurrentOK
    <2>2. /\ call' \in Calls /\ call'.kind = call.kind /\ call'.txs = call.txs
          /\ call'.next = call.next
      BY <1>6, <2>1, StepTo
    <2> QED
      BY <1>0, <1>6, <2>1, <2>2 DEF CallInv
  <1>7. CASE AppendTagged \/ InsertTx
    <2>1. /\ call \in Calls /\ call # NoCall /\ call.next \in 1..Len(call.txs)
          /\ Current \in ToSet(call.txs) /\ Current \in Txs
      BY <1>0, <1>7, CurrentOK DEF AppendTagged, InsertTx
    <2>2. unannounced' = unannounced \cup {Current} /\ call' = [call EXCEPT !.step = "batch"]
      BY <1>7 DEF AppendTagged, InsertTx
    <2>3. /\ call' \in Calls /\ call'.kind = call.kind /\ call'.txs = call.txs
          /\ call'.next = call.next /\ call'.step = "batch"
      BY <2>1, <2>2 DEF Calls
    <2> QED
      BY <1>0, <1>a, <2>1, <2>2, <2>3 DEF CallInv
  <1>8. CASE BatchTx
    <2>1. /\ call \in Calls /\ call # NoCall /\ call.next \in 1..Len(call.txs)
      BY <1>0, <1>8, CurrentOK DEF BatchTx
    <2>2. unannounced' = unannounced /\ call' = [call EXCEPT !.next = @ + 1, !.step = "add"]
      BY <1>8 DEF BatchTx
    <2>3. /\ call' \in Calls /\ call' # NoCall /\ call'.kind = call.kind
          /\ call'.txs = call.txs /\ call'.next >= 1 /\ ~(call'.next = 1)
          /\ call'.step = "add"
      <3>1. /\ call' \in Calls /\ call'.step = "add"
        <4>1. call' = [kind |-> call.kind, txs |-> call.txs, local |-> call.local,
                       next |-> call.next + 1, step |-> "add"]
          BY <2>1, <2>2 DEF Calls
        <4>2. call.local \in BOOLEAN
          BY <2>1 DEF Calls
        <4> QED
          BY <2>1, <4>1, <4>2 DEF Calls
      <3>2. /\ call'.kind = call.kind /\ call'.txs = call.txs /\ call'.next = call.next + 1
            /\ call.next \in Nat
        BY <2>1, <2>2 DEF Calls
      <3>3. call.next >= 1
        BY <2>1, <1>0 DEF CallInv
      <3> QED
        BY <1>a, <3>1, <3>2, <3>3
    <2>4. /\ unannounced \subseteq ToSet(call.txs)
          /\ call.kind = "Process" => Len(call.txs) = 1
      BY <1>0, <2>1 DEF CallInv
    <2>5. CallInv'
      BY <2>2, <2>3, <2>4 DEF CallInv
    <2> QED
      BY <1>0, <2>2, <2>5
  <1>9. ASSUME call' = NoCall, unannounced' \subseteq unannounced \/ unannounced' = {}
        PROVE  CallInv' /\ (unannounced \subseteq Txs)'
    BY <1>0, <1>9 DEF CallInv
  <1>10. CASE EndCall \/ ConcurrentMapWrites \/ NilList
    <2>1. call' = NoCall /\ (unannounced' \subseteq unannounced \/ unannounced' = {})
      BY <1>10 DEF EndCall, ConcurrentMapWrites, NilList, Restarted
    <2> QED
      BY <1>9, <2>1
  <1>11. CASE IndexTx \/ PriceTx \/ OpenList
    <2>1. CASE IndexTx
      BY <1>6, <2>1 DEF IndexTx
    <2>2. CASE PriceTx
      BY <1>6, <2>2 DEF PriceTx
    <2>3. CASE OpenList
      BY <1>6, <2>3 DEF OpenList
    <2> QED
      BY <1>11, <2>1, <2>2, <2>3
  <1>12. CASE DropPending \/ DropQueue
    <2>1. PICK a, inPending : DropList(a, inPending)
      BY <1>12 DEF DropPending, DropQueue
    <2>2. unannounced' = unannounced
      BY <1>12 DEF DropPending, DropQueue
    <2>3. CASE Filling(a, inPending)
      <3>1. Running("fill") /\ call' = [call EXCEPT !.step = "broken"]
        BY <2>1, <2>3 DEF DropList, Filling
      <3> QED
        BY <1>6, <2>2, <3>1
    <2>4. CASE ~Filling(a, inPending)
      <3>1. call' = call
        BY <2>1, <2>4 DEF DropList
      <3> QED
        BY <1>1, <2>2, <3>1
    <2> QED
      BY <2>3, <2>4
  <1>13. CASE Reset \/ Clear \/ (\E size \in Sizes : SetBatchSize(size)) \/ Rebatch
                \/ ExecuteBatches \/ StartBatch \/ SkipBatch \/ CollectResult
                \/ RemovePriced \/ RemovePending \/ RemoveQueue
    <2>1. UNCHANGED <<call, unannounced>>
      BY <1>13 DEF Reset, Clear, SetBatchSize, Rebatch, ExecuteBatches,
         StartBatch, SkipBatch, CollectResult, RemovePriced, RemovePending, RemoveQueue
    <2> QED
      BY <1>1, <2>1
  <1>14. CASE UNCHANGED vars
    BY <1>1, <1>14 DEF vars
  <1> QED
    BY <1>3, <1>4, <1>5, <1>7, <1>8, <1>10, <1>11, <1>12, <1>13, <1>14
       DEF Next, Adder, Executor, Remover
-----------------------------------------------------------------------------
(* The batches.                                                            *)

LEMMA ChunksType ==
    ASSUME NEW S, NEW txs \in Seq(S), NEW size \in Nat \ {0}
    PROVE  Chunks(txs, size) \in Seq(Seq(S))
  <1> DEFINE k == (Len(txs) + size - 1) \div size
             Row(i) == SubSeq(txs, (i - 1) * size + 1,
                              IF i * size < Len(txs) THEN i * size ELSE Len(txs))
  <1>1. k \in Nat
    OBVIOUS
  <1>2. ASSUME NEW i \in 1..k
        PROVE  Row(i) \in Seq(S)
    <2> DEFINE from == (i - 1) * size + 1
               to == IF i * size < Len(txs) THEN i * size ELSE Len(txs)
    <2>1. (i - 1) * size \in Nat /\ i * size \in Nat
      BY <1>1
    <2>2. from \in Int /\ from >= 1 /\ to \in Int /\ to <= Len(txs)
      BY <2>1
    <2> HIDE DEF from, to
    <2>3. \A j \in from..to : txs[j] \in S
      BY <2>2
    <2>4. SubSeq(txs, from, to) \in Seq(S)
      BY <2>2, <2>3, SubSeqProperties
    <2> QED
      BY <2>4 DEF from, to
  <1> HIDE DEF k, Row
  <1>3. [i \in 1..k |-> Row(i)] \in Seq(Seq(S))
    BY <1>1, <1>2
  <1> QED
    BY <1>3 DEF Chunks, k, Row

(* The transactions of all accounts in some order of the accounts.         *)
LEMMA RowsType ==
    ASSUME NEW S, parallelizableTxs \in [Accounts -> Seq(S)],
           NEW order \in SetToSeqs(Accounts)
    PROVE  /\ order \in [1..Cardinality(Accounts) -> Accounts]
           /\ Cardinality(Accounts) \in Nat
           /\ [i \in DOMAIN order |-> parallelizableTxs[order[i]]] \in Seq(Seq(S))
  <1>1. Cardinality(Accounts) \in Nat
    BY ParallelPoolAssumption, FS_CardinalityType
  <1>2. order \in [1..Cardinality(Accounts) -> Accounts]
    BY DEF SetToSeqs
  <1> DEFINE c == Cardinality(Accounts)
             rows == [i \in 1..c |-> parallelizableTxs[order[i]]]
  <1>3. rows \in Seq(Seq(S))
    <2>1. \A i \in 1..c : parallelizableTxs[order[i]] \in Seq(S)
      BY <1>2
    <2> QED
      BY <1>1, <2>1
  <1>4. DOMAIN order = 1..c
    BY <1>2
  <1> QED
    BY <1>1, <1>2, <1>3, <1>4, Zenon

LEMMA PrepareBatchesType ==
    ASSUME BatchInv, PrepareBatches
    PROVE  batchedTxs' \in Seq(Seq(Tagged))
  <1>1. CASE \A a \in Accounts : parallelizableTxs[a] = <<>>
    BY <1>1 DEF PrepareBatches, BatchInv
  <1>2. CASE ~\A a \in Accounts : parallelizableTxs[a] = <<>>
    <2>1. PICK order \in SetToSeqs(Accounts) :
            batchedTxs' = Chunks(FlattenSeq([i \in DOMAIN order |->
                                                parallelizableTxs[order[i]]]), batchSize)
      BY <1>2 DEF PrepareBatches
    <2> DEFINE rows == [i \in DOMAIN order |-> parallelizableTxs[order[i]]]
    <2>2. rows \in Seq(Seq(Tagged))
      BY RowsType DEF BatchInv
    <2> HIDE DEF rows
    <2>3. FlattenSeq(rows) \in Seq(Tagged)
      <3>1. PICK g \in [0..Len(rows) -> Seq(Tagged)] : FlattenSeq(rows) = g[Len(rows)]
        BY <2>2, FlattenChain
      <3>2. Len(rows) \in Nat
        BY <2>2
      <3> QED
        BY <3>1, <3>2
    <2>4. batchSize \in Nat \ {0}
      BY ParallelPoolAssumption DEF BatchInv
    <2> QED
      BY <2>1, <2>3, <2>4, ChunksType DEF rows
  <1> QED
    BY <1>1, <1>2

LEMMA BatchNext == Inv /\ [Next]_vars => BatchInv'
  <1> SUFFICES ASSUME Inv, [Next]_vars PROVE BatchInv'
    OBVIOUS
  <1>0. BatchInv /\ CallInv
    BY DEF Inv
  <1>1. ASSUME UNCHANGED <<batchVars, resizing>>
        PROVE  BatchInv'
    BY <1>0, <1>1 DEF BatchInv, batchVars
  <1>2. CASE AppendTagged
    <2>1. /\ parallelizableTxs' =
                 [parallelizableTxs EXCEPT ![From[Current]] = Append(@, Current)]
          /\ UNCHANGED <<batchedTxs, batchSize, resizing>>
      BY <1>2 DEF AppendTagged
    <2>2. Current \in Txs /\ Current \in Tagged
      BY <1>0, <1>2, CurrentOK DEF AppendTagged
    <2>3. parallelizableTxs' \in [Accounts -> Seq(Tagged)]
      <3>1. From[Current] \in Accounts
        BY <2>2, ParallelPoolAssumption
      <3>2. parallelizableTxs \in [Accounts -> Seq(Tagged)]
        BY <1>0 DEF BatchInv
      <3>3. Append(parallelizableTxs[From[Current]], Current) \in Seq(Tagged)
        BY <2>2, <3>1, <3>2
      <3> QED
        BY <2>1, <3>2, <3>3
    <2> QED
      BY <1>0, <2>1, <2>3 DEF BatchInv
  <1>3. CASE BatchTx
    <2>1. batchedTxs' \in Seq(Seq(Tagged))
      BY <1>0, <1>3, PrepareBatchesType DEF BatchTx
    <2> QED
      BY <1>0, <1>3, <2>1 DEF BatchTx, BatchInv
  <1>4. CASE Rebatch
    <2>1. batchedTxs' \in Seq(Seq(Tagged)) /\ resizing' = FALSE
      BY <1>0, <1>4, PrepareBatchesType DEF Rebatch
    <2>2. resizing' \in BOOLEAN
      BY <2>1
    <2> QED
      BY <1>0, <1>4, <2>1, <2>2 DEF Rebatch, BatchInv
  <1>5. ASSUME NEW size \in Sizes, SetBatchSize(size)
        PROVE  BatchInv'
    <2>1. batchSize' \in 1..MaxBatchSize
      BY <1>5, ParallelPoolAssumption DEF SetBatchSize
    <2>2. resizing' \in BOOLEAN
      BY <1>5 DEF SetBatchSize
    <2> QED
      BY <1>0, <1>5, <2>1, <2>2 DEF SetBatchSize, BatchInv
  <1>6. ASSUME Restarted
        PROVE  BatchInv'
    <2>1. resizing' \in BOOLEAN
      BY <1>6 DEF Restarted
    <2> QED
      BY <1>6, <2>1, ParallelPoolAssumption DEF Restarted, BatchInv
  <1>7. CASE ConcurrentMapWrites \/ NilList
    <2>1. Restarted \/ UNCHANGED <<batchVars, resizing>>
      BY <1>7 DEF ConcurrentMapWrites, NilList
    <2> QED
      BY <1>1, <1>6, <2>1
  <1>8. CASE BeginAdd \/ BeginProcess \/ RejectTx \/ IndexTx \/ PriceTx \/ OpenList
                \/ InsertTx \/ EndCall \/ Reset \/ Clear
    <2>1. UNCHANGED <<batchVars, resizing>>
      BY <1>8 DEF BeginAdd, BeginProcess, Begin, RejectTx, IndexTx, PriceTx, OpenList,
         InsertTx, EndCall, Reset, Clear
    <2> QED
      BY <1>1, <2>1
  <1>9. CASE ExecuteBatches \/ Executor \/ UNCHANGED vars
    <2>1. UNCHANGED <<batchVars, resizing>>
      BY <1>9 DEF ExecuteBatches, Executor, StartBatch, SkipBatch, CollectResult, Remover,
         RemovePriced, RemovePending, DropPending, RemoveQueue, DropQueue, vars
    <2> QED
      BY <1>1, <2>1
  <1> QED
    BY <1>2, <1>3, <1>4, <1>5, <1>7, <1>8, <1>9 DEF Next, Adder

LEMMA ExecNext == Inv /\ [Next]_vars => ExecInv'
  <1> SUFFICES ASSUME Inv, [Next]_vars PROVE ExecInv'
    OBVIOUS
  <1>0. ExecInv /\ BatchInv
    BY DEF Inv
  <1>1. CASE ExecuteBatches
    <2>1. results = {}
      BY <1>0, <1>1 DEF ExecuteBatches, ExecInv
    <2>2. removing = Idle
      BY <1>0, <2>1 DEF ExecInv
    <2> QED
      BY <1>0, <1>1, <2>1, <2>2 DEF ExecuteBatches, ExecInv, BatchInv
  <1>2. CASE StartBatch
    <2>1. removing = Idle
      BY <1>0, <1>2 DEF StartBatch, ExecInv
    <2> QED
      BY <1>0, <1>2, <2>1 DEF StartBatch, ExecInv
  <1>3. CASE SkipBatch
    <2>1. Tail(toExecute) \in Seq(Seq(Tagged))
      BY <1>0, <1>3 DEF SkipBatch, ExecInv
    <2>2. removing = Idle
      BY <1>0, <1>3 DEF SkipBatch, ExecInv
    <2> QED
      BY <1>3, <2>1, <2>2 DEF SkipBatch, ExecInv
  <1>4. ASSUME NEW i \in results, Collected(i)
        PROVE  ExecInv'
    <2>1. /\ results' = results \ {i} /\ removing' = Idle
          /\ toExecute' = IF results' = {} THEN Tail(toExecute) ELSE toExecute
      BY <1>4 DEF Collected
    <2>2. toExecute # <<>>
      BY <1>0 DEF ExecInv
    <2>3. Tail(toExecute) \in Seq(Seq(Tagged))
      BY <1>0, <2>2 DEF ExecInv
    <2>4. CASE results' = {}
      BY <2>1, <2>3, <2>4 DEF ExecInv
    <2>5. CASE results' # {}
      BY <1>0, <2>1, <2>2, <2>5 DEF ExecInv
    <2> QED
      BY <2>4, <2>5
  <1>5. ASSUME NEW i \in results, UNCHANGED <<toExecute, results>>,
               removing' \in Removals, removing'.index = i
        PROVE  ExecInv'
    BY <1>0, <1>5 DEF ExecInv
  (* removeTx goes from one step to another.                               *)
  <1>6. ASSUME removing.step # "none", UNCHANGED <<toExecute, results>>,
               NEW s \in {"pending", "dropPending", "queue", "dropQueue"},
               removing' = [removing EXCEPT !.step = s]
        PROVE  ExecInv'
    <2>1. removing \in Removals /\ removing.index \in results
      BY <1>0, <1>6 DEF ExecInv, Idle
    <2>2. removing' \in Removals /\ removing'.index = removing.index
      BY <1>6, <2>1 DEF Removals
    <2> QED
      BY <1>5, <1>6, <2>1, <2>2
  <1>7. CASE CollectResult
    <2>1. PICK i \in results :
            \/ removing' = [index |-> i, step |-> "priced"] /\ UNCHANGED <<results, toExecute>>
            \/ Collected(i)
      BY <1>7 DEF CollectResult
    <2>2. CASE Collected(i)
      BY <1>4, <2>2
    <2>3. CASE removing' = [index |-> i, step |-> "priced"] /\ UNCHANGED <<results, toExecute>>
      <3>1. i \in Nat
        <4>1. toExecute # <<>> /\ i \in DOMAIN Head(toExecute)
          BY <1>0 DEF ExecInv
        <4>2. Head(toExecute) \in Seq(Tagged)
          BY <1>0, <4>1 DEF ExecInv
        <4> QED
          BY <4>1, <4>2
      <3>2. removing' \in Removals /\ removing'.index = i
        BY <2>3, <3>1 DEF Removals
      <3> QED
        BY <1>5, <2>3, <3>2
    <2> QED
      BY <2>1, <2>2, <2>3
  <1>8. CASE RemovePriced \/ RemovePending \/ DropPending
    <2>1. removing.step # "none" /\ UNCHANGED <<toExecute, results>>
      BY <1>8 DEF RemovePriced, RemovePending, DropPending
    <2>2. \/ removing' = [removing EXCEPT !.step = "pending"]
          \/ removing' = [removing EXCEPT !.step = "dropPending"]
          \/ removing' = [removing EXCEPT !.step = "queue"]
      BY <1>8 DEF RemovePriced, RemovePending, DropPending
    <2> QED
      BY <1>6, <2>1, <2>2
  <1>9. CASE RemoveQueue \/ DropQueue
    <2>1. removing.step # "none"
      BY <1>9 DEF RemoveQueue, DropQueue
    <2>2. removing.index \in results
      BY <1>0, <2>1 DEF ExecInv, Idle
    <2>3. \/ removing' = [removing EXCEPT !.step = "dropQueue"] /\ UNCHANGED <<toExecute, results>>
          \/ Collected(removing.index)
      BY <1>9 DEF RemoveQueue, DropQueue
    <2> QED
      BY <1>4, <1>6, <2>1, <2>2, <2>3
  <1>10. ASSUME Restarted
         PROVE  ExecInv'
    BY <1>10 DEF Restarted, ExecInv
  <1>11. ASSUME UNCHANGED execVars
         PROVE  ExecInv'
    BY <1>0, <1>11 DEF ExecInv, execVars
  <1>12. CASE ConcurrentMapWrites \/ NilList
    <2>1. Restarted \/ UNCHANGED execVars
      BY <1>12 DEF ConcurrentMapWrites, NilList
    <2> QED
      BY <1>10, <1>11, <2>1
  <1>13. CASE BeginAdd \/ BeginProcess \/ RejectTx \/ IndexTx \/ PriceTx \/ AppendTagged
                \/ OpenList \/ InsertTx \/ BatchTx \/ EndCall \/ Reset \/ Clear
                \/ (\E size \in Sizes : SetBatchSize(size)) \/ Rebatch \/ UNCHANGED vars
    <2>1. UNCHANGED execVars
      BY <1>13 DEF BeginAdd, BeginProcess, Begin, RejectTx, IndexTx, PriceTx, AppendTagged,
         OpenList, InsertTx, BatchTx, EndCall, Reset, Clear, SetBatchSize, Rebatch, vars
    <2> QED
      BY <1>11, <2>1
  <1> QED
    BY <1>1, <1>2, <1>3, <1>7, <1>8, <1>9, <1>12, <1>13 DEF Next, Adder, Executor, Remover

LEMMA HeadNext == Inv /\ [Next]_vars => HeadInv'
  <1> SUFFICES ASSUME Inv, [Next]_vars PROVE HeadInv'
    OBVIOUS
  <1>0. HeadInv /\ CallInv
    BY DEF Inv
  <1>1. \A s \in HeadStates : s \in State
    BY ParallelPoolAssumption
  <1>2. CASE BatchTx
    <2>1. From[Current] \in Accounts
      BY <1>0, <1>2, CurrentOK, ParallelPoolAssumption DEF BatchTx
    <2> QED
      BY <1>0, <1>2, <2>1 DEF BatchTx, HeadInv
  <1>3. ASSUME UNCHANGED <<currentState, locals>>
        PROVE  HeadInv'
    BY <1>0, <1>3 DEF HeadInv
  <1>4. CASE Reset
    BY <1>0, <1>1, <1>4 DEF Reset, HeadInv
  <1>5. CASE ConcurrentMapWrites \/ NilList
    <2>1. Restarted \/ UNCHANGED <<currentState, locals>>
      BY <1>5 DEF ConcurrentMapWrites, NilList, poolVars
    <2>2. ASSUME Restarted PROVE HeadInv'
      BY <1>1, <2>2 DEF Restarted, HeadInv
    <2> QED
      BY <1>3, <2>1, <2>2
  <1>6. CASE BeginAdd \/ BeginProcess \/ RejectTx \/ IndexTx \/ PriceTx \/ AppendTagged
                \/ OpenList \/ InsertTx \/ EndCall \/ Clear
                \/ (\E size \in Sizes : SetBatchSize(size)) \/ Rebatch
    <2>1. UNCHANGED <<currentState, locals>>
      BY <1>6 DEF BeginAdd, BeginProcess, Begin, RejectTx, IndexTx, PriceTx, AppendTagged,
         OpenList, InsertTx, EndCall, Clear, SetBatchSize, Rebatch, poolVars
    <2> QED
      BY <1>3, <2>1
  <1>7. CASE ExecuteBatches \/ Executor \/ UNCHANGED vars
    <2>1. UNCHANGED <<currentState, locals>>
      BY <1>7 DEF ExecuteBatches, Executor, StartBatch, SkipBatch, CollectResult, Remover,
         RemovePriced, RemovePending, DropPending, RemoveQueue, DropQueue, vars, poolVars
    <2> QED
      BY <1>3, <2>1
  <1> QED
    BY <1>2, <1>4, <1>5, <1>6, <1>7 DEF Next, Adder

-----------------------------------------------------------------------------
(* The lists, the lookup and the price list.                               *)

(* Reset, Clear and a restart empty them together.                         *)
LEMMA Emptied ==
    ASSUME pending' = [a \in Accounts |-> NewList],
           queue' = [a \in Accounts |-> NewList],
           all' = {}, priced' = EmptyBag
    PROVE  ListInv' /\ KnownInv' /\ NonceInv'
  <1>1. /\ pending' \in [Accounts -> ListType] /\ queue' \in [Accounts -> ListType]
        /\ \A a \in Accounts : pending'[a] = NewList /\ queue'[a] = NewList
    BY NewListOK
  <1>2. ListsConsistent'
    BY <1>1, NewListOK DEF ListsConsistent, Lists
  <1>3. OwnLists'
    BY <1>1 DEF OwnLists, NewList
  <1>4. DOMAIN priced' = {} /\ IsABag(priced')
    BY DEF IsABag, EmptyBag, SetToBag
  <1>5. \A list \in Lists' : list.txs = {}
    BY <1>1 DEF Lists, NewList
  <1>6. KnownInv'
    BY <1>4, <1>5 DEF KnownInv, PricedInv, BagToSet
  <1>7. NonceInv'
    BY <1>1 DEF NonceInv, NewList
  <1> QED
    BY <1>1, <1>2, <1>3, <1>6, <1>7 DEF ListInv

LEMMA PricedOK ==
    ASSUME IsABag(priced), NEW t
    PROVE  /\ IsABag(priced (+) SetToBag({t}))
           /\ BagToSet(priced (+) SetToBag({t})) = BagToSet(priced) \cup {t}
           /\ IsABag(priced (-) SetToBag({t}))
           /\ BagToSet(priced (-) SetToBag({t})) \subseteq BagToSet(priced)
           /\ BagToSet(priced) \ {t} \subseteq BagToSet(priced (-) SetToBag({t}))
  <1>1. priced \in [DOMAIN priced -> {n \in Nat : n > 0}]
    BY DEF IsABag
  <1> DEFINE more == priced (+) SetToBag({t})
             less == priced (-) SetToBag({t})
             left == [e \in DOMAIN priced |-> IF e = t THEN priced[e] - 1 ELSE priced[e]]
  <1>2. more = [e \in DOMAIN priced \cup {t} |->
                   (IF e \in DOMAIN priced THEN priced[e] ELSE 0)
                       + (IF e \in {t} THEN 1 ELSE 0)]
    BY DEF (+), SetToBag
  <1>3. IsABag(more) /\ BagToSet(more) = BagToSet(priced) \cup {t}
    <2> HIDE DEF more
    <2> QED
      BY <1>1, <1>2 DEF IsABag, BagToSet
  <1>4. less = [e \in {d \in DOMAIN priced : left[d] > 0} |-> left[e]]
    BY DEF (-), SetToBag
  <1>5. IsABag(less) /\ DOMAIN less = {d \in DOMAIN priced : left[d] > 0}
    <2> HIDE DEF less
    <2> QED
      BY <1>1, <1>4 DEF IsABag
  <1>6. BagToSet(less) \subseteq BagToSet(priced) /\ BagToSet(priced) \ {t} \subseteq BagToSet(less)
    <2> HIDE DEF less
    <2> QED
      BY <1>1, <1>5 DEF BagToSet
  <1> QED
    BY <1>3, <1>5, <1>6

(* A step that changes each list to a consistent one of the same account.  *)
LEMMA ListsStep ==
    ASSUME pending' \in [Accounts -> ListType], queue' \in [Accounts -> ListType],
           \A a \in Accounts :
              /\ Consistent(pending'[a]) /\ Consistent(queue'[a])
              /\ \A t \in pending'[a].txs \cup queue'[a].txs : From[t] = a /\ t \notin Tagged
              /\ pending'[a].txs \cup queue'[a].txs \subseteq all'
    PROVE  ListInv' /\ \A list \in Lists' : list.txs \subseteq all'
  BY DEF ListInv, ListsConsistent, OwnLists, Lists

LEMMA ListFacts ==
    ASSUME ListInv, KnownInv
    PROVE  /\ pending \in [Accounts -> ListType] /\ queue \in [Accounts -> ListType]
           /\ \A a \in Accounts :
                 /\ Consistent(pending[a]) /\ Consistent(queue[a])
                 /\ \A t \in pending[a].txs \cup queue[a].txs : From[t] = a /\ t \notin Tagged
                 /\ pending[a].txs \cup queue[a].txs \subseteq all
           /\ all \subseteq Txs
           /\ IsABag(priced) /\ BagToSet(priced) \subseteq Txs
  BY DEF ListInv, KnownInv, ListsConsistent, OwnLists, Lists

(* A step that leaves the lists and the head alone.                        *)
LEMMA SameLists ==
    ASSUME ListInv, NonceInv, UNCHANGED <<currentState, pending, queue>>
    PROVE  ListInv' /\ NonceInv' /\ Lists' = Lists
  BY DEF ListInv, NonceInv, ListsConsistent, OwnLists, Lists

(* The call changes and nothing else that is known, other than by pricing. *)
LEMMA SameKnown ==
    ASSUME KnownInv, UNCHANGED <<all, priced>>, \A list \in Lists' : list.txs \subseteq all',
           call' = call \/ call = NoCall \/ call.step # "price"
    PROVE  KnownInv'
  <1>1. ASSUME NEW t \in all' \ Tagged
        PROVE  t \in BagToSet(priced')
                 \/ (call' # NoCall /\ call'.step = "price" /\ t = Current')
    <2>1. t \in BagToSet(priced) \/ (call # NoCall /\ call.step = "price" /\ t = Current)
      BY <1>1 DEF KnownInv, PricedInv
    <2>2. call' = call => Current' = Current
      BY DEF Current
    <2> QED
      BY <2>1, <2>2
  <1> QED
    BY <1>1 DEF KnownInv, PricedInv

LEMMA InsertKeepsLists ==
    ASSUME Inv, InsertTx
    PROVE  ListInv' /\ KnownInv' /\ NonceInv'
  <1> DEFINE t == Current
             a == From[t]
  <1>0. ListInv /\ KnownInv /\ NonceInv /\ CallInv /\ HeadInv /\ InsertInv
    BY DEF Inv
  <1>r. call # NoCall /\ call.step = "fill"
    BY DEF InsertTx, Running
  <1>1. t \in Txs /\ a \in Accounts /\ t \in all /\ t \notin Tagged
    <2>1. t \in Txs
      BY <1>0, CurrentOK DEF InsertTx
    <2>2. t \in all /\ t \notin Tagged
      BY <1>0, <1>r DEF InsertInv
    <2> QED
      BY <2>1, <2>2, ParallelPoolAssumption
  <1>2. all' = all /\ priced' = priced /\ currentState' = currentState
    BY DEF InsertTx
  <1>3. currentState.nonce[a] <= Nonce[t]
    BY <1>0, <1>r DEF InsertInv
  <1>4. currentState.nonce[a] \in Nat /\ Nonce[t] \in Nat
    <2>1. currentState.nonce \in [Accounts -> Nat]
      BY <1>0 DEF HeadInv, State
    <2> QED
      BY <1>1, <2>1, ParallelListAssumption
  <1>5. \/ /\ pending' = [pending EXCEPT ![a] = Add(pending[a], t)] /\ queue' = queue
           /\ currentState.nonce[a] = Nonce[t]
        \/ /\ queue' = [queue EXCEPT ![a] = Add(queue[a], t)] /\ pending' = pending
           /\ currentState.nonce[a] # Nonce[t]
    BY DEF InsertTx, IsNext
  <1> HIDE DEF t, a
  <1>6. /\ pending \in [Accounts -> ListType] /\ queue \in [Accounts -> ListType]
        /\ \A b \in Accounts :
              /\ Consistent(pending[b]) /\ Consistent(queue[b])
              /\ \A u \in pending[b].txs \cup queue[b].txs : From[u] = b /\ u \notin Tagged
              /\ pending[b].txs \cup queue[b].txs \subseteq all
    BY <1>0, ListFacts
  <1>7. \A list \in ListType : Consistent(list) =>
           /\ Add(list, t) \in ListType /\ Consistent(Add(list, t))
           /\ Add(list, t).txs \subseteq list.txs \cup {t}
           /\ DOMAIN Add(list, t).items \subseteq DOMAIN list.items \cup {Nonce[t]}
    BY <1>1, AddOK
  <1>8. /\ pending' \in [Accounts -> ListType] /\ queue' \in [Accounts -> ListType]
        /\ \A b \in Accounts :
              /\ Consistent(pending'[b]) /\ Consistent(queue'[b])
              /\ \A u \in pending'[b].txs \cup queue'[b].txs : From[u] = b /\ u \notin Tagged
              /\ pending'[b].txs \cup queue'[b].txs \subseteq all'
    <2>1. \A b \in Accounts : pending'[b] = pending[b] \/ (b = a /\ pending'[b] = Add(pending[b], t))
      BY <1>1, <1>5, <1>6
    <2>2. \A b \in Accounts : queue'[b] = queue[b] \/ (b = a /\ queue'[b] = Add(queue[b], t))
      BY <1>1, <1>5, <1>6
    <2>3. pending' \in [Accounts -> ListType] /\ queue' \in [Accounts -> ListType]
      BY <1>1, <1>5, <1>6, <1>7
    <2>4. From[t] = a
      BY DEF a
    <2>5. ASSUME NEW b \in Accounts
          PROVE  /\ Consistent(pending'[b]) /\ Consistent(queue'[b])
                 /\ pending'[b].txs \subseteq pending[b].txs \cup {t}
                 /\ queue'[b].txs \subseteq queue[b].txs \cup {t}
                 /\ b # a => pending'[b] = pending[b] /\ queue'[b] = queue[b]
      <3>1. pending[b] \in ListType /\ queue[b] \in ListType
        BY <1>6
      <3> QED
        BY <1>6, <1>7, <2>1, <2>2, <3>1
    <2>6. ASSUME NEW b \in Accounts, NEW u \in pending'[b].txs \cup queue'[b].txs
          PROVE  From[u] = b /\ u \notin Tagged /\ u \in all'
      <3>1. u \in pending[b].txs \cup queue[b].txs \/ (u = t /\ b = a)
        BY <2>5
      <3> QED
        BY <1>1, <1>2, <1>6, <2>4, <3>1
    <2> QED
      BY <2>3, <2>5, <2>6
  <1>9. ListInv' /\ \A list \in Lists' : list.txs \subseteq all'
    BY <1>8, ListsStep
  <1>10. KnownInv'
    <2>1. call.step # "price"
      BY <1>r
    <2> QED
      BY <1>0, <1>2, <1>9, <2>1, SameKnown
  <1>11. NonceInv'
    <2>1. ASSUME NEW b \in Accounts
          PROVE  /\ \A n \in DOMAIN pending'[b].items : n = currentState.nonce[b]
                 /\ \A n \in DOMAIN queue'[b].items : n > currentState.nonce[b]
      <3>1. /\ \A n \in DOMAIN pending[b].items : n = currentState.nonce[b]
            /\ \A n \in DOMAIN queue[b].items : n > currentState.nonce[b]
        BY <1>0 DEF NonceInv
      <3>2. /\ DOMAIN Add(pending[b], t).items \subseteq DOMAIN pending[b].items \cup {Nonce[t]}
            /\ DOMAIN Add(queue[b], t).items \subseteq DOMAIN queue[b].items \cup {Nonce[t]}
        BY <1>6, <1>7
      <3>3. currentState.nonce[a] = Nonce[t] \/ Nonce[t] > currentState.nonce[a]
        BY <1>3, <1>4 DEF t, a
      <3>4. \/ pending'[b] = pending[b] /\ queue'[b] = queue[b]
            \/ b = a /\ pending'[b] = Add(pending[b], t) /\ queue'[b] = queue[b]
                 /\ currentState.nonce[a] = Nonce[t]
            \/ b = a /\ queue'[b] = Add(queue[b], t) /\ pending'[b] = pending[b]
                 /\ currentState.nonce[a] # Nonce[t]
        BY <1>1, <1>5, <1>6
      <3> QED
        BY <3>1, <3>2, <3>3, <3>4
    <2> QED
      BY <1>2, <2>1 DEF NonceInv
  <1> QED
    BY <1>9, <1>10, <1>11

(* removeTx deletes lists, whatever they hold.                             *)
LEMMA DropKeepsLists ==
    ASSUME ListInv, KnownInv, NonceInv, NEW a \in Accounts,
           UNCHANGED <<currentState, all, priced>>,
           \/ pending' = [pending EXCEPT ![a] = NewList] /\ queue' = queue
           \/ queue' = [queue EXCEPT ![a] = NewList] /\ pending' = pending
    PROVE  ListInv' /\ NonceInv' /\ \A list \in Lists' : list.txs \subseteq all'
  <1>1. /\ pending \in [Accounts -> ListType] /\ queue \in [Accounts -> ListType]
        /\ \A b \in Accounts :
              /\ Consistent(pending[b]) /\ Consistent(queue[b])
              /\ \A u \in pending[b].txs \cup queue[b].txs : From[u] = b /\ u \notin Tagged
              /\ pending[b].txs \cup queue[b].txs \subseteq all
    BY ListFacts
  <1>2. /\ NewList \in ListType /\ Consistent(NewList)
        /\ NewList.txs = {} /\ DOMAIN NewList.items = {}
    BY NewListOK DEF NewList
  <1>3. pending' \in [Accounts -> ListType] /\ queue' \in [Accounts -> ListType]
    BY <1>1, <1>2
  <1>4. \A b \in Accounts : /\ pending'[b] = pending[b] \/ pending'[b] = NewList
                            /\ queue'[b] = queue[b] \/ queue'[b] = NewList
    BY <1>1
  <1>5. ASSUME NEW b \in Accounts
        PROVE  /\ Consistent(pending'[b]) /\ Consistent(queue'[b])
               /\ pending'[b].txs \subseteq pending[b].txs /\ queue'[b].txs \subseteq queue[b].txs
               /\ DOMAIN pending'[b].items \subseteq DOMAIN pending[b].items
               /\ DOMAIN queue'[b].items \subseteq DOMAIN queue[b].items
    BY <1>1, <1>2, <1>4
  <1>6. ListInv' /\ \A list \in Lists' : list.txs \subseteq all'
    <2>1. \A b \in Accounts :
              /\ \A u \in pending'[b].txs \cup queue'[b].txs : From[u] = b /\ u \notin Tagged
              /\ pending'[b].txs \cup queue'[b].txs \subseteq all'
      BY <1>1, <1>5
    <2> QED
      BY <1>3, <1>5, <2>1, ListsStep
  <1>7. NonceInv'
    BY <1>5 DEF NonceInv
  <1> QED
    BY <1>6, <1>7

(* What removeTx is removing is tagged.                                    *)
LEMMA RemovedOK ==
    ASSUME ExecInv
    PROVE  /\ \A i \in results : Head(toExecute)[i] \in Tagged
           /\ removing.step # "none" => Removed \in Tagged
  <1>1. ASSUME NEW i \in results
        PROVE  Head(toExecute)[i] \in Tagged
    <2>1. toExecute # <<>> /\ i \in DOMAIN Head(toExecute) /\ toExecute \in Seq(Seq(Tagged))
      BY DEF ExecInv
    <2>2. Head(toExecute) \in Seq(Tagged)
      BY <2>1
    <2> QED
      BY <2>1, <2>2
  <1>2. removing.step # "none" => removing.index \in results
    BY DEF ExecInv, Idle
  <1> QED
    BY <1>1, <1>2 DEF Removed

LEMMA ListsNext == Inv /\ [Next]_vars => ListInv' /\ KnownInv' /\ NonceInv'
  <1> SUFFICES ASSUME Inv, [Next]_vars PROVE ListInv' /\ KnownInv' /\ NonceInv'
    OBVIOUS
  <1>0. ListInv /\ KnownInv /\ NonceInv /\ ExecInv /\ CallInv
    BY DEF Inv
  <1>k. /\ all \subseteq Txs /\ IsABag(priced) /\ BagToSet(priced) \subseteq Txs
        /\ \A list \in Lists : list.txs \subseteq all
        /\ \A t \in all \ Tagged :
              t \in BagToSet(priced) \/ (call # NoCall /\ call.step = "price" /\ t = Current)
        /\ \A list \in Lists : \A t \in list.txs : t \notin Tagged
    BY <1>0 DEF KnownInv, PricedInv, ListInv, OwnLists, Lists
  (* Only the call changes, and it is not about to price.                  *)
  <1>1. ASSUME UNCHANGED <<currentState, pending, queue, all, priced>>,
               call' = call \/ call = NoCall \/ call.step # "price"
        PROVE  ListInv' /\ KnownInv' /\ NonceInv'
    <2>1. ListInv' /\ NonceInv' /\ Lists' = Lists
      BY <1>0, <1>1, SameLists
    <2>2. \A list \in Lists' : list.txs \subseteq all'
      BY <1>1, <1>k, <2>1
    <2> QED
      BY <1>0, <1>1, <2>1, <2>2, SameKnown
  <1>2. CASE IndexTx
    <2>1. /\ all' = all \cup {Current} /\ priced' = priced
          /\ UNCHANGED <<currentState, pending, queue>>
          /\ call' = [call EXCEPT !.step = "price"]
      BY <1>2 DEF IndexTx
    <2>2. Current \in Txs /\ call \in Calls /\ call.step = "add"
      BY <1>0, <1>2, CurrentOK DEF IndexTx
    <2>3. /\ call' # NoCall /\ Current' = Current
      BY <2>1, <2>2, StepTo
    <2>4. call'.step = "price"
      BY <2>1, <2>2 DEF Calls
    <2>5. ListInv' /\ NonceInv' /\ Lists' = Lists
      BY <1>0, <2>1, SameLists
    <2>6. PricedInv'
      BY <1>k, <2>1, <2>2, <2>3, <2>4 DEF PricedInv
    <2>7. all' \subseteq Txs /\ \A list \in Lists' : list.txs \subseteq all'
      BY <1>k, <2>1, <2>2, <2>5
    <2> QED
      BY <1>k, <2>1, <2>5, <2>6, <2>7 DEF KnownInv
  <1>3. CASE PriceTx
    <2>1. /\ priced' = priced (+) SetToBag({Current}) /\ all' = all
          /\ UNCHANGED <<currentState, pending, queue>>
      BY <1>3 DEF PriceTx
    <2>2. Current \in Txs
      BY <1>0, <1>3, CurrentOK DEF PriceTx
    <2>3. IsABag(priced') /\ BagToSet(priced') = BagToSet(priced) \cup {Current}
      BY <1>k, <2>1, PricedOK
    <2>4. ListInv' /\ NonceInv' /\ Lists' = Lists
      BY <1>0, <2>1, SameLists
    <2>5. PricedInv'
      BY <1>k, <2>1, <2>3 DEF PricedInv
    <2>6. BagToSet(priced') \subseteq Txs /\ \A list \in Lists' : list.txs \subseteq all'
      BY <1>k, <2>1, <2>2, <2>3, <2>4
    <2> QED
      BY <1>k, <2>1, <2>3, <2>4, <2>5, <2>6 DEF KnownInv
  <1>4. CASE InsertTx
    BY <1>4, InsertKeepsLists
  <1>5. CASE CollectResult
    <2>1. PICK i \in results : all' = all \ {Head(toExecute)[i]} \/ all' = all
      BY <1>5 DEF CollectResult
    <2>2. UNCHANGED <<currentState, pending, queue, priced, call>>
      BY <1>5 DEF CollectResult
    <2>3. PICK u \in Tagged : all' = all \ {u} \/ all' = all
      BY <1>0, <2>1, RemovedOK
    <2>4. ListInv' /\ NonceInv' /\ Lists' = Lists /\ Current' = Current
      <3>1. Current' = Current
        BY <2>2 DEF Current
      <3> QED
        BY <1>0, <2>2, <3>1, SameLists
    <2>5. all' \subseteq Txs /\ \A list \in Lists' : list.txs \subseteq all'
      BY <1>k, <2>3, <2>4
    <2>6. PricedInv'
      <3>1. all' \subseteq all
        BY <2>3
      <3> QED
        BY <1>k, <2>2, <2>4, <3>1 DEF PricedInv
    <2> QED
      BY <1>k, <2>2, <2>4, <2>5, <2>6 DEF KnownInv
  <1>6. CASE RemovePriced
    <2>1. /\ priced' = priced (-) SetToBag({Removed}) /\ removing.step # "none"
          /\ UNCHANGED <<currentState, pending, queue, all, call>>
      BY <1>6 DEF RemovePriced
    <2>2. Removed \in Tagged
      BY <1>0, <2>1, RemovedOK
    <2>3. /\ IsABag(priced') /\ BagToSet(priced') \subseteq BagToSet(priced)
          /\ BagToSet(priced) \ {Removed} \subseteq BagToSet(priced')
      BY <1>k, <2>1, PricedOK
    <2>4. ListInv' /\ NonceInv' /\ Lists' = Lists /\ Current' = Current
      <3>1. Current' = Current
        BY <2>1 DEF Current
      <3> QED
        BY <1>0, <2>1, <3>1, SameLists
    <2>5. PricedInv'
      BY <1>k, <2>1, <2>2, <2>3, <2>4 DEF PricedInv
    <2>6. BagToSet(priced') \subseteq Txs /\ \A list \in Lists' : list.txs \subseteq all'
      BY <1>k, <2>1, <2>3, <2>4
    <2> QED
      BY <1>k, <2>1, <2>3, <2>4, <2>5, <2>6 DEF KnownInv
  (* Removing a tagged transaction from a list changes nothing.            *)
  <1>7. CASE RemovePending \/ RemoveQueue
    <2>1. /\ removing.step # "none" /\ UNCHANGED <<currentState, all, priced, call>>
          /\ \/ /\ pending' = [pending EXCEPT ![From[Removed]] = RemoveHash(pending[From[Removed]], Removed)]
                /\ queue' = queue
             \/ /\ queue' = [queue EXCEPT ![From[Removed]] = RemoveHash(queue[From[Removed]], Removed)]
                /\ pending' = pending
      BY <1>7 DEF RemovePending, RemoveQueue
    <2>2. Removed \in Tagged /\ From[Removed] \in Accounts
      BY <1>0, <2>1, RemovedOK, ParallelPoolAssumption
    <2>3. PICK t \in Tagged, a \in Accounts : t = Removed /\ a = From[Removed]
      BY <2>2
    <2>4. t \notin pending[a].txs /\ t \notin queue[a].txs
      BY <1>k DEF Lists
    <2>5. RemoveHash(pending[a], t) = pending[a] /\ RemoveHash(queue[a], t) = queue[a]
      BY <2>4 DEF RemoveHash
    <2>6. pending \in [Accounts -> ListType] /\ queue \in [Accounts -> ListType]
      BY <1>0 DEF ListInv
    <2>7. pending' = pending /\ queue' = queue
      BY <2>1, <2>3, <2>5, <2>6
    <2> QED
      BY <1>1, <2>1, <2>7
  <1>8. CASE DropPending \/ DropQueue
    <2>1. /\ removing.step # "none" /\ UNCHANGED <<currentState, all, priced>>
          /\ \/ pending' = [pending EXCEPT ![From[Removed]] = NewList] /\ queue' = queue
             \/ queue' = [queue EXCEPT ![From[Removed]] = NewList] /\ pending' = pending
      BY <1>8 DEF DropPending, DropQueue
    <2>2. From[Removed] \in Accounts
      BY <1>0, <2>1, RemovedOK, ParallelPoolAssumption
    <2>3. call' = call \/ call.step # "price"
      <3>1. PICK a, inPending : DropList(a, inPending)
        BY <1>8 DEF DropPending, DropQueue
      <3> QED
        BY <3>1 DEF DropList, Filling, Running
    <2>4. ListInv' /\ NonceInv' /\ \A list \in Lists' : list.txs \subseteq all'
      BY <1>0, <2>1, <2>2, DropKeepsLists
    <2> QED
      BY <1>0, <2>1, <2>3, <2>4, SameKnown
  <1>9. ASSUME /\ pending' = [a \in Accounts |-> NewList]
               /\ queue' = [a \in Accounts |-> NewList]
               /\ all' = {} /\ priced' = EmptyBag
        PROVE  ListInv' /\ KnownInv' /\ NonceInv'
    BY <1>9, Emptied
  <1>10. CASE Reset \/ Clear \/ ConcurrentMapWrites
    <2>1. /\ pending' = [a \in Accounts |-> NewList]
          /\ queue' = [a \in Accounts |-> NewList]
          /\ all' = {} /\ priced' = EmptyBag
      BY <1>10 DEF Reset, Clear, ConcurrentMapWrites, Restarted
    <2> QED
      BY <1>9, <2>1
  <1>11. CASE NilList
    <2>1. CASE Restarted
      BY <1>9, <2>1 DEF Restarted
    <2>2. CASE ~Restarted
      <3>1. /\ UNCHANGED <<currentState, pending, queue, all, priced>>
            /\ call.step # "price"
        BY <1>11, <2>2 DEF NilList, poolVars, Running
      <3> QED
        BY <1>1, <3>1
    <2> QED
      BY <2>1, <2>2
  <1>12. CASE BeginAdd \/ BeginProcess \/ RejectTx \/ AppendTagged \/ OpenList \/ BatchTx
    <2>1. UNCHANGED <<currentState, pending, queue, all, priced>>
      BY <1>12 DEF BeginAdd, BeginProcess, Begin, RejectTx, AppendTagged, OpenList, BatchTx,
         poolVars
    <2>2. call = NoCall \/ call.step # "price"
      BY <1>12 DEF BeginAdd, BeginProcess, Begin, RejectTx, AppendTagged, OpenList, BatchTx,
         Running
    <2> QED
      BY <1>1, <2>1, <2>2
  <1>13. CASE EndCall
    <2>1. UNCHANGED <<currentState, pending, queue, all, priced>>
      BY <1>13 DEF EndCall, poolVars
    <2>2. call.step # "price"
      <3>1. call \in Calls /\ call.next > Len(call.txs)
        BY <1>0, <1>13 DEF EndCall, CallInv
      <3>2. call.next \in Nat /\ Len(call.txs) \in Nat
        BY <3>1 DEF Calls
      <3> QED
        BY <1>0, <1>13, <3>1, <3>2 DEF EndCall, CallInv
    <2> QED
      BY <1>1, <2>1, <2>2
  <1>14. CASE (\E size \in Sizes : SetBatchSize(size)) \/ Rebatch
                \/ ExecuteBatches \/ StartBatch \/ SkipBatch \/ UNCHANGED vars
    <2>1. UNCHANGED <<currentState, pending, queue, all, priced, call>>
      BY <1>14 DEF SetBatchSize, Rebatch, ExecuteBatches, StartBatch, SkipBatch, vars, poolVars
    <2> QED
      BY <1>1, <2>1
  <1> QED
    BY <1>2, <1>3, <1>4, <1>5, <1>6, <1>7, <1>8, <1>10, <1>11, <1>12, <1>13, <1>14
       DEF Next, Adder, Executor, Remover

LEMMA InsertNext == Inv /\ [Next]_vars => InsertInv'
  <1> SUFFICES ASSUME Inv, [Next]_vars PROVE InsertInv'
    OBVIOUS
  <1>0. InsertInv /\ CallInv /\ ExecInv
    BY DEF Inv
  <1>1. ASSUME call' = NoCall \/ call'.step = "add"
        PROVE  InsertInv'
    BY <1>1 DEF InsertInv
  (* Only tagged transactions leave the lookup while p.mu is held.         *)
  <1>2. ASSUME all \subseteq all' \cup Tagged, currentState' = currentState, call' = call
        PROVE  InsertInv'
    <2>1. Current' = Current
      BY <1>2 DEF Current
    <2> QED
      BY <1>0, <1>2, <2>1 DEF InsertInv
  <1>3. ASSUME NEW step, Running(step), step # "add", UNCHANGED <<all, currentState>>,
               NEW s \in {"list", "fill", "broken", "batch"}, call' = [call EXCEPT !.step = s],
               s \in {"fill", "broken"} => Current \notin Tagged
        PROVE  InsertInv'
    <2>1. call \in Calls /\ call # NoCall /\ call.step # "add"
      BY <1>0, <1>3, CurrentOK
    <2>2. Current' = Current
      BY <1>3, <2>1, StepTo
    <2>3. call'.step = s
      BY <1>3, <2>1 DEF Calls
    <2> QED
      BY <1>0, <1>3, <2>1, <2>2, <2>3 DEF InsertInv
  <1>4. CASE BeginAdd \/ BeginProcess
    <2>1. PICK kind, txs, local : Begin(kind, txs, local)
      BY <1>4 DEF BeginAdd, BeginProcess
    <2>2. call'.step = "add"
      BY <2>1 DEF Begin
    <2> QED
      BY <1>1, <2>2
  <1>5. CASE RejectTx \/ BatchTx
    <2>1. call \in Calls /\ (RejectTx => call.step = "add")
      BY <1>0, <1>5, CurrentOK DEF RejectTx, BatchTx
    <2>2. call' = NoCall \/ call'.step = "add"
      <3>1. CASE RejectTx
        BY <2>1, <3>1 DEF RejectTx, Calls
      <3>2. CASE BatchTx
        BY <2>1, <3>2 DEF BatchTx, Calls
      <3> QED
        BY <1>5, <3>1, <3>2
    <2> QED
      BY <1>1, <2>2
  <1>6. CASE EndCall \/ ConcurrentMapWrites \/ NilList
    <2>1. call' = NoCall
      BY <1>6 DEF EndCall, ConcurrentMapWrites, NilList, Restarted
    <2> QED
      BY <1>1, <2>1
  <1>7. CASE IndexTx
    <2>1. /\ all' = all \cup {Current} /\ currentState' = currentState
          /\ call' = [call EXCEPT !.step = "price"]
          /\ currentState.nonce[From[Current]] <= Nonce[Current]
      BY <1>7 DEF IndexTx, Accepted, Valid
    <2>2. call \in Calls
      BY <1>0, <1>7, CurrentOK DEF IndexTx
    <2>3. Current' = Current /\ call'.step = "price"
      <3>1. Current' = Current
        BY <2>1, <2>2, StepTo
      <3>2. call'.step = "price"
        BY <2>1, <2>2 DEF Calls
      <3> QED
        BY <3>1, <3>2
    <2> QED
      BY <2>1, <2>3 DEF InsertInv
  <1>8. CASE PriceTx
    <2>1. /\ Running("price") /\ UNCHANGED <<all, currentState>>
          /\ call' = [call EXCEPT !.step = "list"]
      BY <1>8 DEF PriceTx
    <2> QED
      BY <1>3, <2>1
  <1>9. CASE AppendTagged
    <2>1. /\ Running("list") /\ UNCHANGED <<all, currentState>>
          /\ call' = [call EXCEPT !.step = "batch"]
      BY <1>9 DEF AppendTagged, poolVars
    <2> QED
      BY <1>3, <2>1
  <1>10. CASE OpenList
    <2>1. /\ Running("list") /\ UNCHANGED <<all, currentState>> /\ Current \notin Tagged
          /\ call' = [call EXCEPT !.step = "fill"]
      BY <1>10 DEF OpenList, poolVars
    <2> QED
      BY <1>3, <2>1
  <1>11. CASE InsertTx
    <2>1. /\ Running("fill") /\ UNCHANGED <<all, currentState>>
          /\ call' = [call EXCEPT !.step = "batch"]
      BY <1>11 DEF InsertTx
    <2> QED
      BY <1>3, <2>1
  <1>12. CASE DropPending \/ DropQueue
    <2>1. PICK a, inPending : DropList(a, inPending)
      BY <1>12 DEF DropPending, DropQueue
    <2>2. UNCHANGED <<all, currentState>>
      BY <1>12 DEF DropPending, DropQueue
    <2>3. CASE Filling(a, inPending)
      <3>1. Running("fill") /\ call' = [call EXCEPT !.step = "broken"]
        BY <2>1, <2>3 DEF DropList, Filling
      <3>2. Current \notin Tagged
        BY <1>0, <3>1 DEF InsertInv, Running
      <3> QED
        BY <1>3, <2>2, <3>1, <3>2
    <2>4. CASE ~Filling(a, inPending)
      <3>1. call' = call
        BY <2>1, <2>4 DEF DropList
      <3> QED
        BY <1>2, <2>2, <3>1
    <2> QED
      BY <2>3, <2>4
  <1>13. CASE CollectResult
    <2>1. PICK i \in results : all' = all \ {Head(toExecute)[i]} \/ all' = all
      BY <1>13 DEF CollectResult
    <2>2. Head(toExecute)[i] \in Tagged
      BY <1>0, RemovedOK
    <2>3. all \subseteq all' \cup Tagged
      BY <2>1, <2>2
    <2>4. UNCHANGED <<currentState, call>>
      BY <1>13 DEF CollectResult
    <2> QED
      BY <1>2, <2>3, <2>4
  <1>14. CASE Reset \/ Clear
    <2>1. call' = NoCall
      BY <1>14 DEF Reset, Clear
    <2> QED
      BY <1>1, <2>1
  <1>15. CASE (\E size \in Sizes : SetBatchSize(size)) \/ Rebatch
                \/ ExecuteBatches \/ StartBatch \/ SkipBatch
                \/ RemovePriced \/ RemovePending \/ RemoveQueue \/ UNCHANGED vars
    <2>1. UNCHANGED <<currentState, all, call>>
      BY <1>15 DEF SetBatchSize, Rebatch, ExecuteBatches, StartBatch, SkipBatch,
         RemovePriced, RemovePending, RemoveQueue, vars, poolVars
    <2> QED
      BY <1>2, <2>1
  <1> QED
    BY <1>4, <1>5, <1>6, <1>7, <1>8, <1>9, <1>10, <1>11, <1>12, <1>13, <1>14, <1>15
       DEF Next, Adder, Executor, Remover

LEMMA InvNext == Inv /\ [Next]_vars => Inv'
  BY CallNext, BatchNext, ExecNext, HeadNext, ListsNext, InsertNext DEF Inv

-----------------------------------------------------------------------------
(* The theorems.                                                           *)

LEMMA Invariance == Spec => []Inv
  BY InvInit, InvNext, PTL DEF Spec

(* The ParallelPool struct keeps its shape whatever goroutines of Add,     *)
(* Process, Reset, Clear, SetBatchSize and ExecuteBatches interleave.      *)
THEOREM TypeCorrect == Spec => []TypeOK
  BY Invariance, InvTyped, PTL

(* The two maps of each list stay in step (list.go Add, RemoveHash).       *)
THEOREM ListsStayConsistent == Spec => []ListsConsistent
  <1>1. Inv => ListsConsistent
    BY DEF Inv, ListInv
  <1> QED
    BY <1>1, Invariance, PTL

(* What a list holds is in the lookup, and between calls what is in the    *)
(* lookup and not tagged has a price entry, although removeTx runs beside  *)
(* Add step by step: it removes tagged transactions only, which are in no  *)
(* list.                                                                   *)
THEOREM ListedStaysKnown == Spec => []ListedIsKnown
  <1>1. Inv => ListedIsKnown
    BY DEF Inv, KnownInv, PricedInv, ListedIsKnown
  <1> QED
    BY <1>1, Invariance, PTL

(* A call that ends without a panic has sent on txFeed all it inserted.    *)
THEOREM InsertionsAreAnnounced == Spec => InsertedIsAnnounced
  <1>1. Inv /\ [Next]_vars =>
           [call # NoCall /\ call' = NoCall /\ call.step # "broken" => unannounced' = {}]_vars
    <2> SUFFICES ASSUME Inv, Next, call # NoCall, call' = NoCall, call.step # "broken"
                 PROVE  unannounced' = {}
      OBVIOUS
    <2>0. CallInv /\ call \in Calls /\ NoCall \notin Calls
      BY ParallelPoolAssumption DEF Inv, CallInv
    <2>1. CASE EndCall
      BY <2>0, <2>1 DEF EndCall, CallInv
    <2>2. CASE ConcurrentMapWrites
      BY <2>2 DEF ConcurrentMapWrites, Restarted
    <2>3. CASE NilList
      BY <2>3 DEF NilList, Running
    <2>4. CASE RejectTx
      <3>1. /\ call.step = "add" /\ call.next \in 1..Len(call.txs)
            /\ unannounced' = unannounced
        BY <2>0, <2>4, CurrentOK DEF RejectTx
      <3>2. CASE call.kind = "Process"
        <4>1. Len(call.txs) = 1 /\ (call.next = 1 => unannounced = {})
          BY <2>0, <3>1, <3>2 DEF CallInv
        <4> QED
          BY <3>1, <4>1
      <3>3. CASE call.kind # "Process"
        <4>1. call' = [call EXCEPT !.next = @ + 1]
          BY <2>4, <3>3 DEF RejectTx
        <4>2. call' \in Calls
          BY <2>0, <4>1 DEF Calls
        <4> QED
          BY <2>0, <4>2
      <3> QED
        BY <3>2, <3>3
    <2>5. CASE IndexTx \/ PriceTx \/ AppendTagged \/ OpenList \/ InsertTx
      <3>1. \/ call' = [call EXCEPT !.step = "price"]
            \/ call' = [call EXCEPT !.step = "list"] \/ call' = [call EXCEPT !.step = "fill"]
            \/ call' = [call EXCEPT !.step = "batch"]
        BY <2>5 DEF IndexTx, PriceTx, AppendTagged, OpenList, InsertTx
      <3> QED
        BY <2>0, <3>1, StepTo
    <2>6. CASE BatchTx
      <3>1. call' = [call EXCEPT !.next = @ + 1, !.step = "add"]
        BY <2>6 DEF BatchTx
      <3>2. call' = [kind |-> call.kind, txs |-> call.txs, local |-> call.local,
                     next |-> call.next + 1, step |-> "add"]
        BY <2>0, <3>1 DEF Calls
      <3>3. /\ call.kind \in {"Add", "Process"} /\ call.txs \in Seq(Txs)
            /\ call.local \in BOOLEAN /\ call.next \in Nat
        BY <2>0 DEF Calls
      <3>4. call' \in Calls
        BY <3>2, <3>3 DEF Calls
      <3> QED
        BY <2>0, <3>4
    <2>7. CASE DropPending \/ DropQueue
      <3>1. PICK a, inPending : DropList(a, inPending)
        BY <2>7 DEF DropPending, DropQueue
      <3>2. call' = call \/ call' = [call EXCEPT !.step = "broken"]
        BY <3>1 DEF DropList
      <3> QED
        BY <2>0, <3>2, StepTo
    <2>8. CASE BeginAdd \/ BeginProcess \/ Reset \/ Clear
      BY <2>8 DEF BeginAdd, BeginProcess, Begin, Reset, Clear
    <2>9. CASE (\E size \in Sizes : SetBatchSize(size)) \/ Rebatch
                 \/ ExecuteBatches \/ StartBatch \/ SkipBatch \/ CollectResult
                 \/ RemovePriced \/ RemovePending \/ RemoveQueue
      BY <2>9 DEF SetBatchSize, Rebatch, ExecuteBatches, StartBatch, SkipBatch,
         CollectResult, RemovePriced, RemovePending, RemoveQueue
    <2> QED
      BY <2>1, <2>2, <2>3, <2>4, <2>5, <2>6, <2>7, <2>8, <2>9
         DEF Next, Adder, Executor, Remover
  <1> QED
    BY <1>1, Invariance, PTL DEF Spec, InsertedIsAnnounced

(* Ready of a list with at most one nonce offers that nonce's transaction. *)
LEMMA ReadyOfOne ==
    ASSUME NEW list \in ListType, Consistent(list), NEW c \in Nat,
           \A n \in DOMAIN list.items : n = c
    PROVE  \A i \in DOMAIN Ready(list) :
              Nonce[Ready(list)[i]] = c /\ Ready(list)[i] \in list.txs
  <1> DEFINE D == DOMAIN list.items
             rank(n) == Cardinality({m \in D : m <= n})
  <1>1. CASE D = {}
    <2>1. Cardinality(D) = 0
      BY <1>1, FS_EmptySet
    <2>2. DOMAIN Ready(list) = {}
      BY <2>1 DEF Ready
    <2> QED
      BY <2>2
  <1>2. CASE D # {}
    <2>1. D = {c}
      BY <1>2
    <2>2. Cardinality({c}) = 1
      BY FS_Singleton
    <2>3. {m \in D : m <= c} = {c}
      BY <2>1
    <2>4. rank(c) = 1 /\ Cardinality(D) = 1
      BY <2>1, <2>2, <2>3
    <2> DEFINE at(i) == CHOOSE n \in D : rank(n) = i
    <2>5. Ready(list) = [i \in 1..Cardinality(D) |-> list.items[at(i)]]
      BY DEF Ready
    <2>6. at(1) = c
      <3> HIDE DEF rank, D
      <3>1. \E n \in D : rank(n) = 1
        BY <2>1, <2>4
      <3>2. at(1) \in D
        BY <3>1
      <3> QED
        BY <2>1, <3>2
    <2>7. DOMAIN Ready(list) = {1} /\ Ready(list)[1] = list.items[c]
      <3> HIDE DEF at, D
      <3> QED
        BY <2>4, <2>5, <2>6
    <2>8. Nonce[list.items[c]] = c /\ list.items[c] \in list.txs
      BY <2>1, ConsistentMembers
    <2> QED
      BY <2>7, <2>8
  <1> QED
    BY <1>1, <1>2

(* What Pending offers is executable on the head the pool stands on, and   *)
(* what is queued is for later nonces.                                     *)
THEOREM PendingStaysNext == Spec => []PendingIsNext
  <1>1. ASSUME Inv PROVE PendingIsNext
    <2>1. ListInv /\ KnownInv /\ NonceInv /\ HeadInv
      BY <1>1 DEF Inv
    <2>2. ASSUME NEW a \in Accounts
          PROVE  /\ \A i \in DOMAIN Ready(pending[a]) :
                       /\ Nonce[Ready(pending[a])[i]] = currentState.nonce[a]
                       /\ From[Ready(pending[a])[i]] = a
                 /\ \A n \in DOMAIN queue[a].items : n > currentState.nonce[a]
      <3>1. /\ pending[a] \in ListType /\ Consistent(pending[a])
            /\ \A t \in pending[a].txs : From[t] = a
        BY <2>1, ListFacts
      <3>2. currentState.nonce[a] \in Nat
        BY <2>1 DEF HeadInv, State
      <3>3. /\ \A n \in DOMAIN pending[a].items : n = currentState.nonce[a]
            /\ \A n \in DOMAIN queue[a].items : n > currentState.nonce[a]
        BY <2>1 DEF NonceInv
      <3>4. \A i \in DOMAIN Ready(pending[a]) :
               /\ Nonce[Ready(pending[a])[i]] = currentState.nonce[a]
               /\ Ready(pending[a])[i] \in pending[a].txs
        BY <3>1, <3>2, <3>3, ReadyOfOne
      <3> QED
        BY <3>1, <3>3, <3>4
    <2> QED
      BY <2>2 DEF PendingIsNext
  <1> QED
    BY <1>1, Invariance, PTL

-----------------------------------------------------------------------------
(* What prepareBatches makes of the tagged transactions.                   *)

(* The number of chunks: no chunk is empty and the last reaches the end.   *)
LEMMA ChunkCount ==
    ASSUME NEW n \in Nat, NEW size \in Nat \ {0}
    PROVE  \E k : /\ k = (n + size - 1) \div size
                 /\ k \in Nat /\ n <= k * size
                 /\ \A i \in 1..k :
                       /\ (i - 1) * size \in Nat /\ i * size = (i - 1) * size + size
                       /\ (i - 1) * size < n
                       /\ i < k => i * size < n
  <1> DEFINE k == (n + size - 1) \div size
  <1>1. k \in Nat
    OBVIOUS
  <1>2. size * k <= n + size - 1 /\ n + size - 1 < size * k + size
    OBVIOUS
  <1> HIDE DEF k
  <1>3. n <= k * size /\ (k - 1) * size < n
    BY <1>1, <1>2
  <1>4. ASSUME NEW i \in 1..k
        PROVE  /\ (i - 1) * size \in Nat /\ i * size = (i - 1) * size + size
               /\ (i - 1) * size <= (k - 1) * size
               /\ i < k => i * size <= (k - 1) * size
    BY <1>1
  <1>5. \A i \in 1..k : (i - 1) * size < n /\ (i < k => i * size < n)
    <2> SUFFICES ASSUME NEW i \in 1..k
                 PROVE  (i - 1) * size < n /\ (i < k => i * size < n)
      OBVIOUS
    <2>1. PICK x \in Int, y \in Int, z \in Int :
             x = (i - 1) * size /\ y = (k - 1) * size /\ z = i * size
      BY <1>1
    <2>2. x <= y /\ y < n /\ (i < k => z <= y)
      BY <1>3, <1>4, <2>1
    <2> QED
      BY <2>1, <2>2
  <1> QED
    BY <1>1, <1>3, <1>4, <1>5 DEF k

(* The chunks are the sequence again, cut at every multiple of size.       *)
LEMMA ChunksJoin ==
    ASSUME NEW txs \in Seq(Txs), NEW size \in Nat \ {0}
    PROVE  /\ FlattenSeq(Chunks(txs, size)) = txs
           /\ \A i \in DOMAIN Chunks(txs, size) :
                 IF i < Len(Chunks(txs, size))
                 THEN Len(Chunks(txs, size)[i]) = size
                 ELSE Len(Chunks(txs, size)[i]) \in 1..size
  <1>1. PICK n \in Nat, k \in Int : n = Len(txs) /\ k = (n + size - 1) \div size
    OBVIOUS
  <1> DEFINE end(i) == IF i * size < n THEN i * size ELSE n
             rows == [i \in 1..k |-> SubSeq(txs, (i - 1) * size + 1, end(i))]
  <1>2. /\ k \in Nat /\ n <= k * size
        /\ \A i \in 1..k : /\ (i - 1) * size \in Nat /\ i * size = (i - 1) * size + size
                           /\ (i - 1) * size < n
                           /\ i < k => i * size < n
    <2>1. \E m : m = (n + size - 1) \div size /\ m \in Nat /\ n <= m * size
                 /\ \A i \in 1..m : /\ (i - 1) * size \in Nat /\ i * size = (i - 1) * size + size
                                    /\ (i - 1) * size < n
                                    /\ i < m => i * size < n
      BY ChunkCount
    <2> QED
      BY <1>1, <2>1
  <1>3. Chunks(txs, size) = rows
    BY <1>1 DEF Chunks
  <1>4. rows \in Seq(Seq(Txs)) /\ DOMAIN rows = 1..k /\ Len(rows) = k
    <2>1. rows \in Seq(Seq(Txs))
      BY <1>3, ChunksType
    <2>2. DOMAIN rows = 1..k
      OBVIOUS
    <2> HIDE DEF rows
    <2> QED
      BY <1>2, <2>1, <2>2, LenProperties
  <1>5. \A i \in 1..k : /\ end(i - 1) = (i - 1) * size /\ end(i - 1) \in Nat
                        /\ end(i) \in Nat /\ end(i) <= n /\ end(i - 1) < end(i)
                        /\ end(i) - end(i - 1) <= size
                        /\ i < k => end(i) = end(i - 1) + size
    BY <1>2
  <1>6. end(0) = 0 /\ end(k) = n
    BY <1>2
  <1>7. \A i \in 1..k : rows[i] = SubSeq(txs, end(i - 1) + 1, end(i))
    BY <1>5
  <1> HIDE DEF rows, end
  <1>8. ASSUME NEW i \in 1..k
        PROVE  /\ Len(rows[i]) = end(i) - end(i - 1)
               /\ SubSeq(txs, 1, end(i - 1)) \o rows[i] = SubSeq(txs, 1, end(i))
    <2>1. PICK p \in Nat, q \in Nat : /\ p = end(i - 1) /\ q = end(i)
                                      /\ p < q /\ q <= n
      BY <1>5
    <2>2. rows[i] = SubSeq(txs, p + 1, q)
      BY <1>7, <2>1
    <2>3. Len(SubSeq(txs, p + 1, q)) = q - p
      BY <1>1, <2>1, SubSeqProperties
    <2>4. SubSeq(txs, 1, p) \o SubSeq(txs, p + 1, q) = SubSeq(txs, 1, q)
      <3>1. 1 \in 1..Len(txs) + 1 /\ p \in 1 - 1 .. Len(txs) /\ q \in p .. Len(txs)
        BY <1>1, <2>1
      <3> QED
        BY <3>1, ConcatAdjacentSubSeq
    <2> QED
      BY <2>1, <2>2, <2>3, <2>4
  <1>9. PICK g \in [0..k -> Seq(Txs)] :
           /\ FlattenSeq(rows) = g[k] /\ g[0] = <<>>
           /\ \A i \in 1..k : g[i] = g[i - 1] \o rows[i]
    <2>1. rows \in Seq(Seq(Txs))
      BY <1>4
    <2>2. \E g \in [0..Len(rows) -> Seq(Txs)] :
             /\ FlattenSeq(rows) = g[Len(rows)] /\ g[0] = <<>>
             /\ \A i \in 1..Len(rows) : g[i] = g[i - 1] \o rows[i]
      BY <2>1, FlattenChain
    <2> QED
      BY <1>4, <2>2
  <1> DEFINE D == {i \in Nat : g[i] = SubSeq(txs, 1, end(i))}
  <1>10. 0 \in D
    <2>1. SubSeq(txs, 1, 0) = <<>>
      BY SubSeqProperties
    <2> QED
      BY <1>6, <1>9, <2>1
  <1>11. ASSUME NEW i \in 1..k, i - 1 \in D
         PROVE  i \in D
    <2>1. g[i - 1] = SubSeq(txs, 1, end(i - 1)) /\ i \in Nat
      BY <1>2, <1>11
    <2>2. g[i] = SubSeq(txs, 1, end(i))
      BY <1>8, <1>9, <2>1, Zenon
    <2> QED
      BY <2>1, <2>2
  <1> HIDE DEF D
  <1>12. k \in D
    <2>1. \A i \in 0..k : i \in D
      BY <1>2, <1>10, <1>11, UpTo
    <2> QED
      BY <1>2, <2>1
  <1>13. FlattenSeq(rows) = txs
    <2>1. g[k] = SubSeq(txs, 1, n)
      BY <1>6, <1>12 DEF D
    <2>2. SubSeq(txs, 1, n) = txs
      BY <1>1, SubSeqFull
    <2> QED
      BY <1>9, <2>1, <2>2
  <1>14. \A i \in 1..k : IF i < k THEN Len(rows[i]) = size ELSE Len(rows[i]) \in 1..size
    <2> SUFFICES ASSUME NEW i \in 1..k
                 PROVE  IF i < k THEN Len(rows[i]) = size ELSE Len(rows[i]) \in 1..size
      OBVIOUS
    <2>1. PICK p \in Nat, q \in Nat : /\ p = end(i - 1) /\ q = end(i)
                                      /\ p < q /\ q - p <= size /\ (i < k => q = p + size)
      BY <1>5
    <2>2. Len(rows[i]) = q - p
      BY <1>8, <2>1
    <2> QED
      BY <2>1, <2>2
  <1> QED
    BY <1>3, <1>4, <1>13, <1>14

(* Of the joined rows, the row of an account is what is from the account.  *)
LEMMA RowsSelect ==
    ASSUME parallelizableTxs \in [Accounts -> Seq(Txs)],
           \A a \in Accounts : \A i \in DOMAIN parallelizableTxs[a] :
               From[parallelizableTxs[a][i]] = a,
           NEW order \in SetToSeqs(Accounts), NEW a \in Accounts
    PROVE  OfAccount(FlattenSeq([i \in DOMAIN order |-> parallelizableTxs[order[i]]]), a)
               = parallelizableTxs[a]
  <1> DEFINE rows == [i \in DOMAIN order |-> parallelizableTxs[order[i]]]
             F(txs) == Filtered(txs, TxsOf(a))
  <1>0. OfAccount(FlattenSeq(rows), a) = F(FlattenSeq(rows))
    BY DEF OfAccount, Filtered, FoldLeft, MapThenFoldSet
  <1>1. PICK c \in Nat : c = Cardinality(Accounts)
    BY RowsType
  <1>2. /\ order \in [1..c -> Accounts] /\ rows \in Seq(Seq(Txs))
        /\ DOMAIN rows = 1..c /\ Len(rows) = c
        /\ \A i \in 1..c : rows[i] = parallelizableTxs[order[i]]
    <2>1. order \in [1..c -> Accounts] /\ rows \in Seq(Seq(Txs))
      BY <1>1, RowsType
    <2>2. DOMAIN rows = 1..c /\ \A i \in 1..c : rows[i] = parallelizableTxs[order[i]]
      BY <2>1
    <2> HIDE DEF rows
    <2> QED
      BY <2>1, <2>2, LenProperties
  <1>3. PICK k \in 1..c : order[k] = a /\ \A i \in 1..c : order[i] = a => i = k
    <2>1. \A i, j \in 1..c : i # j => order[i] # order[j]
      BY <1>1 DEF SetToSeqs
    <2>2. order \in Injection(1..c, Accounts)
      BY <1>2, <2>1 DEF Injection, IsInjective
    <2>3. Cardinality(1..c) = c
      BY <1>1, FS_Interval
    <2>4. order \in Surjection(1..c, Accounts)
      BY <1>1, <2>2, <2>3, ParallelPoolAssumption, FS_Injection
    <2>5. \E k \in 1..c : order[k] = a
      BY <2>4 DEF Surjection
    <2> QED
      BY <2>1, <2>5
  <1>4. PICK g \in [0..c -> Seq(Txs)] :
           /\ FlattenSeq(rows) = g[c] /\ g[0] = <<>>
           /\ \A i \in 1..c : g[i] = g[i - 1] \o rows[i]
    <2>1. rows \in Seq(Seq(Txs))
      BY <1>2
    <2> HIDE DEF rows
    <2>2. \E g \in [0..Len(rows) -> Seq(Txs)] :
             /\ FlattenSeq(rows) = g[Len(rows)] /\ g[0] = <<>>
             /\ \A i \in 1..Len(rows) : g[i] = g[i - 1] \o rows[i]
      BY <2>1, FlattenChain
    <2> QED
      BY <1>2, <2>2
  <1> HIDE DEF rows
  <1>5. ASSUME NEW i \in 1..c
        PROVE  F(rows[i]) = IF i = k THEN parallelizableTxs[a] ELSE <<>>
    <2>1. PICK b \in Accounts, txs \in Seq(Txs) :
             b = order[i] /\ txs = parallelizableTxs[b] /\ rows[i] = txs
      BY <1>2
    <2>2. \A j \in 1..Len(txs) : txs[j] \in Txs /\ From[txs[j]] = b
      BY <2>1
    <2>3. CASE b = a
      <3>1. \A j \in 1..Len(txs) : txs[j] \in TxsOf(a)
        BY <2>2, <2>3 DEF TxsOf
      <3>2. F(txs) = txs
        BY <3>1, FilteredAll
      <3> QED
        BY <1>3, <2>1, <2>3, <3>2
    <2>4. CASE b # a
      <3>1. \A j \in 1..Len(txs) : txs[j] \notin TxsOf(a)
        BY <2>2, <2>4 DEF TxsOf
      <3>2. F(txs) = <<>>
        BY <3>1, FilteredNone
      <3> QED
        BY <1>3, <2>1, <2>4, <3>2
    <2> QED
      BY <2>3, <2>4
  <1> DEFINE D == {i \in Nat : F(g[i]) = IF i < k THEN <<>> ELSE parallelizableTxs[a]}
  <1>6. 0 \in D
    <2>1. <<>> \in Seq(Txs) /\ \A j \in 1..Len(<<>>) : <<>>[j] \notin TxsOf(a)
      OBVIOUS
    <2>2. F(<<>>) = <<>>
      BY <2>1, FilteredNone
    <2> QED
      BY <1>3, <1>4, <2>2
  <1>7. ASSUME NEW i \in 1..c, i - 1 \in D
        PROVE  i \in D
    <2>1. PICK s \in Seq(Txs), t \in Seq(Txs), u \in Seq(Txs) :
             s = g[i - 1] /\ t = rows[i] /\ u = parallelizableTxs[a]
      BY <1>2, <1>4
    <2>2. F(s \o t) = F(s) \o F(t)
      BY FilteredConcat
    <2>3. g[i] = s \o t
      BY <1>4, <2>1
    <2>4. F(s) = (IF i - 1 < k THEN <<>> ELSE u) /\ F(t) = IF i = k THEN u ELSE <<>>
      BY <1>5, <1>7, <2>1
    <2>5. u \o <<>> = u /\ <<>> \o u = u /\ <<>> \o <<>> = <<>>
      BY ConcatEmptySeq
    <2> HIDE DEF F
    <2>6. F(g[i]) = IF i < k THEN <<>> ELSE u
      <3>0. F(g[i]) = F(s) \o F(t) /\ i \in Int /\ k \in Int
        BY <2>2, <2>3
      <3>1. CASE i < k
        <4>1. F(s) = <<>> /\ F(t) = <<>>
          BY <2>4, <3>0, <3>1
        <4> QED
          BY <2>5, <3>0, <3>1, <4>1, Zenon
      <3>2. CASE i = k
        <4>1. F(s) = <<>> /\ F(t) = u /\ ~(i < k)
          BY <2>4, <3>0, <3>2
        <4> QED
          BY <2>5, <3>0, <4>1, Zenon
      <3>3. CASE i > k
        <4>1. F(s) = u /\ F(t) = <<>> /\ ~(i < k)
          BY <2>4, <3>0, <3>3
        <4> QED
          BY <2>5, <3>0, <4>1, Zenon
      <3> QED
        BY <3>0, <3>1, <3>2, <3>3
    <2> QED
      BY <2>1, <2>6
  <1>8. \A i \in 0..c : i \in D
    <2> HIDE DEF D
    <2> QED
      BY <1>6, <1>7, UpTo
  <1>9. F(g[c]) = parallelizableTxs[a]
    <2>1. c \in D /\ ~(c < k)
      BY <1>8
    <2> HIDE DEF F
    <2> QED
      BY <2>1
  <1> HIDE DEF F
  <1> QED
    BY <1>0, <1>4, <1>9 DEF rows

(* The invariant of the batches: a list of tagged transactions is of one   *)
(* account, and only a pool without any has no batches.                    *)
OwnTagged ==
    \A a \in Accounts : \A i \in DOMAIN parallelizableTxs[a] :
        From[parallelizableTxs[a][i]] = a

NoneBatched == (\A a \in Accounts : parallelizableTxs[a] = <<>>) => batchedTxs = <<>>

BatchedInv ==
    /\ OwnTagged
    /\ NoneBatched
    /\ BatchesComplete

LEMMA SelectFromNothing ==
    FlattenSeq(<<>>) = <<>> /\ \A a \in Accounts : OfAccount(<<>>, a) = <<>>
  <1>1. FlattenSeq(<<>>) = <<>>
    BY DEF FlattenSeq
  <1>2. ASSUME NEW a \in Accounts
        PROVE  OfAccount(<<>>, a) = <<>>
    <2>1. <<>> \in Seq(Txs) /\ \A i \in 1..Len(<<>>) : <<>>[i] \notin TxsOf(a)
      OBVIOUS
    <2>2. Filtered(<<>>, TxsOf(a)) = <<>>
      BY <2>1, FilteredNone
    <2>3. OfAccount(<<>>, a) = Filtered(<<>>, TxsOf(a))
      BY DEF OfAccount, Filtered, FoldLeft, MapThenFoldSet
    <2> QED
      BY <2>2, <2>3
  <1> QED
    BY <1>1, <1>2

LEMMA PrepareCompletes ==
    ASSUME BatchInv, OwnTagged, NoneBatched, PrepareBatches,
           parallelizableTxs' = parallelizableTxs, batchSize' = batchSize
    PROVE  Complete' /\ NoneBatched'
  <1>1. CASE \A a \in Accounts : parallelizableTxs[a] = <<>>
    <2>1. batchedTxs = <<>> /\ batchedTxs' = <<>>
      BY <1>1 DEF NoneBatched, PrepareBatches
    <2>2. Complete
      BY <1>1, <2>1, SelectFromNothing DEF Complete
    <2> QED
      BY <2>1, <2>2 DEF Complete, NoneBatched
  <1>2. CASE ~\A a \in Accounts : parallelizableTxs[a] = <<>>
    <2>1. PICK order \in SetToSeqs(Accounts) :
            batchedTxs' = Chunks(FlattenSeq([i \in DOMAIN order |->
                                                parallelizableTxs[order[i]]]), batchSize)
      BY <1>2 DEF PrepareBatches
    <2>2. PICK rows \in Seq(Seq(Txs)) :
             rows = [i \in DOMAIN order |-> parallelizableTxs[order[i]]]
      BY RowsType, BatchTyped
    <2>3. PICK txs \in Seq(Txs) : txs = FlattenSeq(rows)
      <3>1. PICK g \in [0..Len(rows) -> Seq(Txs)] : FlattenSeq(rows) = g[Len(rows)]
        BY FlattenChain
      <3>2. Len(rows) \in 0..Len(rows)
        OBVIOUS
      <3> QED
        BY <3>1, <3>2
    <2>4. batchedTxs' = Chunks(txs, batchSize) /\ batchSize \in Nat \ {0}
      BY <2>1, <2>2, <2>3, ParallelPoolAssumption DEF BatchInv
    <2>5. /\ FlattenSeq(batchedTxs') = txs
          /\ \A i \in DOMAIN batchedTxs' :
                IF i < Len(batchedTxs')
                THEN Len(batchedTxs'[i]) = batchSize
                ELSE Len(batchedTxs'[i]) \in 1..batchSize
      BY <2>4, ChunksJoin
    <2>6. \A a \in Accounts : OfAccount(txs, a) = parallelizableTxs[a]
      BY <2>2, <2>3, RowsSelect, BatchTyped DEF OwnTagged
    <2>7. \A a \in Accounts :
             OfAccount(FlattenSeq(batchedTxs'), a) = parallelizableTxs'[a]
      BY <2>5, <2>6
    <2> QED
      BY <1>2, <2>5, <2>7 DEF Complete, NoneBatched
  <1> QED
    BY <1>1, <1>2

LEMMA BatchedInit == Init => BatchedInv
  <1> SUFFICES ASSUME Init PROVE BatchedInv
    OBVIOUS
  <1>1. batchedTxs = <<>> /\ call = NoCall /\ \A a \in Accounts : parallelizableTxs[a] = <<>>
    BY DEF Init
  <1>2. Complete
    BY <1>1, SelectFromNothing DEF Complete
  <1> QED
    BY <1>1, <1>2 DEF BatchedInv, OwnTagged, NoneBatched, BatchesComplete

LEMMA BatchedNext == Inv /\ BatchedInv /\ [Next]_vars => BatchedInv'
  <1> SUFFICES ASSUME Inv, BatchedInv, [Next]_vars PROVE BatchedInv'
    OBVIOUS
  <1>0. BatchInv /\ CallInv /\ OwnTagged /\ NoneBatched /\ BatchesComplete
    BY DEF Inv, BatchedInv
  (* A step that leaves the batches alone and does not end a rebuild early. *)
  <1>1. ASSUME batchVars' = batchVars, resizing' = resizing,
               call' = call \/ call = NoCall \/ call.step # "batch"
        PROVE  BatchedInv'
    <2>1. /\ parallelizableTxs' = parallelizableTxs /\ batchedTxs' = batchedTxs
          /\ batchSize' = batchSize
      BY <1>1 DEF batchVars
    <2>2. OwnTagged' /\ NoneBatched'
      BY <1>0, <2>1 DEF OwnTagged, NoneBatched
    <2>3. Complete => Complete'
      BY <2>1 DEF Complete
    <2> QED
      BY <1>0, <1>1, <2>2, <2>3 DEF BatchedInv, BatchesComplete
  <1>2. CASE BeginAdd \/ BeginProcess
    <2>1. PICK kind, txs, local : Begin(kind, txs, local)
      BY <1>2 DEF BeginAdd, BeginProcess
    <2> QED
      BY <1>1, <2>1 DEF Begin
  <1>3. CASE RejectTx \/ IndexTx \/ PriceTx \/ OpenList \/ InsertTx
    <2>1. batchVars' = batchVars /\ resizing' = resizing /\ call.step # "batch"
      BY <1>3 DEF RejectTx, IndexTx, PriceTx, OpenList, InsertTx, Running, batchVars
    <2> QED
      BY <1>1, <2>1
  <1>4. CASE EndCall
    <2>1. call \in Calls /\ call.next > Len(call.txs)
      BY <1>0, <1>4 DEF EndCall, CallInv
    <2>2. call.step # "batch"
      <3>1. call.next \in Nat /\ Len(call.txs) \in Nat
        BY <2>1 DEF Calls
      <3> QED
        BY <1>0, <1>4, <2>1, <3>1 DEF EndCall, CallInv
    <2> QED
      BY <1>1, <1>4, <2>2 DEF EndCall
  <1>5. CASE AppendTagged
    <2> DEFINE t == Current
    <2>1. /\ call \in Calls /\ call.next \in 1..Len(call.txs) /\ t \in Txs
      BY <1>0, <1>5, CurrentOK DEF AppendTagged
    <2>2. /\ call' = [call EXCEPT !.step = "batch"] /\ batchedTxs' = batchedTxs
          /\ parallelizableTxs' = [parallelizableTxs EXCEPT ![From[t]] = Append(@, t)]
      BY <1>5 DEF AppendTagged
    <2> HIDE DEF t
    <2>3. /\ call' \in Calls /\ call'.step = "batch" /\ call' # NoCall
      BY <2>1, <2>2, ParallelPoolAssumption DEF Calls
    <2>4. parallelizableTxs \in [Accounts -> Seq(Txs)]
      BY <1>0, BatchTyped
    <2>5. PICK b \in Accounts, txs \in Seq(Txs) : b = From[t] /\ txs = parallelizableTxs[b]
      BY <2>1, <2>4, ParallelPoolAssumption
    <2>6. /\ parallelizableTxs'[b] = Append(txs, t)
          /\ \A a \in Accounts : a # b => parallelizableTxs'[a] = parallelizableTxs[a]
      BY <2>2, <2>4, <2>5
    <2>7. /\ Append(txs, t) # <<>>
          /\ \A i \in DOMAIN Append(txs, t) :
                Append(txs, t)[i] = t \/ (i \in DOMAIN txs /\ Append(txs, t)[i] = txs[i])
      BY <2>1
    <2>8. \A i \in DOMAIN txs : From[txs[i]] = b
      BY <1>0, <2>5 DEF OwnTagged
    <2>9. OwnTagged'
      <3> SUFFICES ASSUME NEW a \in Accounts, NEW i \in DOMAIN parallelizableTxs'[a]
                   PROVE  From[parallelizableTxs'[a][i]] = a
        BY DEF OwnTagged
      <3>1. CASE a = b
        <4>1. PICK v : v = Append(txs, t)
          OBVIOUS
        <4>2. i \in DOMAIN v /\ parallelizableTxs'[a][i] = v[i]
          BY <2>6, <3>1, <4>1
        <4>3. v[i] = t \/ (i \in DOMAIN txs /\ v[i] = txs[i])
          BY <2>7, <4>1, <4>2
        <4>4. From[v[i]] = b
          BY <2>5, <2>8, <4>3
        <4> QED
          BY <3>1, <4>2, <4>4
      <3>2. CASE a # b
        BY <1>0, <2>6, <3>2 DEF OwnTagged
      <3> QED
        BY <3>1, <3>2
    <2>10. NoneBatched'
      BY <2>6, <2>7 DEF NoneBatched
    <2> QED
      BY <2>3, <2>9, <2>10 DEF BatchedInv, BatchesComplete
  <1>6. CASE BatchTx
    <2>1. /\ PrepareBatches /\ parallelizableTxs' = parallelizableTxs
          /\ batchSize' = batchSize
          /\ call' = [call EXCEPT !.next = @ + 1, !.step = "add"]
      BY <1>6 DEF BatchTx
    <2>2. Complete' /\ NoneBatched'
      BY <1>0, <2>1, PrepareCompletes
    <2>3. OwnTagged'
      BY <1>0, <2>1 DEF OwnTagged
    <2>4. call'.step = "add"
      <3>1. call \in Calls
        BY <1>0, <1>6, CurrentOK DEF BatchTx
      <3> QED
        BY <2>1, <3>1 DEF Calls
    <2> QED
      BY <2>2, <2>3, <2>4 DEF BatchedInv, BatchesComplete
  <1>7. CASE Rebatch
    <2>1. /\ PrepareBatches /\ parallelizableTxs' = parallelizableTxs
          /\ batchSize' = batchSize /\ call' = call
      BY <1>7 DEF Rebatch
    <2>2. Complete' /\ NoneBatched'
      BY <1>0, <2>1, PrepareCompletes
    <2>3. OwnTagged'
      BY <1>0, <2>1 DEF OwnTagged
    <2> QED
      BY <2>1, <2>2, <2>3 DEF BatchedInv, BatchesComplete
  <1>8. ASSUME NEW size \in Sizes, SetBatchSize(size)
        PROVE  BatchedInv'
    <2>1. /\ parallelizableTxs' = parallelizableTxs /\ batchedTxs' = batchedTxs
          /\ resizing' = TRUE /\ call' = call
      BY <1>8 DEF SetBatchSize
    <2>2. OwnTagged' /\ NoneBatched'
      BY <1>0, <2>1 DEF OwnTagged, NoneBatched
    <2> QED
      BY <2>1, <2>2 DEF BatchedInv, BatchesComplete
  <1>9. ASSUME Restarted
        PROVE  BatchedInv'
    <2>1. /\ batchedTxs' = <<>> /\ call' = NoCall
          /\ \A a \in Accounts : parallelizableTxs'[a] = <<>>
      BY <1>9 DEF Restarted
    <2>2. Complete'
      BY <2>1, SelectFromNothing DEF Complete
    <2> QED
      BY <2>1, <2>2 DEF BatchedInv, OwnTagged, NoneBatched, BatchesComplete
  <1>10. CASE ConcurrentMapWrites \/ NilList
    <2>1. \/ Restarted
          \/ batchVars' = batchVars /\ resizing' = resizing /\ call.step # "batch"
      BY <1>10 DEF ConcurrentMapWrites, NilList, Running, batchVars
    <2> QED
      BY <1>1, <1>9, <2>1
  <1>11. CASE DropPending \/ DropQueue
    <2>1. PICK a, inPending : DropList(a, inPending)
      BY <1>11 DEF DropPending, DropQueue
    <2>2. call' = call \/ call.step # "batch"
      BY <2>1 DEF DropList, Filling, Running
    <2>3. batchVars' = batchVars /\ resizing' = resizing
      BY <1>11 DEF DropPending, DropQueue, batchVars
    <2> QED
      BY <1>1, <2>2, <2>3
  <1>12. CASE Reset \/ Clear \/ ExecuteBatches \/ StartBatch \/ SkipBatch \/ CollectResult
                \/ RemovePriced \/ RemovePending \/ RemoveQueue \/ UNCHANGED vars
    <2>1. batchVars' = batchVars /\ resizing' = resizing /\ call' = call
      BY <1>12 DEF Reset, Clear, ExecuteBatches, StartBatch, SkipBatch, CollectResult,
         RemovePriced, RemovePending, RemoveQueue, vars, batchVars
    <2> QED
      BY <1>1, <2>1
  <1> QED
    BY <1>2, <1>3, <1>4, <1>5, <1>6, <1>7, <1>8, <1>10, <1>11, <1>12
       DEF Next, Adder, Executor, Remover

(* Whatever order Add, Process, SetBatchSize, Reset and Clear come in, and *)
(* for every batch size: when no prepareBatches is outstanding, the        *)
(* batches hold every tagged transaction that was accepted, each account's *)
(* in the order of arrival, and only the last batch is not full.           *)
THEOREM BatchesAreComplete == Spec => []BatchesComplete
  <1>1. BatchedInv => BatchesComplete
    BY DEF BatchedInv
  <1> QED
    BY <1>1, Invariance, BatchedInit, BatchedNext, PTL DEF Spec
=============================================================================
