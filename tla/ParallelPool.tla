---------------------------- MODULE ParallelPool ----------------------------
(***************************************************************************)
(* ParallelPool of the geth client and the API in front of it              *)
(* (parallelizable-client-go-ethereum/core/txpool/parallelpool/            *)
(* parallelpool.go, api.go).                                               *)
(*                                                                         *)
(* Three kinds of goroutine share the pool.  Add and Process hold p.mu     *)
(* from beginning to end and take batchMu twice inside it, to append to    *)
(* parallelizableTxs and to rebuild the batches.  SetBatchSize takes       *)
(* batchMu twice without p.mu.  ExecuteBatches copies the batches and then *)
(* executes them without any lock, removing every executed transaction     *)
(* with removeTx: that is why the insertion of a transaction and removeTx  *)
(* are split at each write of p.all, p.priced and the maps of lists.       *)
(* Reset and Clear write the same maps in one step, since every write of   *)
(* removeTx comes before or after their replacement of its map.            *)
(*                                                                         *)
(* Left out: metrics, the clock that numbers batches, the price order of   *)
(* priced (a bag here), currentMaxGas, journal and beats, which nothing    *)
(* reads, and promoteExecutables and detectConflicts, which nothing calls. *)
(***************************************************************************)
EXTENDS ParallelList, SequencesExt

CONSTANTS
    Accounts,
    From,             \* From[t]: the sender recovered from the signature
    Cost,             \* Cost[t]: value + gas price * gas limit
    ParallelType,     \* transactions whose type is ParallelTxType (0x05)
    Tagged,           \* those whose data begins with "PARALLEL" and is longer
    Malformed,        \* oversized, of negative value or badly signed
    LowGas,           \* gas limit below the intrinsic gas
    PriceLimit,
    HeadStates,       \* the account states a head of the chain may have
    DefaultBatchSize,
    MaxBatchSize,
    Sizes,            \* arguments SetBatchSize is called with
    Adds,             \* arguments [txs, local] of Add
    Submissions,      \* arguments [tx, local] of Process
    MaxTagged,        \* bound: appends to each account's parallelizableTxs
    MaxCopies,        \* bound: entries of one transaction in priced
    NoCall

(* What the pool reads of a head's state.                                  *)
State == [nonce : [Accounts -> Nat], balance : [Accounts -> Nat]]

(* A call of Add or Process that holds p.mu: it processes txs from next on. *)
(* step is what comes next for txs[next]: its validation ("add"), its      *)
(* price entry, its place in parallelizableTxs or a list, in two steps if  *)
(* the account has none ("list", "fill"; "broken" if the list is gone by   *)
(* then), or prepareBatches ("batch").                                     *)
Calls == [kind : {"Add", "Process"}, txs : Seq(Txs), local : BOOLEAN, next : Nat,
          step : {"add", "price", "list", "fill", "broken", "batch"}]

(* The run of removeTx for a result: what it does next.                    *)
Removals == [index : Nat,
             step : {"none", "priced", "pending", "dropPending", "queue", "dropQueue"}]

Idle == [index |-> 0, step |-> "none"]

ASSUME ParallelPoolAssumption ==
    /\ IsFiniteSet(Accounts)
    /\ From \in [Txs -> Accounts] /\ Cost \in [Txs -> Nat]
    /\ ParallelType \subseteq Txs /\ Tagged \subseteq Txs
    /\ Malformed \subseteq Txs /\ LowGas \subseteq Txs
    /\ PriceLimit \in Nat
    /\ \A s \in HeadStates : s \in State
    /\ DefaultBatchSize \in 1..MaxBatchSize
    /\ MaxBatchSize \in Nat /\ Sizes \subseteq Int
    /\ \A c \in Adds : c \in [txs : Seq(Txs), local : BOOLEAN]
    /\ \A c \in Submissions : c \in [tx : Txs, local : BOOLEAN]
    /\ NoCall \notin Calls

VARIABLES
    \* under p.mu: the state of the head (pendingState is always a copy of
    \* currentState), the lists, the lookup, the prices, the local accounts
    currentState, pending, queue, all, priced, locals,
    \* under batchMu
    parallelizableTxs, batchedTxs, batchSize,
    \* the call of Add or Process that holds p.mu
    call,
    \* SetBatchSize has set the size and not yet rebuilt the batches
    resizing,
    \* the run of ExecuteBatches: batches still to do, results of the current
    \* one still to collect, removeTx for one of them
    toExecute, results, removing,
    \* history: what the call in progress, or the last one if there is none,
    \* has inserted and not sent on txFeed
    unannounced

poolVars == <<currentState, pending, queue, all, priced, locals>>
batchVars == <<parallelizableTxs, batchedTxs, batchSize>>
execVars == <<toExecute, results, removing>>
vars == <<poolVars, batchVars, call, resizing, execVars, unannounced>>

Init ==
    /\ currentState \in HeadStates
    /\ pending = [a \in Accounts |-> NewList]
    /\ queue = [a \in Accounts |-> NewList]
    /\ all = {}
    /\ priced = EmptyBag
    /\ locals = {}
    /\ parallelizableTxs = [a \in Accounts |-> <<>>]
    /\ batchedTxs = <<>>
    /\ batchSize = DefaultBatchSize
    /\ call = NoCall
    /\ resizing = FALSE
    /\ toExecute = <<>>
    /\ results = {}
    /\ removing = Idle
    /\ unannounced = {}

-----------------------------------------------------------------------------
(* prepareBatches                                                          *)

Chunks(txs, size) ==
    [i \in 1..((Len(txs) + size - 1) \div size) |->
        SubSeq(txs, (i - 1) * size + 1,
               IF i * size < Len(txs) THEN i * size ELSE Len(txs))]

MutantPrepareBatches ==
    LET prepared == IF \A a \in Accounts : parallelizableTxs[a] = <<>>
                    THEN {batchedTxs}
                    ELSE {SelectSeq(Chunks(FlattenSeq([i \in DOMAIN order |->
                                              parallelizableTxs[order[i]]]), batchSize),
                                    LAMBDA b : Len(b) = batchSize) :
                             order \in SetToSeqs(Accounts)}
    IN  batchedTxs' \in prepared

(* The batches of the transactions of all accounts, the map of accounts    *)
(* being ranged over in some order.  Nothing to batch leaves the old ones. *)
PrepareBatches ==
    LET prepared == IF \A a \in Accounts : parallelizableTxs[a] = <<>>
                    THEN {batchedTxs}
                    ELSE {Chunks(FlattenSeq([i \in DOMAIN order |->
                                     parallelizableTxs[order[i]]]), batchSize) :
                             order \in SetToSeqs(Accounts)}
    IN  batchedTxs' \in prepared

-----------------------------------------------------------------------------
(* Add and Process                                                         *)

(* validateTx; the gas check is skipped for tagged transactions.           *)
Valid(t, local) ==
    /\ t \notin Malformed
    /\ local \/ Price[t] >= PriceLimit
    /\ currentState.nonce[From[t]] <= Nonce[t]
    /\ currentState.balance[From[t]] >= Cost[t]
    /\ t \in Tagged \/ t \notin LowGas

(* p.mu is taken.                                                          *)
Begin(kind, txs, local) ==
    /\ call = NoCall
    /\ \A a \in Accounts :
          Len(parallelizableTxs[a])
              + Cardinality({i \in DOMAIN txs : txs[i] \in Tagged \cap ParallelType /\ From[txs[i]] = a})
              <= MaxTagged[a]
    /\ \A t \in ToSet(txs) : BagIn(t, priced) => priced[t] < MaxCopies
    /\ call' = [kind |-> kind, txs |-> txs, local |-> local, next |-> 1, step |-> "add"]
    /\ unannounced' = {}
    /\ UNCHANGED <<poolVars, batchVars, resizing, execVars>>

BeginAdd == \E c \in Adds : Begin("Add", c.txs, c.local)

BeginProcess == \E c \in Submissions : Begin("Process", <<c.tx>>, c.local)

Current == call.txs[call.next]

Running(step) == call # NoCall /\ call.step = step /\ call.next <= Len(call.txs)

Accepted == Current \in ParallelType /\ Valid(Current, call.local)

MutantRejectTx ==
    /\ Running("add")
    /\ ~Accepted
    /\ call' = IF call.kind = "Process" THEN NoCall ELSE call
    /\ UNCHANGED <<poolVars, batchVars, resizing, execVars, unannounced>>

(* Process returns the error and announces nothing; Add goes on.           *)
RejectTx ==
    /\ Running("add")
    /\ ~Accepted
    /\ call' = IF call.kind = "Process" THEN NoCall ELSE [call EXCEPT !.next = @ + 1]
    /\ UNCHANGED <<poolVars, batchVars, resizing, execVars, unannounced>>

(* p.all[tx.Hash()] = tx                                                   *)
IndexTx ==
    /\ Running("add")
    /\ Accepted
    /\ all' = all \cup {Current}
    /\ call' = [call EXCEPT !.step = "price"]
    /\ UNCHANGED <<currentState, pending, queue, priced, locals, batchVars, resizing,
                   execVars, unannounced>>

PriceTx ==
    /\ Running("price")
    /\ priced' = priced (+) SetToBag({Current})
    /\ call' = [call EXCEPT !.step = "list"]
    /\ UNCHANGED <<currentState, pending, queue, all, locals, batchVars, resizing,
                   execVars, unannounced>>

(* Whether an untagged transaction goes to pending.                        *)
IsNext(t) == currentState.nonce[From[t]] = Nonce[t]

MutantAppendTagged ==
    /\ Running("list")
    /\ Current \in Tagged
    /\ parallelizableTxs' =
           [parallelizableTxs EXCEPT ![From[Current]] = Append(@, Current)]
    /\ IF IsNext(Current)
       THEN pending' = [pending EXCEPT ![From[Current]] = Add(@, Current)] /\ UNCHANGED queue
       ELSE queue' = [queue EXCEPT ![From[Current]] = Add(@, Current)] /\ UNCHANGED pending
    /\ unannounced' = unannounced \cup {Current}
    /\ call' = [call EXCEPT !.step = "batch"]
    /\ UNCHANGED <<currentState, all, priced, locals, batchedTxs, batchSize, resizing,
                   execVars>>

(* A tagged transaction goes to parallelizableTxs and to no list.          *)
AppendTagged ==
    /\ Running("list")
    /\ Current \in Tagged
    /\ parallelizableTxs' =
           [parallelizableTxs EXCEPT ![From[Current]] = Append(@, Current)]
    /\ unannounced' = unannounced \cup {Current}
    /\ call' = [call EXCEPT !.step = "batch"]
    /\ UNCHANGED <<poolVars, batchedTxs, batchSize, resizing, execVars>>

(* The account gets a list if it has none: an account without a list and   *)
(* one with an empty list are told apart only until the list is filled.    *)
OpenList ==
    /\ Running("list")
    /\ Current \notin Tagged
    /\ call' = [call EXCEPT !.step = "fill"]
    /\ UNCHANGED <<poolVars, batchVars, resizing, execVars, unannounced>>

(* The answer of the list's Add is ignored: a transaction that it refuses  *)
(* or replaces stays in all and priced.                                    *)
InsertTx ==
    /\ Running("fill")
    /\ IF IsNext(Current)
       THEN pending' = [pending EXCEPT ![From[Current]] = Add(@, Current)] /\ UNCHANGED queue
       ELSE queue' = [queue EXCEPT ![From[Current]] = Add(@, Current)] /\ UNCHANGED pending
    /\ unannounced' = unannounced \cup {Current}
    /\ call' = [call EXCEPT !.step = "batch"]
    /\ UNCHANGED <<currentState, all, priced, locals, batchVars, resizing, execVars>>

(* add's call of prepareBatches, and the bookkeeping of the caller.        *)
BatchTx ==
    /\ Running("batch")
    /\ call' = [call EXCEPT !.next = @ + 1, !.step = "add"]
    /\ PrepareBatches
    /\ locals' = IF call.local THEN locals \cup {From[Current]} ELSE locals
    /\ UNCHANGED <<currentState, pending, queue, all, priced, parallelizableTxs,
                   batchSize, resizing, execVars, unannounced>>

MutantEndCall ==
    /\ call # NoCall
    /\ call.next > Len(call.txs)
    /\ unannounced' = unannounced \ {Head(call.txs)}
    /\ call' = NoCall
    /\ UNCHANGED <<poolVars, batchVars, resizing, execVars>>

(* The event carries all transactions of the call, the refused ones too.   *)
EndCall ==
    /\ call # NoCall
    /\ call.next > Len(call.txs)
    /\ unannounced' = unannounced \ ToSet(call.txs)
    /\ call' = NoCall
    /\ UNCHANGED <<poolVars, batchVars, resizing, execVars>>

-----------------------------------------------------------------------------
(* Reset and Clear hold p.mu throughout.  Neither touches what batchMu     *)
(* guards.                                                                 *)

MutantReset ==
    /\ call = NoCall
    /\ pending' = [a \in Accounts |-> NewList]
    /\ all' = {}
    /\ priced' = EmptyBag
    /\ \E s \in HeadStates : currentState' = s
    /\ UNCHANGED <<queue, locals, batchVars, call, resizing, execVars, unannounced>>

(* If the new head's state cannot be opened, the old one stays.            *)
Reset ==
    /\ call = NoCall
    /\ pending' = [a \in Accounts |-> NewList]
    /\ queue' = [a \in Accounts |-> NewList]
    /\ all' = {}
    /\ priced' = EmptyBag
    /\ \/ \E s \in HeadStates : currentState' = s
       \/ UNCHANGED currentState
    /\ UNCHANGED <<locals, batchVars, call, resizing, execVars, unannounced>>

Clear ==
    /\ call = NoCall
    /\ pending' = [a \in Accounts |-> NewList]
    /\ queue' = [a \in Accounts |-> NewList]
    /\ all' = {}
    /\ priced' = EmptyBag
    /\ UNCHANGED <<currentState, locals, batchVars, call, resizing, execVars, unannounced>>

-----------------------------------------------------------------------------
(* SetBatchSize: two critical sections of batchMu.                         *)

MutantSetBatchSize(size) ==
    /\ ~resizing
    /\ batchSize' = IF size <= 0 THEN DefaultBatchSize ELSE size
    /\ resizing' = TRUE
    /\ UNCHANGED <<poolVars, parallelizableTxs, batchedTxs, call, execVars, unannounced>>

SetBatchSize(size) ==
    /\ ~resizing
    /\ batchSize' = CASE size <= 0 -> DefaultBatchSize
                      [] size > MaxBatchSize -> MaxBatchSize
                      [] OTHER -> size
    /\ resizing' = TRUE
    /\ UNCHANGED <<poolVars, parallelizableTxs, batchedTxs, call, execVars, unannounced>>

Rebatch ==
    /\ resizing
    /\ resizing' = FALSE
    /\ PrepareBatches
    /\ UNCHANGED <<poolVars, parallelizableTxs, batchSize, call, execVars, unannounced>>

-----------------------------------------------------------------------------
(* ExecuteBatches and ExecuteBatch                                         *)

ExecuteBatches ==
    /\ toExecute = <<>>
    /\ batchedTxs # <<>>
    /\ toExecute' = batchedTxs
    /\ UNCHANGED <<poolVars, batchVars, call, resizing, results, removing, unannounced>>

(* One goroutine per transaction runs on a state copy that is dropped.     *)
StartBatch ==
    /\ toExecute # <<>>
    /\ results = {}
    /\ results' = DOMAIN Head(toExecute)
    /\ UNCHANGED <<poolVars, batchVars, call, resizing, toExecute, removing, unannounced>>

(* StateAt failed: ExecuteBatches logs the error and goes on.              *)
SkipBatch ==
    /\ toExecute # <<>>
    /\ results = {}
    /\ toExecute' = Tail(toExecute)
    /\ UNCHANGED <<poolVars, batchVars, call, resizing, results, removing, unannounced>>

(* The result of index i is dealt with.                                    *)
Collected(i) ==
    /\ results' = results \ {i}
    /\ toExecute' = IF results' = {} THEN Tail(toExecute) ELSE toExecute
    /\ removing' = Idle

(* The collector takes the results in any order and calls removeTx without *)
(* p.mu: the transaction leaves p.all; one the pool no longer holds is not *)
(* looked for elsewhere.                                                   *)
CollectResult ==
    /\ removing = Idle
    /\ \E i \in results :
          IF Head(toExecute)[i] \in all
          THEN /\ all' = all \ {Head(toExecute)[i]}
               /\ removing' = [index |-> i, step |-> "priced"]
               /\ UNCHANGED <<results, toExecute>>
          ELSE Collected(i) /\ UNCHANGED all
    /\ UNCHANGED <<currentState, pending, queue, priced, locals, batchVars, call, resizing,
                   unannounced>>

(* The transaction that removeTx is removing.                              *)
Removed == Head(toExecute)[removing.index]

RemovePriced ==
    /\ removing.step = "priced"
    /\ priced' = priced (-) SetToBag({Removed})
    /\ removing' = [removing EXCEPT !.step = "pending"]
    /\ UNCHANGED <<currentState, pending, queue, all, locals, batchVars, call, resizing,
                   toExecute, results, unannounced>>

(* The list of account a that add is about to fill, in pending or queue.   *)
Filling(a, inPending) ==
    Running("fill") /\ From[Current] = a /\ IsNext(Current) = inPending

(* removeTx sees an empty list: one that it has emptied or that add has    *)
(* just created.                                                           *)
SeenEmpty(before, after, a, inPending) ==
    after.txs = {} /\ (before.txs # {} \/ Filling(a, inPending))

(* Deleting a list that add is about to fill leaves it a nil pointer.      *)
DropList(a, inPending) ==
    call' = IF Filling(a, inPending) THEN [call EXCEPT !.step = "broken"] ELSE call

RemovePending ==
    LET a == From[Removed]
    IN  /\ removing.step = "pending"
        /\ pending' = [pending EXCEPT ![a] = RemoveHash(@, Removed)]
        /\ removing' = [removing EXCEPT !.step =
                           IF SeenEmpty(pending[a], pending'[a], a, TRUE)
                           THEN "dropPending" ELSE "queue"]
        /\ UNCHANGED <<currentState, queue, all, priced, locals, batchVars, call, resizing,
                       toExecute, results, unannounced>>

(* delete(p.pending, from), whatever the list holds by now.                *)
DropPending ==
    /\ removing.step = "dropPending"
    /\ pending' = [pending EXCEPT ![From[Removed]] = NewList]
    /\ DropList(From[Removed], TRUE)
    /\ removing' = [removing EXCEPT !.step = "queue"]
    /\ UNCHANGED <<currentState, queue, all, priced, locals, batchVars, resizing,
                   toExecute, results, unannounced>>

RemoveQueue ==
    LET a == From[Removed]
    IN  /\ removing.step = "queue"
        /\ queue' = [queue EXCEPT ![a] = RemoveHash(@, Removed)]
        /\ IF SeenEmpty(queue[a], queue'[a], a, FALSE)
           THEN /\ removing' = [removing EXCEPT !.step = "dropQueue"]
                /\ UNCHANGED <<results, toExecute>>
           ELSE Collected(removing.index)
        /\ UNCHANGED <<currentState, pending, all, priced, locals, batchVars, call, resizing,
                       unannounced>>

DropQueue ==
    /\ removing.step = "dropQueue"
    /\ queue' = [queue EXCEPT ![From[Removed]] = NewList]
    /\ DropList(From[Removed], FALSE)
    /\ Collected(removing.index)
    /\ UNCHANGED <<currentState, pending, all, priced, locals, batchVars, resizing,
                   unannounced>>

-----------------------------------------------------------------------------
(* What the unlocked removeTx can do to the process.                       *)

(* The node that is started again has an empty pool.                       *)
Restarted ==
    /\ \E s \in HeadStates : currentState' = s
    /\ pending' = [a \in Accounts |-> NewList]
    /\ queue' = [a \in Accounts |-> NewList]
    /\ all' = {} /\ priced' = EmptyBag /\ locals' = {}
    /\ parallelizableTxs' = [a \in Accounts |-> <<>>]
    /\ batchedTxs' = <<>> /\ batchSize' = DefaultBatchSize
    /\ call' = NoCall /\ resizing' = FALSE
    /\ toExecute' = <<>> /\ results' = {} /\ removing' = Idle
    /\ unannounced' = {}

(* removeTx writes p.all and the other maps while Add holds p.mu and       *)
(* writes them too.  Go's runtime ends the process where it sees that.     *)
ConcurrentMapWrites ==
    /\ call # NoCall
    /\ results # {}
    /\ Restarted

(* add calls Add of the list that is gone and panics: the process ends or, *)
(* in a call from the RPC server, which recovers, p.mu is released and     *)
(* the call is over.                                                       *)
NilList ==
    /\ Running("broken")
    /\ \/ Restarted
       \/ /\ call' = NoCall
          /\ UNCHANGED <<poolVars, batchVars, resizing, execVars, unannounced>>

-----------------------------------------------------------------------------
Adder ==
    \/ RejectTx \/ IndexTx \/ PriceTx \/ AppendTagged \/ OpenList \/ InsertTx \/ NilList
    \/ BatchTx \/ EndCall

Remover == RemovePriced \/ RemovePending \/ DropPending \/ RemoveQueue \/ DropQueue

Executor == StartBatch \/ SkipBatch \/ CollectResult \/ Remover

Next ==
    \/ BeginAdd \/ BeginProcess \/ Adder
    \/ Reset \/ Clear
    \/ \E size \in Sizes : SetBatchSize(size)
    \/ Rebatch
    \/ ExecuteBatches \/ Executor \/ ConcurrentMapWrites

(* A goroutine that has begun runs on; nobody owes the pool a call.  No    *)
(* property needs SetBatchSize to get to its second critical section.      *)
Fairness == WF_vars(Adder) /\ WF_vars(Executor)

Spec == Init /\ [][Next]_vars /\ Fairness

-----------------------------------------------------------------------------
(* Properties                                                              *)

Lists == {pending[a] : a \in Accounts} \cup {queue[a] : a \in Accounts}

ListType == [items : UNION {[S -> Txs] : S \in SUBSET {Nonce[t] : t \in Txs}},
             txs : SUBSET Txs]

(* Type invariant: the shape of the ParallelPool struct and of the calls   *)
(* in progress.                                                            *)
TypeOK ==
    /\ currentState \in State
    /\ \A list \in Lists : list \in ListType
    /\ all \subseteq Txs
    /\ IsABag(priced) /\ BagToSet(priced) \subseteq Txs
    /\ locals \subseteq Accounts
    /\ parallelizableTxs \in [Accounts -> Seq(Txs)]
    /\ batchedTxs \in Seq(Seq(Txs))
    /\ batchSize \in 1..MaxBatchSize
    /\ call \in Calls \cup {NoCall}
    /\ resizing \in BOOLEAN
    /\ toExecute \in Seq(Seq(Txs))
    /\ toExecute # <<>> => results \subseteq DOMAIN Head(toExecute)
    /\ removing \in Removals
    /\ removing = Idle \/ removing.index \in results
    /\ unannounced \subseteq Txs

(* list.go keeps two maps in step by hand: after any history of additions, *)
(* replacements and removals each list holds the same transactions by hash *)
(* and by nonce.                                                           *)
ListsConsistent == \A list \in Lists : Consistent(list)

(* Every transaction of a list can be looked up by Get and Has, and        *)
(* between calls every untagged one that can be looked up has an entry in  *)
(* the price list.  removeTx, running beside Add without p.mu, can drop a  *)
(* list with what it holds and can take the price entry of a tagged        *)
(* transaction that was added again meanwhile; that it does no worse rests *)
(* on the tagged ones being in no list.                                    *)
ListedIsKnown ==
    /\ \A list \in Lists : list.txs \subseteq all
    /\ call = NoCall => all \ Tagged \subseteq BagToSet(priced)

(* What Pending offers for execution is executable on the current head,    *)
(* and what is queued is for later; Reset, which changes the head, must    *)
(* leave neither behind.                                                   *)
PendingIsNext ==
    \A a \in Accounts :
        /\ \A i \in DOMAIN Ready(pending[a]) :
              /\ Nonce[Ready(pending[a])[i]] = currentState.nonce[a]
              /\ From[Ready(pending[a])[i]] = a
        /\ \A n \in DOMAIN queue[a].items : n > currentState.nonce[a]

TxsOf(a) == {t \in Txs : From[t] = a}

(* The transactions of account a in txs, in their order.                   *)
OfAccount(txs, a) ==
    FoldLeft(LAMBDA acc, t : IF t \in TxsOf(a) THEN Append(acc, t) ELSE acc, <<>>, txs)

Complete ==
    /\ \A a \in Accounts : OfAccount(FlattenSeq(batchedTxs), a) = parallelizableTxs[a]
    /\ \A i \in DOMAIN batchedTxs :
          IF i < Len(batchedTxs)
          THEN Len(batchedTxs[i]) = batchSize
          ELSE Len(batchedTxs[i]) \in 1..batchSize

(* Whenever no call is between its change and its prepareBatches, the      *)
(* batches hold each tagged transaction accepted so far as often as it was *)
(* accepted, each account's in the order of arrival, all batches full      *)
(* except the last, whatever order SetBatchSize, Add and Clear came in.    *)
BatchesComplete ==
    ~resizing /\ (call = NoCall \/ call.step # "batch") => Complete

(* Subscribers have heard of every insertion when a call ends (329,        *)
(* 359-362), unless it ends in the panic over a list that removeTx took    *)
(* away.                                                                   *)
InsertedIsAnnounced ==
    [][call # NoCall /\ call' = NoCall /\ call.step # "broken" => unannounced' = {}]_vars

(* Calls come to an end: p.mu is released, and ExecuteBatches gets through *)
(* its snapshot even though the batches are rebuilt under it.              *)
CallsEnd ==
    /\ (call # NoCall) ~> (call = NoCall)
    /\ (toExecute # <<>>) ~> (toExecute = <<>>)

(* "Reset clears the pool content" (601), "Clear removes all transactions  *)
(* from the pool" (667) and ExecuteBatch's "Remove successfully executed   *)
(* transaction from pool" (922): between calls, what is offered for        *)
(* execution in a batch is a transaction of the pool.                      *)
BatchedIsKnown ==
    call = NoCall => \A i \in DOMAIN batchedTxs : ToSet(batchedTxs[i]) \subseteq all
=============================================================================
