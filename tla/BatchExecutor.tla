---------------------------- MODULE BatchExecutor ----------------------------
(***************************************************************************)
(* BatchExecutor of the geth client                                        *)
(* (parallelizable-client-go-ethereum/miner/batch_executor.go).  A loop    *)
(* takes the pool's announcements from a channel.  The tagged transactions *)
(* of one run concurrently, each on its own copy of the head's state, and  *)
(* a few fields of the copies are merged; the others then run in order on  *)
(* the merged state.                                                       *)
(*                                                                         *)
(* A state is nonces, balances and one storage cell per account.  Code is  *)
(* left out: SetCode writes back the code it read.  Metrics, gas limits    *)
(* (written and never read) and Pending are left out too.                  *)
(***************************************************************************)
EXTENDS Naturals, FiniteSets, SequencesExt

CONSTANTS
    Txs, Accounts,
    Coinbase,      \* the account fees are paid to
    From, Target,  \* Target[t]: recipient, or the contract t creates
    Forward,       \* Forward[t]: whom the code t runs calls with the value, Target[t] if nobody
    Creates,       \* transactions with To() = nil
    Nonce, Value, Fee,
    Reverts,       \* the EVM reverts the call: fee and nonce are spent
    LowGas,        \* the gas bought does not cover the intrinsic gas
    Tagged,        \* data begins with "PARALLEL" and is longer
    Heads,         \* states of heads of the chain
    Events,        \* lists of transactions the pool announces
    ChanSize       \* capacity of txsCh

State == [nonce : [Accounts -> Nat], balance : [Accounts -> Nat],
          storage : [Accounts -> Nat]]

ASSUME BatchExecutorAssumption ==
    /\ Coinbase \in Accounts
    /\ From \in [Txs -> Accounts] /\ Target \in [Txs -> Accounts]
    /\ Forward \in [Txs -> Accounts]
    /\ Nonce \in [Txs -> Nat] /\ Value \in [Txs -> Nat] /\ Fee \in [Txs -> Nat]
    /\ \A h \in Heads : h \in State
    /\ \A e \in Events : e \in Seq(Txs)
    /\ ChanSize \in Nat \ {0}

VARIABLES
    head,        \* the state of the current block
    subscribed,  \* txsSub has not been unsubscribed
    txsCh,
    phase,       \* of processTransactions
    parallelTxs, sequentialTxs,
    statedb,     \* the state the current batch works on
    stateCopies, results, finished,  \* per goroutine of executeParallelBatch
    start        \* history: statedb as processBatch got it

loopVars == <<parallelTxs, sequentialTxs, statedb, stateCopies, results, finished, start>>
vars == <<head, subscribed, txsCh, phase, loopVars>>

Init ==
    /\ head \in Heads
    /\ subscribed = TRUE
    /\ txsCh = <<>>
    /\ phase = "select"
    /\ parallelTxs = <<>> /\ sequentialTxs = <<>>
    /\ statedb = head /\ start = head
    /\ stateCopies = <<>> /\ results = <<>> /\ finished = {}

-----------------------------------------------------------------------------
(* core.ApplyMessage.  It buys all the gas before it looks at the          *)
(* intrinsic gas, so that error leaves the sender debited.  Gas is used up *)
(* and paid to the coinbase: refunds and the base fee are left out.        *)

PreCheck(st, t) ==
    /\ st.nonce[From[t]] = Nonce[t]
    /\ st.balance[From[t]] >= Value[t] + Fee[t]

Succeeds(st, t) == PreCheck(st, t) /\ t \notin LowGas

BuyGas(st, t) == [st EXCEPT !.balance[From[t]] = @ - Fee[t]]

(* The call moves the value to the target, whose code may call another     *)
(* account with it; each account called has its one cell written, which    *)
(* stands for anything else its code does to it.  What the code does is    *)
(* fixed for each transaction and does not depend on the state.            *)
Execute(st, t) ==
    LET done == t \notin Reverts
        moved == IF done THEN Value[t] ELSE 0
    IN  [nonce   |-> [a \in Accounts |->
                        CASE a = From[t] -> st.nonce[a] + 1
                          [] a = Target[t] /\ a # From[t] /\ t \in Creates /\ done -> 1
                          [] OTHER -> st.nonce[a]],
         balance |-> [a \in Accounts |->
                        (st.balance[a] + (IF a = Forward[t] THEN moved ELSE 0)
                                       + (IF a = Coinbase THEN Fee[t] ELSE 0))
                        - (IF a = From[t] THEN moved ELSE 0)],
         storage |-> [a \in Accounts |->
                        IF a \in {Target[t], Forward[t]} /\ done THEN st.storage[a] + 1
                        ELSE st.storage[a]]]

ApplyMessage(st, t) ==
    CASE Succeeds(st, t) -> Execute(BuyGas(st, t), t)
      [] PreCheck(st, t) /\ t \in LowGas -> BuyGas(st, t)
      [] OTHER -> st

ApplyAll(st, txs) == FoldLeft(ApplyMessage, st, txs)

-----------------------------------------------------------------------------
(* The pool's feed delivers an announcement; it blocks on a full channel.  *)
Announce ==
    /\ subscribed
    /\ Len(txsCh) < ChanSize
    /\ \E e \in Events : txsCh' = Append(txsCh, e)
    /\ UNCHANGED <<head, subscribed, phase, loopVars>>

(* The chain advances or reorganises at any time.                          *)
NewHead ==
    /\ head' \in Heads
    /\ UNCHANGED <<subscribed, txsCh, phase, loopVars>>

Stop ==
    /\ subscribed
    /\ subscribed' = FALSE
    /\ UNCHANGED <<head, txsCh, phase, loopVars>>

(* select: with both channels ready Go takes either.                       *)
Exit ==
    /\ phase = "select"
    /\ ~subscribed
    /\ phase' = "stopped"
    /\ UNCHANGED <<head, subscribed, txsCh, loopVars>>

(* The transactions of S, in the order of the announcement.                *)
Select(txs, S) ==
    FoldLeft(LAMBDA acc, t : IF t \in S THEN Append(acc, t) ELSE acc, <<>>, txs)

(* processBatch up to executeParallelBatch's goroutines.                   *)
MutantProcessBatch ==
    /\ phase = "select"
    /\ txsCh # <<>>
    /\ Head(txsCh) # <<>>
    /\ txsCh' = Tail(txsCh)
    /\ LET txs == Head(txsCh)
           tagged == Select(txs, Tagged)
       IN  /\ parallelTxs' = tagged
           /\ sequentialTxs' = Select(txs, Txs \ Tagged)
           /\ stateCopies' = [i \in DOMAIN tagged |-> head]
           /\ results' = [i \in DOMAIN txs |-> FALSE]
    /\ statedb' = head
    /\ start' = head
    /\ finished' = {}
    /\ phase' = "parallel"
    /\ UNCHANGED <<head, subscribed>>

ProcessBatch ==
    /\ phase = "select"
    /\ txsCh # <<>>
    /\ Head(txsCh) # <<>>
    /\ txsCh' = Tail(txsCh)
    /\ LET txs == Head(txsCh)
           tagged == Select(txs, Tagged)
       IN  /\ parallelTxs' = tagged
           /\ sequentialTxs' = Select(txs, Txs \ Tagged)
           /\ stateCopies' = [i \in DOMAIN tagged |-> head]
           /\ results' = [i \in DOMAIN tagged |-> FALSE]
    /\ statedb' = head
    /\ start' = head
    /\ finished' = {}
    /\ phase' = "parallel"
    /\ UNCHANGED <<head, subscribed>>

(* An empty announcement, or StateAt failed: the announcement is dropped.  *)
DropBatch ==
    /\ phase = "select"
    /\ txsCh # <<>>
    /\ txsCh' = Tail(txsCh)
    /\ UNCHANGED <<head, subscribed, phase, loopVars>>

MutantRunTxNotDone(i) ==
    /\ phase = "parallel"
    /\ i \notin finished
    /\ stateCopies' = [stateCopies EXCEPT ![i] = ApplyMessage(@, parallelTxs[i])]
    /\ results' = [results EXCEPT ![i] = Succeeds(stateCopies[i], parallelTxs[i])]
    /\ finished' = IF results'[i] THEN finished \cup {i} ELSE finished
    /\ UNCHANGED <<head, subscribed, txsCh, phase, parallelTxs, sequentialTxs, statedb, start>>

(* One goroutine; results[i] records that ApplyMessage returned no error.  *)
RunTx(i) ==
    /\ phase = "parallel"
    /\ i \notin finished
    /\ stateCopies' = [stateCopies EXCEPT ![i] = ApplyMessage(@, parallelTxs[i])]
    /\ results' = [results EXCEPT ![i] = Succeeds(stateCopies[i], parallelTxs[i])]
    /\ finished' = finished \cup {i}
    /\ UNCHANGED <<head, subscribed, txsCh, phase, parallelTxs, sequentialTxs, statedb, start>>

(* The merge overwrites nonce and balance of sender and recipient with     *)
(* those of the copy.  Storage, a created contract, the coinbase and every *)
(* other account the call reached are not merged.                          *)
Merged(i) ==
    {From[parallelTxs[i]]}
        \cup (IF parallelTxs[i] \in Creates THEN {} ELSE {Target[parallelTxs[i]]})

MutantMergeTxOfAll(st, i) ==
    [st EXCEPT
        !.nonce = [a \in Accounts |->
            IF a \in Merged(i) THEN stateCopies[i].nonce[a] ELSE @[a]],
        !.balance = [a \in Accounts |->
            IF a \in Merged(i) THEN stateCopies[i].balance[a] ELSE @[a]]]

MutantMergeTxNoNonce(st, i) ==
    IF ~results[i] THEN st
    ELSE [st EXCEPT
             !.balance = [a \in Accounts |->
                 IF a \in Merged(i) THEN stateCopies[i].balance[a] ELSE @[a]]]

MutantMergeTxSenderOnly(st, i) ==
    IF ~results[i] THEN st
    ELSE LET a == From[parallelTxs[i]]
         IN  [st EXCEPT !.nonce[a] = stateCopies[i].nonce[a],
                        !.balance[a] = stateCopies[i].balance[a]]

MergeTx(st, i) ==
    IF ~results[i] THEN st
    ELSE [st EXCEPT
             !.nonce = [a \in Accounts |->
                 IF a \in Merged(i) THEN stateCopies[i].nonce[a] ELSE @[a]],
             !.balance = [a \in Accounts |->
                 IF a \in Merged(i) THEN stateCopies[i].balance[a] ELSE @[a]]]

(* wg.Wait has returned.                                                   *)
Merge ==
    /\ phase = "parallel"
    /\ finished = DOMAIN parallelTxs
    /\ statedb' = FoldLeftDomain(MergeTx, statedb, parallelTxs)
    /\ phase' = "sequential"
    /\ UNCHANGED <<head, subscribed, txsCh, parallelTxs, sequentialTxs, stateCopies,
                   results, finished, start>>

ExecuteSequentialBatch ==
    /\ phase = "sequential"
    /\ statedb' = ApplyAll(statedb, sequentialTxs)
    /\ phase' = "executed"
    /\ UNCHANGED <<head, subscribed, txsCh, parallelTxs, sequentialTxs, stateCopies,
                   results, finished, start>>

(* processBatch returns and statedb is dropped.                            *)
Return ==
    /\ phase = "executed"
    /\ phase' = "select"
    /\ UNCHANGED <<head, subscribed, txsCh, loopVars>>

Loop ==
    \/ Exit \/ ProcessBatch \/ DropBatch
    \/ \E i \in DOMAIN parallelTxs : RunTx(i)
    \/ Merge \/ ExecuteSequentialBatch \/ Return

Next == Announce \/ NewHead \/ Stop \/ Loop

Fairness == WF_vars(Loop)

Spec == Init /\ [][Next]_vars /\ Fairness

-----------------------------------------------------------------------------
(* Properties                                                              *)

(* Type invariant: the loop's locals, one copy and one result per          *)
(* goroutine.                                                              *)
TypeOK ==
    /\ head \in State /\ statedb \in State /\ start \in State
    /\ subscribed \in BOOLEAN
    /\ txsCh \in Seq(Seq(Txs)) /\ Len(txsCh) <= ChanSize
    /\ phase \in {"select", "parallel", "sequential", "executed", "stopped"}
    /\ parallelTxs \in Seq(Txs) /\ sequentialTxs \in Seq(Txs)
    /\ stateCopies \in Seq(State) /\ results \in Seq(BOOLEAN)
    /\ DOMAIN stateCopies = DOMAIN parallelTxs /\ DOMAIN results = DOMAIN parallelTxs
    /\ finished \subseteq DOMAIN parallelTxs

(* The accounts of distinct tagged transactions are distinct, none is the  *)
(* coinbase's or a created contract's, and no code calls a third account   *)
(* or passes value on to one.                                              *)
Independent ==
    /\ \A i, j \in DOMAIN parallelTxs : i # j =>
          {From[parallelTxs[i]], Target[parallelTxs[i]]}
              \cap {From[parallelTxs[j]], Target[parallelTxs[j]]} = {}
    /\ \A i \in DOMAIN parallelTxs :
          /\ Coinbase \notin {From[parallelTxs[i]], Target[parallelTxs[i]]}
          /\ parallelTxs[i] \notin Creates
          /\ Forward[parallelTxs[i]] \in {From[parallelTxs[i]], Target[parallelTxs[i]]}

(* A block builder runs transactions one after the other and undoes the    *)
(* ones that fail.                                                         *)
Commit(st, t) == IF Succeeds(st, t) THEN ApplyMessage(st, t) ELSE st

CommitAll(txs) == FoldLeft(Commit, start, txs)

(* Whatever the order in which the goroutines finish, for independent      *)
(* tagged transactions whose calls stay between sender and recipient the   *)
(* merge gives every account but the coinbase the nonce and balance of     *)
(* one-after-the-other execution.  Where a called contract pays a third    *)
(* account the merge takes the value from the sender and gives it to       *)
(* nobody (214-227): Independent leaves that out, SameStateOutput does not. *)
MergeIsSequential ==
    phase = "sequential" /\ Independent =>
        LET reference == CommitAll(parallelTxs) IN
        /\ statedb.nonce = reference.nonce
        /\ \A a \in Accounts \ {Coinbase} : statedb.balance[a] = reference.balance[a]

(* A sender to whom no transaction of the same announcement is addressed   *)
(* has spent its nonce once one of its tagged transactions ran: the half   *)
(* that runs in order cannot run the nonce again.  (A recipient's nonce is *)
(* written back from a copy in which it had not sent anything.)            *)
SpentNonceStays ==
    phase = "sequential" =>
        \A i \in DOMAIN parallelTxs :
            LET s == From[parallelTxs[i]] IN
            /\ results[i]
            /\ \A j \in DOMAIN parallelTxs : Target[parallelTxs[j]] # s
            => statedb.nonce[s] = start.nonce[s] + 1

(* "Only apply changes from successful transactions": an account that no   *)
(* successful tagged transaction sends from or is addressed to has the     *)
(* nonce and balance of the head after the merge, gas bought by failed     *)
(* transactions included.  (That it also keeps them when the code of a     *)
(* successful one paid it is the loss SameStateOutput reports.)            *)
FailedLeavesNoTrace ==
    phase = "sequential" =>
        \A a \in Accounts :
            (\A i \in DOMAIN parallelTxs : results[i] => a \notin Merged(i)) =>
                /\ statedb.nonce[a] = start.nonce[a]
                /\ statedb.balance[a] = start.balance[a]

(* The loop comes back to its select or ends: no announcement blocks it.   *)
BatchEnds == phase = "parallel" ~> phase \in {"select", "stopped"}

(* README.md: "Since we result in the same state output irrespective of    *)
(* the client used": executing a batch gives the state that a client which *)
(* runs its transactions one after the other gets, in some order.          *)
SameStateOutput ==
    phase = "executed" =>
        \E txs \in SetToSeqs(Range(parallelTxs \o sequentialTxs)) :
            statedb = CommitAll(txs)
=============================================================================
