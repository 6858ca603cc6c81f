# Verification of the parallel-execution AVS

TLA+ models of the code of this repository that decides which Ethereum
transactions may run in parallel, carries that decision through an AVS, and
executes it in a modified geth client. TLC checks small instances of every
module; TLAPS proves every safety property of the passing runs, and the
refinement of the abstract grouping, for every size.

## The system

| Part | Code | State | Operations |
|---|---|---|---|
| Helper | `AVS/parallel-exec-helper/index.js` | debounce flag, access lists, current and historical groups | pending callback, access-list request, first-fit grouping, cleaning timer, `GET /blocks` |
| Othentic services | `AVS/Othentic-AVS` | none between requests | execute (cron), publish to IPFS, `sendTask`; validate |
| Task manager | `blueprint/.../contracts/src/IncredibleSquaringTaskManager.sol` | tasks, responses, challenges | `createNewTask`, `respondToTask`, `raiseAndResolveChallenge` |
| Aggregator | `blueprint/.../src/contexts/aggregator.rs`, `jobs/initialize_task.rs` | tasks, response cache, digests seen, five mutexes | RPC handler, loop over the cache, task initialisation, shutdown |
| Operator | `jobs/compute_x_square.rs`, `contexts/client.rs` | attempt number | compute, sign, send with retries |
| Pool | `parallelizable-client-go-ethereum/core/txpool/parallelpool` | lists by account, lookup, prices, batches | `Add`, `Process`, `Reset`, `Clear`, `SetBatchSize`, `ExecuteBatches` |
| Batch executor | `parallelizable-client-go-ethereum/miner/batch_executor.go` | event channel, state copies | split, concurrent run, merge, sequential run, `Stop` |
| Legacy pool | `parallelizable-client-go-ethereum/core/txpool/legacypool` | pending and queued lists, index, next nonces, scheduler | `Add`, reset, promotion, demotion, truncation, `SetGasTip`, eviction, `Clear`, `Close` |
| Pool loop | `parallelizable-client-go-ethereum/core/txpool/txpool.go` | two heads, reset goroutine, waiting `Sync`, account reservations | head event, reset, `Sync`, `Close` |
| Prototype pool | `core/`, `eth/` | as the pool | an earlier variant, outside every Go module |
| Dashboard | `src/` | block list, interval, loading flag | fetch, simulate, mount and unmount, render |

The helper's groups are polled by the Othentic execution service and by the
operators (`api_client.rs`); operators sign the result for a task that the
contract announced, the aggregator collects signatures and responds to the
contract. The pool and the executor of the client run the batches: the pool
announces transactions on a feed, the executor takes them from it. The rest of
`parallelizable-client-go-ethereum` is upstream go-ethereum.

What is hard here: callbacks cut at awaits (helper), a lock that is released in
the middle of an operation and a removal without any lock (pool), state copies
merged field by field (executor), stakes that move between two transactions
(contract), mutexes that are held across waits (aggregator), overlapping cron
jobs whose failures are swallowed (Othentic), fetches that answer out of order
(dashboard), and three goroutines that wait on each other while the chain
reorganises (legacy pool and its loop). `PROJECT.json`
lists every such place under `hazards`.

## Modules

| Module | Models | Correspondence |
|---|---|---|
| `BatchHelper` | helper | an action is the code between two awaits; `handler[t]` says where the callback for `t` is suspended. `processTransactionQueue` has no await before its `finally` block has reset flag and queue, so neither is a variable |
| `Grouping` | what the helper promises | abstract: an assignment of transactions to collision-free groups, without callbacks, queues and arrays |
| `AttestationFlow` | Othentic execution and validation service | an action is the code between two awaits with the outcome of the request; a request that fails may have had its effect, and wallet code outside the `try` may throw (`SendTaskThrows`). `Digest`, `Hexlify` and `Unhexlify` are constructors: a digest and its hexadecimal form are different values. `served` is the helper's answer |
| `BlockStore` | the dashboard's store and the page's effect | one action per store operation, timer and answer; `served` as above |
| `HelperClients` | helper + one of its clients | extends `BatchHelper` and `INSTANCE`s the two clients, with `served` replaced by the helper's `Blocks`; its specification is `AllSpec` |
| `ParallelList` | `list.go` | operators from list to list |
| `ParallelPool` | `parallelpool.go`, `api.go` | a call of `Add`/`Process` is the record `call`; `add` and `removeTx`, which takes no lock, are split at each write of `p.all`, `p.priced` and the maps of lists (`call.step`, `removing`), and a list that `removeTx` deletes under `add` makes it panic (`NilList`: the process ends, or the RPC server recovers); `SetBatchSize` is two actions; `ExecuteBatches` is a snapshot; a detected concurrent map write ends the process |
| `BatchExecutor` | `batch_executor.go` | `phase` is the position in `processBatch`; one action per goroutine. `ApplyMessage` keeps the order of checks and debits of `core/state_transition.go`; the code a transaction runs may pass its value on to a third account (`Forward`) |
| `TaskManager` | the contract | one action per external function; a hash stands for what is hashed; a call that reverts is no step. `StakeAt` is the registry's history |
| `Aggregator` | aggregator, the operator's job and its client, the initialisation job | `pc` is the position of the loop; who holds a mutex follows from the program counters (`AggregatorFree`, `TasksFree`, `ServiceFree`) |
| `LegacyPool` | `legacypool.go`, `list.go`, `noncer.go` | each section under `pool.mu` is one action on the record `pool`; checks before the lock, requests to the scheduler and the announcement after the lock are actions of their own |
| `TxPool` | `txpool.go` | extends `LegacyPool`: main loop, reset goroutine, `Sync`, `Close` |
| `*Proofs` | | the theorems about the module of that name |
| `RecursionFacts` | | lemmas on what the folds and recursive functions of the models compute, used by the proofs |
| `MC*` | | the instances for TLC |

Operators named `Mutant...` are wrong variants of the definition they precede.
Nothing uses them; replacing the definition by one must make the property named
in `PROJECT.json` fail.

**Refinement.** `BatchHelper` implements `Grouping` (`ImplementsGrouping`): the
array of groups becomes a function from group numbers to sets, the sequential
group the rest, an answer without access list unknown keys. The step that
matters is the answer of the node: it assigns the keys and places the
transaction in one abstract step, although a cleaning may have come between the
announcement and the answer; every other callback step is a stutter.

**Composition.** `HelperClients` puts the Othentic services or the dashboard
beside the helper; a poll changes nothing in the helper, so the clients cannot
disturb one another and one at a time is enough. `TxPool` composes the pool
loop with the legacy pool: `LegacyPool.Reset` blocks the loop's reset goroutine
until the run that carries it has ended.

**Abstractions of `LegacyPool`.** A transaction has one price and takes one slot.
The two heaps of the price index and the heartbeats only choose which
transaction is evicted and which queue is cut first; the choice is open. The
caller adds one transaction at a time. Gas limits, blob fees and the
authorities of SetCode transactions are left out; the other subpools appear as
owners of accounts. Of the chain it is assumed (`ChainAssumption`) that a block's
number is above its parent's, that nonces never go back from parent to child, and
that the state of a block has used the nonces of the transactions in it.

## Runs

| Run | Shows | Instance |
|---|---|---|
| `helper` | groups are collision-free, first-fit and given up to sequential execution only when full, except where a list was overwritten after the comparison (`stale`); a transaction without access list is alone in its group; `/blocks` is well formed; the helper implements `Grouping`; the debounce is released | 3 hashes, two of them announced twice, 2 groups, 6 different answers |
| `pool` | with additions and unlocked removals interleaved write by write: the two maps of a list agree; what is listed is in the lookup, and what is not tagged and in the lookup is priced; pending transactions are next; batches are complete; insertions are announced unless `add` panics; calls end | 6 transactions of 2 accounts: tagged, plain, competing for a nonce, underpriced, of the wrong type; 2 heads; batch sizes below, at and above the limit |
| `executor` | the merge is right for independent transactions whose calls stay between sender and recipient, keeps spent nonces and ignores failed ones; a batch ends | 11 transactions, two of which run code that pays on or back, 10 announcements, 3 heads, channel of 2 |
| `task_manager` | a response is backed by enough stake of its task's block, in time and final | 2 tasks, 2 operators whose stakes swap, percentages 50, 100, 101, 5 blocks |
| `aggregator` | what is sent is known; accepted responses are accounted for as long as nothing failed; if the chain answers and the mutexes do not cross, requests are answered and shutdown ends | 2 operators, 2 tasks of which one is answered, 2 attempts; that the channel may deliver another task's answer first is carried by the theorem `OnlyKnownIsSent` |
| `clients` | what a validator approves is a list in which no parallelizable block has a common key; executions end although any request fails; the dashboard leaves no timer and no loading flag behind | 2 transactions, 1 group, 2 overlapping executions, 2 fetches, 2 intervals |
| `txpool` | lists, index and next nonces agree, pending lists start at the state's nonce, and the pool stays within its limits; an account is reserved exactly while it is tracked; pending transactions are announced; nobody but an overtaken `Sync` waits for a step that no goroutine will take; a `Sync` is answered only on a head known at the call or heard since | 5 transactions of 2 accounts (a replacement, a gap), all limits 1, a fork with a reorganisation of depth 2 beside `MaxReorgDepth` 1, 2 callers of `Sync`, 3 calls of `Add` and `Sync`, 2 inputs |

Five runs are expected to fail, each on what a comment or the README says:

* `txpool_gap`: a reorganisation can leave a gap in the middle of a pending list.
  It reinjects the transactions of the old branch; when one in the middle is
  refused because the account cannot pay for it beside what is pending, the one
  before it is promoted in front of a later one that is still pending.
  `demoteUnexecutables` looks for a gap in front only.
* `pool_batched`: `Reset`, `Clear` and execution leave a transaction in the
  batches.
* `executor_state`: the merged state is the state of no sequential execution
  (fees, storage, created contracts, overwritten balances, value that a called
  contract pays to a third account).
* `aggregator_signatures`: the second operator's signature over a digest that was
  seen is dropped (`aggregator.rs:314`) while the service still collects signatures
  for the task, although the blueprint's README says that signatures are
  aggregated before submission.
* `aggregator_cache`: after a failure `pop_front` removes the wrong response.

**Bounds.** `MaxSimulations`, `MaxTagged`, `MaxCopies`, `MaxTasks`, `MaxBlock`,
`Executions`, `Fetches`, `Intervals`, `MaxCalls`, `MaxInputs`, `ChanSize` and
`MAX_RETRIES` bound the state space; the code has a bound only for the last two. In
`txpool`, three calls of `Add` fill a pool of two slots and make one more find it
full; two inputs (heads, tips, evictions, `Clear`, `Close`) are one that arrives
while the reset of the other runs, and with a `Sync` after them the first case in
which the running reset must not answer it. Two groups, two batches, two tasks and
two competitors are where first-fit, rebatching, replacement and crossed mutexes
first happen; the third hash of the helper is the one that finds both groups
occupied, the second announcement of a hash is the first to overwrite a list.
Integers keep their width only where it matters: the percentage is cut to a byte.

**Deadlock** is checked for helper, pool, executor and clients. The task manager
stops at `MaxBlock`, and the pool of `txpool` may be idle or closed. The aggregator
really can stop: the loop may wait for `tasks` holding the service's mutex while
`initialize_bls_task` waits the other way round (`Crossed`), it may wait for a
receipt the chain never gives, and it ends after shutdown.

**Fairness.** Helper: every request to the node is answered or fails and timers
fire; announcements are not owed. Pool: `Add` or `Process` and an execution that
began go on; nobody owes the pool a call, and nothing rests on `SetBatchSize`
getting to its second section. Executor: the loop and its goroutines are scheduled;
stopping, heads and announcements are not owed. Aggregator: weak fairness for
the loop, the initialisation that holds `tasks`, the closing of the server and
the service's timers; strong fairness for an RPC handler that waits for the
outer mutex, because tokio's mutex queues its waiters. The chain is not fair:
`send` and `get_receipt` (`aggregator.rs:436-440`) are awaited without a timeout, so
`RequestAnswered` and `ShutdownEnds` have it as a hypothesis that the chain answers
(`ChainAnswers`), and as another that the mutexes never cross (`NeverCrossed`).
Without either of them TLC finds that the code hangs with the outer mutex held.
Clients: a handler of the
execution service goes on, because each of its requests is answered or fails;
neither cron job nor dashboard owes anything. The task manager has no
fairness and no liveness property. `TxPool` states none either: deciding whether
a run of the scheduler is enabled enumerates its outcomes, which makes TLC's
liveness check too slow. `NobodyStranded` is the safety half of it: whoever
waits has the goroutine it waits for.

**What the models show besides.** A hash announced again overwrites its access list
where it sits (`index.js:116`) and is not compared again, so it may collide with its
group from then on, although `AVS/Othentic-AVS/README.md:9` says that groups have no
collisions; `CollisionFree` and `FirstFit` leave out exactly the pairs compared
before. The removal that takes no lock (`parallelpool.go:923`) can leave a tagged
transaction that was added again without its price entry, drop a list with the
transaction `add` has just put into it, and make `add` call a nil list and panic.
The merge takes value that a called contract pays on from the sender and gives it to
nobody (`batch_executor.go:214-227`). A percentage of 306 acts as 50 in the contract
(`IncredibleSquaringTaskManager.sol:132`), where a comment (`:126`) says that a
greater value fails the check. The aggregator can hang for good with its outer mutex
held, on a receipt that does not come and on the crossed mutexes of `tasks` and the
service, although a comment (`aggregator.rs:265`) says that responses are processed
"without holding the main lock". The helper compares storage keys without the
contract they belong to (`index.js:194`): transactions that share no state may be
separated, which costs parallelism and breaks no group. A queued transaction that
follows the pending ones is not promoted by the run of a reset, because the next
nonces then are the state's (`legacypool.go:1408`); it waits for its account to send
again. A `Sync` that overtakes another leaves the first one waiting for good, even
after `Close` (`txpool.go:276`): it stays in the model as `overtaken`, the one
exception of `NobodyStranded`. Once the gap of `txpool_gap` is filled, the next
nonce need not be the last pending one plus one, which `legacypool_test.go:228-239`
asks for; `PoolInternals` states the weaker relation that always holds. A reset that
fails early still discards queued events, so `PendingIsAnnounced` and a part of
`NobodyStranded` are stated for pools in which none failed. `calculate_task` returns
1 when the client has given up; its comment (`compute_x_square.rs:27`) lists 0 for a
failure to send. No code reads the number, so no property is about it.

## Proofs

Each theorem holds for every value of the constants that satisfies the named
assumptions of the module: any sets of transactions, accounts, operators, blocks
and callers, any limits, windows and retries, and any bound on how much happens.
TLC checks the same properties on the instances above, so a theorem and a run
speak of one definition.

**`BatchHelperProofs`** (`BatchHelperAssumption`): `TypeOK`, `CollisionFree`,
`FirstFit`, `UnlistedStandsAlone`, `BlocksWellFormed`, and
`HelperImplementsGrouping`. The grouping properties are parts of one inductive
invariant `Inv`. The history variable `stale` holds the pairs whose comparison a
later simulation made out of date; every other pair is still compared with the lists
of now. `GroupsBounded` is needed because `Overflow` tests `>=` while
`SequentialOnlyWhenFull`, a part of `FirstFit`, says exactly `MaxGroups`.
`PlacedWasSimulated` and `StaleWasRepeated` (a pair is out of date only if one of
the two was simulated twice) are what the clients' proofs need of groups that have
left the current ones. `ShapeInv` adds that no group is empty, for the `/blocks`
answer. The refinement maps initial states to initial states and each step to an
abstract step or a stutter, by the four outcomes of `processTransactionQueue` (join,
open, overflow, abort).

**`TaskManagerProofs`** (`TaskManagerAssumption`): `TypeOK`, `RespondedInTime`,
`ResponseBacked` and the action property `ResponsesFinal`. `TasksNumbered` is the
strengthening: tasks sit below `latestTaskNum`, so a new one overwrites none, and
were not created in a block to come, so the stakes a response was checked against
stay those of its task. `ResponseBacked` also needs that sums of stakes grow with
the set of signers, a lemma of `RecursionFacts`.

**`AggregatorProofs`** (`AggregatorAssumption`: a digest determines its task):
`TypeOK`, `SentIsKnown`, `AcceptedIsAccounted`. `SentIsKnown`
rests on `KnownInv`: what the service was given, and what its channel carries, is a
digest in `tasks_responses` with a known task. `AcceptedIsAccounted` needs
`Aligned`: as long as nothing failed, the part of the copy the loop has still to
walk is a prefix of the cache, so `pop_front` removes what was just processed.

**`ParallelPoolProofs`** (`ParallelPoolAssumption`): `TypeOK`, `ListsConsistent`,
`ListedIsKnown`, `PendingIsNext`, `InsertedIsAnnounced`, `BatchesComplete`. `Inv`
has a part per goroutine: what the call in progress has established about its
transaction (`InsertInv`), what a resize and an execution of old batches know of the
pool, and that the price entry of an untagged transaction follows its entry in the
lookup (`PricedInv`). `ListedIsKnown` survives the unlocked `removeTx` because
batches hold only tagged transactions (`BatchInv`) and lists only untagged ones of
their own account (`OwnLists`): what `removeTx` takes from the lookup is in no list,
and what it wrongly takes away with a list is a list of transactions that stay in
the lookup. `NonceInv` says that a pending list has no nonce but the head's.
`BatchesComplete` has an invariant of its own on top, `BatchedInv`: the tagged
transactions of an account are its own, and only a pool without any has no batches
(`prepareBatches` returns early then). The work is in `prepareBatches`: `ChunksJoin`
shows that the chunks joined are the sequence that was cut, all full except the
last, and `RowsSelect` that filtering it by an account gives that account's
transactions back, whatever order Go's map iteration chose.

**`BatchExecutorProofs`** (`BatchExecutorAssumption`): `TypeOK`,
`FailedLeavesNoTrace`, `SpentNonceStays`, `MergeIsSequential`. `CopiesInv` says that
a copy is the start state or the message applied to it; `MergedInv` that after the
merge the state is what merging the copies one by one gives. That this agrees with
one-after-the-other execution of independent transactions whose calls stay between
sender and recipient is an induction over the batch: `Agree` relates the two states
after each number of transactions.

**`HelperClientsProofs`** (`HelperClientsAssumption` and the helper's): the three
invariants of the composition. `AllInv` carries the helper's invariant on to what
left it: historical groups, published content, tasks, votes and fetched lists are
made of groups in which no two transactions collided when they were placed
(`GoodRow`), and the timers and flags of the dashboard match its phase.

**`TxPoolProofs`** (`SizesAssumption`, `TransactionsAssumption`, `ChainAssumption`,
`BoundsAssumption`, `NoneAssumption`): `TypeOK`, `PoolInternals`,
`ReservedIffTracked`, `PendingIsAnnounced`, `NobodyStranded`, `HeadsFollow`,
`HeadReached` and the action property `SyncAnswered`.

* `Good` is what holds of the pool between two locked sections: `Shape` (index and
  lists agree, no nonce twice), `Fits`, `Due` (a pending list starts at the state's
  nonce) and `Owned`. One lemma per operation (`removeTx`, eviction, insertion,
  promotion, demotion, the truncations, reinjection) says what it keeps. A reset
  breaks `Due`, since the head moves first; `ValidatedIsGood` shows that the rest
  of the locked section restores it from `Shape`, `Fits` and `Owned` alone.
* `PendingIsAnnounced` is inductive with `Good`. Events are kept by sender and
  nonce, so an event is overwritten only by that of the transaction that replaced
  it; and the events a reset drops are below the state's nonce, so of nothing that
  is pending after it.
* `NobodyStranded` needs `HeadsFollow`: until a reset fails, the one under way
  starts from the pool's own head and ends at the head the main loop asked for.
  Then what it reinjects lies below the nonces of all pending transactions
  (`BranchNonces`, by induction along the chain), replaces none and queues no
  event; so a queued event always has its caller's request, made or to come
  (`EventsHaveSender`).
  `Held` is the part about `Sync`: one that waits and was not overtaken is the one the
  main loop will answer.
* `HeadReached` follows from `HeadsFollow` (the loop's old head is the pool's) and
  `MainServes` (a head still to serve has its reset). `SyncAnswered` also needs
  `SyncServed`: a waiting `Sync` whose reset is not to come has one under way that
  started with a head heard since the call.

**`RecursionFacts`** holds the inductions: sums and folds over finite sets, folds
over sequences, what a filter written as a fold keeps of a concatenation, and
recursive functions along a rank. Induction theorems with an
operator parameter cannot be instantiated here; instead a set of counterexamples
that is not empty has a minimal member (`WFMin`), which refutes itself.

Only model-checked: the liveness properties (`DebounceReleased`, `CallsEnd`,
`BatchEnds`, `RequestAnswered`, `ShutdownEnds`, `ExecutionsEnd`),
because fairness and `ENABLED` are out of the prover's reach, and the five
properties that are expected to fail.

## Not modelled

* The prototype pool of `core/` and `eth/`: it is in no Go module and imports
  `github.com/your-project`, so it has no executable behaviour. Its successor in the
  client is modelled as `ParallelPool`. That package and `batch_executor.go` do not
  build as they stand either: they use identifiers that this tree does not define
  for them (`newPriceHeap`, `newParallelPricedList`, `statedb.ManageState`,
  `core.Backend`, `core.NewEVMContext`). They are modelled from their use; the rest
  of both files is explicit about what it does.
* `useOperatorApi` of the dashboard: no component uses it, and the helper has none
  of its endpoints. The dashboard's rendering is not modelled either.
* Blueprint start-up, generated bindings, the service manager without state of its
  own, the ERC20 mock.
* The rest of go-ethereum (block import, snap sync, networking, blob pool, RPC,
  wallets): unchanged upstream code, most of the repository's lines, that none of
  its own parts touches. Of it, the legacy pool and the pool loop are modelled
  because the parallel pool follows the first and is meant for the second, and of
  `core/state_transition.go` the order of checks and debits.
* The parallel pool under the pool loop: `eth/backend.go:241` lists it among the
  subpools, but it lacks `Init`, `Close`, `SetGasTip` and others of the `SubPool`
  interface, so how the loop would drive it is not defined.
* The pool loop compares pointers to headers (`txpool.go:218`), the model blocks:
  two headers of one block would cost one more reset.
* Base fees, refunds and contract code beyond one payment in the executor, where
  also the header is read apart from the state; the price order, journal and metrics
  of the pools; what the response to a task says. Undetected data races on Go maps.

## Plan

Every safety property of the passing runs is proved. What could follow:

1. An abstract specification of a pool (accepted, announced, gone) that `TxPool`
   implements, from `PendingIsAnnounced`.
2. The parallel pool under the pool loop, once it implements `SubPool`.
