----------------------------- MODULE LegacyPool -----------------------------
(***************************************************************************)
(* The legacy transaction pool of the geth client                          *)
(* (core/txpool/legacypool).  Transactions of an account are executable    *)
(* (pending) or wait for a nonce or for their turn (queue).  Three kinds of *)
(* goroutine share the pool under one mutex: callers of Add, the scheduler *)
(* with the reorganisation runs it launches one at a time, and the timers  *)
(* and setters.  Each locked section is one action; what happens between   *)
(* two of them (the checks before the lock, the request to the scheduler,  *)
(* the announcement after the lock) is an action of its own.               *)
(*                                                                         *)
(* A transaction is a legacy one: one price, one slot.  The two heaps of   *)
(* the price index only decide which transaction makes room for another,   *)
(* so that choice is left open.  Heartbeats only decide which account's    *)
(* queue is cut first or expires, so these are left open too.              *)
(***************************************************************************)
EXTENDS Integers, SequencesExt

CONSTANTS
    Accounts, Txs,
    From, Nonce, Price, Cost,       \* sender, nonce, gas price, cost of a transaction
    PriceBump,                      \* percentage a replacement has to add
    AccountSlots, GlobalSlots,      \* pending transactions: guaranteed per account, in all
    AccountQueue, GlobalQueue,      \* queued transactions: per account, in all
    Tips, StartTip,                 \* minimum tips an operator sets; the configured one
    Blocks, Genesis, Parent, Number,
    Included,                       \* the transactions of a block, in order
    StateNonce, Balance,            \* the state a block leaves
    MaxReorgDepth,                  \* deeper reorganisations reinject nothing (64 in the code)
    Callers,
    None

ASSUME SizesAssumption ==
    /\ {AccountSlots, GlobalSlots, AccountQueue, GlobalQueue} \subseteq Nat \ {0}
    /\ MaxReorgDepth \in Nat /\ PriceBump \in Nat \ {0}

ASSUME TransactionsAssumption ==
    /\ IsFiniteSet(Txs)
    /\ From \in [Txs -> Accounts]
    /\ {Nonce, Price, Cost} \subseteq [Txs -> Nat]
    /\ Tips \subseteq Nat /\ StartTip \in Tips

ASSUME ChainAssumption ==
    /\ Genesis \in Blocks /\ Parent \in [Blocks -> Blocks]
    /\ Number \in [Blocks -> Nat]
    /\ Included \in [Blocks -> Seq(Txs)]
    /\ {StateNonce, Balance} \subseteq [Blocks -> [Accounts -> Nat]]
    /\ \A b \in Blocks \ {Genesis} :
          /\ Number[Parent[b]] < Number[b]
          /\ \A a \in Accounts : StateNonce[Parent[b]][a] <= StateNonce[b][a]
    /\ \A b \in Blocks : \A i \in DOMAIN Included[b] :
          LET t == Included[b][i] IN Nonce[t] < StateNonce[b][From[t]]

VARIABLES
    pool,       \* what the mutex guards: the lists, the index, the next nonces,
                \* the owners of the accounts, the head the pool stands on
    gasTip,     \* gasTip, stored atomically and read without the mutex
    call,       \* how far each caller of Add has come
    sched,      \* the scheduler's next run: reset, dirtyAccounts, queuedEvents, launchNextRun
    run,        \* the run in progress (curDone # nil)
    shutdown,   \* reorgShutdownCh is closed
    loop,       \* scheduleReorgLoop serves requests, or has returned
    announced,  \* history: the pooled transactions a NewTxsEvent was sent for
    resetFailed \* history: some reset returned before it stored the new state

legacyVars == <<pool, gasTip, call, sched, run, shutdown, loop, announced, resetFailed>>

Legacy == "legacy"
Other == "other"    \* any other subpool
-----------------------------------------------------------------------------
(* Lists of one account.  Two members never share a nonce. *)

At(list, n) == {t \in list : Nonce[t] = n}

\* list.Add: a newcomer replaces only a cheaper one, by the price bump at least.
Wins(list, t) ==
    \A old \in At(list, Nonce[t]) :
        /\ Price[t] > Price[old]
        /\ Price[t] >= (Price[old] * (100 + PriceBump)) \div 100

Winners(list, ts) == {t \in ts : Wins(list, t)}

Replaced(list, ts) == {old \in list : \E t \in Winners(list, ts) : Nonce[t] = Nonce[old]}

Inserted(list, ts) == (list \ Replaced(list, ts)) \cup Winners(list, ts)

MinNonce(list) == Min({Nonce[t] : t \in list})
MaxNonce(list) == Max({Nonce[t] : t \in list})

\* SortedMap.Cap: the k lowest nonces stay.
Cap(list, k) == {t \in list : Cardinality({u \in list : Nonce[u] < Nonce[t]}) < k}

\* SortedMap.Ready: the unbroken run from the lowest nonce, when that one is due.
Ready(list, start) ==
    IF list = {} \/ MinNonce(list) > start THEN {}
    ELSE {t \in list : \A n \in MinNonce(list) .. Nonce[t] : At(list, n) # {}}

Total(lists) == MapThenSumSet(LAMBDA a : Cardinality(lists[a]), Accounts)

NextNonce(p, a) == StateNonce[p.head][a]
-----------------------------------------------------------------------------
(* Ownership of accounts *)

Tracked(p, a) == p.pending[a] # {} \/ p.queue[a] # {}

\* reserve(addr, false) by the legacy pool, for those of A it tracks no longer.
Release(p, A) ==
    [p EXCEPT !.owner = [a \in Accounts |->
        IF a \in A /\ ~Tracked(p, a) /\ p.owner[a] = Legacy THEN None ELSE p.owner[a]]]
-----------------------------------------------------------------------------
(* Removal *)

\* removeTx, from the lists: the pending transactions behind it are postponed to
\* the queue.
Unlist(p, t) ==
    LET a     == From[t]
        hit   == At(p.pending[a], Nonce[t])
        later == {u \in p.pending[a] : Nonce[u] > Nonce[t]}
    IN  IF hit # {}
        THEN [p EXCEPT !.all = @ \ ({t} \cup Replaced(p.queue[a], later)),
                       !.pending[a] = @ \ (hit \cup later),
                       !.queue[a] = Inserted(@, later),
                       !.nonces[a] = Min({@, Nonce[t]})]
        ELSE [p EXCEPT !.all = @ \ {t},
                       !.queue[a] = @ \ At(@, Nonce[t])]

RemoveTx(p, t, unreserve) ==
    IF t \notin p.all THEN p
    ELSE IF unreserve THEN Release(Unlist(p, t), {From[t]}) ELSE Unlist(p, t)

\* The count removeTx returns.
Dropped(p, t) ==
    IF At(p.pending[From[t]], Nonce[t]) = {} THEN 0
    ELSE Cardinality({u \in p.pending[From[t]] : Nonce[u] >= Nonce[t]})

\* Several removals under one lock; their order does not matter.
RemoveAll(p, ts) == FoldSet(LAMBDA t, q : RemoveTx(q, t, TRUE), p, ts)
-----------------------------------------------------------------------------
(* Insertion: add, as the set of what it may do.  An outcome is the pool it *)
(* leaves, the account it makes dirty and the events it queues.             *)

Outcome(p, dirty, events) == [pool |-> p, dirty |-> dirty, events |-> events]

ValidTx(p, t) ==
    LET a == From[t]
        others == p.pending[a] \ At(p.pending[a], Nonce[t])
    IN  /\ Nonce[t] >= NextNonce(p, a)
        /\ Cost[t] <= Balance[p.head][a]
        /\ MapThenSumSet(LAMBDA u : Cost[u], others) + Cost[t] <= Balance[p.head][a]

Full(p) == Cardinality(p.all) + 1 > GlobalSlots + GlobalQueue

Underpriced(p, t) == \A u \in p.all : Price[u] >= Price[t]

IsGapped(p, t) ==
    \E n \in p.nonces[From[t]] .. Nonce[t] - 1 : At(p.queue[From[t]], n) = {}

Churns(p, t, d) == IsGapped(p, t) /\ At(p.pending[From[d]], Nonce[d]) # {}

NoRoom(p, t) == Underpriced(p, t) \/ p.changes > GlobalSlots \div 4

MutantMakeRoom(p, t, d) ==
    [RemoveTx(p, d, TRUE) EXCEPT !.changes = @ + Dropped(p, d)]

\* The sender of the newcomer is not given up even if d was its last transaction.
MakeRoom(p, t, d) ==
    [RemoveTx(p, d, From[d] # From[t]) EXCEPT !.changes = @ + Dropped(p, d)]

\* The end of add: replace a pending transaction, or enqueue.
Insert(p, t) ==
    LET a == From[t]
        inPending == At(p.pending[a], Nonce[t]) # {}
        list == IF inPending THEN p.pending[a] ELSE p.queue[a]
        all  == (p.all \ Replaced(list, {t})) \cup {t}
        new  == Inserted(list, {t})
    IN  IF ~Wins(list, t) THEN Outcome(Release(p, {a}), {}, {})
        ELSE IF inPending
        THEN Outcome([p EXCEPT !.pending[a] = new, !.all = all], {}, {t})
        ELSE Outcome([p EXCEPT !.queue[a] = new, !.all = all],
                     IF Replaced(list, {t}) = {} THEN {a} ELSE {}, {})

Add(p, t) ==
    LET rejected == Outcome(p, {}, {})
        q == [p EXCEPT !.owner[From[t]] = Legacy]
    IN  IF t \in p.all \/ ~ValidTx(p, t) \/ p.owner[From[t]] = Other THEN {rejected}
        ELSE IF ~Full(p) THEN {Insert(q, t)}
        ELSE IF NoRoom(p, t) THEN {rejected}
        ELSE {IF Churns(p, t, d) THEN rejected ELSE Insert(MakeRoom(q, t, d), t) : d \in p.all}
-----------------------------------------------------------------------------
(* The parts of a reorganisation run *)

\* promoteExecutables, for the accounts of A that have a queue.
Live(p, a) ==
    {t \in p.queue[a] : Nonce[t] >= NextNonce(p, a) /\ Cost[t] <= Balance[p.head][a]}

Promoted(p, a) == Winners(p.pending[a], Ready(Live(p, a), p.nonces[a]))

Waiting(p, a) == Cap(Live(p, a) \ Ready(Live(p, a), p.nonces[a]), AccountQueue)

PromoteExecutables(p, A) ==
    LET B == {a \in A : p.queue[a] # {}}
        gone == UNION {(p.queue[a] \ (Waiting(p, a) \cup Promoted(p, a)))
                         \cup Replaced(p.pending[a], Promoted(p, a)) : a \in B}
    IN  Release(
          [p EXCEPT
             !.all = @ \ gone,
             !.queue = [a \in Accounts |-> IF a \in B THEN Waiting(p, a) ELSE @[a]],
             !.pending = [a \in Accounts |->
                 IF a \in B THEN Inserted(@[a], Promoted(p, a)) ELSE @[a]],
             !.nonces = [a \in Accounts |->
                 IF a \in B /\ Promoted(p, a) # {} THEN MaxNonce(Promoted(p, a)) + 1 ELSE @[a]]],
          B)

MutantExecutable(list, next) == list

\* "If there's a gap in front, alert (should never happen)": nothing stays.
Executable(list, next) == IF At(list, next) = {} THEN {} ELSE list

\* demoteUnexecutables: mined and unpayable ones go, what they leave without a
\* predecessor returns to the queue.
DemoteUnexecutables(p) ==
    LET due(a)   == {t \in p.pending[a] : Nonce[t] >= NextNonce(p, a)}
        drops(a) == {t \in due(a) : Cost[t] > Balance[p.head][a]}
        sound(a) == {t \in due(a) : \A d \in drops(a) : Nonce[t] < Nonce[d]}
        front(a) == Executable(sound(a), NextNonce(p, a))
        back(a)  == due(a) \ (drops(a) \cup front(a))
        gone     == UNION {(p.pending[a] \ due(a)) \cup drops(a)
                             \cup Replaced(p.queue[a], back(a)) : a \in Accounts}
    IN  Release([p EXCEPT !.all = @ \ gone,
                          !.pending = [a \in Accounts |-> front(a)],
                          !.queue = [a \in Accounts |-> Inserted(@[a], back(a))]],
                {a \in Accounts : p.pending[a] # {}})

\* pendingNonces.setAll, at the end of a reset.
SettleNonces(p) ==
    [p EXCEPT !.nonces = [a \in Accounts |->
        IF p.pending[a] = {} THEN NextNonce(p, a) ELSE MaxNonce(p.pending[a]) + 1]]

\* truncatePending: the longest lists are cut, level by level, until the total
\* fits or every list is down to its guaranteed slots.
CutTo(p, level) == [a \in Accounts |-> Cap(p.pending[a], level)]

CutLevel(p) ==
    LET fits == {l \in AccountSlots .. Cardinality(p.all) : Total(CutTo(p, l)) <= GlobalSlots}
    IN  IF fits = {} THEN AccountSlots ELSE Max(fits)

TruncatePending(p) ==
    IF Total(p.pending) <= GlobalSlots THEN p
    ELSE LET cut == CutTo(p, CutLevel(p))
             over(a) == p.pending[a] \ cut[a]
         IN  [p EXCEPT !.pending = cut,
                       !.all = @ \ UNION {over(a) : a \in Accounts},
                       !.nonces = [a \in Accounts |->
                           IF over(a) = {} THEN @[a] ELSE Min({@[a], MinNonce(over(a))})]]

\* truncateQueue: whole queues go, the account longest without a heartbeat first;
\* the last one touched loses its highest nonces only.
TruncateQueue(p) ==
    LET excess == Total(p.queue) - GlobalQueue
        before(rank, a) == MapThenSumSet(LAMBDA b : Cardinality(p.queue[b]),
                                         {b \in Accounts : rank[b] < rank[a]})
        toDrop(rank, a) == Max({0, excess - before(rank, a)})
        kept(rank, a) == Cap(p.queue[a], Max({0, Cardinality(p.queue[a]) - toDrop(rank, a)}))
    IN  IF excess <= 0 THEN {p}
        ELSE {RemoveAll(p, UNION {p.queue[a] \ kept(rank, a) : a \in Accounts}) :
                rank \in Injection(Accounts, 1 .. Cardinality(Accounts))}
-----------------------------------------------------------------------------
(* reset *)

Ancestors[b \in Blocks] == {b} \cup IF b = Genesis THEN {} ELSE Ancestors[Parent[b]]

\* The transactions from b down to the first block it shares with stop.
Branch(b, stop) ==
    LET down[c \in Blocks] ==
            IF c \in Ancestors[stop] THEN <<>> ELSE Included[c] \o down[Parent[c]]
    IN  down[b]

TxDifference(txs, remove) ==
    FoldLeft(LAMBDA keep, t : IF t \in remove THEN keep ELSE Append(keep, t), <<>>, txs)

Lost(old, new) == TxDifference(Branch(old, new), Range(Branch(new, old)))

Reinjections(old, new) ==
    LET down == Number[old] - Number[new]
        far  == Max({down, -down}) > MaxReorgDepth
    IN  (IF far THEN {} ELSE {Lost(old, new)})
        \* too deep, or the old head is gone after a setHead
        \cup (IF old # Parent[new] /\ (far \/ down > 0) THEN {<<>>} ELSE {})

\* addTxsLocked(reinject): every pool the additions may end in, with their events.
Reinjected(p, lost) ==
    LET after[i \in 0 .. Len(lost)] ==
            IF i = 0 THEN {Outcome(p, {}, {})}
            ELSE UNION {{Outcome(o.pool, {}, s.events \cup o.events) : o \in Add(s.pool, lost[i])}
                          : s \in after[i - 1]}
    IN  after[Len(lost)]

\* The first assignments of a reset that found its blocks and its state.
OnHead(p, new) == [p EXCEPT !.head = new, !.nonces = StateNonce[new]]

Reset(p, old, new) ==
    UNION {Reinjected(OnHead(p, new), lost) : lost \in Reinjections(old, new)}
-----------------------------------------------------------------------------
(* The scheduler *)

NothingDue == [reset |-> None, dirty |-> {}, events |-> {}, launch |-> FALSE]

\* Events are kept by sender and nonce: the last one put wins.
Put(events, ts) ==
    {e \in events : \A t \in ts : From[t] # From[e] \/ Nonce[t] # Nonce[e]} \cup ts

\* The head of the loop: launch the next run when none is active.
Schedule(s, current) ==
    IF current = None /\ s.launch
    THEN /\ run' = [phase |-> "lock", reset |-> s.reset, dirty |-> s.dirty, events |-> s.events]
         /\ sched' = NothingDue
    ELSE run' = current /\ sched' = s

MutantRequestReset(old, new) ==
    Schedule([sched EXCEPT !.reset = [new |-> new], !.launch = TRUE], run)

\* requestReset, from the main pool; a request that waits takes the newer head.
RequestReset(old, new) ==
    Schedule([sched EXCEPT !.reset = [old |-> IF @ = None THEN old ELSE @.old, new |-> new],
                           !.launch = TRUE], run)

\* queueTxEvent: the events of a locked section reach the loop, or are given up
\* once the shutdown channel is closed.
QueueTxEvents(ts) ==
    \/ /\ loop = "up"
       /\ sched' = [sched EXCEPT !.events = Put(@, ts)]
    \/ /\ shutdown
       /\ UNCHANGED sched

\* Every locked section that changes the lists goes through here.
Pool(p) == pool' = p /\ announced' = announced \cap p.all
-----------------------------------------------------------------------------
LegacyInit ==
    /\ pool = [pending |-> [a \in Accounts |-> {}], queue |-> [a \in Accounts |-> {}],
               all |-> {}, nonces |-> StateNonce[Genesis],
               owner |-> [a \in Accounts |-> None], head |-> Genesis, changes |-> 0]
    /\ gasTip = StartTip
    /\ call = [c \in Callers |-> None]
    /\ sched = NothingDue /\ run = None
    /\ shutdown = FALSE /\ loop = "up"
    /\ announced = {} /\ resetFailed = FALSE

\* Add, before the lock: known and underpriced transactions are filtered out.
BeginAdd(c, t) ==
    /\ call[c] = None
    /\ t \notin pool.all /\ Price[t] >= gasTip
    /\ call' = [call EXCEPT ![c] = [phase |-> "lock", tx |-> t]]
    /\ UNCHANGED <<pool, gasTip, sched, run, shutdown, loop, announced, resetFailed>>

\* Add, under the lock: addTxsLocked.
AddLocked(c) ==
    /\ call[c] # None /\ call[c].phase = "lock"
    /\ \E o \in Add(pool, call[c].tx) :
          /\ Pool(o.pool)
          /\ QueueTxEvents(o.events)
          /\ call' = [call EXCEPT ![c] = [phase |-> "request", dirty |-> o.dirty]]
    /\ UNCHANGED <<gasTip, run, shutdown, loop, resetFailed>>

\* Add, after the lock: requestPromoteExecutables, whatever became of the transaction.
RequestPromote(c) ==
    /\ call[c] # None /\ call[c].phase = "request"
    /\ call' = [call EXCEPT ![c] = None]
    /\ \/ /\ loop = "up"
          /\ Schedule([sched EXCEPT !.dirty = @ \cup call[c].dirty, !.launch = TRUE], run)
       \/ /\ shutdown
          /\ UNCHANGED <<sched, run>>
    /\ UNCHANGED <<pool, gasTip, shutdown, loop, announced, resetFailed>>

\* The tail of runReorg's locked section: limits, and the counter of changes.
Truncated(p) ==
    {[r EXCEPT !.changes = 0] : r \in UNION {TruncateQueue(q) : q \in {TruncatePending(p)}}}

MutantPromoteRun ==
    /\ run # None /\ run.phase = "lock" /\ run.reset = None
    /\ \E p \in {PromoteExecutables(pool, run.dirty)} : \E q \in Truncated(p) :
          /\ Pool(q)
          /\ run' = [run EXCEPT !.phase = "send"]
    /\ UNCHANGED <<gasTip, call, sched, shutdown, loop, resetFailed>>

\* runReorg, locked section, for dirty accounts only.
PromoteRun ==
    /\ run # None /\ run.phase = "lock" /\ run.reset = None
    /\ \E p \in {PromoteExecutables(pool, run.dirty)} : \E q \in Truncated(p) :
          /\ Pool(q)
          /\ run' = [run EXCEPT !.phase = "send",
                        !.events = Put(@, UNION {Promoted(pool, a) : a \in run.dirty})]
    /\ UNCHANGED <<gasTip, call, sched, shutdown, loop, resetFailed>>

\* The pool after its pending lists were validated against the new state.
Validated(p) ==
    {SettleNonces(r) : r \in {DemoteUnexecutables(q) : q \in {PromoteExecutables(p, Accounts)}}}

\* What a run does with the pool its reset left: stale events go, every queue is
\* promoted, the pending lists are validated.
AfterReset(p) ==
    LET fresh == {e \in run.events : Nonce[e] >= p.nonces[From[e]]}
    IN  \E q \in UNION {Truncated(r) : r \in Validated(p)} :
          /\ Pool(q)
          /\ run' = [run EXCEPT !.phase = "send",
                        !.events = Put(fresh, UNION {Promoted(p, a) : a \in Accounts})]

\* runReorg, locked section, with a reset that succeeds.
ResetRun ==
    /\ run # None /\ run.phase = "lock" /\ run.reset # None
    /\ \E o \in Reset(pool, run.reset.old, run.reset.new) :
          /\ QueueTxEvents(o.events)
          /\ AfterReset(o.pool)
    /\ UNCHANGED <<gasTip, call, shutdown, loop, resetFailed>>

\* runReorg with a reset that returns early: a block of the old or the new chain
\* is missing, or the state is not available.  The rest of the run goes on.
ResetRunFails ==
    /\ run # None /\ run.phase = "lock" /\ run.reset # None
    /\ AfterReset(pool)
    /\ resetFailed' = TRUE
    /\ UNCHANGED <<gasTip, call, sched, shutdown, loop>>

\* runReorg after the lock: announce, close done; the loop launches the next run.
RunSend ==
    /\ run # None /\ run.phase = "send"
    /\ announced' = announced \cup (run.events \cap pool.all)
    /\ IF loop = "up" THEN Schedule(sched, None) ELSE run' = None /\ UNCHANGED sched
    /\ UNCHANGED <<pool, gasTip, call, shutdown, loop, resetFailed>>

\* SetGasTip: a higher tip drops what is below it.
SetGasTip(tip) ==
    /\ tip # gasTip
    /\ gasTip' = tip
    /\ Pool(IF tip > gasTip THEN RemoveAll(pool, {t \in pool.all : Price[t] < tip}) ELSE pool)
    /\ UNCHANGED <<call, sched, run, shutdown, loop, resetFailed>>

\* The eviction timer: the queues of the accounts that expired.  (It stops some
\* time after the shutdown; the model lets it run on.)
Evict(A) ==
    /\ A # {} /\ \A a \in A : pool.queue[a] # {}
    /\ Pool(RemoveAll(pool, UNION {pool.queue[a] : a \in A}))
    /\ UNCHANGED <<gasTip, call, sched, run, shutdown, loop, resetFailed>>

Clear ==
    /\ Pool(Release([pool EXCEPT !.all = {}, !.nonces = StateNonce[pool.head],
                                 !.pending = [a \in Accounts |-> {}],
                                 !.queue = [a \in Accounts |-> {}]],
                    {From[t] : t \in pool.all}))
    /\ UNCHANGED <<gasTip, call, sched, run, shutdown, loop, resetFailed>>

\* Another subpool reserves or releases an account through the same reserver.
OtherReserves(a) ==
    /\ pool.owner[a] \in {None, Other}
    /\ pool' = [pool EXCEPT !.owner[a] = IF @ = None THEN Other ELSE None]
    /\ UNCHANGED <<gasTip, call, sched, run, shutdown, loop, announced, resetFailed>>

\* scheduleReorgLoop sees the closed channel and serves no more requests.
LoopStops ==
    /\ shutdown /\ loop = "up"
    /\ loop' = "down"
    /\ UNCHANGED <<pool, gasTip, call, sched, run, shutdown, announced, resetFailed>>

\* nextDone is closed once the loop and the run it waits for have ended.
LoopEnded == loop = "down" /\ run = None

\* What the pool's own goroutines and its callers do once they have started.
LegacyStep ==
    \/ \E c \in Callers : AddLocked(c) \/ RequestPromote(c)
    \/ PromoteRun \/ ResetRun \/ ResetRunFails \/ RunSend \/ LoopStops

Submit == \E c \in Callers, t \in Txs : BeginAdd(c, t)

\* What operators, timers and other subpools do to the pool.
LegacyInput ==
    \/ \E tip \in Tips : SetGasTip(tip)
    \/ \E A \in SUBSET Accounts : Evict(A)
    \/ Clear
    \/ \E a \in Accounts : OtherReserves(a)
=============================================================================
