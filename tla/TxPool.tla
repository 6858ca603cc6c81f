------------------------------- MODULE TxPool -------------------------------
(***************************************************************************)
(* The transaction pool of the geth client (core/txpool/txpool.go) with the *)
(* legacy pool as its subpool.  The main loop turns chain head events into *)
(* resets of the subpools, one at a time on a goroutine of its own, and    *)
(* serves Sync and Close; the reservations of accounts are the owners of   *)
(* LegacyPool.  A reset waits for the run of the legacy pool's scheduler   *)
(* that carries it, so three goroutines wait on each other while callers   *)
(* add transactions and the chain moves on.                                *)
(***************************************************************************)
EXTENDS LegacyPool

CONSTANTS
    Syncers,    \* callers of Sync
    MaxCalls,   \* bound: calls of Add and Sync
    MaxInputs   \* bound: head events, Close, the operator's, timers' and other subpools' acts

ASSUME BoundsAssumption == {MaxCalls, MaxInputs} \subseteq Nat

VARIABLES
    oldHead, newHead,   \* the heads of the main loop
    resetForced,
    resetWaiter,        \* the Sync that waits, if any; history: the heads heard since
    syncing,            \* the callers of Sync: "out", "waiting", or "overtaken": still
                        \* waiting, on a channel the main loop has dropped
    resetter,           \* the reset goroutine: where it is, and its two heads
    main,               \* the main loop: "up" or "down"
    calls, inputs       \* counters for the two bounds

loopVars == <<oldHead, newHead, resetForced, resetWaiter, syncing, resetter, main>>
vars == <<legacyVars, loopVars, calls, inputs>>
-----------------------------------------------------------------------------
Init ==
    /\ LegacyInit
    /\ oldHead = Genesis /\ newHead = Genesis
    /\ resetForced = FALSE /\ resetWaiter = None
    /\ syncing = [s \in Syncers |-> "out"]
    /\ resetter = None
    /\ main = "up"
    /\ calls = 0 /\ inputs = 0

MutantStartReset(old, new, forced, current) ==
    IF old # new /\ current = None
    THEN /\ resetter' = [phase |-> "request", old |-> old, new |-> new]
         /\ resetForced' = FALSE
    ELSE resetter' = current /\ resetForced' = forced

\* The top of the main loop, reached after every event: start a reset if one is
\* needed and none is running.
StartReset(old, new, forced, current) ==
    IF (old # new \/ forced) /\ current = None
    THEN /\ resetter' = [phase |-> "request", old |-> old, new |-> new]
         /\ resetForced' = FALSE
    ELSE resetter' = current /\ resetForced' = forced

\* A chain head event.
NewHead(b) ==
    /\ main = "up" /\ b # newHead
    /\ newHead' = b
    /\ resetWaiter' = IF resetWaiter = None THEN None
                      ELSE [resetWaiter EXCEPT !.heard = @ \cup {b}]
    /\ StartReset(oldHead, b, resetForced, resetter)
    /\ UNCHANGED legacyVars
    /\ UNCHANGED <<oldHead, syncing, main>>

\* The reset goroutine calls LegacyPool.Reset: the request is taken, or the pool is shut.
ResetRequested ==
    /\ resetter # None /\ resetter.phase = "request"
    /\ \/ /\ loop = "up"
          /\ RequestReset(resetter.old, resetter.new)
          /\ resetter' = [resetter EXCEPT !.phase = "wait"]
       \/ /\ shutdown
          /\ resetter' = [resetter EXCEPT !.phase = "done"]
          /\ UNCHANGED <<sched, run>>
    /\ UNCHANGED <<pool, gasTip, call, shutdown, loop, announced, resetFailed>>
    /\ UNCHANGED <<oldHead, newHead, resetForced, resetWaiter, syncing, main>>

\* The run that carries the reset is to come, or is in progress: its done channel is open.
ResetUnderWay == sched.reset # None \/ (run # None /\ run.reset # None)

ResetReturns ==
    /\ resetter # None /\ resetter.phase = "wait"
    /\ ~ResetUnderWay \/ LoopEnded
    /\ resetter' = [resetter EXCEPT !.phase = "done"]
    /\ UNCHANGED legacyVars
    /\ UNCHANGED <<oldHead, newHead, resetForced, resetWaiter, syncing, main>>

\* What becomes of the Sync that waits, if any: the others are left alone.
WaiterIs(state) ==
    [s \in Syncers |-> IF resetWaiter # None /\ s = resetWaiter.caller THEN state ELSE syncing[s]]

MutantResetDone ==
    /\ main = "up" /\ resetter # None /\ resetter.phase = "done"
    /\ oldHead' = resetter.new
    /\ resetWaiter' = None
    /\ syncing' = WaiterIs("out")
    /\ StartReset(resetter.new, newHead, resetForced, None)
    /\ UNCHANGED legacyVars
    /\ UNCHANGED <<newHead, main>>

\* The main loop hears of it; a waiting Sync is answered unless its own reset is
\* still to start.
ResetDone ==
    /\ main = "up" /\ resetter # None /\ resetter.phase = "done"
    /\ oldHead' = resetter.new
    /\ resetWaiter' = IF resetForced THEN resetWaiter ELSE None
    /\ syncing' = IF resetForced THEN syncing ELSE WaiterIs("out")
    /\ StartReset(resetter.new, newHead, resetForced, None)
    /\ UNCHANGED legacyVars
    /\ UNCHANGED <<newHead, main>>

\* Sync: the newest caller takes the place of the one that waits, which from then
\* on waits on a channel nobody will write to or close.
Sync(s) ==
    /\ main = "up" /\ syncing[s] = "out"
    /\ resetWaiter' = [caller |-> s, heard |-> {newHead}]
    /\ syncing' = [WaiterIs("overtaken") EXCEPT ![s] = "waiting"]
    /\ StartReset(oldHead, newHead, TRUE, resetter)
    /\ UNCHANGED legacyVars
    /\ UNCHANGED <<oldHead, newHead, main>>

\* Close: the main loop ends, answers the waiting Sync and closes term; a reset
\* that is done then has nobody to report to and ends.
Quit ==
    /\ main = "up"
    /\ main' = "down"
    /\ resetWaiter' = None
    /\ syncing' = WaiterIs("out")
    /\ UNCHANGED legacyVars
    /\ UNCHANGED <<oldHead, newHead, resetForced, resetter>>

ResetAbandoned ==
    /\ main = "down" /\ resetter # None /\ resetter.phase = "done"
    /\ resetter' = None
    /\ UNCHANGED legacyVars
    /\ UNCHANGED <<oldHead, newHead, resetForced, resetWaiter, syncing, main>>

\* Close goes on to close the subpools.
CloseLegacy ==
    /\ main = "down" /\ ~shutdown
    /\ shutdown' = TRUE
    /\ UNCHANGED <<pool, gasTip, call, sched, run, loop, announced, resetFailed>>
    /\ UNCHANGED loopVars

Step ==
    \/ LegacyStep /\ UNCHANGED loopVars
    \/ ResetRequested \/ ResetReturns \/ ResetDone \/ ResetAbandoned \/ CloseLegacy

Input ==
    \/ LegacyInput /\ UNCHANGED loopVars
    \/ \E b \in Blocks : NewHead(b)
    \/ Quit

Next ==
    \/ Step /\ UNCHANGED <<calls, inputs>>
    \/ /\ calls < MaxCalls /\ calls' = calls + 1
       /\ (Submit /\ UNCHANGED loopVars) \/ \E s \in Syncers : Sync(s)
       /\ UNCHANGED inputs
    \/ /\ inputs < MaxInputs /\ inputs' = inputs + 1
       /\ Input /\ UNCHANGED calls

Spec == Init /\ [][Next]_vars
-----------------------------------------------------------------------------
(* What the variables hold *)

Pools == [pending : [Accounts -> SUBSET Txs], queue : [Accounts -> SUBSET Txs],
          all : SUBSET Txs, nonces : [Accounts -> Nat],
          owner : [Accounts -> {None, Legacy, Other}], head : Blocks, changes : Nat]

Adding == [phase : {"lock"}, tx : Txs]
Asking == [phase : {"request"}, dirty : SUBSET Accounts]

Requests == [old : Blocks, new : Blocks]

Runs == [phase : {"lock", "send"}, reset : Requests \cup {None}, dirty : SUBSET Accounts,
         events : SUBSET Txs]

Waiters == [caller : Syncers, heard : SUBSET Blocks]

Resetters == [phase : {"request", "wait", "done"}, old : Blocks, new : Blocks]

ASSUME NoneAssumption ==
    None \notin {Legacy, Other} \cup Adding \cup Asking \cup Requests \cup Runs \cup Resetters
               \cup Waiters

\* Every variable has the shape the code gives it.
TypeOK ==
    /\ pool \in Pools
    /\ gasTip \in Tips
    /\ call \in [Callers -> Adding \cup Asking \cup {None}]
    /\ sched \in [reset : Requests \cup {None}, dirty : SUBSET Accounts,
                  events : SUBSET Txs, launch : BOOLEAN]
    /\ run \in Runs \cup {None}
    /\ shutdown \in BOOLEAN /\ loop \in {"up", "down"}
    /\ announced \subseteq Txs /\ resetFailed \in BOOLEAN
    /\ {oldHead, newHead} \subseteq Blocks /\ resetForced \in BOOLEAN
    /\ resetWaiter \in Waiters \cup {None}
    /\ syncing \in [Syncers -> {"out", "waiting", "overtaken"}]
    /\ resetter \in Resetters \cup {None}
    /\ main \in {"up", "down"}
    /\ calls \in 0 .. MaxCalls /\ inputs \in 0 .. MaxInputs

\* What validatePoolInternals of the pool's tests asks of the index, and what the
\* removal by nonce and the miners rest on: the index holds exactly the listed
\* transactions and never more than the pool has room for; no nonce is both pending
\* and queued; a pending list starts at the state's nonce, and the next nonce handed
\* out is the state's exactly when nothing is pending.  (The tests ask for the last
\* pending nonce plus one, legacypool_test.go 228-239; a reorganisation that leaves a
\* gap, see PendingIsContiguous, ends that.)
PoolInternals ==
    /\ pool.all = UNION {pool.pending[a] \cup pool.queue[a] : a \in Accounts}
    /\ Cardinality(pool.all) <= GlobalSlots + GlobalQueue
    /\ \A a \in Accounts :
          /\ pool.pending[a] \cap pool.queue[a] = {}
          /\ \A t, u \in pool.pending[a] \cup pool.queue[a] : Nonce[t] = Nonce[u] => t = u
          /\ \A t \in pool.pending[a] : Nonce[t] >= NextNonce(pool, a)
          /\ IF pool.pending[a] = {} THEN pool.nonces[a] = NextNonce(pool, a)
             ELSE /\ At(pool.pending[a], NextNonce(pool, a)) # {}
                  /\ pool.nonces[a] > NextNonce(pool, a)

\* list.go: a list is "for storing contiguous transactions for the executable/pending
\* queue": the nonces of a pending list have no gap.
PendingIsContiguous ==
    \A a \in Accounts : \A t \in pool.pending[a] :
        \A n \in NextNonce(pool, a) .. Nonce[t] : At(pool.pending[a], n) # {}

\* An account is reserved for the legacy pool exactly while the pool holds a
\* transaction of it: never given to another subpool too early, never leaked.
ReservedIffTracked ==
    \A a \in Accounts : (pool.owner[a] = Legacy) <=> Tracked(pool, a)

\* A transaction miners can pick was announced, or its event is under way: promoted
\* by the run in progress or queued by a replacement.  (A reset that fails early
\* still discards queued events, and a closed pool announces nothing.)
PendingIsAnnounced ==
    ~shutdown /\ ~resetFailed =>
        \A a \in Accounts :
            pool.pending[a] \subseteq
                announced \cup sched.events \cup IF run = None THEN {} ELSE run.events

\* Nobody but an overtaken Sync waits for a step that no goroutine will take, whichever
\* way the chain, the callers, Sync and Close interleave: a head or a forced reset the
\* main loop has not served has its reset goroutine; a Sync that waits is the one the
\* main loop will answer, and none is left when the loop has ended; a request the
\* scheduler has taken has a run before it, whose end launches it; an event queued by
\* a replacement has a run or a request before it that will send it.  (A transaction
\* reinjected after a reset that failed may replace a pending one, and nobody asks for
\* the run that announces it.)  A Sync overtaken by a later one (txpool.go, 276) is
\* left out because it is stranded: nothing writes to its channel, not even Close.
NobodyStranded ==
    /\ main = "up" /\ (newHead # oldHead \/ resetForced) => resetter # None
    /\ \A s \in Syncers : syncing[s] = "waiting" =>
          /\ main = "up" /\ resetter # None
          /\ resetWaiter # None /\ resetWaiter.caller = s
    /\ loop = "up" =>
          /\ sched.launch => run # None
          /\ sched.reset # None \/ sched.dirty # {} => sched.launch
          /\ sched.events # {} /\ ~resetFailed /\ ~shutdown =>
                run # None \/ \E c \in Callers : call[c] # None /\ call[c].phase = "request"

\* Sync "will run an explicit reset operation to ensure the pool stabilises": when the
\* main loop answers it, the pool stands on a head the loop knew at the call or heard
\* of since, never on that of a reset which was already running before.
SyncAnswered ==
    [][main' = "up" /\ resetWaiter # None /\ resetWaiter' = None /\ ~resetFailed
         => pool.head \in resetWaiter.heard]_vars
=============================================================================
