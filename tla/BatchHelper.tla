----------------------------- MODULE BatchHelper -----------------------------
(***************************************************************************)
(* The parallel-execution helper of the AVS                                *)
(* (AVS/parallel-exec-helper/index.js).  A Node process subscribes to      *)
(* pending transactions, asks an Ethereum node for each one's access list  *)
(* and assigns it first-fit to one of at most MaxGroups collision-free     *)
(* groups, or to the sequential group.  The execution service polls the    *)
(* groups through GET /blocks.                                             *)
(*                                                                         *)
(* JavaScript runs a callback to completion, so one action is the code     *)
(* between two awaits of a handler.  processTransactionQueue (130-178)     *)
(* runs from its guard to its finally block without an await: the hash     *)
(* pushed at line 119 is assigned and the queue emptied in that same step, *)
(* isProcessing and transactionQueue are back to false and [] before any   *)
(* other handler runs, and neither is a variable here.                     *)
(***************************************************************************)
EXTENDS Naturals, Sequences, FiniteSets

CONSTANTS
    Txs,             \* transaction hashes
    Addresses,       \* contracts named in access lists
    Slots,           \* storage keys
    MaxGroups,       \* MAX_PARALLELIZABLE_GROUPS
    Answers,         \* access lists the node may answer with
    NoList,          \* an answer whose accessList field is undefined
    MaxSimulations   \* bound: how often the node simulates each hash

AccessList == SUBSET [address : Addresses, storageKeys : SUBSET Slots]

ASSUME BatchHelperAssumption ==
    /\ MaxGroups \in Nat \ {0}
    /\ MaxSimulations \in [Txs -> Nat]
    /\ Answers \subseteq {NoList} \cup AccessList
    /\ \A keys \in SUBSET Slots : keys # NoList   \* undefined is no set of keys

VARIABLES
    \* the "pending" callback: its debounce flag, and where the invocation for
    \* each hash is suspended
    isDebounced,
    handler,
    \* what the simulations returned; NoList also where the map has no entry
    accessListMap,
    \* the current assignment and the one before the last cleaning
    parallelizableGroups,
    sequentialGroup,
    historicalParallelizableGroups,
    historicalSequentialGroup,
    \* history: how many access lists were recorded for each hash, and the
    \* pairs of placed hashes that were compared with a list since overwritten
    simulations,
    stale

groupVars == <<parallelizableGroups, sequentialGroup>>
historyVars == <<historicalParallelizableGroups, historicalSequentialGroup>>
ghostVars == <<simulations, stale>>
vars == <<isDebounced, handler, accessListMap, groupVars, historyVars, ghostVars>>

(* "none": not running; then the three awaits of the callback, in order.   *)
Phases == {"none", "fetch", "simulate", "delay"}

Init ==
    /\ isDebounced = FALSE
    /\ handler = [t \in Txs |-> "none"]
    /\ accessListMap = [t \in Txs |-> NoList]
    /\ parallelizableGroups = <<>>
    /\ sequentialGroup = <<>>
    /\ historicalParallelizableGroups = <<>>
    /\ historicalSequentialGroup = <<>>
    /\ simulations = [t \in Txs |-> 0]
    /\ stale = {}

-----------------------------------------------------------------------------
(* hasCollision, over the map as it is after the new list was stored.      *)

(* Only storage keys are compared; the address they belong to is not.      *)
Keys(list) == IF list = NoList THEN {} ELSE UNION {e.storageKeys : e \in list}

Overlap(map, s, t) == Keys(map[s]) \cap Keys(map[t]) # {}

(* hasCollision scans the group in order and returns at the first overlap; *)
(* iterating over an undefined access list throws.                         *)
Collides(map, t, group) ==
    /\ map[t] # NoList
    /\ \E k \in DOMAIN group :
          /\ Overlap(map, t, group[k])
          /\ \A j \in 1..(k - 1) : map[group[j]] # NoList

Throws(map, t, group) ==
    \/ map[t] = NoList
    \/ \E k \in DOMAIN group :
          /\ map[group[k]] = NoList
          /\ \A j \in 1..(k - 1) : ~Overlap(map, t, group[j])

MutantFree(map, t, group) ==
    /\ map[t] # NoList
    /\ \A k \in DOMAIN group : map[group[k]] # NoList
    /\ group # <<>> => ~Overlap(map, t, group[1])

MutantFreeUnlisted(map, t, group) ==
    \A k \in DOMAIN group : ~Overlap(map, t, group[k])

(* false is returned only after the whole group was scanned.               *)
Free(map, t, group) ==
    /\ map[t] # NoList
    /\ \A k \in DOMAIN group :
          map[group[k]] # NoList /\ ~Overlap(map, t, group[k])

-----------------------------------------------------------------------------
(* The body of processTransactionQueue for the one queued hash t.          *)

(* The loop over the groups reaches group i: all earlier ones collide.     *)
Reaches(map, t, i) ==
    \A j \in 1..(i - 1) : Collides(map, t, parallelizableGroups[j])

MutantJoinAnyGroup(map, t) ==
    /\ \E i \in DOMAIN parallelizableGroups :
          /\ Free(map, t, parallelizableGroups[i])
          /\ parallelizableGroups' =
                [parallelizableGroups EXCEPT ![i] = Append(@, t)]
    /\ UNCHANGED sequentialGroup

JoinGroup(map, t) ==
    /\ \E i \in DOMAIN parallelizableGroups :
          /\ Reaches(map, t, i)
          /\ Free(map, t, parallelizableGroups[i])
          /\ parallelizableGroups' =
                [parallelizableGroups EXCEPT ![i] = Append(@, t)]
    /\ UNCHANGED sequentialGroup

MutantOpenBareGroup(map, t) ==
    /\ Reaches(map, t, Len(parallelizableGroups) + 1)
    /\ Len(parallelizableGroups) < MaxGroups
    /\ parallelizableGroups' = Append(parallelizableGroups, t)
    /\ UNCHANGED sequentialGroup

OpenGroup(map, t) ==
    /\ Reaches(map, t, Len(parallelizableGroups) + 1)
    /\ Len(parallelizableGroups) < MaxGroups
    /\ parallelizableGroups' = Append(parallelizableGroups, <<t>>)
    /\ UNCHANGED sequentialGroup

Overflow(map, t) ==
    /\ Reaches(map, t, Len(parallelizableGroups) + 1)
    /\ Len(parallelizableGroups) >= MaxGroups
    /\ sequentialGroup' = Append(sequentialGroup, t)
    /\ UNCHANGED parallelizableGroups

(* An exception ends the loop; the catch block logs it and t is in no group. *)
Abort(map, t) ==
    /\ \E i \in DOMAIN parallelizableGroups :
          /\ Reaches(map, t, i)
          /\ Throws(map, t, parallelizableGroups[i])
    /\ UNCHANGED groupVars

ProcessTransactionQueue(map, t) ==
    \/ JoinGroup(map, t)
    \/ OpenGroup(map, t)
    \/ Overflow(map, t)
    \/ Abort(map, t)

-----------------------------------------------------------------------------
Elements(seq) == {seq[k] : k \in DOMAIN seq}

InCurrent(t) ==
    \/ t \in Elements(sequentialGroup)
    \/ \E i \in DOMAIN parallelizableGroups : t \in Elements(parallelizableGroups[i])

(* A new list of t makes what t was compared with out of date.             *)
Overwritten(t) == {{s, t} : s \in {u \in Txs : InCurrent(u) /\ InCurrent(t)}}

-----------------------------------------------------------------------------
(* The "pending" callback, split at its awaits.  An announcement that finds *)
(* isDebounced set is dropped: the callback returns and nothing changes.   *)

Pending(t) ==
    /\ ~isDebounced
    /\ simulations[t] < MaxSimulations[t]
    /\ isDebounced' = TRUE
    /\ handler' = [handler EXCEPT ![t] = "fetch"]
    /\ UNCHANGED <<accessListMap, groupVars, historyVars, ghostVars>>

(* getTransaction found the transaction: ask for its access list.          *)
TransactionFetched(t) ==
    /\ handler[t] = "fetch"
    /\ handler' = [handler EXCEPT ![t] = "simulate"]
    /\ UNCHANGED <<isDebounced, accessListMap, groupVars, historyVars, ghostVars>>

MutantFetchFailed(t) ==
    /\ handler[t] = "fetch"
    /\ handler' = [handler EXCEPT ![t] = "none"]
    /\ UNCHANGED <<isDebounced, accessListMap, groupVars, historyVars, ghostVars>>

(* getTransaction answered null or failed; the finally block is next.      *)
FetchFailed(t) ==
    /\ handler[t] = "fetch"
    /\ handler' = [handler EXCEPT ![t] = "delay"]
    /\ UNCHANGED <<isDebounced, accessListMap, groupVars, historyVars, ghostVars>>

(* eth_createAccessList answered: store the list, queue the hash, process  *)
(* the queue, and fall into the delay.                                     *)
GenerateAccessList(t) ==
    /\ handler[t] = "simulate"
    /\ \E list \in Answers :
          /\ accessListMap' = [accessListMap EXCEPT ![t] = list]
          /\ ProcessTransactionQueue([accessListMap EXCEPT ![t] = list], t)
    /\ simulations' = [simulations EXCEPT ![t] = @ + 1]
    /\ stale' = stale \cup Overwritten(t)
    /\ handler' = [handler EXCEPT ![t] = "delay"]
    /\ UNCHANGED <<isDebounced, historyVars>>

(* eth_createAccessList failed; generateAccessList swallows the error.     *)
SimulationFailed(t) ==
    /\ handler[t] = "simulate"
    /\ handler' = [handler EXCEPT ![t] = "delay"]
    /\ UNCHANGED <<isDebounced, accessListMap, groupVars, historyVars, ghostVars>>

(* The delay of the finally block is over.                                 *)
ReleaseDebounce(t) ==
    /\ handler[t] = "delay"
    /\ handler' = [handler EXCEPT ![t] = "none"]
    /\ isDebounced' = FALSE
    /\ UNCHANGED <<accessListMap, groupVars, historyVars, ghostVars>>

MutantCleanGroups ==
    /\ parallelizableGroups' = <<>>
    /\ sequentialGroup' = <<>>
    /\ historicalParallelizableGroups' = parallelizableGroups
    /\ historicalSequentialGroup' = sequentialGroup'
    /\ stale' = {}
    /\ UNCHANGED <<isDebounced, handler, accessListMap, simulations>>

(* The interval timer.                                                     *)
CleanGroups ==
    /\ historicalParallelizableGroups' = parallelizableGroups
    /\ historicalSequentialGroup' = sequentialGroup
    /\ parallelizableGroups' = <<>>
    /\ sequentialGroup' = <<>>
    /\ stale' = {}
    /\ UNCHANGED <<isDebounced, handler, accessListMap, simulations>>

Callback(t) ==
    \/ TransactionFetched(t)
    \/ FetchFailed(t)
    \/ GenerateAccessList(t)
    \/ SimulationFailed(t)
    \/ ReleaseDebounce(t)

Next ==
    \/ \E t \in Txs : Pending(t) \/ Callback(t)
    \/ CleanGroups

(* Each request to the node is answered or fails, and timers fire; nobody  *)
(* owes the helper an announcement.                                        *)
Fairness == \A t \in Txs : WF_vars(Callback(t))

Spec == Init /\ [][Next]_vars /\ Fairness

-----------------------------------------------------------------------------
(* GET /blocks.  The answer is a function of the state, so the properties  *)
(* below are about every answer the server can give.                       *)

Block(type, id, transactions) ==
    [type |-> type, groupId |-> id, transactions |-> transactions]

AnyBlock == [type : {"parallelizable", "sequential"}, groupId : Nat,
             transactions : Seq(Txs)]

MutantHistoricalFill == historicalParallelizableGroups

(* Historical groups fill the slots that the current ones leave free.      *)
HistoricalFill ==
    LET free == MaxGroups - Len(parallelizableGroups)
        n == IF free < Len(historicalParallelizableGroups)
             THEN free ELSE Len(historicalParallelizableGroups)
    IN  SubSeq(historicalParallelizableGroups, 1, n)

Blocks ==
    LET groups == parallelizableGroups \o HistoricalFill
        parallel == [i \in DOMAIN groups |-> Block("parallelizable", i, groups[i])]
        last == IF sequentialGroup # <<>>
                THEN sequentialGroup ELSE historicalSequentialGroup
    IN  IF last = <<>>
        THEN parallel
        ELSE Append(parallel, Block("sequential", Len(parallel) + 1, last))

-----------------------------------------------------------------------------
(* Properties                                                              *)

(* Type invariant: the shape of the helper's module-level variables.       *)
TypeOK ==
    /\ isDebounced \in BOOLEAN
    /\ handler \in [Txs -> Phases]
    /\ accessListMap \in [Txs -> {NoList} \cup AccessList]
    /\ parallelizableGroups \in Seq(Seq(Txs))
    /\ sequentialGroup \in Seq(Txs)
    /\ historicalParallelizableGroups \in Seq(Seq(Txs))
    /\ historicalSequentialGroup \in Seq(Txs)
    /\ simulations \in [Txs -> Nat]
    /\ stale \subseteq SUBSET Txs

(* Two transactions offered for parallel execution in one group share no   *)
(* storage key (hasCollision, 180-204) as long as the lists they were      *)
(* compared with are current, whatever was cleaned, failed or announced    *)
(* again in between.  What it leaves out is a placed hash whose list is    *)
(* overwritten (116), and the hashes that were placed by then: the code    *)
(* does not compare these again and they may collide.                      *)
CollisionFree ==
    \A i \in DOMAIN parallelizableGroups :
        LET g == parallelizableGroups[i]
        IN  \A k, m \in DOMAIN g :
                k < m /\ {g[k], g[m]} \notin stale
                    => ~Overlap(accessListMap, g[k], g[m])

(* t is kept out of group: it collides with a member, as far as the lists  *)
(* that it was compared with are current.                                  *)
KeptOut(t, group) ==
    (\A s \in Elements(group) : {s, t} \notin stale)
        => \E s \in Elements(group) : Overlap(accessListMap, s, t)

(* First fit (139-161): a transaction sits in a later group only because   *)
(* it collides with a member of every earlier group, so no two groups      *)
(* could have been one; and it is given up to sequential execution only    *)
(* when every one of the MaxGroups groups exists and holds something it    *)
(* collides with.                                                          *)
GroupsFirstFit ==
    \A j \in DOMAIN parallelizableGroups : \A i \in 1..(j - 1) :
        \A k \in DOMAIN parallelizableGroups[j] :
            KeptOut(parallelizableGroups[j][k], parallelizableGroups[i])

SequentialOnlyWhenFull ==
    \A k \in DOMAIN sequentialGroup :
        /\ Len(parallelizableGroups) = MaxGroups
        /\ \A i \in DOMAIN parallelizableGroups :
              KeptOut(sequentialGroup[k], parallelizableGroups[i])

FirstFit == GroupsFirstFit /\ SequentialOnlyWhenFull

(* An answer without an access list makes hasCollision throw (184-201):    *)
(* such a transaction is placed only where nothing is compared, as the     *)
(* first of an empty assignment, and nothing joins it or opens a group     *)
(* beside it until the next cleaning, unless it is announced again and a   *)
(* list, or again none, replaces its answer.                               *)
UnlistedStandsAlone ==
    \A t \in Txs : InCurrent(t) /\ {t} \notin stale /\ accessListMap[t] = NoList =>
        parallelizableGroups = <<<<t>>>> /\ sequentialGroup = <<>>

(* A /blocks answer (51-94) numbers its blocks 1, 2, ..., has at most      *)
(* MaxGroups parallelizable ones and at most one sequential one, after     *)
(* them, and leaves out no transaction of the current groups.              *)
BlocksWellFormed ==
    /\ Len(Blocks) <= MaxGroups + 1
    /\ \A i \in DOMAIN Blocks :
          /\ Blocks[i].groupId = i
          /\ Blocks[i].transactions # <<>>
          /\ Blocks[i].type = "sequential" => i = Len(Blocks)
          /\ Blocks[i].type = "parallelizable" => i <= MaxGroups
    /\ \A t \in Txs : InCurrent(t) =>
          \E i \in DOMAIN Blocks : t \in Elements(Blocks[i].transactions)

(* The assignment of Grouping: arrays read as sets, an access list as the *)
(* set of its keys.                                                        *)
AsGroups(rows) ==
    [g \in 1..MaxGroups |-> IF g \in DOMAIN rows THEN Elements(rows[g]) ELSE {}]

Abstract == INSTANCE Grouping WITH
    StorageKeys <- Slots,
    Groups <- 1..MaxGroups,
    Unknown <- NoList,
    touched <- [t \in Txs |-> IF accessListMap[t] = NoList
                              THEN NoList ELSE Keys(accessListMap[t])],
    groups <- AsGroups(parallelizableGroups),
    rest <- Elements(sequentialGroup),
    oldGroups <- AsGroups(historicalParallelizableGroups),
    oldRest <- Elements(historicalSequentialGroup)

(* The helper implements Grouping (130-216): whatever callbacks, failures  *)
(* and timers interleave, all a client can see is that one transaction at  *)
(* a time is put into a group that nothing in it contradicts, put aside    *)
(* when every group does, or left out for want of a list, and that         *)
(* cleaning turns the whole assignment into the previous one.              *)
ImplementsGrouping == Abstract!Spec

(* Whatever the node answers or fails to answer, the helper listens again: *)
(* the finally block (243-247) ends every path of the callback.            *)
DebounceReleased == isDebounced ~> ~isDebounced
=============================================================================
