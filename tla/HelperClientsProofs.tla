------------------------- MODULE HelperClientsProofs -------------------------
(***************************************************************************)
(* Proofs about the helper together with its clients, for any executions,  *)
(* fetches and timers, on top of what is proved of the helper.             *)
(***************************************************************************)
EXTENDS HelperClients, BatchHelperProofs

(* A group that was placed as hasCollision allows.  map and sims are what  *)
(* accessListMap and simulations are now, or after a step.                 *)
GoodRow(map, sims, g) ==
    \A k \in DOMAIN g :
        /\ sims[g[k]] >= 1
        /\ \A m \in DOMAIN g :
              k < m /\ sims[g[k]] = 1 /\ sims[g[m]] = 1 => ~Overlap(map, g[k], g[m])

(* An answer of GET /blocks, whenever it was given.                        *)
GoodContent(map, sims, c) ==
    /\ c \in Seq(AnyBlock)
    /\ \A i \in DOMAIN c :
          /\ c[i].groupId = i
          /\ c[i].type = "parallelizable" => GoodRow(map, sims, c[i].transactions)

-----------------------------------------------------------------------------
(* The helper: what is placed once stays good, whoever keeps it.           *)

HistoryInv ==
    \A i \in DOMAIN historicalParallelizableGroups :
        GoodRow(accessListMap, simulations, historicalParallelizableGroups[i])

HelperInv == ShapeInv /\ HistoryInv

(* A step of the helper records a list for at most one hash, and then that *)
(* hash counts as simulated again.                                         *)
LEMMA ListsRecorded ==
    ASSUME TypeOK, [Next]_vars
    PROVE  \E t : /\ \A s \in Txs : s # t => /\ accessListMap'[s] = accessListMap[s]
                                             /\ simulations'[s] = simulations[s]
                  /\ t \in Txs => \/ simulations'[t] = simulations[t] + 1
                                  \/ /\ simulations'[t] = simulations[t]
                                     /\ accessListMap'[t] = accessListMap[t]
  <1>1. ASSUME NEW t \in Txs, GenerateAccessList(t)
        PROVE  /\ \A s \in Txs : s # t => /\ accessListMap'[s] = accessListMap[s]
                                          /\ simulations'[s] = simulations[s]
               /\ simulations'[t] = simulations[t] + 1
    BY <1>1 DEF GenerateAccessList, TypeOK
  <1>2. CASE UNCHANGED <<accessListMap, simulations>>
    BY <1>2
  <1>3. CASE ~\E t \in Txs : GenerateAccessList(t)
    <2>1. UNCHANGED <<accessListMap, simulations>>
      BY <1>3 DEF Next, Pending, Callback, TransactionFetched, FetchFailed,
         SimulationFailed, ReleaseDebounce, CleanGroups, vars, ghostVars
    <2> QED
      BY <1>2, <2>1
  <1> QED
    BY <1>1, <1>3

LEMMA RowStaysGood ==
    ASSUME TypeOK, [Next]_vars, NEW g \in Seq(Txs), GoodRow(accessListMap, simulations, g)
    PROVE  GoodRow(accessListMap', simulations', g)
  <1>1. PICK t :
          /\ \A s \in Txs : s # t => /\ accessListMap'[s] = accessListMap[s]
                                     /\ simulations'[s] = simulations[s]
          /\ t \in Txs => \/ simulations'[t] = simulations[t] + 1
                          \/ /\ simulations'[t] = simulations[t]
                             /\ accessListMap'[t] = accessListMap[t]
    BY ListsRecorded
  <1>2. \A s \in Txs : simulations[s] \in Nat
    BY DEF TypeOK
  <1>3. \A k \in DOMAIN g : g[k] \in Txs /\ simulations[g[k]] >= 1
    BY DEF GoodRow
  <1>4. \A s \in Txs : /\ simulations'[s] >= simulations[s]
                       /\ simulations[s] >= 1 /\ simulations'[s] = 1 =>
                             simulations[s] = 1 /\ accessListMap'[s] = accessListMap[s]
    BY <1>1, <1>2
  <1>5. ASSUME NEW k \in DOMAIN g
        PROVE  /\ simulations'[g[k]] >= 1
               /\ \A m \in DOMAIN g :
                     k < m /\ simulations'[g[k]] = 1 /\ simulations'[g[m]] = 1
                         => ~Overlap(accessListMap', g[k], g[m])
    <2>1. simulations'[g[k]] >= 1
      <3>1. simulations'[g[k]] \in Nat
        BY <1>1, <1>2, <1>3
      <3> QED
        BY <1>2, <1>3, <1>4, <3>1
    <2>2. ASSUME NEW m \in DOMAIN g, k < m, simulations'[g[k]] = 1, simulations'[g[m]] = 1
          PROVE  ~Overlap(accessListMap', g[k], g[m])
      <3>1. /\ simulations[g[k]] = 1 /\ accessListMap'[g[k]] = accessListMap[g[k]]
            /\ simulations[g[m]] = 1 /\ accessListMap'[g[m]] = accessListMap[g[m]]
        BY <1>3, <1>4, <2>2
      <3>2. ~Overlap(accessListMap, g[k], g[m])
        BY <2>2, <3>1 DEF GoodRow
      <3> QED
        BY <3>1, <3>2 DEF Overlap
    <2> QED
      BY <2>1, <2>2
  <1> QED
    BY <1>5 DEF GoodRow

LEMMA ContentStaysGood ==
    ASSUME TypeOK, [Next]_vars, NEW c, GoodContent(accessListMap, simulations, c)
    PROVE  GoodContent(accessListMap', simulations', c)
  <1>1. \A i \in DOMAIN c : c[i].transactions \in Seq(Txs)
    <2>1. \A i \in DOMAIN c : c[i] \in AnyBlock
      BY DEF GoodContent
    <2> QED
      BY <2>1 DEF AnyBlock
  <1>2. \A i \in DOMAIN c : GoodRow(accessListMap, simulations, c[i].transactions)
                               => GoodRow(accessListMap', simulations', c[i].transactions)
    BY <1>1, RowStaysGood
  <1> QED
    BY <1>2 DEF GoodContent

LEMMA CurrentRowsGood ==
    ASSUME Inv, NEW i \in DOMAIN parallelizableGroups
    PROVE  GoodRow(accessListMap, simulations, parallelizableGroups[i])
  <1> DEFINE g == parallelizableGroups[i]
  <1>1. ASSUME NEW k \in DOMAIN g, NEW m \in DOMAIN g,
               simulations[g[k]] = 1, simulations[g[m]] = 1
        PROVE  {g[k], g[m]} \notin stale
    BY <1>1 DEF Inv, StaleWasRepeated
  <1> QED
    BY <1>1 DEF Inv, PlacedWasSimulated, CollisionFree, GoodRow

LEMMA HelperInit == Init => HelperInv
  <1>1. Init => HistoryInv
    BY DEF Init, HistoryInv
  <1> QED
    BY <1>1, ShapeInit DEF HelperInv

LEMMA HelperNext == HelperInv /\ [Next]_vars => HelperInv'
  <1> SUFFICES ASSUME HelperInv, [Next]_vars PROVE HelperInv'
    OBVIOUS
  <1>1. ShapeInv /\ ShapeInv' /\ TypeOK /\ Inv
    BY ShapeNext DEF HelperInv, ShapeInv, Inv
  <1>2. \/ historicalParallelizableGroups' = historicalParallelizableGroups
        \/ historicalParallelizableGroups' = parallelizableGroups
    BY DEF Next, Pending, Callback, TransactionFetched, FetchFailed, GenerateAccessList,
       SimulationFailed, ReleaseDebounce, CleanGroups, vars, historyVars
  <1>3. \A g \in Seq(Txs) : GoodRow(accessListMap, simulations, g)
                               => GoodRow(accessListMap', simulations', g)
    BY <1>1, RowStaysGood
  <1>4. ASSUME NEW i \in DOMAIN historicalParallelizableGroups'
        PROVE  /\ historicalParallelizableGroups'[i] \in Seq(Txs)
               /\ GoodRow(accessListMap, simulations, historicalParallelizableGroups'[i])
    <2>1. CASE historicalParallelizableGroups' = historicalParallelizableGroups
      BY <1>1, <1>4, <2>1 DEF HelperInv, HistoryInv, TypeOK
    <2>2. CASE historicalParallelizableGroups' = parallelizableGroups
      BY <1>1, <1>4, <2>2, CurrentRowsGood DEF TypeOK
    <2> QED
      BY <1>2, <2>1, <2>2
  <1>5. HistoryInv'
    BY <1>3, <1>4 DEF HistoryInv
  <1> QED
    BY <1>1, <1>5 DEF HelperInv

LEMMA BlocksGood ==
    ASSUME HelperInv
    PROVE  GoodContent(accessListMap, simulations, Blocks)
  <1>1. ShapeInv /\ Inv
    BY DEF HelperInv, ShapeInv
  <1>2. PICK groups \in Seq(Seq(Txs)), last \in Seq(Txs) :
          /\ \A i \in DOMAIN groups :
                \/ \E j \in DOMAIN parallelizableGroups :
                      groups[i] = parallelizableGroups[j]
                \/ \E j \in DOMAIN historicalParallelizableGroups :
                      groups[i] = historicalParallelizableGroups[j]
          /\ Blocks \in Seq(AnyBlock)
          /\ \A i \in DOMAIN groups :
                i \in DOMAIN Blocks /\ Blocks[i] = Block("parallelizable", i, groups[i])
          /\ last = <<>> => DOMAIN Blocks = DOMAIN groups
          /\ last # <<>> =>
                /\ DOMAIN Blocks = DOMAIN groups \cup {Len(groups) + 1}
                /\ Blocks[Len(groups) + 1] = Block("sequential", Len(groups) + 1, last)
    BY <1>1, BlocksAnatomy
  <1>3. ASSUME NEW i \in DOMAIN Blocks
        PROVE  /\ Blocks[i].groupId = i
               /\ Blocks[i].type = "parallelizable"
                     => GoodRow(accessListMap, simulations, Blocks[i].transactions)
    <2>1. CASE i \in DOMAIN groups
      <3>a. Blocks[i] = Block("parallelizable", i, groups[i])
        BY <1>2, <2>1
      <3>1. Blocks[i].groupId = i /\ Blocks[i].transactions = groups[i]
        BY <3>a DEF Block
      <3>2. GoodRow(accessListMap, simulations, groups[i])
        BY <1>1, <1>2, <2>1, CurrentRowsGood DEF HelperInv, HistoryInv
      <3> QED
        BY <3>1, <3>2
    <2>2. CASE i \notin DOMAIN groups
      <3>1. Blocks[i] = Block("sequential", i, last)
        BY <1>2, <1>3, <2>2
      <3> QED
        BY <3>1 DEF Block
    <2> QED
      BY <2>1, <2>2
  <1> QED
    BY <1>2, <1>3 DEF GoodContent

-----------------------------------------------------------------------------
(* The Othentic services.                                                  *)

Content == {Null} \cup Seq(AnyBlock)

(* Until it has published, an execution holds no proof; afterwards the one *)
(* it holds is the address of what it fetched.                             *)
HandlersInv ==
    /\ phase \in [Executions -> Othentic!Phases]
    /\ result \in [Executions -> Content]
    /\ cid \in [Executions -> {NoProof} \cup {Othentic!Address(c) : c \in Content}]
    /\ pinned \subseteq Content
    /\ \A e \in Executions : phase[e] \in {"idle", "getBlock", "publish"} => cid[e] = NoProof
    /\ \A e \in Executions :
          cid[e] = NoProof \/ (cid[e] = Othentic!Address(result[e]) /\ result[e] \in pinned)

(* A task is what an execution that has ended still holds.                 *)
TasksInv ==
    \A t \in tasks : \E e \in Executions : phase[e] = "answered" /\ t = Othentic!TaskOf(e)

VoteInv ==
    \/ vote = Othentic!NoVote
    \/ /\ vote.task \in tasks
       /\ vote.approve =>
             \E c \in pinned : /\ c # Null
                               /\ vote.task.proof = Othentic!Address(c)
                               /\ vote.task.data = Othentic!Hexlify(Othentic!Digest(c))

OthenticInv == HandlersInv /\ TasksInv /\ VoteInv

(* What was fetched and published are answers of the helper.               *)
FetchedInv ==
    /\ \A c \in pinned : c = Null \/ GoodContent(accessListMap, simulations, c)
    /\ \A e \in Executions :
          result[e] = Null \/ GoodContent(accessListMap, simulations, result[e])

LEMMA OthenticInit == Othentic!Init => OthenticInv /\ FetchedInv
  <1> SUFFICES ASSUME Othentic!Init PROVE OthenticInv /\ FetchedInv
    OBVIOUS
  <1>1. HandlersInv
    BY DEF Othentic!Init, HandlersInv, Othentic!Phases, Content
  <1>2. TasksInv /\ VoteInv
    BY DEF Othentic!Init, TasksInv, VoteInv
  <1>3. FetchedInv
    BY DEF Othentic!Init, FetchedInv
  <1> QED
    BY <1>1, <1>2, <1>3 DEF OthenticInv

(* A task that went out stays what its execution holds.                    *)
LEMMA TasksStay ==
    ASSUME HandlersInv, TasksInv, NEW e \in Executions, phase[e] # "answered",
           \A d \in Executions : d # e =>
              phase'[d] = phase[d] /\ result'[d] = result[d] /\ cid'[d] = cid[d],
           NEW t \in tasks
    PROVE  \E d \in Executions : phase'[d] = "answered" /\ t = Othentic!TaskOf(d)'
  <1>1. PICK d \in Executions : phase[d] = "answered" /\ t = Othentic!TaskOf(d)
    BY DEF TasksInv
  <1>2. d # e
    BY <1>1
  <1> QED
    BY <1>1, <1>2 DEF Othentic!TaskOf

LEMMA HandlerStep ==
    ASSUME HelperInv, OthenticInv, FetchedInv, UNCHANGED vars,
           NEW e \in Executions, Othentic!Execute(e) \/ Othentic!Handler(e)
    PROVE  OthenticInv' /\ FetchedInv'
  <1> DEFINE Good(c) == c = Null \/ GoodContent(accessListMap, simulations, c)
  <1>0. HandlersInv /\ TasksInv /\ VoteInv
    BY DEF OthenticInv
  <1>a. UNCHANGED <<accessListMap, simulations>>
    BY DEF vars, ghostVars
  (* Enough: one handler moves, tasks may gain its task when it answers.   *)
  <1>1. ASSUME phase' = [phase EXCEPT ![e] = phase'[e]], phase'[e] \in Othentic!Phases,
               phase[e] # "answered",
               result' = [result EXCEPT ![e] = result'[e]],
               result'[e] \in Content, Good(result'[e]),
               cid' = [cid EXCEPT ![e] = cid'[e]],
               pinned \subseteq pinned', pinned' \subseteq pinned \cup {result'[e]},
               \/ cid'[e] = NoProof
               \/ cid'[e] = Othentic!Address(result'[e]) /\ result'[e] \in pinned',
               phase'[e] \in {"idle", "getBlock", "publish"} => cid'[e] = NoProof,
               \/ tasks' = tasks
               \/ phase'[e] = "answered" /\ tasks' = tasks \cup {Othentic!TaskOf(e)'},
               vote' = vote
        PROVE  OthenticInv' /\ FetchedInv'
    <2>1. \A d \in Executions : d # e =>
             phase'[d] = phase[d] /\ result'[d] = result[d] /\ cid'[d] = cid[d]
      BY <1>0, <1>1 DEF HandlersInv
    <2>2. HandlersInv'
      <3>1. /\ phase' \in [Executions -> Othentic!Phases]
            /\ result' \in [Executions -> Content]
            /\ pinned' \subseteq Content
        BY <1>0, <1>1 DEF HandlersInv
      <3>2. cid' \in [Executions -> {NoProof} \cup {Othentic!Address(c) : c \in Content}]
        BY <1>0, <1>1 DEF HandlersInv
      <3>3. \A d \in Executions :
               phase'[d] \in {"idle", "getBlock", "publish"} => cid'[d] = NoProof
        BY <1>0, <1>1, <2>1 DEF HandlersInv
      <3>4. \A d \in Executions :
               cid'[d] = NoProof
                 \/ (cid'[d] = Othentic!Address(result'[d]) /\ result'[d] \in pinned')
        BY <1>0, <1>1, <2>1 DEF HandlersInv
      <3> QED
        BY <3>1, <3>2, <3>3, <3>4 DEF HandlersInv, Othentic!Address
    <2>3. TasksInv'
      <3>1. \A t \in tasks : \E d \in Executions :
               phase'[d] = "answered" /\ t = Othentic!TaskOf(d)'
        BY <1>0, <1>1, <2>1, TasksStay
      <3> QED
        BY <1>1, <3>1 DEF TasksInv
    <2>4. VoteInv'
      BY <1>0, <1>1 DEF VoteInv, Othentic!NoVote, Othentic!Address, Othentic!Digest, Othentic!Hexlify
    <2>5. FetchedInv'
      <3>1. \A c \in pinned' : Good(c)
        BY <1>1 DEF FetchedInv
      <3>2. \A d \in Executions : Good(result'[d])
        BY <1>1, <2>1 DEF FetchedInv
      <3> QED
        BY <1>a, <3>1, <3>2 DEF FetchedInv
    <2> QED
      BY <2>2, <2>3, <2>4, <2>5 DEF OthenticInv
  <1>2. Good(result[e]) /\ result[e] \in Content /\ result = [result EXCEPT ![e] = result[e]]
    BY <1>0 DEF FetchedInv, HandlersInv
  <1>3. /\ cid = [cid EXCEPT ![e] = cid[e]]
        /\ cid[e] = NoProof \/ (cid[e] = Othentic!Address(result[e]) /\ result[e] \in pinned)
        /\ phase[e] \in {"idle", "getBlock", "publish"} => cid[e] = NoProof
    BY <1>0 DEF HandlersInv
  <1>b. /\ DOMAIN phase = Executions /\ DOMAIN result = Executions /\ DOMAIN cid = Executions
    BY <1>0 DEF HandlersInv
  <1> HIDE DEF Good
  <1>4. CASE Othentic!Execute(e)
    <2>1. /\ phase' = [phase EXCEPT ![e] = "getBlock"] /\ phase[e] = "idle"
          /\ result' = result /\ cid' = cid /\ pinned' = pinned
          /\ tasks' = tasks /\ vote' = vote
      BY <1>4 DEF Othentic!Execute, Othentic!Goto, Othentic!network
    <2>2. phase'[e] = "getBlock" /\ "getBlock" \in Othentic!Phases
      BY <1>b, <2>1 DEF Othentic!Phases
    <2> QED
      BY <1>1, <1>2, <1>3, <2>1, <2>2
  <1>5. CASE Othentic!GetBlock(e) \/ Othentic!GetBlockFails(e)
    <2>1. /\ phase' = [phase EXCEPT ![e] = "publish"] /\ phase[e] = "getBlock"
          /\ \/ result' = [result EXCEPT ![e] = Blocks]
             \/ result' = [result EXCEPT ![e] = Null]
          /\ cid' = cid /\ pinned' = pinned /\ tasks' = tasks /\ vote' = vote
      BY <1>5 DEF Othentic!GetBlock, Othentic!GetBlockFails, Othentic!Goto, Othentic!network
    <2>2. phase'[e] = "publish" /\ "publish" \in Othentic!Phases
      BY <1>b, <2>1 DEF Othentic!Phases
    <2>3. result'[e] \in {Blocks, Null} /\ result' = [result EXCEPT ![e] = result'[e]]
      BY <1>b, <2>1
    <2>4. Good(result'[e]) /\ result'[e] \in Content
      BY <2>3, BlocksGood DEF Good, GoodContent, Content
    <2> QED
      BY <1>1, <1>3, <2>1, <2>2, <2>3, <2>4
  <1>6. CASE Othentic!Publish(e) \/ Othentic!PublishFails(e)
    <2>1. /\ phase' = [phase EXCEPT ![e] = "sendTask"] /\ phase[e] = "publish"
          /\ result' = result /\ tasks' = tasks /\ vote' = vote
          /\ \/ /\ pinned' = pinned \cup {result[e]}
                /\ cid' = [cid EXCEPT ![e] = Othentic!Address(result[e])]
             \/ /\ pinned' \in {pinned, pinned \cup {result[e]}}
                /\ cid' = [cid EXCEPT ![e] = NoProof]
      BY <1>6 DEF Othentic!Publish, Othentic!PublishFails, Othentic!Goto, Othentic!network
    <2>2. phase'[e] = "sendTask" /\ "sendTask" \in Othentic!Phases
      BY <1>b, <2>1 DEF Othentic!Phases
    <2>3. /\ cid' = [cid EXCEPT ![e] = cid'[e]]
          /\ \/ cid'[e] = NoProof
             \/ cid'[e] = Othentic!Address(result'[e]) /\ result'[e] \in pinned'
      BY <1>b, <2>1
    <2> QED
      BY <1>1, <1>2, <2>1, <2>2, <2>3
  <1>7. CASE Othentic!SendTask(e) \/ Othentic!SendTaskFails(e)
    <2>1. /\ phase' = [phase EXCEPT ![e] = "answered"] /\ phase[e] = "sendTask"
          /\ result' = result /\ cid' = cid /\ pinned' = pinned
          /\ tasks' = tasks \/ tasks' = tasks \cup {Othentic!TaskOf(e)}
          /\ vote' = vote
      BY <1>7 DEF Othentic!SendTask, Othentic!SendTaskFails, Othentic!Goto
    <2>2. Othentic!TaskOf(e)' = Othentic!TaskOf(e)
      BY <2>1 DEF Othentic!TaskOf
    <2>3. phase'[e] = "answered" /\ "answered" \in Othentic!Phases
      BY <1>b, <2>1 DEF Othentic!Phases
    <2> QED
      BY <1>1, <1>2, <1>3, <2>1, <2>2, <2>3
  <1>8. CASE Othentic!SendTaskThrows(e)
    <2>1. /\ phase' = [phase EXCEPT ![e] = "failed"] /\ phase[e] = "sendTask"
          /\ result' = result /\ cid' = cid /\ pinned' = pinned
          /\ tasks' = tasks /\ vote' = vote
      BY <1>8 DEF Othentic!SendTaskThrows, Othentic!Goto, Othentic!network
    <2>2. phase'[e] = "failed" /\ "failed" \in Othentic!Phases
      BY <1>b, <2>1 DEF Othentic!Phases
    <2> QED
      BY <1>1, <1>2, <1>3, <2>1, <2>2
  <1> QED
    BY <1>4, <1>5, <1>6, <1>7, <1>8 DEF Othentic!Handler

(* A vote says what the task's content and proof say.                      *)
LEMMA VoteStep ==
    ASSUME OthenticInv, FetchedInv, UNCHANGED vars,
           NEW t \in tasks, NEW reached \in BOOLEAN, Othentic!Validate(t, reached)
    PROVE  OthenticInv' /\ FetchedInv'
  <1>0. HandlersInv /\ TasksInv
    BY DEF OthenticInv
  <1>1. UNCHANGED <<accessListMap, simulations, phase, result, cid, pinned, tasks>>
    BY DEF Othentic!Validate, Othentic!local, vars, ghostVars
  <1>2. HandlersInv' /\ TasksInv' /\ FetchedInv'
    BY <1>0, <1>1 DEF HandlersInv, TasksInv, FetchedInv, Othentic!TaskOf
  <1>3. vote' = [task |-> t, approve |-> Othentic!Approves(t, reached)]
    BY DEF Othentic!Validate
  <1>4. vote'.task = t /\ vote'.approve = Othentic!Approves(t, reached)
    BY <1>3
  <1>5. PICK e \in Executions : t = Othentic!TaskOf(e)
    BY <1>0 DEF TasksInv
  <1>6. t.proof = cid[e] /\ t.data = Othentic!Hexlify(Othentic!Digest(result[e]))
    BY <1>5 DEF Othentic!TaskOf
  <1>7. Othentic!Approves(t, reached) =>
          \E c \in pinned : /\ c # Null /\ t.proof = Othentic!Address(c)
                            /\ t.data = Othentic!Hexlify(Othentic!Digest(c))
    BY <1>6 DEF Othentic!Approves, Othentic!GetIPfsTask, Othentic!Hexlify, Othentic!Unhexlify
  <1>9. VoteInv'
    BY <1>1, <1>4, <1>7 DEF VoteInv, Othentic!Address, Othentic!Digest, Othentic!Hexlify
  <1> QED
    BY <1>2, <1>9 DEF OthenticInv

LEMMA OthenticNext ==
    ASSUME HelperInv, OthenticInv, FetchedInv, OthenticStep
    PROVE  OthenticInv' /\ FetchedInv'
  <1>1. UNCHANGED vars /\ Othentic!Next
    BY DEF OthenticStep
  <1> QED
    BY <1>1, HandlerStep, VoteStep DEF Othentic!Next

-----------------------------------------------------------------------------
(* The dashboard: the timer, and what the fetches bring.                   *)

TimerInv ==
    /\ isSimulating \in BOOLEAN
    /\ simulationInterval \in Intervals \cup {None}
    /\ simulationSpeed \in Speeds
    /\ intervals = {simulationInterval} \ {None}
    /\ isSimulating = (simulationInterval # None)

Numbered(content) == \A i \in DOMAIN content : content[i].groupId = i

ShownInv ==
    /\ loading \in BOOLEAN /\ error \in BOOLEAN
    /\ fetch \in [Fetches -> FetchStates \cup {None}]
    /\ \A f \in Fetches : fetch[f] # None /\ fetch[f].state = "answer"
                             => Numbered(fetch[f].content)
    /\ blocks = Initial \/ \A i \in DOMAIN blocks : blocks[i].id = i
    /\ loading => \E f \in Fetches : fetch[f] # None

LEMMA DashboardInit == Dashboard!Init => TimerInv /\ ShownInv
  <1> SUFFICES ASSUME Dashboard!Init PROVE TimerInv /\ ShownInv
    OBVIOUS
  <1>1. isSimulating \in BOOLEAN /\ loading \in BOOLEAN /\ error \in BOOLEAN
    BY DEF Dashboard!Init
  <1>2. isSimulating = FALSE /\ simulationInterval = None
    BY DEF Dashboard!Init
  <1>3. isSimulating = (simulationInterval # None)
    BY <1>2
  <1>4. TimerInv
    BY <1>1, <1>3, HelperClientsAssumption DEF Dashboard!Init, TimerInv
  <1>5. ShownInv
    <2>1. loading = FALSE /\ blocks = Initial /\ fetch = [f \in Fetches |-> None]
      BY DEF Dashboard!Init
    <2> QED
      BY <1>1, <2>1 DEF ShownInv
  <1> QED
    BY <1>4, <1>5

LEMMA TimerStarts ==
    ASSUME TimerInv, NEW speed \in Speeds, Dashboard!StartSimulation(speed)
    PROVE  TimerInv'
  <1>1. PICK i \in Intervals : /\ intervals' = (intervals \ {simulationInterval}) \cup {i}
                               /\ simulationInterval' = i
    BY DEF Dashboard!StartSimulation, Dashboard!Cleared
  <1>2. isSimulating' = TRUE /\ simulationSpeed' = speed
    BY DEF Dashboard!StartSimulation
  <1>3. i # None
    BY HelperClientsAssumption
  <1>4. intervals' = {i}
    BY <1>1 DEF TimerInv
  <1>5. isSimulating' \in BOOLEAN /\ isSimulating' = (simulationInterval' # None)
    BY <1>1, <1>2, <1>3
  <1> QED
    BY <1>1, <1>2, <1>3, <1>4, <1>5 DEF TimerInv

LEMMA TimerStops ==
    ASSUME TimerInv, Dashboard!StopSimulation
    PROVE  TimerInv'
  <1>1. /\ intervals' = intervals \ {simulationInterval}
        /\ simulationInterval' = None /\ isSimulating' = FALSE
        /\ simulationSpeed' = simulationSpeed
    BY DEF Dashboard!StopSimulation, Dashboard!Cleared
  <1>2. intervals' = {}
    BY <1>1 DEF TimerInv
  <1>3. isSimulating' \in BOOLEAN /\ isSimulating' = (simulationInterval' # None)
    BY <1>1
  <1> QED
    BY <1>1, <1>2, <1>3 DEF TimerInv

LEMMA TimerStays ==
    ASSUME TimerInv, UNCHANGED Dashboard!simulation
    PROVE  TimerInv'
  BY DEF TimerInv, Dashboard!simulation

LEMMA TimerNext ==
    ASSUME TimerInv, Dashboard!Next
    PROVE  TimerInv'
  <1>1. CASE Dashboard!Stop \/ Dashboard!Render \/ Dashboard!Unmount
    <2>1. Dashboard!StopSimulation
      BY <1>1 DEF Dashboard!Stop, Dashboard!Render, Dashboard!Unmount
    <2> QED
      BY <2>1, TimerStops
  <1>2. ASSUME NEW speed \in Speeds, Dashboard!Start(speed)
        PROVE  TimerInv'
    BY <1>2, TimerStarts DEF Dashboard!Start
  <1>3. ASSUME NEW speed \in Speeds, Dashboard!SetSimulationSpeed(speed)
        PROVE  TimerInv'
    <2>1. CASE Dashboard!StartSimulation(speed)
      BY <2>1, TimerStarts
    <2>2. CASE /\ simulationSpeed' = speed
               /\ UNCHANGED <<isSimulating, simulationInterval, intervals>>
      BY <2>2 DEF TimerInv
    <2> QED
      BY <1>3, <2>1, <2>2 DEF Dashboard!SetSimulationSpeed
  <1>4. CASE Dashboard!Timeout
    <2>1. \/ UNCHANGED Dashboard!simulation
          \/ Dashboard!StartSimulation(DefaultSpeed)
      BY <1>4 DEF Dashboard!Timeout
    <2> QED
      BY <2>1, TimerStays, TimerStarts, HelperClientsAssumption
  <1>5. CASE \/ Dashboard!Tick \/ Dashboard!ResetBlocks \/ Dashboard!Mount
             \/ \E f \in Fetches : Dashboard!Respond(f) \/ Dashboard!ShowBlocks(f)
                                      \/ Dashboard!ShowError(f)
    <2>1. UNCHANGED Dashboard!simulation
      BY <1>5 DEF Dashboard!Tick, Dashboard!ResetBlocks, Dashboard!Mount, Dashboard!Respond,
         Dashboard!ShowBlocks, Dashboard!ShowError
    <2> QED
      BY <2>1, TimerStays
  <1> QED
    BY <1>1, <1>2, <1>3, <1>4, <1>5 DEF Dashboard!Next

LEMMA FetchBegins ==
    ASSUME ShownInv, Dashboard!AddNewBlock
    PROVE  ShownInv'
  <1>1. PICK f \in Fetches : fetch' = [fetch EXCEPT ![f] = Dashboard!Asked]
    BY DEF Dashboard!AddNewBlock
  <1>2. Dashboard!Asked \in FetchStates /\ Dashboard!Asked # None
    BY HelperClientsAssumption DEF FetchStates
  <1>3. /\ fetch' \in [Fetches -> FetchStates \cup {None}] /\ fetch'[f] = Dashboard!Asked
        /\ \A g \in Fetches : g # f => fetch'[g] = fetch[g]
    BY <1>1, <1>2 DEF ShownInv
  <1>4. Dashboard!Asked.state # "answer"
    BY DEF Dashboard!Asked
  <1>5. loading' \in BOOLEAN /\ error' \in BOOLEAN /\ blocks' = blocks
    BY DEF Dashboard!AddNewBlock
  <1>6. \A g \in Fetches : fetch'[g] # None /\ fetch'[g].state = "answer"
                              => Numbered(fetch'[g].content)
    BY <1>3, <1>4 DEF ShownInv
  <1>7. \E g \in Fetches : fetch'[g] # None
    BY <1>2, <1>3
  <1> QED
    BY <1>3, <1>5, <1>6, <1>7 DEF ShownInv, Numbered

LEMMA FetchMoves ==
    ASSUME HelperInv, ShownInv, NEW f \in Fetches,
           Dashboard!Respond(f) \/ Dashboard!ShowBlocks(f) \/ Dashboard!ShowError(f)
    PROVE  ShownInv'
  <1>0. /\ loading \in BOOLEAN /\ error \in BOOLEAN
        /\ fetch \in [Fetches -> FetchStates \cup {None}]
        /\ blocks = Initial \/ \A i \in DOMAIN blocks : blocks[i].id = i
    BY DEF ShownInv
  <1>1. CASE Dashboard!Respond(f)
    <2>1. PICK r \in {Dashboard!Answer(Blocks), Dashboard!Failure} :
            fetch' = [fetch EXCEPT ![f] = r]
      BY <1>1 DEF Dashboard!Respond
    <2>2. UNCHANGED <<loading, error, blocks>>
      BY <1>1 DEF Dashboard!Respond, Dashboard!shown
    <2>3. Blocks \in Seq(AnyBlock) /\ Numbered(Blocks)
      BY BlocksGood DEF GoodContent, Numbered
    <2>4. r \in FetchStates
      BY <2>1, <2>3 DEF FetchStates, Dashboard!Answer
    <2>5. r # None
      BY <2>4, HelperClientsAssumption
    <2>6. r.state = "answer" => Numbered(r.content)
      BY <2>1, <2>3 DEF Dashboard!Answer, Dashboard!Failure
    <2>7. /\ fetch' \in [Fetches -> FetchStates \cup {None}] /\ fetch'[f] = r
          /\ \A g \in Fetches : g # f => fetch'[g] = fetch[g]
      BY <1>0, <2>1, <2>4
    <2>8. \A g \in Fetches : fetch'[g] # None /\ fetch'[g].state = "answer"
                                => Numbered(fetch'[g].content)
      BY <2>6, <2>7 DEF ShownInv
    <2>9. \E g \in Fetches : fetch'[g] # None
      BY <2>5, <2>7
    <2> QED
      BY <1>0, <2>2, <2>7, <2>8, <2>9 DEF ShownInv, Numbered
  <1>2. CASE Dashboard!ShowBlocks(f) \/ Dashboard!ShowError(f)
    <2>1. fetch' = [fetch EXCEPT ![f] = None] /\ loading' = FALSE
      BY <1>2 DEF Dashboard!ShowBlocks, Dashboard!ShowError
    <2>2. /\ fetch' \in [Fetches -> FetchStates \cup {None}] /\ fetch'[f] = None
          /\ \A g \in Fetches : g # f => fetch'[g] = fetch[g]
      BY <1>0, <2>1
    <2>3. \A g \in Fetches : fetch'[g] # None /\ fetch'[g].state = "answer"
                                => Numbered(fetch'[g].content)
      BY <2>2 DEF ShownInv
    <2>4. loading' \in BOOLEAN /\ ~loading'
      BY <2>1
    <2>5. error' \in BOOLEAN
      <3>1. error' = error \/ error' = TRUE
        BY <1>2 DEF Dashboard!ShowBlocks, Dashboard!ShowError
      <3> QED
        BY <1>0, <3>1
    <2>6. blocks' = Initial \/ \A i \in DOMAIN blocks' : blocks'[i].id = i
      <3>1. CASE Dashboard!ShowError(f)
        BY <1>0, <3>1 DEF Dashboard!ShowError
      <3>2. CASE Dashboard!ShowBlocks(f)
        <4>1. /\ Numbered(fetch[f].content)
              /\ blocks' = Dashboard!Converted(fetch[f].content)
          BY <3>2 DEF Dashboard!ShowBlocks, ShownInv
        <4>2. \A c : Numbered(c) => \A i \in DOMAIN Dashboard!Converted(c) :
                                       Dashboard!Converted(c)[i].id = i
          BY DEF Numbered, Dashboard!Converted
        <4> QED
          BY <4>1, <4>2
      <3> QED
        BY <1>2, <3>1, <3>2
    <2> QED
      BY <2>2, <2>3, <2>4, <2>5, <2>6 DEF ShownInv, Numbered
  <1> QED
    BY <1>1, <1>2

LEMMA ShownNext ==
    ASSUME HelperInv, ShownInv, Dashboard!Next
    PROVE  ShownInv'
  <1>1. CASE Dashboard!Tick \/ Dashboard!Timeout
    BY <1>1, FetchBegins DEF Dashboard!Tick, Dashboard!Timeout
  <1>2. CASE \E f \in Fetches : Dashboard!Respond(f) \/ Dashboard!ShowBlocks(f)
                                   \/ Dashboard!ShowError(f)
    BY <1>2, FetchMoves
  <1>3. CASE Dashboard!ResetBlocks
    BY <1>3 DEF Dashboard!ResetBlocks, ShownInv, Numbered
  <1>4. CASE \/ Dashboard!Stop \/ Dashboard!Render \/ Dashboard!Unmount \/ Dashboard!Mount
             \/ \E speed \in Speeds : Dashboard!Start(speed)
                                         \/ Dashboard!SetSimulationSpeed(speed)
    <2>1. UNCHANGED <<blocks, loading, error, fetch>>
      BY <1>4 DEF Dashboard!Stop, Dashboard!Render, Dashboard!Unmount, Dashboard!Mount,
         Dashboard!Start, Dashboard!SetSimulationSpeed, Dashboard!shown
    <2> QED
      BY <2>1 DEF ShownInv, Numbered
  <1> QED
    BY <1>1, <1>2, <1>3, <1>4 DEF Dashboard!Next

-----------------------------------------------------------------------------
(* The whole.                                                              *)

AllInv ==
    /\ client \in Clients
    /\ HelperInv
    /\ OthenticInv /\ FetchedInv
    /\ TimerInv /\ ShownInv

LEMMA AllInvInit == AllInit => AllInv
  BY HelperInit, OthenticInit, DashboardInit DEF AllInit, AllInv

LEMMA AllInvNext == AllInv /\ [AllNext]_allVars => AllInv'
  <1> SUFFICES ASSUME AllInv, [AllNext]_allVars PROVE AllInv'
    OBVIOUS
  <1>0. /\ client \in Clients /\ HelperInv /\ OthenticInv /\ FetchedInv
        /\ TimerInv /\ ShownInv /\ TypeOK
    BY DEF AllInv, HelperInv, ShapeInv, Inv
  <1>1. client' = client
    BY DEF AllNext, HelperStep, OthenticStep, DashboardStep, allVars
  <1>2. HelperInv'
    <2>1. [Next]_vars
      BY DEF AllNext, HelperStep, OthenticStep, DashboardStep, allVars
    <2> QED
      BY <1>0, <2>1, HelperNext
  <1>3. OthenticInv' /\ FetchedInv'
    <2>1. CASE OthenticStep
      BY <1>0, <2>1, OthenticNext
    <2>2. CASE UNCHANGED othenticVars /\ [Next]_vars
      <3>1. OthenticInv'
        BY <1>0, <2>2 DEF OthenticInv, HandlersInv, TasksInv, VoteInv, othenticVars,
           Othentic!TaskOf, Othentic!NoVote, Othentic!Address, Othentic!Digest, Othentic!Hexlify
      <3>2. \A c : GoodContent(accessListMap, simulations, c)
                     => GoodContent(accessListMap', simulations', c)
        BY <1>0, <2>2, ContentStaysGood
      <3>3. result' = result /\ pinned' = pinned
        BY <2>2 DEF othenticVars
      <3>4. FetchedInv'
        BY <1>0, <3>2, <3>3 DEF FetchedInv
      <3> QED
        BY <3>1, <3>4
    <2>3. OthenticStep \/ (UNCHANGED othenticVars /\ [Next]_vars)
      BY DEF AllNext, HelperStep, DashboardStep, allVars
    <2> QED
      BY <2>1, <2>2, <2>3
  <1>4. TimerInv' /\ ShownInv'
    <2>1. CASE DashboardStep
      BY <1>0, <2>1, TimerNext, ShownNext DEF DashboardStep
    <2>2. CASE UNCHANGED dashboardVars
      BY <1>0, <2>2 DEF TimerInv, ShownInv, Numbered, dashboardVars
    <2> QED
      BY <2>1, <2>2 DEF AllNext, HelperStep, OthenticStep, allVars
  <1> QED
    BY <1>0, <1>1, <1>2, <1>3, <1>4 DEF AllInv

LEMMA Invariance == AllSpec => []AllInv
  BY AllInvInit, AllInvNext, PTL DEF AllSpec

(* The clients' state keeps its shape, and every task is what some         *)
(* execution holds.                                                        *)
THEOREM ClientsAreTyped == AllSpec => []ClientsTypeOK
  <1>1. ASSUME AllInv PROVE ClientsTypeOK
    <2>1. Othentic!TypeOK
      <3>1. HandlersInv /\ TasksInv /\ VoteInv
        BY <1>1 DEF AllInv, OthenticInv
      <3>2. vote = Othentic!NoVote \/ vote.task \in tasks
        BY <3>1 DEF VoteInv
      <3>3. \A t \in tasks : \E e \in Executions : t = Othentic!TaskOf(e)
        BY <3>1 DEF TasksInv
      <3>4. /\ phase \in [Executions -> Othentic!Phases]
            /\ \A e \in Executions :
                  cid[e] = NoProof \/ \E c \in pinned : cid[e] = Othentic!Address(c)
        BY <3>1 DEF HandlersInv
      <3> QED
        BY <3>2, <3>3, <3>4 DEF Othentic!TypeOK
    <2>2. Dashboard!TypeOK
      <3>1. intervals \subseteq Intervals
        BY <1>1 DEF AllInv, TimerInv
      <3> QED
        BY <1>1, <3>1 DEF AllInv, TimerInv, ShownInv, Dashboard!TypeOK
    <2> QED
      BY <1>1, <2>1, <2>2 DEF ClientsTypeOK, AllInv, ShownInv
  <1> QED
    BY <1>1, Invariance, PTL

(* What a validator approved is an answer of the helper, and no            *)
(* parallelizable block of it has two transactions with a common key.      *)
THEOREM ApprovedIsParallel == AllSpec => []ApprovedRunsInParallel
  <1>1. ASSUME AllInv PROVE ApprovedRunsInParallel
    <2> SUFFICES ASSUME vote.approve
                 PROVE  /\ vote.task.data # Othentic!Hexlify(Othentic!Digest(Null))
                        /\ \A i \in DOMAIN vote.task.proof.ipfs :
                              vote.task.proof.ipfs[i].type = "parallelizable"
                                  => RunsInParallel(vote.task.proof.ipfs[i])
      BY DEF ApprovedRunsInParallel
    <2>1. VoteInv /\ FetchedInv
      BY <1>1 DEF AllInv, OthenticInv
    <2>2. vote # Othentic!NoVote
      BY DEF Othentic!NoVote
    <2>3. PICK c \in pinned : /\ c # Null
                              /\ vote.task.proof = Othentic!Address(c)
                              /\ vote.task.data = Othentic!Hexlify(Othentic!Digest(c))
      BY <2>1, <2>2 DEF VoteInv
    <2>4. vote.task.proof.ipfs = c
      BY <2>3 DEF Othentic!Address
    <2>5. vote.task.data # Othentic!Hexlify(Othentic!Digest(Null))
      <3>1. /\ Othentic!Hexlify(Othentic!Digest(c)).hex.sha256.json = c
            /\ Othentic!Hexlify(Othentic!Digest(Null)).hex.sha256.json = Null
        BY DEF Othentic!Digest, Othentic!Hexlify
      <3> QED
        BY <2>3, <3>1
    <2>6. GoodContent(accessListMap, simulations, c)
      BY <2>1, <2>3 DEF FetchedInv
    <2>7. \A i \in DOMAIN c : c[i].type = "parallelizable" => RunsInParallel(c[i])
      BY <2>6 DEF GoodContent, GoodRow, RunsInParallel, Settled
    <2> QED
      BY <2>4, <2>5, <2>7
  <1> QED
    BY <1>1, Invariance, PTL

(* The store can end every timer that runs, and the loading flag is set    *)
(* only while a fetch is under way.                                        *)
THEOREM NothingIsLeftRunning == AllSpec => []NothingLeftRunning
  <1>1. AllInv => NothingLeftRunning
    BY DEF AllInv, TimerInv, ShownInv, NothingLeftRunning, Dashboard!NothingLeftRunning
  <1> QED
    BY <1>1, Invariance, PTL
===============================================================================
