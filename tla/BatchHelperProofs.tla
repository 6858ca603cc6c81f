-------------------------- MODULE BatchHelperProofs --------------------------
(***************************************************************************)
(* Proofs about BatchHelper, for any set of transactions, any answers of   *)
(* the node and any number of groups.                                      *)
(***************************************************************************)
EXTENDS BatchHelper, TLAPS

(* A transaction in a group was simulated.                                 *)
PlacedWasSimulated ==
    /\ \A i \in DOMAIN parallelizableGroups : \A k \in DOMAIN parallelizableGroups[i] :
          simulations[parallelizableGroups[i][k]] >= 1
    /\ \A k \in DOMAIN sequentialGroup : simulations[sequentialGroup[k]] >= 1

(* No more groups than MAX_PARALLELIZABLE_GROUPS.                           *)
GroupsBounded == Len(parallelizableGroups) <= MaxGroups

(* A comparison is out of date only because one of the two was simulated   *)
(* again.                                                                  *)
StaleWasRepeated == \A p \in stale : \E t \in p : simulations[t] >= 2

(* Without GroupsBounded the overflow test could pass with more groups     *)
(* than MaxGroups.  The two parts about simulations say of what left the   *)
(* current groups which comparisons still count.                           *)
Inv ==
    /\ TypeOK
    /\ GroupsBounded
    /\ PlacedWasSimulated
    /\ StaleWasRepeated
    /\ CollisionFree
    /\ GroupsFirstFit
    /\ SequentialOnlyWhenFull

-----------------------------------------------------------------------------
(* The groups after the queued hash t was processed.                       *)
LEMMA ProcessType ==
    ASSUME TypeOK, NEW t \in Txs, NEW map, ProcessTransactionQueue(map, t)
    PROVE  /\ parallelizableGroups' \in Seq(Seq(Txs))
           /\ sequentialGroup' \in Seq(Txs)
  <1>1. CASE JoinGroup(map, t)
    BY <1>1 DEF JoinGroup, TypeOK
  <1>2. CASE OpenGroup(map, t)
    <2>1. <<t>> \in Seq(Txs)
      OBVIOUS
    <2> QED
      BY <1>2, <2>1 DEF OpenGroup, TypeOK
  <1>3. CASE Overflow(map, t)
    BY <1>3 DEF Overflow, TypeOK
  <1>4. CASE Abort(map, t)
    BY <1>4 DEF Abort, TypeOK, groupVars
  <1> QED
    BY <1>1, <1>2, <1>3, <1>4 DEF ProcessTransactionQueue

LEMMA TypeInit == Init => TypeOK
  <1> SUFFICES ASSUME Init PROVE TypeOK
    OBVIOUS
  <1>1. parallelizableGroups \in Seq(Seq(Txs)) /\ sequentialGroup \in Seq(Txs)
    BY DEF Init
  <1>2. /\ historicalParallelizableGroups \in Seq(Seq(Txs))
        /\ historicalSequentialGroup \in Seq(Txs)
    BY DEF Init
  <1>3. /\ handler \in [Txs -> Phases]
        /\ accessListMap \in [Txs -> {NoList} \cup AccessList]
        /\ simulations \in [Txs -> Nat] /\ stale \subseteq SUBSET Txs
    BY DEF Init, Phases
  <1>4. isDebounced \in BOOLEAN
    BY DEF Init
  <1> QED
    BY <1>1, <1>2, <1>3, <1>4 DEF TypeOK

LEMMA TypeNext == TypeOK /\ [Next]_vars => TypeOK'
  <1> SUFFICES ASSUME TypeOK, [Next]_vars
               PROVE  TypeOK'
    OBVIOUS
  <1> USE BatchHelperAssumption
  <1>1. ASSUME NEW t \in Txs, Pending(t)
        PROVE  TypeOK'
    BY <1>1 DEF Pending, TypeOK, Phases, groupVars, historyVars, ghostVars
  <1>2. ASSUME NEW t \in Txs, TransactionFetched(t)
        PROVE  TypeOK'
    BY <1>2 DEF TransactionFetched, TypeOK, Phases, groupVars, historyVars, ghostVars
  <1>3. ASSUME NEW t \in Txs, FetchFailed(t)
        PROVE  TypeOK'
    BY <1>3 DEF FetchFailed, TypeOK, Phases, groupVars, historyVars, ghostVars
  <1>4. ASSUME NEW t \in Txs, GenerateAccessList(t)
        PROVE  TypeOK'
    <2>1. PICK list \in Answers :
            /\ accessListMap' = [accessListMap EXCEPT ![t] = list]
            /\ ProcessTransactionQueue([accessListMap EXCEPT ![t] = list], t)
      BY <1>4 DEF GenerateAccessList
    <2>2. /\ parallelizableGroups' \in Seq(Seq(Txs))
          /\ sequentialGroup' \in Seq(Txs)
      BY <2>1, ProcessType
    <2>3. accessListMap' \in [Txs -> {NoList} \cup AccessList]
      BY <2>1 DEF TypeOK
    <2>4. stale' \subseteq SUBSET Txs
      <3>1. stale \subseteq SUBSET Txs /\ stale' = stale \cup Overwritten(t)
        BY <1>4 DEF GenerateAccessList, TypeOK
      <3>2. \A s \in Txs : {s, t} \in SUBSET Txs
        OBVIOUS
      <3>3. Overwritten(t) \subseteq SUBSET Txs
        BY <3>2 DEF Overwritten
      <3> QED
        BY <3>1, <3>3
    <2> QED
      BY <1>4, <2>2, <2>3, <2>4 DEF GenerateAccessList, TypeOK, Phases, historyVars
  <1>5. ASSUME NEW t \in Txs, SimulationFailed(t)
        PROVE  TypeOK'
    BY <1>5 DEF SimulationFailed, TypeOK, Phases, groupVars, historyVars, ghostVars
  <1>6. ASSUME NEW t \in Txs, ReleaseDebounce(t)
        PROVE  TypeOK'
    BY <1>6 DEF ReleaseDebounce, TypeOK, Phases, groupVars, historyVars, ghostVars
  <1>7. CASE CleanGroups
    BY <1>7 DEF CleanGroups, TypeOK, Phases
  <1>8. CASE UNCHANGED vars
    BY <1>8 DEF vars, TypeOK, Phases, groupVars, historyVars, ghostVars
  <1> QED
    BY <1>1, <1>2, <1>3, <1>4, <1>5, <1>6, <1>7, <1>8 DEF Next, Callback

(* The variables of the helper keep their types.                           *)
THEOREM TypeCorrect == Spec => []TypeOK
  BY TypeInit, TypeNext, PTL DEF Spec
-----------------------------------------------------------------------------
LEMMA InvInit == Init => Inv
  <1> SUFFICES ASSUME Init PROVE Inv
    OBVIOUS
  <1>1. TypeOK
    BY TypeInit
  <1>2. PlacedWasSimulated /\ StaleWasRepeated /\ CollisionFree /\ GroupsFirstFit
    BY DEF Init, PlacedWasSimulated, StaleWasRepeated, CollisionFree, GroupsFirstFit
  <1>3. SequentialOnlyWhenFull
    BY DEF Init, SequentialOnlyWhenFull
  <1>4. GroupsBounded
    BY BatchHelperAssumption DEF Init, GroupsBounded
  <1> QED
    BY <1>1, <1>2, <1>3, <1>4 DEF Inv

(* A step that leaves the groups, the lists and the counters alone.        *)
LEMMA InvUntouched ==
    ASSUME Inv, TypeOK', UNCHANGED <<groupVars, accessListMap, ghostVars>>
    PROVE  Inv'
  <1> USE DEF groupVars, ghostVars
  <1>1. PlacedWasSimulated' /\ StaleWasRepeated'
    BY DEF Inv, PlacedWasSimulated, StaleWasRepeated
  <1>2. CollisionFree'
    BY DEF Inv, CollisionFree, Overlap
  <1>3. GroupsFirstFit'
    BY DEF Inv, GroupsFirstFit, KeptOut, Overlap
  <1>4. SequentialOnlyWhenFull'
    BY DEF Inv, SequentialOnlyWhenFull, KeptOut, Overlap
  <1>5. GroupsBounded'
    BY DEF Inv, GroupsBounded
  <1> QED
    BY <1>1, <1>2, <1>3, <1>4, <1>5 DEF Inv

-----------------------------------------------------------------------------
(* Two facts about KeptOut that the placement of t needs, over any lists   *)
(* and any stale pairs: t itself is kept out of a group it collides with; a       *)
(* longer group keeps out what the shorter one did.                        *)
KeptOutBy(map, old, u, group) ==
    (\A s \in Elements(group) : {s, u} \notin old)
        => \E s \in Elements(group) : Overlap(map, s, u)

LEMMA CollidingKeptOut ==
    ASSUME NEW map, NEW old, NEW t, NEW g, Collides(map, t, g)
    PROVE  KeptOutBy(map, old, t, g)
  BY DEF Collides, KeptOutBy, Elements, Overlap

LEMMA KeptOutOfLonger ==
    ASSUME NEW map, NEW old, NEW u, NEW t \in Txs, NEW g \in Seq(Txs),
           KeptOutBy(map, old, u, g)
    PROVE  KeptOutBy(map, old, u, Append(g, t))
  <1>1. Elements(g) \subseteq Elements(Append(g, t))
    BY DEF Elements
  <1> QED
    BY <1>1 DEF KeptOutBy

(* The case of a new access list: Next's only action that places anything. *)
LEMMA InvGenerate ==
    ASSUME Inv, TypeOK', NEW t \in Txs, GenerateAccessList(t)
    PROVE  Inv'
  <1> DEFINE pg == parallelizableGroups
             K(u, g) == KeptOutBy(accessListMap', stale', u, g)
  <1>1. PICK list \in Answers :
          /\ accessListMap' = [accessListMap EXCEPT ![t] = list]
          /\ ProcessTransactionQueue([accessListMap EXCEPT ![t] = list], t)
    BY DEF GenerateAccessList
  <1>2. ProcessTransactionQueue(accessListMap', t)
    BY <1>1
  <1>3. /\ pg \in Seq(Seq(Txs)) /\ sequentialGroup \in Seq(Txs)
        /\ simulations \in [Txs -> Nat] /\ simulations' \in [Txs -> Nat]
    BY DEF Inv, TypeOK
  <1>4. /\ \A s \in Txs : s # t => /\ accessListMap'[s] = accessListMap[s]
                                   /\ simulations'[s] = simulations[s]
        /\ simulations'[t] = simulations[t] + 1
    BY <1>1 DEF Inv, TypeOK, GenerateAccessList
  <1>4a. /\ simulations'[t] >= 1
         /\ \A s \in Txs : simulations[s] >= 1 => simulations'[s] >= 1
    BY <1>3, <1>4
  <1>5. \A i \in DOMAIN pg : \A k \in DOMAIN pg[i] :
          /\ pg[i][k] \in Txs /\ InCurrent(pg[i][k])
          /\ simulations[pg[i][k]] >= 1 /\ simulations'[pg[i][k]] >= 1
    BY <1>3, <1>4a DEF Inv, PlacedWasSimulated, InCurrent, Elements
  <1>6. \A k \in DOMAIN sequentialGroup :
          /\ sequentialGroup[k] \in Txs /\ InCurrent(sequentialGroup[k])
          /\ simulations[sequentialGroup[k]] >= 1 /\ simulations'[sequentialGroup[k]] >= 1
    BY <1>3, <1>4a DEF Inv, PlacedWasSimulated, InCurrent, Elements
  <1>6a. stale' = stale \cup Overwritten(t)
    BY DEF GenerateAccessList
  (* A comparison of placed hashes that is not out of date after the step   *)
  (* was not before, and is none with t.                                   *)
  <1>6b. ASSUME NEW s \in Txs, NEW u \in Txs, InCurrent(s), InCurrent(u), {s, u} \notin stale'
         PROVE  s # t /\ u # t /\ {s, u} \notin stale
    <2>1. s = t => {u, t} \in Overwritten(t)
      BY <1>6b DEF Overwritten
    <2>2. u = t => {s, t} \in Overwritten(t)
      BY <1>6b DEF Overwritten
    <2>3. s = t => {s, u} = {u, t}
      OBVIOUS
    <2> QED
      BY <1>6a, <1>6b, <2>1, <2>2, <2>3
  <1>6c. StaleWasRepeated'
    <2> SUFFICES ASSUME NEW p \in stale' PROVE \E s \in p : simulations'[s] >= 2
      BY DEF StaleWasRepeated
    <2>1. CASE p \in stale
      <3>1. PICK s \in p : simulations[s] >= 2
        BY <2>1 DEF Inv, StaleWasRepeated
      <3>2. s \in Txs
        BY <2>1, <3>1 DEF Inv, TypeOK
      <3> QED
        BY <1>3, <1>4, <3>1, <3>2
    <2>2. CASE p \in Overwritten(t)
      <3>1. t \in p /\ InCurrent(t)
        BY <2>2 DEF Overwritten
      <3>2. simulations[t] >= 1
        BY <3>1 DEF Inv, PlacedWasSimulated, InCurrent, Elements
      <3> QED
        BY <1>3, <1>4, <3>1, <3>2
    <2> QED
      BY <1>6a, <2>1, <2>2
  (* The old groups under the new list. *)
  <1>7. \A i \in DOMAIN pg : \A k, m \in DOMAIN pg[i] :
          k < m /\ {pg[i][k], pg[i][m]} \notin stale'
              => ~Overlap(accessListMap', pg[i][k], pg[i][m])
    <2> SUFFICES ASSUME NEW i \in DOMAIN pg, NEW k \in DOMAIN pg[i], NEW m \in DOMAIN pg[i],
                        k < m, {pg[i][k], pg[i][m]} \notin stale'
                 PROVE  ~Overlap(accessListMap', pg[i][k], pg[i][m])
      OBVIOUS
    <2>1. pg[i][k] # t /\ pg[i][m] # t /\ {pg[i][k], pg[i][m]} \notin stale
      BY <1>5, <1>6b
    <2>2. ~Overlap(accessListMap, pg[i][k], pg[i][m])
      BY <2>1 DEF Inv, CollisionFree
    <2> QED
      BY <1>4, <1>5, <2>1, <2>2 DEF Overlap
  (* The new list of t leaves out whom the old one left out. *)
  <1>7a. ASSUME NEW u \in Txs, InCurrent(u),
                NEW g \in Seq(Txs), \A k \in DOMAIN g : InCurrent(g[k]),
                KeptOutBy(accessListMap, stale, u, g)
         PROVE  K(u, g)
    <2> SUFFICES ASSUME \A s \in Elements(g) : {s, u} \notin stale'
                 PROVE  \E s \in Elements(g) : Overlap(accessListMap', s, u)
      BY DEF KeptOutBy
    <2>1. \A s \in Elements(g) : s \in Txs /\ InCurrent(s)
      BY <1>7a DEF Elements
    <2>2. \A s \in Elements(g) : s # t /\ u # t /\ {s, u} \notin stale
      BY <1>6b, <1>7a, <2>1
    <2>3. PICK s \in Elements(g) : Overlap(accessListMap, s, u)
      BY <1>7a, <2>2 DEF KeptOutBy
    <2> QED
      BY <1>4, <2>1, <2>2, <2>3 DEF Overlap
  <1>8. \A j \in DOMAIN pg : \A i \in 1..(j - 1) : \A k \in DOMAIN pg[j] : K(pg[j][k], pg[i])
    <2> SUFFICES ASSUME NEW j \in DOMAIN pg, NEW i \in 1..(j - 1), NEW k \in DOMAIN pg[j]
                 PROVE  K(pg[j][k], pg[i])
      OBVIOUS
    <2>1. KeptOutBy(accessListMap, stale, pg[j][k], pg[i])
      BY DEF Inv, GroupsFirstFit, KeptOut, KeptOutBy
    <2>2. i \in DOMAIN pg /\ pg[i] \in Seq(Txs)
      BY <1>3
    <2>3. /\ pg[j][k] \in Txs /\ InCurrent(pg[j][k])
          /\ \A l \in DOMAIN pg[i] : InCurrent(pg[i][l])
      BY <1>5, <2>2
    <2> HIDE DEF pg, K
    <2> QED
      BY <1>7a, <2>1, <2>2, <2>3
  <1>9. \A k \in DOMAIN sequentialGroup :
          /\ Len(pg) = MaxGroups
          /\ \A i \in DOMAIN pg : K(sequentialGroup[k], pg[i])
    <2> SUFFICES ASSUME NEW k \in DOMAIN sequentialGroup
                 PROVE  /\ Len(pg) = MaxGroups
                        /\ \A i \in DOMAIN pg : K(sequentialGroup[k], pg[i])
      OBVIOUS
    <2>1. Len(pg) = MaxGroups
      BY DEF Inv, SequentialOnlyWhenFull
    <2>2. \A i \in DOMAIN pg :
            KeptOutBy(accessListMap, stale, sequentialGroup[k], pg[i])
      BY DEF Inv, SequentialOnlyWhenFull, KeptOut, KeptOutBy
    <2>3. \A i \in DOMAIN pg : pg[i] \in Seq(Txs)
      BY <1>3
    <2> HIDE DEF pg, K
    <2> QED
      BY <1>5, <1>6, <1>7a, <2>1, <2>2, <2>3
  (* What the four outcomes of the placement make of them. *)
  <1>10. CASE JoinGroup(accessListMap', t)
    <2>1. PICK i \in DOMAIN pg :
            /\ Reaches(accessListMap', t, i)
            /\ Free(accessListMap', t, pg[i])
            /\ parallelizableGroups' = [pg EXCEPT ![i] = Append(@, t)]
      BY <1>10 DEF JoinGroup
    <2>2. /\ DOMAIN parallelizableGroups' = DOMAIN pg
          /\ Len(parallelizableGroups') = Len(pg)
          /\ parallelizableGroups'[i] = Append(pg[i], t)
          /\ \A j \in DOMAIN pg : j # i => parallelizableGroups'[j] = pg[j]
          /\ \A j \in DOMAIN pg : pg[j] \in Seq(Txs)
      BY <1>3, <2>1
    <2>3. sequentialGroup' = sequentialGroup
      BY <1>10 DEF JoinGroup
    <2>a. \A j \in DOMAIN pg : \A k \in DOMAIN pg[j] :
            parallelizableGroups'[j][k] = pg[j][k]
      <3> SUFFICES ASSUME NEW j \in DOMAIN pg, NEW k \in DOMAIN pg[j]
                   PROVE  parallelizableGroups'[j][k] = pg[j][k]
        OBVIOUS
      <3>1. CASE j # i
        BY <2>2, <3>1
      <3>2. CASE j = i
        <4>1. pg[i] \in Seq(Txs) /\ k \in DOMAIN pg[i]
          BY <2>2, <3>2
        <4>2. Append(pg[i], t)[k] = pg[i][k]
          BY <4>1
        <4> QED
          BY <2>2, <3>2, <4>2
      <3> QED
        BY <3>1, <3>2
    <2>4. \A j \in 1..(i - 1) : K(t, pg[j])
      BY <2>1, CollidingKeptOut DEF Reaches
    <2>5. \A u : \A j \in DOMAIN pg : K(u, pg[j]) => K(u, parallelizableGroups'[j])
      BY <2>2, KeptOutOfLonger
    <2>6. PlacedWasSimulated'
      <3>1. ASSUME NEW j \in DOMAIN pg, NEW k \in DOMAIN parallelizableGroups'[j]
            PROVE  simulations'[parallelizableGroups'[j][k]] >= 1
        <4>1. CASE k \in DOMAIN pg[j]
          BY <1>5, <2>a, <4>1
        <4>2. CASE k \notin DOMAIN pg[j]
          <5>1. j = i /\ parallelizableGroups'[j][k] = t
            BY <2>2, <3>1, <4>2
          <5> QED
            BY <1>4a, <5>1
        <4> QED
          BY <4>1, <4>2
      <3>2. \A k \in DOMAIN sequentialGroup' : simulations'[sequentialGroup'[k]] >= 1
        BY <1>6, <2>3
      <3> QED
        BY <2>2, <3>1, <3>2 DEF PlacedWasSimulated
    <2>7. CollisionFree'
      <3> DEFINE pgn == parallelizableGroups'
      <3>a. \A j \in DOMAIN pgn : \A k, m \in DOMAIN pgn[j] :
              k < m /\ {pgn[j][k], pgn[j][m]} \notin stale'
                  => ~Overlap(accessListMap', pgn[j][k], pgn[j][m])
        <4> SUFFICES ASSUME NEW j \in DOMAIN pgn, NEW k \in DOMAIN pgn[j],
                            NEW m \in DOMAIN pgn[j], k < m,
                            {pgn[j][k], pgn[j][m]} \notin stale'
                     PROVE  ~Overlap(accessListMap', pgn[j][k], pgn[j][m])
          OBVIOUS
        <4>1. CASE j # i
          BY <1>7, <2>2, <4>1
        <4>2. CASE j = i /\ m \in DOMAIN pg[i]
          <5>1. k \in DOMAIN pg[i]
            BY <2>2, <4>2
          <5>2. pgn[j][k] = pg[i][k] /\ pgn[j][m] = pg[i][m]
            BY <2>a, <4>2, <5>1
          <5> QED
            BY <1>7, <4>2, <5>1, <5>2
        <4>3. CASE j = i /\ m \notin DOMAIN pg[i]
          <5>1. /\ k \in DOMAIN pg[i] /\ pgn[j][k] = pg[i][k]
                /\ pgn[j][m] = t
            BY <2>2, <4>3
          <5>2. ~Overlap(accessListMap', t, pg[i][k])
            BY <2>1, <5>1 DEF Free
          <5>3. ~Overlap(accessListMap', pg[i][k], t)
            BY <5>2 DEF Overlap
          <5> QED
            BY <5>1, <5>3
        <4> QED
          BY <4>1, <4>2, <4>3
      <3> QED
        BY <3>a DEF CollisionFree
    <2>8. GroupsFirstFit'
      <3> SUFFICES ASSUME NEW j \in DOMAIN pg, NEW h \in 1..(j - 1),
                          NEW k \in DOMAIN parallelizableGroups'[j]
                   PROVE  K(parallelizableGroups'[j][k], parallelizableGroups'[h])
        BY <2>2 DEF GroupsFirstFit, KeptOut, KeptOutBy
      <3>1. h \in DOMAIN pg
        BY <1>3
      <3>2. CASE k \in DOMAIN pg[j]
        <4>1. parallelizableGroups'[j][k] = pg[j][k]
          BY <2>a, <3>2
        <4> QED
          BY <1>8, <2>5, <3>1, <3>2, <4>1
      <3>3. CASE k \notin DOMAIN pg[j]
        <4>1. j = i /\ parallelizableGroups'[j][k] = t
          BY <2>2, <3>3
        <4> QED
          BY <2>4, <2>5, <3>1, <4>1
      <3> QED
        BY <3>2, <3>3
    <2>9. SequentialOnlyWhenFull'
      <3>1. \A k \in DOMAIN sequentialGroup : \A j \in DOMAIN pg :
              K(sequentialGroup[k], parallelizableGroups'[j])
        BY <1>9, <2>5
      <3> QED
        BY <1>9, <2>2, <2>3, <3>1
        DEF SequentialOnlyWhenFull, KeptOut, KeptOutBy
    <2>10. GroupsBounded'
      BY <2>2 DEF Inv, GroupsBounded
    <2> QED
      BY <1>6c, <2>6, <2>7, <2>8, <2>9, <2>10 DEF Inv
  <1>11. CASE OpenGroup(accessListMap', t)
    <2>1. /\ parallelizableGroups' = Append(pg, <<t>>)
          /\ sequentialGroup' = sequentialGroup
          /\ Len(pg) < MaxGroups
      BY <1>11 DEF OpenGroup
    <2>2. \A h \in DOMAIN pg : K(t, pg[h])
      <3>1. \A h \in DOMAIN pg : Collides(accessListMap', t, pg[h])
        <4>1. \A h \in DOMAIN pg : h \in 1..((Len(pg) + 1) - 1)
          BY <1>3
        <4>2. Reaches(accessListMap', t, Len(pg) + 1)
          BY <1>11 DEF OpenGroup
        <4> QED
          BY <4>1, <4>2 DEF Reaches
      <3> QED
        BY <3>1, CollidingKeptOut
    <2>3. /\ DOMAIN parallelizableGroups' = 1..(Len(pg) + 1)
          /\ Len(parallelizableGroups') = Len(pg) + 1
          /\ \A h \in DOMAIN pg : parallelizableGroups'[h] = pg[h]
          /\ parallelizableGroups'[Len(pg) + 1] = <<t>>
          /\ DOMAIN pg = 1..Len(pg) /\ Len(pg) \in Nat
      BY <1>3, <2>1
    <2>4. sequentialGroup = <<>>
      BY <1>3, <1>9, <2>1
    <2>5. PlacedWasSimulated'
      BY <1>4a, <1>5, <2>1, <2>3, <2>4 DEF PlacedWasSimulated
    <2>6. CollisionFree'
      BY <1>7, <2>3 DEF CollisionFree
    <2>7. GroupsFirstFit'
      <3> SUFFICES ASSUME NEW j \in 1..(Len(pg) + 1), NEW h \in 1..(j - 1),
                          NEW k \in DOMAIN parallelizableGroups'[j]
                   PROVE  K(parallelizableGroups'[j][k], parallelizableGroups'[h])
        BY <2>3 DEF GroupsFirstFit, KeptOut, KeptOutBy
      <3>1. h \in DOMAIN pg /\ parallelizableGroups'[h] = pg[h]
        BY <2>3
      <3>2. CASE j \in DOMAIN pg
        BY <1>8, <2>3, <3>1, <3>2
      <3>3. CASE j = Len(pg) + 1
        BY <2>2, <2>3, <3>1, <3>3
      <3> QED
        BY <2>3, <3>2, <3>3
    <2>8. SequentialOnlyWhenFull'
      BY <2>1, <2>4 DEF SequentialOnlyWhenFull
    <2>9. GroupsBounded'
      BY <2>1, <2>3, BatchHelperAssumption DEF GroupsBounded
    <2> QED
      BY <1>6c, <2>5, <2>6, <2>7, <2>8, <2>9 DEF Inv
  <1>12. CASE Overflow(accessListMap', t)
    <2>1. /\ parallelizableGroups' = pg
          /\ sequentialGroup' = Append(sequentialGroup, t)
          /\ Len(pg) >= MaxGroups
      BY <1>12 DEF Overflow
    <2>2. \A h \in DOMAIN pg : K(t, pg[h])
      <3>1. \A h \in DOMAIN pg : Collides(accessListMap', t, pg[h])
        <4>1. \A h \in DOMAIN pg : h \in 1..((Len(pg) + 1) - 1)
          BY <1>3
        <4>2. Reaches(accessListMap', t, Len(pg) + 1)
          BY <1>12 DEF Overflow
        <4> QED
          BY <4>1, <4>2 DEF Reaches
      <3> QED
        BY <3>1, CollidingKeptOut
    <2>3. Len(pg) = MaxGroups
      BY <1>3, <2>1, BatchHelperAssumption DEF Inv, GroupsBounded
    <2>4. PlacedWasSimulated'
      BY <1>3, <1>4a, <1>5, <1>6, <2>1 DEF PlacedWasSimulated
    <2>5. CollisionFree'
      BY <1>7, <2>1 DEF CollisionFree
    <2>6. GroupsFirstFit'
      BY <1>8, <2>1 DEF GroupsFirstFit, KeptOut, KeptOutBy
    <2>7. SequentialOnlyWhenFull'
      <3>1. \A k \in DOMAIN sequentialGroup' : \A h \in DOMAIN pg :
              K(sequentialGroup'[k], pg[h])
        BY <1>3, <1>9, <2>1, <2>2
      <3> QED
        BY <2>1, <2>3, <3>1 DEF SequentialOnlyWhenFull, KeptOut, KeptOutBy
    <2>8. GroupsBounded'
      BY <2>1 DEF Inv, GroupsBounded
    <2> QED
      BY <1>6c, <2>4, <2>5, <2>6, <2>7, <2>8 DEF Inv
  <1>13. CASE Abort(accessListMap', t)
    <2>1. PlacedWasSimulated'
      BY <1>5, <1>6, <1>13 DEF Abort, groupVars, PlacedWasSimulated
    <2>2. CollisionFree'
      BY <1>7, <1>13 DEF Abort, groupVars, CollisionFree
    <2>3. GroupsFirstFit'
      BY <1>8, <1>13 DEF Abort, groupVars, GroupsFirstFit, KeptOut, KeptOutBy
    <2>4. SequentialOnlyWhenFull'
      BY <1>9, <1>13 DEF Abort, groupVars, SequentialOnlyWhenFull, KeptOut, KeptOutBy
    <2>5. GroupsBounded'
      BY <1>13 DEF Abort, groupVars, Inv, GroupsBounded
    <2> QED
      BY <1>6c, <2>1, <2>2, <2>3, <2>4, <2>5 DEF Inv
  <1> QED
    BY <1>2, <1>10, <1>11, <1>12, <1>13 DEF ProcessTransactionQueue

LEMMA InvNext == Inv /\ [Next]_vars => Inv'
  <1> SUFFICES ASSUME Inv, [Next]_vars
               PROVE  Inv'
    OBVIOUS
  <1>1. TypeOK'
    BY TypeNext DEF Inv
  <1>2. ASSUME NEW t \in Txs, GenerateAccessList(t)
        PROVE  Inv'
    BY <1>1, <1>2, InvGenerate
  <1>3. ASSUME NEW t \in Txs,
               Pending(t) \/ TransactionFetched(t) \/ FetchFailed(t)
                   \/ SimulationFailed(t) \/ ReleaseDebounce(t)
        PROVE  Inv'
    <2>1. UNCHANGED <<groupVars, accessListMap, ghostVars>>
      BY <1>3 DEF Pending, TransactionFetched, FetchFailed, SimulationFailed, ReleaseDebounce
    <2> QED
      BY <1>1, <2>1, InvUntouched
  <1>4. CASE CleanGroups
    <2>1. parallelizableGroups' = <<>> /\ sequentialGroup' = <<>> /\ stale' = {}
      BY <1>4 DEF CleanGroups
    <2>2. PlacedWasSimulated' /\ StaleWasRepeated' /\ CollisionFree' /\ GroupsFirstFit'
      BY <2>1 DEF PlacedWasSimulated, StaleWasRepeated, CollisionFree, GroupsFirstFit
    <2>3. SequentialOnlyWhenFull'
      BY <2>1 DEF SequentialOnlyWhenFull
    <2>4. GroupsBounded'
      BY <2>1, BatchHelperAssumption DEF GroupsBounded
    <2> QED
      BY <1>1, <2>2, <2>3, <2>4 DEF Inv
  <1>5. CASE UNCHANGED vars
    BY <1>1, <1>5, InvUntouched DEF vars
  <1> QED
    BY <1>2, <1>3, <1>4, <1>5 DEF Next, Callback

(* No two members of a group share a storage key, unless a list that they  *)
(* were compared with was overwritten since (index.js:116).                *)
THEOREM GroupsAreCollisionFree == Spec => []CollisionFree
  <1>1. Inv => CollisionFree
    BY DEF Inv
  <1> QED
    BY <1>1, InvInit, InvNext, PTL DEF Spec

(* No transaction sits in a later group than it had to, and the sequential *)
(* group is a last resort.                                                 *)
THEOREM GroupsAreFirstFit == Spec => []FirstFit
  <1>1. Inv => FirstFit
    BY DEF Inv, FirstFit
  <1> QED
    BY <1>1, InvInit, InvNext, PTL DEF Spec
-----------------------------------------------------------------------------
(* No group is an empty array: a group is opened with its first member.    *)
NoEmptyGroups ==
    /\ \A i \in DOMAIN parallelizableGroups : parallelizableGroups[i] # <<>>
    /\ \A i \in DOMAIN historicalParallelizableGroups :
          historicalParallelizableGroups[i] # <<>>

(* What the answers of /blocks and the comparison with Grouping need on    *)
(* top of Inv.                                                             *)
ShapeInv == Inv /\ NoEmptyGroups /\ UnlistedStandsAlone

LEMMA ElementsOfAppend ==
    ASSUME NEW g \in Seq(Txs), NEW t \in Txs
    PROVE  Elements(Append(g, t)) = Elements(g) \cup {t}
  <1>1. /\ DOMAIN Append(g, t) = DOMAIN g \cup {Len(g) + 1}
        /\ \A k \in DOMAIN g : Append(g, t)[k] = g[k]
        /\ Append(g, t)[Len(g) + 1] = t
    OBVIOUS
  <1> HIDE DEF Elements
  <1>2. \A x : x \in Elements(Append(g, t)) <=> x \in Elements(g) \cup {t}
    BY <1>1 DEF Elements
  <1> QED
    BY <1>2

(* The groups a placement leaves are the old ones with t as the only       *)
(* newcomer.                                                               *)
LEMMA OnlyNewcomer ==
    ASSUME TypeOK, NEW map, NEW t \in Txs, ProcessTransactionQueue(map, t),
           NEW u, u # t, InCurrent(u)'
    PROVE  InCurrent(u)
  <1>1. CASE JoinGroup(map, t)
    <2>1. PICK i \in DOMAIN parallelizableGroups :
            parallelizableGroups' = [parallelizableGroups EXCEPT ![i] = Append(@, t)]
      BY <1>1 DEF JoinGroup
    <2>2. /\ DOMAIN parallelizableGroups' = DOMAIN parallelizableGroups
          /\ parallelizableGroups'[i] = Append(parallelizableGroups[i], t)
          /\ parallelizableGroups[i] \in Seq(Txs)
          /\ \A j \in DOMAIN parallelizableGroups :
                j # i => parallelizableGroups'[j] = parallelizableGroups[j]
      BY <2>1 DEF TypeOK
    <2>3. Elements(parallelizableGroups'[i]) = Elements(parallelizableGroups[i]) \cup {t}
      BY <2>2, ElementsOfAppend
    <2>4. sequentialGroup' = sequentialGroup
      BY <1>1 DEF JoinGroup
    <2> QED
      BY <2>2, <2>3, <2>4 DEF InCurrent
  <1>2. CASE OpenGroup(map, t)
    <2>1. /\ DOMAIN parallelizableGroups' =
                DOMAIN parallelizableGroups \cup {Len(parallelizableGroups) + 1}
          /\ \A j \in DOMAIN parallelizableGroups :
                parallelizableGroups'[j] = parallelizableGroups[j]
          /\ parallelizableGroups'[Len(parallelizableGroups) + 1] = <<t>>
          /\ sequentialGroup' = sequentialGroup
      BY <1>2 DEF OpenGroup, TypeOK
    <2>2. Elements(<<t>>) = {t}
      BY DEF Elements
    <2> QED
      BY <2>1, <2>2 DEF InCurrent
  <1>3. CASE Overflow(map, t)
    <2>1. Elements(sequentialGroup') = Elements(sequentialGroup) \cup {t}
      BY <1>3, ElementsOfAppend DEF Overflow, TypeOK
    <2> QED
      BY <1>3, <2>1 DEF Overflow, InCurrent
  <1>4. CASE Abort(map, t)
    BY <1>4 DEF Abort, groupVars, InCurrent
  <1> QED
    BY <1>1, <1>2, <1>3, <1>4 DEF ProcessTransactionQueue

(* A transaction without a list collides with nothing and is free of       *)
(* nothing.                                                                *)
LEMMA UnlistedNeverCompared ==
    ASSUME NEW map, NEW t, NEW group
    PROVE  /\ map[t] = NoList => ~Collides(map, t, group) /\ ~Free(map, t, group)
           /\ \A u : group = <<u>> /\ map[u] = NoList =>
                        ~Collides(map, t, group) /\ ~Free(map, t, group)
  BY DEF Collides, Free, Overlap, Keys

LEMMA ShapeInit == Init => ShapeInv
  <1> SUFFICES ASSUME Init PROVE ShapeInv
    OBVIOUS
  <1>1. NoEmptyGroups
    BY DEF Init, NoEmptyGroups
  <1>2. UnlistedStandsAlone
    BY DEF Init, UnlistedStandsAlone, InCurrent, Elements
  <1> QED
    BY <1>1, <1>2, InvInit DEF ShapeInv

LEMMA UnlistedGenerate ==
    ASSUME Inv, UnlistedStandsAlone, NEW t \in Txs, GenerateAccessList(t)
    PROVE  UnlistedStandsAlone'
  <1> DEFINE pg == parallelizableGroups
  <1>1. PICK list \in Answers :
          /\ accessListMap' = [accessListMap EXCEPT ![t] = list]
          /\ ProcessTransactionQueue([accessListMap EXCEPT ![t] = list], t)
    BY DEF GenerateAccessList
  <1>2. ProcessTransactionQueue(accessListMap', t)
    BY <1>1
  <1>3. /\ pg \in Seq(Seq(Txs)) /\ sequentialGroup \in Seq(Txs)
        /\ MaxGroups \in Nat \ {0} /\ TypeOK
    BY BatchHelperAssumption DEF Inv, TypeOK
  <1>4. /\ \A s \in Txs : s # t => /\ accessListMap'[s] = accessListMap[s]
                                   /\ simulations'[s] = simulations[s]
        /\ simulations'[t] = simulations[t] + 1 /\ simulations[t] \in Nat
    BY <1>1 DEF Inv, TypeOK, GenerateAccessList
  <1>5. SUFFICES ASSUME NEW u \in Txs, InCurrent(u)', {u} \notin stale',
                        accessListMap'[u] = NoList
                 PROVE  parallelizableGroups' = <<<<u>>>> /\ sequentialGroup' = <<>>
    BY DEF UnlistedStandsAlone
  <1>6. OpenGroup(accessListMap', t) \/ Overflow(accessListMap', t) =>
          \A i \in DOMAIN pg : Collides(accessListMap', t, pg[i])
    <2>1. \A i \in DOMAIN pg : i \in 1..((Len(pg) + 1) - 1)
      BY <1>3
    <2> QED
      BY <2>1 DEF OpenGroup, Overflow, Reaches
  <1>7. CASE u = t
    <2>1. ~InCurrent(t)
      <3>1. InCurrent(t) => {t, t} \in Overwritten(t)
        BY DEF Overwritten
      <3>2. {t, t} = {t}
        OBVIOUS
      <3> QED
        BY <1>5, <1>7, <3>1, <3>2 DEF GenerateAccessList
    <2>2. ~JoinGroup(accessListMap', t)
      BY <1>5, <1>7, UnlistedNeverCompared DEF JoinGroup
    <2>3. ~Overflow(accessListMap', t)
      <3>1. Overflow(accessListMap', t) => 1 \in DOMAIN pg
        BY <1>3 DEF Overflow
      <3> QED
        BY <1>5, <1>6, <1>7, <3>1, UnlistedNeverCompared
    <2>4. ~Abort(accessListMap', t)
      BY <1>5, <1>7, <2>1 DEF Abort, groupVars, InCurrent
    <2>5. OpenGroup(accessListMap', t)
      BY <1>2, <2>2, <2>3, <2>4 DEF ProcessTransactionQueue
    <2>6. pg = <<>>
      <3>1. DOMAIN pg = {}
        BY <1>5, <1>6, <1>7, <2>5, UnlistedNeverCompared
      <3> QED
        BY <1>3, <3>1
    <2>7. sequentialGroup = <<>>
      <3>1. Len(pg) # MaxGroups
        BY <1>3, <2>6
      <3>2. DOMAIN sequentialGroup = {}
        BY <3>1 DEF Inv, SequentialOnlyWhenFull
      <3> QED
        BY <1>3, <3>2
    <2> QED
      BY <1>7, <2>5, <2>6, <2>7 DEF OpenGroup
  <1>8. CASE u # t
    <2>1. InCurrent(u)
      BY <1>2, <1>3, <1>5, <1>8, OnlyNewcomer
    <2>2. pg = <<<<u>>>> /\ sequentialGroup = <<>>
      BY <1>4, <1>5, <1>8, <2>1 DEF UnlistedStandsAlone, GenerateAccessList
    <2>3. DOMAIN pg = {1} /\ pg[1] = <<u>>
      BY <2>2
    <2>4. ~Collides(accessListMap', t, pg[1]) /\ ~Free(accessListMap', t, pg[1])
      BY <1>5, <2>3, UnlistedNeverCompared
    <2>5. Abort(accessListMap', t)
      BY <1>2, <1>6, <2>3, <2>4 DEF ProcessTransactionQueue, JoinGroup
    <2> QED
      BY <2>2, <2>5 DEF Abort, groupVars
  <1> QED
    BY <1>7, <1>8

LEMMA AppendFills ==
    ASSUME NEW s \in Seq(Txs), NEW t \in Txs
    PROVE  Append(s, t) # <<>>
  <1>1. Len(Append(s, t)) = Len(s) + 1 /\ Len(s) \in Nat
    OBVIOUS
  <1>2. Len(<<>>) = 0
    OBVIOUS
  <1> QED
    BY <1>1, <1>2

LEMMA FilledGenerate ==
    ASSUME TypeOK, NoEmptyGroups, NEW t \in Txs, GenerateAccessList(t)
    PROVE  NoEmptyGroups'
  <1> DEFINE pg == parallelizableGroups
  <1>1. PICK map : ProcessTransactionQueue(map, t)
    BY DEF GenerateAccessList
  <1>2. historicalParallelizableGroups' = historicalParallelizableGroups
    BY DEF GenerateAccessList, historyVars
  <1>3. pg \in Seq(Seq(Txs))
    BY DEF TypeOK
  <1>4. \A i \in DOMAIN parallelizableGroups' : parallelizableGroups'[i] # <<>>
    <2>1. CASE JoinGroup(map, t)
      <3>1. PICK i \in DOMAIN pg :
              parallelizableGroups' = [pg EXCEPT ![i] = Append(@, t)]
        BY <2>1 DEF JoinGroup
      <3>2. pg[i] \in Seq(Txs)
        BY <1>3
      <3>3. Append(pg[i], t) # <<>>
        BY <3>2, AppendFills
      <3>4. \A j \in DOMAIN pg : pg[j] # <<>>
        BY DEF NoEmptyGroups
      <3> HIDE DEF pg
      <3> QED
        BY <3>1, <3>3, <3>4
    <2>2. CASE OpenGroup(map, t)
      BY <1>3, <2>2 DEF OpenGroup, NoEmptyGroups
    <2>3. CASE Overflow(map, t) \/ Abort(map, t)
      BY <2>3 DEF Overflow, Abort, groupVars, NoEmptyGroups
    <2> QED
      BY <1>1, <2>1, <2>2, <2>3 DEF ProcessTransactionQueue
  <1> QED
    BY <1>2, <1>4 DEF NoEmptyGroups

LEMMA ShapeNext == ShapeInv /\ [Next]_vars => ShapeInv'
  <1> SUFFICES ASSUME ShapeInv, [Next]_vars
               PROVE  NoEmptyGroups' /\ UnlistedStandsAlone'
    BY InvNext DEF ShapeInv
  <1>1. ASSUME UNCHANGED <<groupVars, historyVars, accessListMap, ghostVars>>
        PROVE  NoEmptyGroups' /\ UnlistedStandsAlone'
    BY <1>1 DEF ShapeInv, NoEmptyGroups, UnlistedStandsAlone, InCurrent,
                groupVars, historyVars, ghostVars, ghostVars
  <1>2. ASSUME NEW t \in Txs, GenerateAccessList(t)
        PROVE  NoEmptyGroups' /\ UnlistedStandsAlone'
    BY <1>2, FilledGenerate, UnlistedGenerate DEF ShapeInv, Inv
  <1>3. ASSUME NEW t \in Txs,
               Pending(t) \/ TransactionFetched(t) \/ FetchFailed(t)
                   \/ SimulationFailed(t) \/ ReleaseDebounce(t)
        PROVE  NoEmptyGroups' /\ UnlistedStandsAlone'
    <2>1. UNCHANGED <<groupVars, historyVars, accessListMap, ghostVars>>
      BY <1>3 DEF Pending, TransactionFetched, FetchFailed, SimulationFailed, ReleaseDebounce
    <2> QED
      BY <1>1, <2>1
  <1>4. CASE CleanGroups
    <2>1. /\ parallelizableGroups' = <<>> /\ sequentialGroup' = <<>>
          /\ historicalParallelizableGroups' = parallelizableGroups
      BY <1>4 DEF CleanGroups
    <2>2. NoEmptyGroups'
      BY <2>1 DEF ShapeInv, NoEmptyGroups
    <2>3. UnlistedStandsAlone'
      BY <2>1 DEF UnlistedStandsAlone, InCurrent, Elements
    <2> QED
      BY <2>2, <2>3
  <1>5. CASE UNCHANGED vars
    BY <1>1, <1>5 DEF vars
  <1> QED
    BY <1>2, <1>3, <1>4, <1>5 DEF Next, Callback

(* A transaction that came without an access list shares the assignment    *)
(* with no other, whatever hash is announced next to it.                   *)
THEOREM UnlistedIsAlone == Spec => []UnlistedStandsAlone
  <1>1. ShapeInv => UnlistedStandsAlone
    BY DEF ShapeInv
  <1> QED
    BY <1>1, ShapeInit, ShapeNext, PTL DEF Spec

-----------------------------------------------------------------------------
(* The shape of an answer follows from the invariant: the current groups   *)
(* and the part of the historical ones that still fits.                    *)
LEMMA FillFits ==
    ASSUME ShapeInv
    PROVE  /\ HistoricalFill \in Seq(Seq(Txs))
           /\ Len(parallelizableGroups) + Len(HistoricalFill) <= MaxGroups
           /\ \A i \in DOMAIN HistoricalFill :
                 /\ i \in DOMAIN historicalParallelizableGroups
                 /\ HistoricalFill[i] = historicalParallelizableGroups[i]
                 /\ HistoricalFill[i] # <<>>
  <1> DEFINE free == MaxGroups - Len(parallelizableGroups)
             old == historicalParallelizableGroups
             n == IF free < Len(old) THEN free ELSE Len(old)
  <1>1. /\ parallelizableGroups \in Seq(Seq(Txs)) /\ old \in Seq(Seq(Txs))
        /\ Len(parallelizableGroups) <= MaxGroups /\ MaxGroups \in Nat
        /\ \A i \in DOMAIN old : old[i] # <<>>
    BY BatchHelperAssumption DEF ShapeInv, Inv, TypeOK, GroupsBounded, NoEmptyGroups
  <1>2. n \in 0..Len(old) /\ n <= free
    BY <1>1
  <1>3. HistoricalFill = SubSeq(old, 1, n)
    BY DEF HistoricalFill
  <1> HIDE DEF n, old
  <1>4. /\ SubSeq(old, 1, n) \in Seq(Seq(Txs)) /\ Len(SubSeq(old, 1, n)) = n
        /\ \A i \in 1..n : SubSeq(old, 1, n)[i] = old[i] /\ i \in DOMAIN old
        /\ DOMAIN SubSeq(old, 1, n) = 1..n
    BY <1>1, <1>2
  <1> QED
    BY <1>1, <1>2, <1>3, <1>4 DEF old

(* An answer is the current groups, historical ones, and what is           *)
(* sequential, if anything is.                                             *)
LEMMA BlocksAnatomy ==
    ASSUME ShapeInv
    PROVE  \E groups \in Seq(Seq(Txs)), last \in Seq(Txs) :
              /\ Len(groups) <= MaxGroups
              /\ \A i \in DOMAIN groups : groups[i] # <<>>
              /\ \A i \in DOMAIN groups :
                    \/ \E j \in DOMAIN parallelizableGroups :
                          groups[i] = parallelizableGroups[j]
                    \/ \E j \in DOMAIN historicalParallelizableGroups :
                          groups[i] = historicalParallelizableGroups[j]
              /\ \A i \in DOMAIN parallelizableGroups :
                    i \in DOMAIN groups /\ groups[i] = parallelizableGroups[i]
              /\ sequentialGroup # <<>> => last = sequentialGroup
              /\ Blocks \in Seq(AnyBlock)
              /\ \A i \in DOMAIN groups :
                    i \in DOMAIN Blocks /\ Blocks[i] = Block("parallelizable", i, groups[i])
              /\ last = <<>> => DOMAIN Blocks = DOMAIN groups /\ Len(Blocks) = Len(groups)
              /\ last # <<>> =>
                    /\ DOMAIN Blocks = DOMAIN groups \cup {Len(groups) + 1}
                    /\ Len(Blocks) = Len(groups) + 1
                    /\ Blocks[Len(groups) + 1] = Block("sequential", Len(groups) + 1, last)
  <1> DEFINE pg == parallelizableGroups
             groups == pg \o HistoricalFill
             parallel == [i \in DOMAIN groups |-> Block("parallelizable", i, groups[i])]
             last == IF sequentialGroup # <<>>
                     THEN sequentialGroup ELSE historicalSequentialGroup
  <1>1. /\ pg \in Seq(Seq(Txs)) /\ HistoricalFill \in Seq(Seq(Txs))
        /\ Len(pg) + Len(HistoricalFill) <= MaxGroups /\ MaxGroups \in Nat
        /\ \A i \in DOMAIN pg : pg[i] # <<>>
        /\ \A i \in DOMAIN HistoricalFill :
              /\ i \in DOMAIN historicalParallelizableGroups
              /\ HistoricalFill[i] = historicalParallelizableGroups[i]
              /\ HistoricalFill[i] # <<>>
    BY FillFits, BatchHelperAssumption DEF ShapeInv, Inv, TypeOK, NoEmptyGroups
  <1>2. /\ groups \in Seq(Seq(Txs)) /\ Len(groups) <= MaxGroups
        /\ \A i \in DOMAIN groups : groups[i] # <<>>
        /\ \A i \in DOMAIN pg : i \in DOMAIN groups /\ groups[i] = pg[i]
        /\ \A i \in DOMAIN groups :
              \/ \E j \in DOMAIN pg : groups[i] = pg[j]
              \/ \E j \in DOMAIN historicalParallelizableGroups :
                    groups[i] = historicalParallelizableGroups[j]
    <2>1. /\ groups \in Seq(Seq(Txs)) /\ Len(groups) = Len(pg) + Len(HistoricalFill)
          /\ \A i \in DOMAIN pg : i \in DOMAIN groups /\ groups[i] = pg[i]
          /\ \A i \in DOMAIN groups :
                \/ i \in DOMAIN pg
                \/ /\ i - Len(pg) \in DOMAIN HistoricalFill
                   /\ groups[i] = HistoricalFill[i - Len(pg)]
      BY <1>1
    <2> HIDE DEF groups
    <2> QED
      BY <1>1, <2>1
  <1> HIDE DEF groups
  <1>3. /\ parallel \in Seq(AnyBlock)
        /\ Len(parallel) = Len(groups) /\ DOMAIN parallel = DOMAIN groups
        /\ \A i \in DOMAIN groups : parallel[i] = Block("parallelizable", i, groups[i])
    <2>1. DOMAIN groups = 1..Len(groups) /\ Len(groups) \in Nat
      BY <1>2
    <2>2. \A i \in DOMAIN groups : Block("parallelizable", i, groups[i]) \in AnyBlock
      BY <1>2 DEF Block, AnyBlock
    <2>3. parallel \in [1..Len(groups) -> AnyBlock]
      BY <2>1, <2>2
    <2> QED
      BY <2>1, <2>3
  <1>4. Blocks = IF last = <<>> THEN parallel
                 ELSE Append(parallel, Block("sequential", Len(parallel) + 1, last))
    BY DEF Blocks, groups
  <1>a. Block("sequential", Len(groups) + 1, last) \in AnyBlock
    BY <1>1, <1>2 DEF Block, AnyBlock, ShapeInv, Inv, TypeOK
  <1>b. last \in Seq(Txs) /\ (sequentialGroup # <<>> => last = sequentialGroup)
    BY DEF ShapeInv, Inv, TypeOK
  <1> HIDE DEF parallel, last
  <1>5. /\ Blocks \in Seq(AnyBlock)
        /\ \A i \in DOMAIN groups : i \in DOMAIN Blocks /\ Blocks[i] = parallel[i]
        /\ last = <<>> => DOMAIN Blocks = DOMAIN groups /\ Len(Blocks) = Len(groups)
        /\ last # <<>> =>
              /\ DOMAIN Blocks = DOMAIN groups \cup {Len(groups) + 1}
              /\ Len(Blocks) = Len(groups) + 1
              /\ Blocks[Len(groups) + 1] = Block("sequential", Len(groups) + 1, last)
    <2>1. CASE last = <<>>
      BY <1>3, <1>4, <2>1
    <2>2. CASE last # <<>>
      <3>1. PICK b \in AnyBlock : b = Block("sequential", Len(groups) + 1, last)
        BY <1>a
      <3>2. Blocks = Append(parallel, b)
        BY <1>3, <1>4, <2>2, <3>1
      <3>3. /\ Append(parallel, b) \in Seq(AnyBlock)
            /\ DOMAIN Append(parallel, b) = DOMAIN parallel \cup {Len(parallel) + 1}
            /\ Len(Append(parallel, b)) = Len(parallel) + 1
            /\ \A i \in DOMAIN parallel : Append(parallel, b)[i] = parallel[i]
            /\ Append(parallel, b)[Len(parallel) + 1] = b
        BY <1>3
      <3> QED
        BY <1>3, <2>2, <3>1, <3>2, <3>3
    <2> QED
      BY <2>1, <2>2
  <1>6. \A i \in DOMAIN groups :
           i \in DOMAIN Blocks /\ Blocks[i] = Block("parallelizable", i, groups[i])
    BY <1>3, <1>5
  <1> HIDE DEF AnyBlock, Block, Blocks
  <1> groups \in Seq(Seq(Txs)) /\ last \in Seq(Txs)
    BY <1>2, <1>b
  <1> WITNESS groups \in Seq(Seq(Txs)), last \in Seq(Txs)
  <1> QED
    BY <1>2, <1>5, <1>6, <1>b

LEMMA ShapeOfBlocks == ShapeInv => BlocksWellFormed
  <1> SUFFICES ASSUME ShapeInv PROVE BlocksWellFormed
    OBVIOUS
  <1> DEFINE pg == parallelizableGroups
  <1>1. MaxGroups \in Nat
    BY BatchHelperAssumption
  <1>2. PICK groups \in Seq(Seq(Txs)), last \in Seq(Txs) :
              /\ Len(groups) <= MaxGroups
              /\ \A i \in DOMAIN groups : groups[i] # <<>>
              /\ \A i \in DOMAIN pg : i \in DOMAIN groups /\ groups[i] = pg[i]
              /\ sequentialGroup # <<>> => last = sequentialGroup
              /\ \A i \in DOMAIN groups :
                    i \in DOMAIN Blocks /\ Blocks[i] = Block("parallelizable", i, groups[i])
              /\ last = <<>> => DOMAIN Blocks = DOMAIN groups /\ Len(Blocks) = Len(groups)
              /\ last # <<>> =>
                    /\ DOMAIN Blocks = DOMAIN groups \cup {Len(groups) + 1}
                    /\ Len(Blocks) = Len(groups) + 1
                    /\ Blocks[Len(groups) + 1] = Block("sequential", Len(groups) + 1, last)
    BY BlocksAnatomy
  <1>6. Len(Blocks) <= MaxGroups + 1
    BY <1>1, <1>2
  <1>7. ASSUME NEW i \in DOMAIN Blocks
        PROVE  /\ Blocks[i].groupId = i
               /\ Blocks[i].transactions # <<>>
               /\ Blocks[i].type = "sequential" => i = Len(Blocks)
               /\ Blocks[i].type = "parallelizable" => i <= MaxGroups
    <2>1. CASE i \in DOMAIN groups
      <3>1. Blocks[i] = Block("parallelizable", i, groups[i]) /\ groups[i] # <<>>
        BY <1>2, <2>1
      <3>2. i <= MaxGroups
        BY <1>1, <1>2, <2>1
      <3> QED
        BY <3>1, <3>2 DEF Block
    <2>2. CASE i \notin DOMAIN groups
      BY <1>2, <1>7, <2>2 DEF Block
    <2> QED
      BY <2>1, <2>2
  <1>8. ASSUME NEW t \in Txs, InCurrent(t)
        PROVE  \E i \in DOMAIN Blocks : t \in Elements(Blocks[i].transactions)
    <2>1. CASE t \in Elements(sequentialGroup)
      <3>1. sequentialGroup # <<>>
        BY <2>1 DEF Elements
      <3>2. last = sequentialGroup /\ last # <<>>
        BY <1>2, <3>1
      <3> QED
        BY <1>2, <2>1, <3>2 DEF Block
    <2>2. ASSUME NEW i \in DOMAIN pg, t \in Elements(pg[i])
          PROVE  \E j \in DOMAIN Blocks : t \in Elements(Blocks[j].transactions)
      <3>1. i \in DOMAIN Blocks /\ Blocks[i] = Block("parallelizable", i, pg[i])
        BY <1>2, <2>2
      <3>2. Blocks[i].transactions = pg[i]
        BY <3>1 DEF Block
      <3> QED
        BY <2>2, <3>1, <3>2
    <2> QED
      BY <1>8, <2>1, <2>2 DEF InCurrent
  <1> QED
    BY <1>6, <1>7, <1>8 DEF BlocksWellFormed

(* Every answer of /blocks is well formed and misses no current            *)
(* transaction, at whatever point of a callback or a cleaning it is asked. *)
THEOREM AnswersAreWellFormed == Spec => []BlocksWellFormed
  BY ShapeOfBlocks, ShapeInit, ShapeNext, PTL DEF Spec

-----------------------------------------------------------------------------
(* The helper implements Grouping.  Seen is the refinement mapping of the  *)
(* access lists: what a list says about the keys.                          *)
Seen(map) == [t \in Txs |-> IF map[t] = NoList THEN NoList ELSE Keys(map[t])]

LEMMA SeenKeys ==
    ASSUME NEW map \in [Txs -> {NoList} \cup AccessList]
    PROVE  /\ \A s \in Txs : Seen(map)[s] = NoList <=> map[s] = NoList
           /\ \A s, u \in Txs : map[s] # NoList /\ map[u] # NoList =>
                 (Overlap(map, s, u) <=> Seen(map)[s] \cap Seen(map)[u] # {})
           /\ \A s, u \in Txs : Overlap(map, s, u) => map[s] # NoList /\ map[u] # NoList
           /\ \A s \in Txs : Seen(map)[s] \in {NoList} \cup SUBSET Slots
  <1>1. \A s \in Txs : Keys(map[s]) \in SUBSET Slots
    BY DEF Keys, AccessList
  <1>2. \A s \in Txs : map[s] # NoList => Keys(map[s]) # NoList
    BY <1>1, BatchHelperAssumption
  <1> QED
    BY <1>1, <1>2 DEF Seen, Overlap, Keys

LEMMA SeenUpdate ==
    ASSUME NEW map \in [Txs -> {NoList} \cup AccessList], NEW t \in Txs,
           NEW list \in {NoList} \cup AccessList
    PROVE  /\ [map EXCEPT ![t] = list] \in [Txs -> {NoList} \cup AccessList]
           /\ Seen([map EXCEPT ![t] = list])
                = [Seen(map) EXCEPT ![t] = Seen([map EXCEPT ![t] = list])[t]]
  BY DEF Seen

(* The initial state maps to the initial state.                            *)
LEMMA GroupingInit == Init => Abstract!Init
  <1> SUFFICES ASSUME Init PROVE Abstract!Init
    OBVIOUS
  <1>1. Elements(<<>>) = {}
    BY DEF Elements
  <1>2. AsGroups(<<>>) = Abstract!Empty
    BY DEF AsGroups, Abstract!Empty
  <1> QED
    BY <1>1, <1>2 DEF Init, Abstract!Init

(* One placement is one Place, PutAside or LeaveOut of Grouping.           *)
LEMMA GroupingAssess ==
    ASSUME ShapeInv, NEW t \in Txs, GenerateAccessList(t)
    PROVE  Abstract!Assess(t)
  <1> DEFINE pg == parallelizableGroups
             ag == AsGroups(pg)
             keys == Seen(accessListMap')
  <1>1. PICK list \in Answers :
          /\ accessListMap' = [accessListMap EXCEPT ![t] = list]
          /\ ProcessTransactionQueue([accessListMap EXCEPT ![t] = list], t)
    BY DEF GenerateAccessList
  <1>2. ProcessTransactionQueue(accessListMap', t)
    BY <1>1
  <1>3. /\ pg \in Seq(Seq(Txs)) /\ sequentialGroup \in Seq(Txs)
        /\ Len(pg) <= MaxGroups /\ MaxGroups \in Nat \ {0}
        /\ \A i \in DOMAIN pg : pg[i] # <<>>
        /\ accessListMap \in [Txs -> {NoList} \cup AccessList]
        /\ list \in {NoList} \cup AccessList
    BY BatchHelperAssumption DEF ShapeInv, Inv, TypeOK, GroupsBounded, NoEmptyGroups
  <1>4. /\ accessListMap' \in [Txs -> {NoList} \cup AccessList]
        /\ keys = [Seen(accessListMap) EXCEPT ![t] = keys[t]]
    BY <1>1, <1>3, SeenUpdate
  <1>5. /\ \A s \in Txs : keys[s] = NoList <=> accessListMap'[s] = NoList
        /\ \A s, u \in Txs : accessListMap'[s] # NoList /\ accessListMap'[u] # NoList =>
              (Overlap(accessListMap', s, u) <=> keys[s] \cap keys[u] # {})
        /\ \A s, u \in Txs : Overlap(accessListMap', s, u) =>
              accessListMap'[s] # NoList /\ accessListMap'[u] # NoList
        /\ keys[t] \in {NoList} \cup SUBSET Slots
    BY <1>4, SeenKeys
  <1>s. SUFFICES Abstract!Place(keys, t) \/ Abstract!PutAside(keys, t) \/ Abstract!LeaveOut(keys, t)
    <2>1. ASSUME Abstract!Place(keys, t) \/ Abstract!PutAside(keys, t)
                   \/ Abstract!LeaveOut(keys, t)
          PROVE  \E found \in {NoList} \cup SUBSET Slots :
                    LET ks == [Seen(accessListMap) EXCEPT ![t] = found]
                    IN  /\ Seen(accessListMap)' = ks
                        /\ Abstract!Place(ks, t) \/ Abstract!PutAside(ks, t)
                             \/ Abstract!LeaveOut(ks, t)
                        /\ UNCHANGED Abstract!previous
      <3>1. UNCHANGED Abstract!previous
        BY DEF GenerateAccessList, historyVars, Abstract!previous
      <3>2. Seen(accessListMap)' = keys
        BY DEF Seen
      <3>3. keys = [Seen(accessListMap) EXCEPT ![t] = keys[t]]
        BY <1>4
      <3>4. keys[t] \in {NoList} \cup SUBSET Slots
        BY <1>5
      <3> HIDE DEF keys
      <3> WITNESS keys[t] \in {NoList} \cup SUBSET Slots
      <3> QED
        BY <2>1, <3>1, <3>2, <3>3
    <2> QED
      BY <2>1 DEF Abstract!Assess, Seen
  <1>6. /\ DOMAIN ag = 1..MaxGroups
        /\ \A i \in DOMAIN pg : /\ i \in 1..MaxGroups
                                /\ ag[i] = Elements(pg[i])
                                /\ pg[i] \in Seq(Txs) /\ Elements(pg[i]) \subseteq Txs
        /\ \A g \in 1..MaxGroups : g \notin DOMAIN pg => ag[g] = {}
        /\ DOMAIN pg = 1..Len(pg) /\ Len(pg) \in Nat
    BY <1>3 DEF AsGroups, Elements
  <1> HIDE DEF keys, pg, ag
  <1>7. OpenGroup(accessListMap', t) \/ Overflow(accessListMap', t) =>
          \A i \in DOMAIN pg : Collides(accessListMap', t, pg[i])
    <2>1. \A i \in DOMAIN pg : i \in 1..((Len(pg) + 1) - 1)
      BY <1>6
    <2> QED
      BY <2>1 DEF OpenGroup, Overflow, Reaches, pg
  <1>8. \A i \in DOMAIN pg : Collides(accessListMap', t, pg[i]) =>
          Abstract!Blocked(keys, t, i)
    BY <1>5, <1>6 DEF Collides, Abstract!Blocked, Elements, ag, pg
  <1>9. CASE JoinGroup(accessListMap', t)
    <2>1. PICK i \in DOMAIN pg :
            /\ Free(accessListMap', t, pg[i])
            /\ parallelizableGroups' = [pg EXCEPT ![i] = Append(@, t)]
      BY <1>9 DEF JoinGroup, pg
    <2>2. Abstract!Accepts(keys, t, i)
      <3>1. AsGroups(parallelizableGroups)[i] = Elements(pg[i]) /\ Elements(pg[i]) \subseteq Txs
        BY <1>6 DEF ag, pg
      <3>2. /\ accessListMap'[t] # NoList
            /\ \A s \in Elements(pg[i]) :
                  accessListMap'[s] # NoList /\ ~Overlap(accessListMap', t, s)
        BY <2>1 DEF Free, Elements
      <3>3. \A s \in Elements(pg[i]) : keys[s] # NoList /\ keys[s] \cap keys[t] = {}
        BY <1>5, <3>1, <3>2
      <3> QED
        BY <1>5, <3>1, <3>2, <3>3 DEF Abstract!Accepts, Abstract!Known
    <2>3. AsGroups(parallelizableGroups') = [ag EXCEPT ![i] = @ \cup {t}]
      <3>1. /\ DOMAIN parallelizableGroups' = DOMAIN pg
            /\ parallelizableGroups'[i] = Append(pg[i], t)
            /\ \A j \in DOMAIN pg : j # i => parallelizableGroups'[j] = pg[j]
        BY <2>1
      <3>2. Elements(parallelizableGroups'[i]) = ag[i] \cup {t}
        BY <1>6, <3>1, ElementsOfAppend
      <3>3. \A g \in 1..MaxGroups : AsGroups(parallelizableGroups')[g]
                                      = [ag EXCEPT ![i] = @ \cup {t}][g]
        BY <1>6, <3>1, <3>2 DEF AsGroups
      <3> QED
        BY <1>6, <3>3 DEF AsGroups
    <2>4. sequentialGroup' = sequentialGroup
      BY <1>9 DEF JoinGroup
    <2> QED
      BY <1>6, <2>2, <2>3, <2>4 DEF Abstract!Place, ag, pg
  <1>10. CASE OpenGroup(accessListMap', t)
    <2> DEFINE n == Len(pg) + 1
    <2>1. /\ parallelizableGroups' = Append(pg, <<t>>)
          /\ sequentialGroup' = sequentialGroup
          /\ Len(pg) < MaxGroups
      BY <1>10 DEF OpenGroup, pg
    <2>2. n \in 1..MaxGroups /\ n \notin DOMAIN pg /\ ag[n] = {}
      BY <1>3, <1>6, <2>1
    <2>3. Abstract!Accepts(keys, t, n) \/ ag = Abstract!Empty
      <3>1. CASE accessListMap'[t] # NoList
        BY <1>5, <2>2, <3>1 DEF Abstract!Accepts, Abstract!Known, ag, pg
      <3>2. CASE accessListMap'[t] = NoList
        <4>1. DOMAIN pg = {}
          BY <1>7, <1>10, <3>2, UnlistedNeverCompared
        <4> QED
          BY <1>6, <4>1 DEF Abstract!Empty, ag, AsGroups
      <3> QED
        BY <3>1, <3>2
    <2>4. AsGroups(parallelizableGroups') = [ag EXCEPT ![n] = @ \cup {t}]
      <3>1. /\ DOMAIN parallelizableGroups' = DOMAIN pg \cup {n}
            /\ parallelizableGroups'[n] = <<t>>
            /\ \A j \in DOMAIN pg : parallelizableGroups'[j] = pg[j]
        BY <1>3, <2>1 DEF pg
      <3>2. Elements(parallelizableGroups'[n]) = ag[n] \cup {t}
        BY <2>2, <3>1 DEF Elements
      <3> HIDE DEF n
      <3>3. \A g \in 1..MaxGroups : AsGroups(parallelizableGroups')[g]
                                      = [ag EXCEPT ![n] = @ \cup {t}][g]
        BY <1>6, <2>2, <3>1, <3>2 DEF AsGroups
      <3> QED
        BY <1>6, <3>3 DEF AsGroups
    <2> QED
      BY <2>1, <2>2, <2>3, <2>4 DEF Abstract!Place, ag, pg
  <1>11. CASE Overflow(accessListMap', t)
    <2>1. /\ parallelizableGroups' = pg
          /\ sequentialGroup' = Append(sequentialGroup, t)
          /\ Len(pg) >= MaxGroups
      BY <1>11 DEF Overflow, pg
    <2>2. \A g \in 1..MaxGroups : Abstract!Blocked(keys, t, g)
      <3>1. MaxGroups \in Nat /\ Len(pg) \in Nat /\ DOMAIN pg = 1..Len(pg)
        BY <1>3, <1>6
      <3>2. \A g \in 1..MaxGroups : g \in DOMAIN pg
        BY <2>1, <3>1
      <3> QED
        BY <1>7, <1>8, <1>11, <3>2
    <2>3. Elements(sequentialGroup') = Elements(sequentialGroup) \cup {t}
      BY <1>3, <2>1, ElementsOfAppend
    <2> QED
      BY <2>1, <2>2, <2>3 DEF Abstract!PutAside, pg
  <1>12. CASE Abort(accessListMap', t)
    <2>1. PICK i \in DOMAIN pg : Throws(accessListMap', t, pg[i])
      BY <1>12 DEF Abort, pg
    <2>2. ag # Abstract!Empty
      <3>1. Elements(pg[i]) # {}
        <4>1. pg[i] \in Seq(Txs) /\ pg[i] # <<>>
          BY <1>3, <1>6, <2>1 DEF pg
        <4>2. 1 \in DOMAIN pg[i]
          BY <4>1
        <4> QED
          BY <4>2 DEF Elements
      <3> QED
        BY <1>6, <2>1, <3>1 DEF Abstract!Empty
    <2>3. keys[t] = NoList \/ ~Abstract!Known(keys, i)
      BY <1>5, <1>6, <2>1 DEF Throws, Elements, Abstract!Known, ag, pg
    <2>4. UNCHANGED Abstract!assignment
      BY <1>12 DEF Abort, groupVars, Abstract!assignment
    <2> QED
      BY <1>6, <2>1, <2>2, <2>3, <2>4 DEF Abstract!LeaveOut, ag, pg
  <1> QED
    BY <1>2, <1>9, <1>10, <1>11, <1>12 DEF ProcessTransactionQueue

(* Every step of the helper is a step of Grouping or changes nothing that  *)
(* Grouping shows.                                                         *)
LEMMA GroupingNext == ShapeInv /\ [Next]_vars => [Abstract!Next]_(Abstract!vars)
  <1> SUFFICES ASSUME ShapeInv, [Next]_vars
               PROVE  Abstract!Next \/ UNCHANGED Abstract!vars
    OBVIOUS
  <1>1. ASSUME UNCHANGED <<groupVars, historyVars, accessListMap>>
        PROVE  UNCHANGED Abstract!vars
    BY <1>1 DEF groupVars, historyVars, Abstract!vars, Abstract!assignment, Abstract!previous
  <1>2. ASSUME NEW t \in Txs, GenerateAccessList(t)
        PROVE  Abstract!Next
    BY <1>2, GroupingAssess DEF Abstract!Next
  <1>3. ASSUME NEW t \in Txs,
               Pending(t) \/ TransactionFetched(t) \/ FetchFailed(t)
                   \/ SimulationFailed(t) \/ ReleaseDebounce(t)
        PROVE  UNCHANGED Abstract!vars
    <2>1. UNCHANGED <<groupVars, historyVars, accessListMap>>
      BY <1>3 DEF Pending, TransactionFetched, FetchFailed, SimulationFailed, ReleaseDebounce
    <2> QED
      BY <1>1, <2>1
  <1>4. CASE CleanGroups
    <2>1. Elements(<<>>) = {} /\ AsGroups(<<>>) = Abstract!Empty
      BY DEF Elements, AsGroups, Abstract!Empty
    <2>2. Abstract!Clean
      BY <1>4, <2>1 DEF CleanGroups, Abstract!Clean
    <2> QED
      BY <2>2 DEF Abstract!Next
  <1>5. CASE UNCHANGED vars
    BY <1>1, <1>5 DEF vars
  <1> QED
    BY <1>2, <1>3, <1>4, <1>5 DEF Next, Callback

(* The helper implements Grouping: seen through the groups it serves, it   *)
(* only ever places one transaction at a time where nothing contradicts    *)
(* it, puts it aside when every group does, leaves it out for want of a    *)
(* list, or turns the assignment into the previous one.                    *)
THEOREM HelperImplementsGrouping == Spec => ImplementsGrouping
  <1>1. Spec => Abstract!Spec
    BY ShapeInit, ShapeNext, GroupingInit, GroupingNext, PTL DEF Spec, Abstract!Spec
  <1> QED
    BY <1>1 DEF ImplementsGrouping
=============================================================================
