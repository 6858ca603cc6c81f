----------------------------- MODULE TxPoolProofs -----------------------------
(***************************************************************************)
(* Proofs about the transaction pool of the geth client, for any number of *)
(* accounts, transactions, callers and blocks, any sizes of the pool and   *)
(* any bounds on what happens.                                             *)
(***************************************************************************)
EXTENDS TxPool, RecursionFacts

-----------------------------------------------------------------------------
(* The chain: what a reorganisation reinjects.                             *)

LEMMA ChainFacts ==
    /\ Genesis \in Blocks /\ Parent \in [Blocks -> Blocks] /\ Number \in [Blocks -> Nat]
    /\ Included \in [Blocks -> Seq(Txs)]
    /\ StateNonce \in [Blocks -> [Accounts -> Nat]]
    /\ \A b \in Blocks \ {Genesis} : Number[Parent[b]] < Number[b]
    /\ \A b \in Blocks \ {Genesis} : \A a \in Accounts :
          StateNonce[Parent[b]][a] <= StateNonce[b][a]
    /\ \A b \in Blocks : \A i \in DOMAIN Included[b] :
          Nonce[Included[b][i]] < StateNonce[b][From[Included[b][i]]]
  BY ChainAssumption

LEMMA AncestorsEquation ==
    \A b \in Blocks :
        Ancestors[b] = {b} \cup IF b = Genesis THEN {} ELSE Ancestors[Parent[b]]
  <1> DEFINE Eq(F) == F = [b \in Blocks |->
                             {b} \cup IF b = Genesis THEN {} ELSE F[Parent[b]]]
             V == SUBSET Blocks
             rank == [b \in Blocks |-> IF b = Genesis THEN 0 ELSE Number[b] + 1]
             base == [b \in Blocks |-> {b}]
             step == [x \in V \X Blocks |-> {x[2]} \cup x[1]]
  <1>1. Ancestors = CHOOSE F : Eq(F)
    BY DEF Ancestors
  <1>2. /\ rank \in [Blocks -> Nat] /\ base \in [Blocks -> V] /\ Parent \in [Blocks -> Blocks]
        /\ step \in [V \X Blocks -> V]
    BY ChainFacts
  <1>3. /\ \A b \in Blocks : rank[b] = 0 <=> b = Genesis
        /\ \A b \in Blocks : base[b] = {b}
        /\ \A v \in V, b \in Blocks : step[<<v, b>>] = {b} \cup v
    BY ChainFacts
  <1>4. \A b \in Blocks : rank[b] # 0 => rank[Parent[b]] < rank[b]
    BY ChainFacts
  <1> HIDE DEF rank, base, step
  <1>5. PICK h \in [Blocks -> V] : SolvesRanked(h, Blocks, rank, base, Parent, step)
    <2> HIDE DEF V
    <2> QED
      BY <1>2, <1>4, RankedRecursion
  <1>6. \A b \in Blocks : h[b] = {b} \cup IF b = Genesis THEN {} ELSE h[Parent[b]]
    <2> SUFFICES ASSUME NEW b \in Blocks
                 PROVE  h[b] = {b} \cup IF b = Genesis THEN {} ELSE h[Parent[b]]
      OBVIOUS
    <2>1. h[b] = IF rank[b] = 0 THEN base[b] ELSE step[<<h[Parent[b]], b>>]
      BY <1>5 DEF SolvesRanked
    <2>2. h[Parent[b]] \in V
      BY <1>2
    <2> HIDE DEF V
    <2> QED
      BY <1>3, <2>1, <2>2
  <1>7. Eq(h)
    <2>1. h = [b \in Blocks |-> h[b]]
      OBVIOUS
    <2> QED
      BY <1>6, <2>1
  <1>8. Eq(Ancestors)
    BY <1>1, <1>7
  <1> QED
    BY <1>8

LEMMA GenesisIsAncestor == \A b \in Blocks : Genesis \in Ancestors[b]
  <1> SUFFICES ASSUME NEW c \in Blocks PROVE Genesis \in Ancestors[c]
    OBVIOUS
  <1> DEFINE n == Number[c]
             S == {k \in 0..n : \A b \in Blocks : Number[b] <= k => Genesis \in Ancestors[b]}
  <1>1. n \in Nat
    BY ChainFacts
  <1>2. ASSUME NEW b \in Blocks, b # Genesis => Genesis \in Ancestors[Parent[b]]
        PROVE  Genesis \in Ancestors[b]
    BY <1>2, AncestorsEquation
  <1>3. 0 \in S
    <2>1. ASSUME NEW b \in Blocks, Number[b] <= 0
          PROVE  b = Genesis
      <3>1. Number[b] \in Nat /\ Number[Parent[b]] \in Nat
        BY ChainFacts
      <3>2. b # Genesis => Number[Parent[b]] < Number[b]
        BY ChainFacts
      <3> QED
        BY <2>1, <3>1, <3>2
    <2> QED
      BY <1>1, <1>2, <2>1
  <1>4. ASSUME NEW k \in 1..n, k - 1 \in S
        PROVE  k \in S
    <2>1. ASSUME NEW b \in Blocks, Number[b] <= k
          PROVE  Genesis \in Ancestors[b]
      <3>1. CASE b = Genesis
        BY <1>2, <3>1
      <3>2. CASE b # Genesis
        <4>1. Number[Parent[b]] < Number[b] /\ Parent[b] \in Blocks
          BY <3>2, ChainFacts
        <4>2. Number[b] \in Nat /\ Number[Parent[b]] \in Nat
          BY <4>1, ChainFacts
        <4>3. Number[Parent[b]] <= k - 1
          BY <2>1, <4>1, <4>2
        <4> QED
          BY <1>2, <1>4, <4>1, <4>3
      <3> QED
        BY <3>1, <3>2
    <2> QED
      BY <1>1, <2>1
  <1>5. n \in S
    <2> HIDE DEF S, n
    <2>1. \A k \in 0..n : k \in S
      BY <1>1, <1>3, <1>4, UpTo
    <2> QED
      BY <1>1, <2>1
  <1> QED
    BY <1>1, <1>5

LEMMA BranchEquation ==
    ASSUME NEW b \in Blocks, NEW stop \in Blocks
    PROVE  /\ Branch(b, stop) \in Seq(Txs)
           /\ Branch(b, stop) = IF b \in Ancestors[stop] THEN <<>>
                                ELSE Included[b] \o Branch(Parent[b], stop)
  <1> DEFINE V == Seq(Txs)
             Eq(F) == F = [c \in Blocks |->
                             IF c \in Ancestors[stop] THEN <<>>
                             ELSE Included[c] \o F[Parent[c]]]
             rank == [c \in Blocks |-> IF c \in Ancestors[stop] THEN 0 ELSE Number[c] + 1]
             base == [c \in Blocks |-> <<>>]
             step == [y \in V \X Blocks |-> Included[y[2]] \o y[1]]
             down == CHOOSE F : Eq(F)
  <1>1. /\ Branch(b, stop) = down[b]
        /\ Branch(Parent[b], stop) = down[Parent[b]]
    BY DEF Branch
  <1>2. rank \in [Blocks -> Nat] /\ base \in [Blocks -> V] /\ step \in [V \X Blocks -> V]
    BY ChainFacts
  <1>3. /\ \A c \in Blocks : rank[c] = 0 <=> c \in Ancestors[stop]
        /\ \A c \in Blocks : base[c] = <<>>
        /\ \A v \in V, c \in Blocks : step[<<v, c>>] = Included[c] \o v
    <2>1. \A c \in Blocks : rank[c] = 0 <=> c \in Ancestors[stop]
      BY ChainFacts
    <2>2. \A c \in Blocks : base[c] = <<>>
      OBVIOUS
    <2>3. \A v \in V, c \in Blocks : step[<<v, c>>] = Included[c] \o v
      <3> HIDE DEF V
      <3> QED
        OBVIOUS
    <2> QED
      BY <2>1, <2>2, <2>3
  <1>4. \A c \in Blocks : rank[c] # 0 => rank[Parent[c]] < rank[c]
    <2> SUFFICES ASSUME NEW c \in Blocks, rank[c] # 0
                 PROVE  rank[Parent[c]] < rank[c]
      OBVIOUS
    <2>1. c # Genesis
      BY <1>3, GenesisIsAncestor
    <2>2. Number[Parent[c]] < Number[c] /\ Parent[c] \in Blocks
      BY <2>1, ChainFacts
    <2>3. Number[c] \in Nat /\ Number[Parent[c]] \in Nat
      BY <2>2, ChainFacts
    <2>4. rank[c] = Number[c] + 1 /\ rank[Parent[c]] \in {0, Number[Parent[c]] + 1}
      BY <2>2
    <2> HIDE DEF rank
    <2> QED
      BY <2>2, <2>3, <2>4
  <1> HIDE DEF rank, base, step, down
  <1>5. PICK h \in [Blocks -> V] : SolvesRanked(h, Blocks, rank, base, Parent, step)
    <2> HIDE DEF V
    <2> QED
      BY <1>2, <1>4, ChainFacts, RankedRecursion
  <1>6. \A c \in Blocks : h[c] = IF c \in Ancestors[stop] THEN <<>>
                                 ELSE Included[c] \o h[Parent[c]]
    <2> SUFFICES ASSUME NEW c \in Blocks
                 PROVE  h[c] = IF c \in Ancestors[stop] THEN <<>>
                               ELSE Included[c] \o h[Parent[c]]
      OBVIOUS
    <2>1. h[c] = IF rank[c] = 0 THEN base[c] ELSE step[<<h[Parent[c]], c>>]
      BY <1>5 DEF SolvesRanked
    <2>2. h[Parent[c]] \in V
      BY ChainFacts
    <2> HIDE DEF V
    <2>3. step[<<h[Parent[c]], c>>] = Included[c] \o h[Parent[c]]
      BY <1>3, <2>2
    <2> QED
      BY <1>3, <2>1, <2>3
  <1>7. Eq(h)
    <2>1. h = [c \in Blocks |-> h[c]]
      OBVIOUS
    <2> QED
      BY <1>6, <2>1
  <1>8. Eq(down)
    BY <1>7 DEF down
  <1>9. \A c \in Blocks : down[c] = h[c]
    <2> SUFFICES ASSUME NEW d \in Blocks PROVE down[d] = h[d]
      OBVIOUS
    <2> DEFINE n == rank[d]
               T == {k \in 0..n : \A c \in Blocks : rank[c] <= k => down[c] = h[c]}
    <2>1. n \in Nat
      BY <1>2
    <2>2. \A c \in Blocks : down[c] = IF c \in Ancestors[stop] THEN <<>>
                                      ELSE Included[c] \o down[Parent[c]]
      BY <1>8
    <2>6. \A c \in Blocks : rank[c] = 0 => down[c] = h[c]
      <3> SUFFICES ASSUME NEW c \in Blocks, rank[c] = 0 PROVE down[c] = h[c]
        OBVIOUS
      <3>1. c \in Ancestors[stop]
        BY <1>3
      <3>2. h[c] = <<>>
        BY <1>6, <3>1
      <3>3. down[c] = <<>>
        BY <2>2, <3>1
      <3> QED
        BY <3>2, <3>3
    <2>3. 0 \in T
      BY <1>2, <2>1, <2>6
    <2>4. ASSUME NEW k \in 1..n, k - 1 \in T
          PROVE  k \in T
      <3> SUFFICES ASSUME NEW c \in Blocks, rank[c] <= k PROVE down[c] = h[c]
        BY <2>1
      <3>1. CASE rank[c] = 0
        BY <2>6, <3>1
      <3>2. CASE rank[c] # 0
        <4>1. rank[Parent[c]] < rank[c] /\ Parent[c] \in Blocks
          BY <1>4, <3>2, ChainFacts
        <4>2. rank[c] \in Nat /\ rank[Parent[c]] \in Nat
          BY <1>2, <4>1
        <4>3. rank[Parent[c]] <= k - 1
          BY <4>1, <4>2
        <4>4. down[Parent[c]] = h[Parent[c]]
          BY <2>4, <4>1, <4>3
        <4> QED
          <5>1. c \notin Ancestors[stop]
            BY <1>3, <3>2
          <5>2. h[c] = Included[c] \o h[Parent[c]]
            BY <1>6, <5>1
          <5>3. down[c] = Included[c] \o down[Parent[c]]
            BY <2>2, <5>1
          <5> QED
            BY <4>4, <5>2, <5>3, Zenon
      <3> QED
        BY <3>1, <3>2
    <2>5. n \in T
      <3> HIDE DEF T, n
      <3>1. \A k \in 0..n : k \in T
        BY <2>1, <2>3, <2>4, UpTo
      <3> QED
        BY <2>1, <3>1
    <2> QED
      BY <2>1, <2>5
  <1> QED
    <2>1. h[b] \in V /\ down[b] = h[b] /\ down[Parent[b]] = h[Parent[b]]
      BY <1>9, ChainFacts
    <2> QED
      BY <1>1, <1>6, <2>1
-----------------------------------------------------------------------------
(* The lists of one account.                                               *)

LEMMA TxFacts ==
    /\ IsFiniteSet(Txs)
    /\ From \in [Txs -> Accounts] /\ Nonce \in [Txs -> Nat]
    /\ Price \in [Txs -> Nat] /\ Cost \in [Txs -> Nat]
    /\ StartTip \in Tips
    /\ AccountSlots \in Nat \ {0} /\ GlobalSlots \in Nat /\ GlobalQueue \in Nat
    /\ None # Legacy /\ None # Other /\ Legacy # Other
  BY TransactionsAssumption, SizesAssumption, NoneAssumption DEF Legacy, Other

LEMMA NonceBounds ==
    ASSUME NEW L \in SUBSET Txs, L # {}
    PROVE  /\ MaxNonce(L) \in Nat /\ MinNonce(L) \in Nat
           /\ \E t \in L : Nonce[t] = MaxNonce(L)
           /\ \E t \in L : Nonce[t] = MinNonce(L)
           /\ \A t \in L : Nonce[t] <= MaxNonce(L) /\ MinNonce(L) <= Nonce[t]
  <1> DEFINE N == {Nonce[t] : t \in L}
             f == [t \in L |-> Nonce[t]]
  <1>1. N \in SUBSET Nat /\ N # {}
    BY TxFacts
  <1>2. IsFiniteSet(N)
    <2>1. IsFiniteSet(L)
      BY TxFacts, FS_Subset
    <2>2. f \in Surjection(L, N)
      BY DEF Surjection
    <2> QED
      BY <2>1, <2>2, FS_Surjection DEF ExistsSurjection
  <1>3. \A t \in L : Nonce[t] \in N
    OBVIOUS
  <1>4. \A n \in N : \E t \in L : Nonce[t] = n
    OBVIOUS
  <1>5. MaxNonce(L) = Max(N) /\ MinNonce(L) = Min(N)
    BY DEF MaxNonce, MinNonce
  <1> HIDE DEF N
  <1>6. Max(N) \in N /\ \A n \in N : n <= Max(N)
    BY <1>1, <1>2, MaxOfFinite
  <1>7. Min(N) \in N /\ \A n \in N : Min(N) <= n
    BY <1>1, MinOf
  <1> QED
    BY <1>1, <1>3, <1>4, <1>5, <1>6, <1>7

LEMMA LesserOfTwo ==
    ASSUME NEW m \in Nat, NEW n \in Nat
    PROVE  /\ Min({m, n}) \in {m, n}
           /\ Min({m, n}) <= m /\ Min({m, n}) <= n
  <1> DEFINE N == {m, n}
  <1>1. N \in SUBSET Nat /\ N # {} /\ m \in N /\ n \in N
    OBVIOUS
  <1> HIDE DEF N
  <1>2. Min(N) \in N /\ \A y \in N : Min(N) <= y
    BY <1>1, MinOf
  <1> QED
    BY <1>1, <1>2 DEF N

(* What is put into a list that has none of its nonces replaces nothing.   *)
LEMMA NothingReplaced ==
    ASSUME NEW list \in SUBSET Txs, NEW ts \in SUBSET Txs,
           \A t \in ts : \A u \in list : Nonce[t] # Nonce[u]
    PROVE  /\ Winners(list, ts) = ts /\ Replaced(list, ts) = {}
           /\ Inserted(list, ts) = list \cup ts
  <1>1. Winners(list, ts) = ts
    BY DEF Winners, Wins, At
  <1>2. Replaced(list, ts) = {}
    BY <1>1 DEF Replaced
  <1> QED
    BY <1>1, <1>2 DEF Inserted

(* A newcomer that wins takes the place of what had its nonce.             *)
LEMMA OneInserted ==
    ASSUME NEW list \in SUBSET Txs, NEW t \in Txs, Wins(list, t)
    PROVE  /\ Replaced(list, {t}) = At(list, Nonce[t])
           /\ Inserted(list, {t}) = (list \ At(list, Nonce[t])) \cup {t}
  <1>1. Winners(list, {t}) = {t}
    BY DEF Winners
  <1>2. Replaced(list, {t}) = At(list, Nonce[t])
    BY <1>1 DEF Replaced, At
  <1> QED
    BY <1>1, <1>2 DEF Inserted

LEMMA ReadyIsPart == 
    ASSUME NEW list \in SUBSET Txs, NEW n
    PROVE  /\ Ready(list, n) \in SUBSET list
           /\ Ready(list, n) # {} => list # {} /\ ~(MinNonce(list) > n)
  BY DEF Ready

LEMMA CapIsPart == \A list, k : Cap(list, k) \subseteq list
  BY DEF Cap

(* A list that is cut to something keeps its front.                        *)
LEMMA CapKeepsFront ==
    ASSUME NEW list \in SUBSET Txs, NEW k \in Nat \ {0}, NEW t \in list,
           \A u \in list : Nonce[t] <= Nonce[u]
    PROVE  t \in Cap(list, k)
  <1>1. {u \in list : Nonce[u] < Nonce[t]} = {}
    BY TxFacts
  <1> QED
    BY <1>1, FS_EmptySet DEF Cap
-----------------------------------------------------------------------------
(* What the operations keep.  Shape: the index holds exactly the listed    *)
(* transactions, each under its sender, and no nonce twice.  Due: a        *)
(* pending list starts at the state's nonce.  Owned is ReservedIffTracked; *)
(* OwnedBut lets the account of a newcomer be reserved before its list     *)
(* has anything.                                                           *)

Shape(p) ==
    /\ p \in Pools
    /\ \A a \in Accounts : \A t \in p.pending[a] : From[t] = a /\ t \in p.all
    /\ \A a \in Accounts : \A t \in p.queue[a] : From[t] = a /\ t \in p.all
    /\ \A t \in p.all : t \in p.pending[From[t]] \/ t \in p.queue[From[t]]
    /\ \A a \in Accounts : \A t, u \in p.pending[a] : Nonce[t] = Nonce[u] => t = u
    /\ \A a \in Accounts : \A t, u \in p.queue[a] : Nonce[t] = Nonce[u] => t = u
    /\ \A a \in Accounts : \A t \in p.pending[a], u \in p.queue[a] : Nonce[t] # Nonce[u]

Fits(p) == Cardinality(p.all) <= GlobalSlots + GlobalQueue

Due(p) ==
    \A a \in Accounts :
        /\ \A t \in p.pending[a] : Nonce[t] >= NextNonce(p, a)
        /\ p.pending[a] = {} => p.nonces[a] = NextNonce(p, a)
        /\ p.pending[a] # {} => /\ At(p.pending[a], NextNonce(p, a)) # {}
                                /\ p.nonces[a] > NextNonce(p, a)

Owned(p) == \A a \in Accounts : (p.owner[a] = Legacy) <=> Tracked(p, a)

OwnedBut(p, s) ==
    \A a \in Accounts : (p.owner[a] = Legacy) <=> (a = s \/ Tracked(p, a))

LEMMA NextNonceType == \A p \in Pools : \A a \in Accounts : NextNonce(p, a) \in Nat
  BY ChainFacts DEF Pools, NextNonce

LEMMA PoolFields ==
    ASSUME NEW p \in Pools
    PROVE  /\ p.pending \in [Accounts -> SUBSET Txs] /\ p.queue \in [Accounts -> SUBSET Txs]
           /\ p.all \in SUBSET Txs /\ p.nonces \in [Accounts -> Nat]
           /\ p.owner \in [Accounts -> {None, Legacy, Other}]
           /\ p.head \in Blocks /\ p.changes \in Nat
  BY DEF Pools

(* Only the owners change when accounts are given up.                      *)
LEMMA ReleaseFields ==
    ASSUME NEW p \in Pools, NEW A
    PROVE  LET q == Release(p, A)
           IN  /\ q \in Pools
               /\ q.pending = p.pending /\ q.queue = p.queue /\ q.all = p.all
               /\ q.nonces = p.nonces /\ q.head = p.head /\ q.changes = p.changes
               /\ \A a \in Accounts :
                     q.owner[a] = IF a \in A /\ ~Tracked(p, a) /\ p.owner[a] = Legacy
                                  THEN None ELSE p.owner[a]
  <1> DEFINE own == [a \in Accounts |->
                       IF a \in A /\ ~Tracked(p, a) /\ p.owner[a] = Legacy
                       THEN None ELSE p.owner[a]]
  <1>1. own \in [Accounts -> {None, Legacy, Other}]
    BY PoolFields
  <1>2. Release(p, A) = [p EXCEPT !.owner = own]
    BY DEF Release
  <1>3. \A a \in Accounts : own[a] = IF a \in A /\ ~Tracked(p, a) /\ p.owner[a] = Legacy
                                     THEN None ELSE p.owner[a]
    OBVIOUS
  <1> HIDE DEF own
  <1> QED
    BY <1>1, <1>2, <1>3 DEF Pools

(* removeTx of a pending transaction: it goes, those behind it wait.       *)
LEMMA RemovePending ==
    ASSUME NEW p, Shape(p), NEW t \in p.all, t \in p.pending[From[t]]
    PROVE  LET q == Unlist(p, t)
               a == From[t]
           IN  /\ q \in Pools
               /\ q.all = p.all \ {t}
               /\ q.pending = [p.pending EXCEPT ![a] = {u \in p.pending[a] : Nonce[u] < Nonce[t]}]
               /\ q.queue = [p.queue EXCEPT
                               ![a] = p.queue[a] \cup {u \in p.pending[a] : Nonce[u] > Nonce[t]}]
               /\ q.nonces = [p.nonces EXCEPT ![a] = Min({p.nonces[a], Nonce[t]})]
               /\ q.owner = p.owner /\ q.head = p.head /\ q.changes = p.changes
  <1> DEFINE a == From[t]
             hit == At(p.pending[a], Nonce[t])
             later == {u \in p.pending[a] : Nonce[u] > Nonce[t]}
  <1>1. p \in Pools /\ t \in Txs /\ a \in Accounts
    BY TxFacts, PoolFields DEF Shape
  <1>2. hit = {t}
    BY <1>1 DEF Shape, At
  <1>3. Replaced(p.queue[a], later) = {} /\ Inserted(p.queue[a], later) = p.queue[a] \cup later
    <2>1. \A u \in later : \A v \in p.queue[a] : Nonce[u] # Nonce[v]
      BY <1>1 DEF Shape
    <2>2. later \in SUBSET Txs /\ p.queue[a] \in SUBSET Txs
      BY <1>1, PoolFields
    <2> HIDE DEF later
    <2> QED
      BY <2>1, <2>2, NothingReplaced
  <1>4. p.pending[a] \ (hit \cup later) = {u \in p.pending[a] : Nonce[u] < Nonce[t]}
    <2>1. \A u \in p.pending[a] : Nonce[u] \in Nat /\ Nonce[t] \in Nat
      BY <1>1, TxFacts, PoolFields
    <2>2. \A u \in p.pending[a] : Nonce[u] = Nonce[t] <=> u = t
      BY <1>1 DEF Shape
    <2> QED
      BY <1>2, <2>1, <2>2
  <1>5. Min({p.nonces[a], Nonce[t]}) \in Nat
    <2>1. p.nonces[a] \in Nat /\ Nonce[t] \in Nat
      BY <1>1, PoolFields, TxFacts
    <2> QED
      BY <2>1, LesserOfTwo
  <1>6. Unlist(p, t) =
            [p EXCEPT !.all = @ \ ({t} \cup Replaced(p.queue[a], later)),
                      !.pending[a] = @ \ (hit \cup later),
                      !.queue[a] = Inserted(@, later),
                      !.nonces[a] = Min({@, Nonce[t]})]
    BY <1>2 DEF Unlist
  <1>7. Unlist(p, t) =
            [pending |-> [p.pending EXCEPT ![a] = {u \in p.pending[a] : Nonce[u] < Nonce[t]}],
             queue |-> [p.queue EXCEPT ![a] = p.queue[a] \cup later],
             all |-> p.all \ {t},
             nonces |-> [p.nonces EXCEPT ![a] = Min({p.nonces[a], Nonce[t]})],
             owner |-> p.owner, head |-> p.head, changes |-> p.changes]
    <2> HIDE DEF hit, later
    <2> QED
      BY <1>1, <1>3, <1>4, <1>6 DEF Pools
  <1>8. /\ [p.pending EXCEPT ![a] = {u \in p.pending[a] : Nonce[u] < Nonce[t]}]
              \in [Accounts -> SUBSET Txs]
        /\ [p.queue EXCEPT ![a] = p.queue[a] \cup later] \in [Accounts -> SUBSET Txs]
        /\ [p.nonces EXCEPT ![a] = Min({p.nonces[a], Nonce[t]})] \in [Accounts -> Nat]
        /\ p.all \ {t} \in SUBSET Txs
    BY <1>1, <1>5, PoolFields
  <1>9. Unlist(p, t) \in Pools
    BY <1>1, <1>7, <1>8, PoolFields DEF Pools
  <1> DEFINE q == Unlist(p, t)
  <1> HIDE DEF q
  <1>10. q = [pending |-> [p.pending EXCEPT ![a] = {u \in p.pending[a] : Nonce[u] < Nonce[t]}],
              queue |-> [p.queue EXCEPT ![a] = p.queue[a] \cup later],
              all |-> p.all \ {t},
              nonces |-> [p.nonces EXCEPT ![a] = Min({p.nonces[a], Nonce[t]})],
              owner |-> p.owner, head |-> p.head, changes |-> p.changes]
    BY <1>7 DEF q
  <1>11. /\ q.all = p.all \ {t}
         /\ q.pending = [p.pending EXCEPT ![a] = {u \in p.pending[a] : Nonce[u] < Nonce[t]}]
         /\ q.queue = [p.queue EXCEPT ![a] = p.queue[a] \cup later]
         /\ q.nonces = [p.nonces EXCEPT ![a] = Min({p.nonces[a], Nonce[t]})]
         /\ q.owner = p.owner /\ q.head = p.head /\ q.changes = p.changes
    <2> HIDE DEF later
    <2> QED
      BY <1>10
  <1> QED
    BY <1>9, <1>11 DEF q

(* removeTx of a queued transaction: nothing else moves.                   *)
LEMMA RemoveQueued ==
    ASSUME NEW p, Shape(p), NEW t \in p.all, t \notin p.pending[From[t]]
    PROVE  LET q == Unlist(p, t)
           IN  /\ q \in Pools
               /\ q.all = p.all \ {t}
               /\ q.queue = [p.queue EXCEPT ![From[t]] = p.queue[From[t]] \ {t}]
               /\ q.pending = p.pending /\ q.nonces = p.nonces
               /\ q.owner = p.owner /\ q.head = p.head /\ q.changes = p.changes
  <1> DEFINE a == From[t]
  <1>1. p \in Pools /\ t \in Txs /\ a \in Accounts /\ t \in p.queue[a]
    BY TxFacts, PoolFields DEF Shape
  <1>2. At(p.pending[a], Nonce[t]) = {} /\ At(p.queue[a], Nonce[t]) = {t}
    BY <1>1 DEF Shape, At
  <1>3. Unlist(p, t) =
            [p EXCEPT !.all = @ \ {t}, !.queue[a] = @ \ At(@, Nonce[t])]
    BY <1>2 DEF Unlist
  <1>4. Unlist(p, t) =
            [pending |-> p.pending, queue |-> [p.queue EXCEPT ![a] = p.queue[a] \ {t}],
             all |-> p.all \ {t}, nonces |-> p.nonces,
             owner |-> p.owner, head |-> p.head, changes |-> p.changes]
    BY <1>1, <1>2, <1>3 DEF Pools
  <1>5. Unlist(p, t) \in Pools
    <2>1. /\ [p.queue EXCEPT ![a] = p.queue[a] \ {t}] \in [Accounts -> SUBSET Txs]
          /\ p.all \ {t} \in SUBSET Txs
      BY <1>1, PoolFields
    <2> QED
      BY <1>1, <1>4, <2>1, PoolFields DEF Pools
  <1> DEFINE q == Unlist(p, t)
  <1> HIDE DEF q
  <1>6. q = [pending |-> p.pending, queue |-> [p.queue EXCEPT ![a] = p.queue[a] \ {t}],
             all |-> p.all \ {t}, nonces |-> p.nonces,
             owner |-> p.owner, head |-> p.head, changes |-> p.changes]
    BY <1>4 DEF q
  <1>7. /\ q.all = p.all \ {t}
        /\ q.queue = [p.queue EXCEPT ![a] = p.queue[a] \ {t}]
        /\ q.pending = p.pending /\ q.nonces = p.nonces
        /\ q.owner = p.owner /\ q.head = p.head /\ q.changes = p.changes
    BY <1>6
  <1> QED
    BY <1>5, <1>7 DEF q


(* Both, as what the other operations need of them.                        *)
LEMMA UnlistKeepsShape ==
    ASSUME NEW p, Shape(p), NEW t \in p.all, NEW q, q = Unlist(p, t)
    PROVE  /\ Shape(q) /\ q.all = p.all \ {t}
           /\ q.owner = p.owner /\ q.head = p.head /\ q.changes = p.changes
           /\ \A a \in Accounts :
                 /\ q.pending[a] \subseteq p.pending[a] /\ q.nonces[a] <= p.nonces[a]
                 /\ a # From[t] => q.pending[a] = p.pending[a] /\ q.queue[a] = p.queue[a]
           /\ Due(p) => Due(q)
  <1>1. PICK s \in Accounts : s = From[t]
    BY TxFacts, PoolFields DEF Shape
  <1>2. p \in Pools /\ t \in Txs /\ (t \in p.pending[s] \/ t \in p.queue[s])
    BY <1>1, PoolFields DEF Shape
  <1>3. \A a \in Accounts : p.nonces[a] \in Nat
    BY <1>2, PoolFields
  <1>4. \A a \in Accounts : \A u \in p.pending[a] :
           u \in Txs /\ Nonce[u] \in Nat /\ From[u] = a /\ u \in p.all
    BY <1>2, TxFacts, PoolFields DEF Shape
  <1>5. \A a \in Accounts : \A u \in p.queue[a] :
           u \in Txs /\ Nonce[u] \in Nat /\ From[u] = a /\ u \in p.all
    BY <1>2, TxFacts, PoolFields DEF Shape
  <1>6. /\ Nonce[t] \in Nat
        /\ \A a \in Accounts : \A u, v \in p.pending[a] : Nonce[u] = Nonce[v] => u = v
        /\ \A a \in Accounts : \A u, v \in p.queue[a] : Nonce[u] = Nonce[v] => u = v
        /\ \A a \in Accounts : \A u \in p.pending[a], v \in p.queue[a] : Nonce[u] # Nonce[v]
        /\ \A u \in p.all : /\ From[u] \in Accounts
                            /\ u \in p.pending[From[u]] \/ u \in p.queue[From[u]]
    BY <1>2, TxFacts, PoolFields DEF Shape
  <1>7. CASE t \in p.pending[s]
    <2>1. /\ q \in Pools
          /\ q.all = p.all \ {t}
          /\ q.pending = [p.pending EXCEPT ![s] = {u \in p.pending[s] : Nonce[u] < Nonce[t]}]
          /\ q.queue = [p.queue EXCEPT
                          ![s] = p.queue[s] \cup {u \in p.pending[s] : Nonce[u] > Nonce[t]}]
          /\ q.nonces = [p.nonces EXCEPT ![s] = Min({p.nonces[s], Nonce[t]})]
          /\ q.owner = p.owner /\ q.head = p.head /\ q.changes = p.changes
      BY <1>1, <1>7, RemovePending
    <2>2. \A a \in Accounts : a # s => /\ q.pending[a] = p.pending[a]
                                       /\ q.queue[a] = p.queue[a] /\ q.nonces[a] = p.nonces[a]
      BY <1>2, <2>1, PoolFields
    <2>3. /\ q.pending[s] = {u \in p.pending[s] : Nonce[u] < Nonce[t]}
          /\ q.queue[s] = p.queue[s] \cup {u \in p.pending[s] : Nonce[u] > Nonce[t]}
          /\ q.nonces[s] = Min({p.nonces[s], Nonce[t]})
      BY <1>2, <2>1, PoolFields
    <2>4. /\ q.nonces[s] \in {p.nonces[s], Nonce[t]}
          /\ q.nonces[s] <= p.nonces[s] /\ q.nonces[s] <= Nonce[t]
      BY <1>3, <1>6, <2>3, LesserOfTwo
    <2>5. \A u \in p.pending[s] : Nonce[u] < Nonce[t] \/ u = t \/ Nonce[u] > Nonce[t]
      BY <1>4, <1>6, <1>7
    <2>6. Shape(q)
      <3>1. \A a \in Accounts : \A u \in q.pending[a] :
               u # t /\ u \in p.pending[a] /\ From[u] = a /\ u \in q.all
        BY <1>1, <1>4, <1>6, <2>1, <2>2, <2>3
      <3>2. \A a \in Accounts : \A u \in q.queue[a] : u \in p.queue[a] \/ u \in p.pending[a]
        BY <2>2, <2>3
      <3>3. \A a \in Accounts : \A u \in q.queue[a] : u # t
        BY <1>1, <1>4, <1>5, <1>6, <1>7, <2>2, <2>3
      <3>4. \A a \in Accounts : \A u \in q.queue[a] : From[u] = a /\ u \in q.all
        BY <1>4, <1>5, <2>1, <3>2, <3>3
      <3>5. \A u \in q.all : u \in q.pending[From[u]] \/ u \in q.queue[From[u]]
        <4> SUFFICES ASSUME NEW u \in q.all
                     PROVE  u \in q.pending[From[u]] \/ u \in q.queue[From[u]]
          OBVIOUS
        <4>1. /\ u # t /\ From[u] \in Accounts
              /\ u \in p.pending[From[u]] \/ u \in p.queue[From[u]]
          BY <1>6, <2>1
        <4> QED
          BY <2>2, <2>3, <2>5, <4>1
      <3>6. \A a \in Accounts : \A u, v \in q.pending[a] : Nonce[u] = Nonce[v] => u = v
        BY <1>6, <3>1
      <3>7. \A a \in Accounts : \A u, v \in q.queue[a] : Nonce[u] = Nonce[v] => u = v
        BY <1>6, <3>2
      <3>8. \A a \in Accounts : \A u \in q.pending[a], v \in q.queue[a] : Nonce[u] # Nonce[v]
        <4> SUFFICES ASSUME NEW a \in Accounts, NEW u \in q.pending[a], NEW v \in q.queue[a],
                            Nonce[u] = Nonce[v]
                     PROVE  FALSE
          OBVIOUS
        <4>1. a = s
          BY <1>6, <2>2
        <4>2. u \in p.pending[s] /\ Nonce[u] < Nonce[t]
          BY <2>3, <4>1
        <4>3. v \in p.pending[s] /\ Nonce[v] > Nonce[t]
          BY <1>6, <2>3, <4>1, <4>2
        <4> QED
          BY <1>4, <1>6, <4>2, <4>3
      <3> QED
        BY <2>1, <3>1, <3>4, <3>5, <3>6, <3>7, <3>8 DEF Shape
    <2>7. ASSUME Due(p) PROVE Due(q)
      <3> SUFFICES ASSUME NEW a \in Accounts
                   PROVE  /\ \A u \in q.pending[a] : Nonce[u] >= NextNonce(q, a)
                          /\ q.pending[a] = {} => q.nonces[a] = NextNonce(q, a)
                          /\ q.pending[a] # {} => /\ At(q.pending[a], NextNonce(q, a)) # {}
                                                  /\ q.nonces[a] > NextNonce(q, a)
        BY DEF Due
      <3>1. PICK n \in Nat : n = NextNonce(p, a) /\ NextNonce(q, a) = n
        BY <1>2, <2>1, NextNonceType DEF NextNonce
      <3>2. /\ \A u \in p.pending[a] : Nonce[u] >= n
            /\ p.pending[a] = {} => p.nonces[a] = n
            /\ p.pending[a] # {} => At(p.pending[a], n) # {} /\ p.nonces[a] > n
        BY <2>7, <3>1 DEF Due
      <3>3. CASE a # s
        BY <2>2, <3>1, <3>2, <3>3
      <3>4. CASE a = s
        <4>1. PICK f \in p.pending[s] : Nonce[f] = n
          BY <1>7, <3>2, <3>4 DEF At
        <4>2. p.nonces[s] \in Nat /\ p.nonces[s] > n /\ Nonce[t] >= n
          BY <1>3, <1>7, <3>2, <3>4
        <4>3. CASE Nonce[t] = n
          <5>1. q.pending[s] = {}
            BY <1>4, <2>3, <3>2, <3>4, <4>3
          <5>2. q.nonces[s] = n
            BY <2>4, <4>2, <4>3
          <5> QED
            BY <3>1, <3>4, <5>1, <5>2
        <4>4. CASE Nonce[t] # n
          <5>1. f \in q.pending[s]
            BY <1>6, <2>3, <4>1, <4>2, <4>4
          <5>2. q.nonces[s] > n
            BY <1>6, <2>4, <4>2, <4>4
          <5>3. \A u \in q.pending[s] : Nonce[u] >= n
            BY <2>3, <3>2, <3>4
          <5> QED
            BY <3>1, <3>4, <4>1, <5>1, <5>2, <5>3 DEF At
        <4> QED
          BY <4>3, <4>4
      <3> QED
        BY <3>3, <3>4
    <2>8. \A a \in Accounts : q.pending[a] \subseteq p.pending[a] /\ q.nonces[a] <= p.nonces[a]
      BY <1>3, <2>2, <2>3, <2>4
    <2> QED
      BY <1>1, <2>1, <2>2, <2>6, <2>7, <2>8
  <1>8. CASE t \notin p.pending[s]
    <2>1. /\ q \in Pools
          /\ q.all = p.all \ {t}
          /\ q.queue = [p.queue EXCEPT ![s] = p.queue[s] \ {t}]
          /\ q.pending = p.pending /\ q.nonces = p.nonces
          /\ q.owner = p.owner /\ q.head = p.head /\ q.changes = p.changes
      BY <1>1, <1>8, RemoveQueued
    <2>2. \A a \in Accounts : a # s => q.queue[a] = p.queue[a]
      BY <1>2, <2>1, PoolFields
    <2>3. q.queue[s] = p.queue[s] \ {t}
      BY <1>2, <2>1, PoolFields
    <2>4. Shape(q)
      <3>1. \A a \in Accounts : \A u \in q.pending[a] : u # t /\ From[u] = a /\ u \in q.all
        BY <1>1, <1>4, <1>8, <2>1
      <3>2. \A a \in Accounts : \A u \in q.queue[a] : u # t /\ u \in p.queue[a]
        BY <1>1, <1>5, <2>2, <2>3
      <3>3. \A a \in Accounts : \A u \in q.queue[a] : From[u] = a /\ u \in q.all
        BY <1>5, <2>1, <3>2
      <3>4. \A u \in q.all : u \in q.pending[From[u]] \/ u \in q.queue[From[u]]
        BY <1>6, <2>1, <2>2, <2>3
      <3> QED
        BY <1>6, <2>1, <3>1, <3>2, <3>3, <3>4 DEF Shape
    <2>5. Due(p) => Due(q)
      BY <2>1 DEF Due, NextNonce
    <2>6. \A a \in Accounts : q.pending[a] \subseteq p.pending[a] /\ q.nonces[a] <= p.nonces[a]
      BY <1>3, <2>1
    <2> QED
      BY <1>1, <2>1, <2>2, <2>4, <2>5, <2>6
  <1> QED
    BY <1>7, <1>8

-----------------------------------------------------------------------------
(* removeTx, and several removals under one lock.                          *)

Kept(p, q) ==
    /\ Shape(q)
    /\ q.all \subseteq p.all /\ q.head = p.head /\ q.changes = p.changes
    /\ \A a \in Accounts : q.pending[a] \subseteq p.pending[a] /\ q.nonces[a] <= p.nonces[a]
    /\ Due(p) => Due(q)
    /\ Owned(p) => Owned(q)

LEMMA ReleaseKeeps ==
    ASSUME NEW p, Shape(p), NEW A
    PROVE  Shape(Release(p, A)) /\ (Due(p) => Due(Release(p, A)))
  <1> DEFINE q == Release(p, A)
  <1>1. p \in Pools
    BY DEF Shape
  <1>2. /\ q \in Pools
        /\ q.pending = p.pending /\ q.queue = p.queue /\ q.all = p.all
        /\ q.nonces = p.nonces /\ q.head = p.head
    BY <1>1, ReleaseFields
  <1> HIDE DEF q
  <1>3. Shape(q)
    BY <1>2 DEF Shape
  <1>4. Due(p) => Due(q)
    BY <1>2 DEF Due, NextNonce
  <1> QED
    BY <1>3, <1>4 DEF q

LEMMA KeptReflexive ==
    ASSUME NEW p, Shape(p)
    PROVE  Kept(p, p)
  <1>1. \A a \in Accounts : p.nonces[a] \in Nat
    BY PoolFields DEF Shape
  <1> QED
    BY <1>1 DEF Kept

LEMMA RemoveTxKeeps ==
    ASSUME NEW p, Shape(p), NEW t \in Txs,
           NEW r, r = IF t \notin p.all THEN p ELSE Release(Unlist(p, t), {From[t]})
    PROVE  Kept(p, r)
  <1>3. CASE t \notin p.all
    <2>1. r = p
      BY <1>3
    <2> QED
      BY <2>1, KeptReflexive
  <1>4. CASE t \in p.all
    <2>1. PICK q : q = Unlist(p, t)
      OBVIOUS
    <2>2. PICK s \in Accounts : s = From[t]
      BY TxFacts
    <2>3. r = Release(q, {s})
      BY <1>4, <2>1, <2>2
    <2>4. /\ Shape(q) /\ q.all = p.all \ {t}
          /\ q.owner = p.owner /\ q.head = p.head /\ q.changes = p.changes
          /\ \A a \in Accounts :
                /\ q.pending[a] \subseteq p.pending[a] /\ q.nonces[a] <= p.nonces[a]
                /\ a # s => q.pending[a] = p.pending[a] /\ q.queue[a] = p.queue[a]
          /\ Due(p) => Due(q)
      BY <1>4, <2>1, <2>2, UnlistKeepsShape
    <2>5. q \in Pools
      BY <2>4 DEF Shape
    <2>6. Shape(r) /\ (Due(q) => Due(r))
      BY <2>3, <2>4, ReleaseKeeps
    <2>7. /\ r.pending = q.pending /\ r.queue = q.queue /\ r.all = q.all
          /\ r.nonces = q.nonces /\ r.head = q.head /\ r.changes = q.changes
          /\ \A a \in Accounts :
                r.owner[a] = IF a \in {s} /\ ~Tracked(q, a) /\ q.owner[a] = Legacy
                             THEN None ELSE q.owner[a]
      BY <2>3, <2>5, ReleaseFields
    <2>8. ASSUME Owned(p) PROVE Owned(r)
      <3> SUFFICES ASSUME NEW a \in Accounts
                   PROVE  (r.owner[a] = Legacy) <=> Tracked(r, a)
        BY DEF Owned
      <3>1. Tracked(r, a) <=> Tracked(q, a)
        BY <2>7 DEF Tracked
      <3>2. (p.owner[a] = Legacy) <=> Tracked(p, a)
        BY <2>8 DEF Owned
      <3>3. CASE a # s
        BY <2>4, <2>7, <3>1, <3>2, <3>3 DEF Tracked
      <3>4. CASE a = s
        <4>1. Tracked(p, a)
          BY <1>4, <2>2, <3>4 DEF Tracked, Shape
        <4> QED
          BY <2>4, <2>7, <3>1, <3>2, <3>4, <4>1, TxFacts
      <3> QED
        BY <3>3, <3>4
    <2> QED
      BY <2>4, <2>6, <2>7, <2>8 DEF Kept
  <1> QED
    BY <1>3, <1>4

LEMMA KeptTransitive ==
    ASSUME NEW p, Shape(p), NEW q, Kept(p, q), NEW r, Kept(q, r)
    PROVE  Kept(p, r)
  <1>1. \A a \in Accounts : p.nonces[a] \in Nat /\ q.nonces[a] \in Nat /\ r.nonces[a] \in Nat
    BY PoolFields DEF Kept, Shape
  <1>2. \A a \in Accounts : r.pending[a] \subseteq p.pending[a] /\ r.nonces[a] <= p.nonces[a]
    BY <1>1 DEF Kept
  <1> QED
    BY <1>2 DEF Kept

LEMMA RemoveAllKeeps ==
    ASSUME NEW p, Shape(p), NEW S \in SUBSET Txs
    PROVE  Kept(p, RemoveAll(p, S))
  <1> DEFINE V == {q \in Pools : Kept(p, q)}
             step == [x \in V \X S |-> RemoveTx(x[1], x[2], TRUE)]
             Eq(F) == F = [s \in SUBSET S |->
                             IF s = {} THEN p
                             ELSE RemoveTx(F[s \ {CHOOSE x \in s : TRUE}],
                                           CHOOSE x \in s : TRUE, TRUE)]
             f == CHOOSE F : Eq(F)
  <1>1. RemoveAll(p, S) = f[S]
    BY DEF RemoveAll, FoldSet, MapThenFoldSet
  <1>2. IsFiniteSet(S)
    BY TxFacts, FS_Subset
  <1>3. p \in V
    BY KeptReflexive DEF Shape
  <1>4. \A q \in V : \A t \in S : RemoveTx(q, t, TRUE) \in V
    <2> SUFFICES ASSUME NEW q \in V, NEW t \in S
                 PROVE  RemoveTx(q, t, TRUE) \in V
      OBVIOUS
    <2>1. PICK r : r = RemoveTx(q, t, TRUE)
      OBVIOUS
    <2>2. Kept(p, q) /\ Shape(q) /\ t \in Txs
      BY DEF Kept
    <2>3. Kept(q, r)
      <3>1. r = IF t \notin q.all THEN q ELSE Release(Unlist(q, t), {From[t]})
        BY <2>1 DEF RemoveTx
      <3> QED
        BY <2>2, <3>1, RemoveTxKeeps
    <2>4. Kept(p, r)
      BY <2>2, <2>3, KeptTransitive
    <2>5. r \in Pools
      BY <2>4 DEF Kept, Shape
    <2> QED
      BY <2>1, <2>4, <2>5
  <1>5. step \in [V \X S -> V]
    <2>1. \A x \in V \X S : RemoveTx(x[1], x[2], TRUE) \in V
      <3> HIDE DEF V
      <3> QED
        BY <1>4
    <2> HIDE DEF V
    <2> QED
      BY <2>1
  <1>6. \A q \in V, t \in S : step[<<q, t>>] = RemoveTx(q, t, TRUE)
    <2> HIDE DEF V
    <2> QED
      OBVIOUS
  <1> HIDE DEF V, step
  <1>7. PICK h \in [SUBSET S -> V] : IsSetFold(h, p, step, S)
    BY <1>2, <1>3, <1>5, SetFoldExists
  <1>8. \A s \in SUBSET S : s # {} => Pick(s) \in S /\ Rest(s) \in SUBSET S
    BY PickRest DEF Rest
  <1>9. Eq(h)
    <2>1. \A s \in SUBSET S : h[s] = IF s = {} THEN p ELSE RemoveTx(h[Rest(s)], Pick(s), TRUE)
      <3> SUFFICES ASSUME NEW s \in SUBSET S
                   PROVE  h[s] = IF s = {} THEN p ELSE RemoveTx(h[Rest(s)], Pick(s), TRUE)
        OBVIOUS
      <3>1. h[s] = IF s = {} THEN p ELSE step[<<h[Rest(s)], Pick(s)>>]
        BY <1>7 DEF IsSetFold
      <3>2. s # {} => h[Rest(s)] \in V /\ Pick(s) \in S
        BY <1>8
      <3> QED
        BY <1>6, <3>1, <3>2
    <2>2. h = [s \in SUBSET S |-> h[s]]
      OBVIOUS
    <2>3. h = [s \in SUBSET S |-> IF s = {} THEN p ELSE RemoveTx(h[Rest(s)], Pick(s), TRUE)]
      BY <2>1, <2>2
    <2> QED
      BY <2>3 DEF Rest, Pick
  <1>10. Eq(f)
    BY <1>9
  <1>11. \A s \in SUBSET S : f[s] = IF s = {} THEN p ELSE RemoveTx(f[Rest(s)], Pick(s), TRUE)
    <2> HIDE DEF f
    <2> QED
      BY <1>10 DEF Rest, Pick
  <1> HIDE DEF f
  <1>12. \A s \in SUBSET S : f[s] \in V
    <2>1. f[{}] \in V
      BY <1>3, <1>11
    <2>2. \A s \in SUBSET S : s # {} /\ f[Rest(s)] \in V => f[s] \in V
      BY <1>4, <1>8, <1>11
    <2> QED
      BY <1>2, <2>1, <2>2, SetFoldIn
  <1> QED
    BY <1>1, <1>12 DEF V

-----------------------------------------------------------------------------
(* add: room is made, the newcomer is put into a list.                     *)

LEMMA DroppedType == \A p \in Pools : \A d \in Txs : Dropped(p, d) \in Nat
  <1> SUFFICES ASSUME NEW p \in Pools, NEW d \in Txs PROVE Dropped(p, d) \in Nat
    OBVIOUS
  <1>1. {u \in p.pending[From[d]] : Nonce[u] >= Nonce[d]} \in SUBSET Txs
    BY TxFacts, PoolFields
  <1>2. Cardinality({u \in p.pending[From[d]] : Nonce[u] >= Nonce[d]}) \in Nat
    BY <1>1, TxFacts, FS_Subset, FS_CardinalityType
  <1> QED
    BY <1>2 DEF Dropped

LEMMA MakeRoomKeeps ==
    ASSUME NEW p, Shape(p), NEW t \in Txs, NEW d \in p.all, OwnedBut(p, From[t]),
           NEW q, q = MakeRoom(p, t, d)
    PROVE  /\ Shape(q) /\ q.all = p.all \ {d} /\ q.head = p.head
           /\ \A a \in Accounts : q.pending[a] \subseteq p.pending[a] /\ q.nonces[a] <= p.nonces[a]
           /\ Due(p) => Due(q)
           /\ OwnedBut(q, From[t])
  <1>1. PICK s \in Accounts : s = From[t]
    BY TxFacts
  <1>2. p \in Pools /\ d \in Txs
    BY PoolFields DEF Shape
  <1>3. PICK c \in Accounts : c = From[d]
    BY <1>2, TxFacts
  <1>4. PICK l : l = Unlist(p, d)
    OBVIOUS
  <1>5. PICK m : m = IF c # s THEN Release(l, {c}) ELSE l
    OBVIOUS
  <1>6. q = [m EXCEPT !.changes = @ + Dropped(p, d)]
    <2>1. RemoveTx(p, d, From[d] # From[t]) = m
      BY <1>1, <1>3, <1>4, <1>5 DEF RemoveTx
    <2> QED
      BY <2>1 DEF MakeRoom
  <1>7. /\ Shape(l) /\ l.all = p.all \ {d}
        /\ l.owner = p.owner /\ l.head = p.head /\ l.changes = p.changes
        /\ \A a \in Accounts :
              /\ l.pending[a] \subseteq p.pending[a] /\ l.nonces[a] <= p.nonces[a]
              /\ a # c => l.pending[a] = p.pending[a] /\ l.queue[a] = p.queue[a]
        /\ Due(p) => Due(l)
    BY <1>3, <1>4, UnlistKeepsShape
  <1>8. l \in Pools
    BY <1>7 DEF Shape
  <1>9. /\ m \in Pools /\ Shape(m) /\ (Due(l) => Due(m))
        /\ m.pending = l.pending /\ m.queue = l.queue /\ m.all = l.all
        /\ m.nonces = l.nonces /\ m.head = l.head /\ m.changes = l.changes
    <2>1. CASE c # s
      <3>1. m = Release(l, {c})
        BY <1>5, <2>1
      <3> QED
        BY <1>7, <1>8, <3>1, ReleaseFields, ReleaseKeeps
    <2>2. CASE c = s
      BY <1>5, <1>7, <1>8, <2>2
    <2> QED
      BY <2>1, <2>2
  <1>10. \A a \in Accounts :
            m.owner[a] = IF c # s /\ a = c /\ ~Tracked(l, a) /\ l.owner[a] = Legacy
                         THEN None ELSE l.owner[a]
    <2>1. CASE c # s
      <3>1. m = Release(l, {c})
        BY <1>5, <2>1
      <3> QED
        BY <1>8, <2>1, <3>1, ReleaseFields
    <2>2. CASE c = s
      BY <1>5, <2>2
    <2> QED
      BY <2>1, <2>2
  <1>11. /\ q \in Pools
         /\ q.pending = m.pending /\ q.queue = m.queue /\ q.all = m.all
         /\ q.nonces = m.nonces /\ q.head = m.head /\ q.owner = m.owner
    <2>1. m.changes + Dropped(p, d) \in Nat
      BY <1>2, <1>9, DroppedType, PoolFields
    <2> QED
      BY <1>6, <1>9, <2>1 DEF Pools
  <1>12. Shape(q)
    BY <1>9, <1>11 DEF Shape
  <1>13. Due(m) => Due(q)
    BY <1>11 DEF Due, NextNonce
  <1>14. OwnedBut(q, s)
    <2> SUFFICES ASSUME NEW a \in Accounts
                 PROVE  (q.owner[a] = Legacy) <=> (a = s \/ Tracked(q, a))
      BY DEF OwnedBut
    <2>1. (p.owner[a] = Legacy) <=> (a = s \/ Tracked(p, a))
      BY <1>1 DEF OwnedBut
    <2>2. Tracked(q, a) <=> Tracked(l, a)
      BY <1>9, <1>11 DEF Tracked
    <2>3. q.owner[a] = IF c # s /\ a = c /\ ~Tracked(l, a) /\ p.owner[a] = Legacy
                       THEN None ELSE p.owner[a]
      BY <1>7, <1>10, <1>11
    <2>4. a # c => (Tracked(l, a) <=> Tracked(p, a))
      BY <1>7 DEF Tracked
    <2>5. Tracked(p, c)
      BY <1>3 DEF Tracked, Shape
    <2> QED
      BY <2>1, <2>2, <2>3, <2>4, <2>5, TxFacts
  <1> QED
    BY <1>1, <1>7, <1>9, <1>11, <1>12, <1>13, <1>14

(* The outcome o of putting t into p.                                      *)
PutIn(p, t, o) ==
    /\ Shape(o.pool) /\ Fits(o.pool) /\ Owned(o.pool) /\ (Due(p) => Due(o.pool))
    /\ o.pool.head = p.head
    /\ o.dirty \subseteq Accounts /\ o.events \subseteq {t}
    /\ \A a \in Accounts : o.pool.nonces[a] <= p.nonces[a]
    /\ \A a \in Accounts : \A u \in o.pool.pending[a] : u \in p.pending[a] \/ u \in o.events
    /\ \A e \in o.events : e \in o.pool.pending[From[e]]
    /\ o.events # {} => \E u \in p.pending[From[t]] : Nonce[u] = Nonce[t]

LEMMA OutcomeFields ==
    \A p, dirty, events :
        LET o == Outcome(p, dirty, events)
        IN  o.pool = p /\ o.dirty = dirty /\ o.events = events
  BY DEF Outcome

LEMMA ShapeFacts ==
    ASSUME NEW p, Shape(p)
    PROVE  /\ p \in Pools
           /\ \A a \in Accounts : \A u \in p.pending[a] :
                 u \in Txs /\ Nonce[u] \in Nat /\ From[u] = a /\ u \in p.all
           /\ \A a \in Accounts : \A u \in p.queue[a] :
                 u \in Txs /\ Nonce[u] \in Nat /\ From[u] = a /\ u \in p.all
           /\ \A a \in Accounts : \A u, v \in p.pending[a] : Nonce[u] = Nonce[v] => u = v
           /\ \A a \in Accounts : \A u, v \in p.queue[a] : Nonce[u] = Nonce[v] => u = v
           /\ \A a \in Accounts : \A u \in p.pending[a], v \in p.queue[a] : Nonce[u] # Nonce[v]
           /\ \A u \in p.all : /\ From[u] \in Accounts
                               /\ u \in p.pending[From[u]] \/ u \in p.queue[From[u]]
  <1>1. p \in Pools
    BY DEF Shape
  <1> QED
    BY <1>1, TxFacts, PoolFields DEF Shape

(* The newcomer t in the place of the pending transaction f.               *)
InPlaceOf(p, q, t, f) ==
    /\ f \in p.pending[From[t]] /\ Nonce[f] = Nonce[t]
    /\ q.all = (p.all \ {f}) \cup {t} /\ q.queue = p.queue
    /\ q.pending[From[t]] = (p.pending[From[t]] \ {f}) \cup {t}
    /\ \A a \in Accounts : a # From[t] => q.pending[a] = p.pending[a]

LEMMA PendingReplaced ==
    ASSUME NEW p, Shape(p), NEW t \in Txs, t \notin p.all, NEW q \in Pools,
           NEW f, InPlaceOf(p, q, t, f)
    PROVE  Shape(q)
  <1> USE DEF InPlaceOf
  <1>1. PICK s \in Accounts : s = From[t]
    BY TxFacts
  <1>2. \A a \in Accounts : \A u \in q.pending[a] :
           \/ a = s /\ u = t
           \/ u \in p.pending[a] /\ u # f
    BY <1>1, ShapeFacts
  <1>3. \A a \in Accounts : \A u \in q.pending[a] : From[u] = a /\ u \in q.all
    BY <1>1, <1>2, ShapeFacts
  <1>4. \A a \in Accounts : \A u \in q.queue[a] : From[u] = a /\ u \in q.all
    BY <1>1, ShapeFacts
  <1>5. \A u \in q.all : u \in q.pending[From[u]] \/ u \in q.queue[From[u]]
    <2> SUFFICES ASSUME NEW u \in q.all
                 PROVE  u \in q.pending[From[u]] \/ u \in q.queue[From[u]]
      OBVIOUS
    <2>1. CASE u = t
      BY <1>1, <2>1
    <2>2. CASE u # t
      <3>1. u \in p.all /\ u # f
        BY <2>2
      <3> QED
        BY <1>1, <3>1, ShapeFacts
    <2> QED
      BY <2>1, <2>2
  <1>6. \A a \in Accounts : \A u, v \in q.pending[a] : Nonce[u] = Nonce[v] => u = v
    BY <1>1, <1>2, ShapeFacts
  <1>7. \A a \in Accounts : \A u \in q.pending[a], v \in q.queue[a] : Nonce[u] # Nonce[v]
    <2> SUFFICES ASSUME NEW a \in Accounts, NEW u \in q.pending[a], NEW v \in q.queue[a]
                 PROVE  Nonce[u] # Nonce[v]
      OBVIOUS
    <2>1. CASE a = s /\ u = t
      BY <1>1, <2>1, ShapeFacts
    <2>2. CASE u \in p.pending[a]
      BY <2>2, ShapeFacts
    <2> QED
      BY <1>2, <2>1, <2>2
  <1>8. \A a \in Accounts : \A u, v \in q.queue[a] : Nonce[u] = Nonce[v] => u = v
    BY ShapeFacts
  <1> QED
    BY <1>3, <1>4, <1>5, <1>6, <1>7, <1>8 DEF Shape

(* The newcomer t in the queue, where it may replace what had its nonce.   *)
Enqueued(p, q, t, F) ==
    /\ \A u \in p.pending[From[t]] : Nonce[u] # Nonce[t]
    /\ \A u : u \in F <=> u \in p.queue[From[t]] /\ Nonce[u] = Nonce[t]
    /\ q.all = (p.all \ F) \cup {t} /\ q.pending = p.pending
    /\ q.queue[From[t]] = (p.queue[From[t]] \ F) \cup {t}
    /\ \A a \in Accounts : a # From[t] => q.queue[a] = p.queue[a]

LEMMA QueuedNew ==
    ASSUME NEW p, Shape(p), NEW t \in Txs, t \notin p.all, NEW q \in Pools,
           NEW F, Enqueued(p, q, t, F)
    PROVE  Shape(q)
  <1> USE DEF Enqueued
  <1>1. PICK s \in Accounts : s = From[t]
    BY TxFacts
  <1>2. \A a \in Accounts : \A u \in q.queue[a] :
           \/ a = s /\ u = t
           \/ u \in p.queue[a] /\ u \notin F
    BY <1>1, ShapeFacts
  <1>3. \A a \in Accounts : \A u \in q.queue[a] : From[u] = a /\ u \in q.all
    BY <1>1, <1>2, ShapeFacts
  <1>4. \A a \in Accounts : \A u \in q.pending[a] : From[u] = a /\ u \in q.all
    BY <1>1, ShapeFacts
  <1>5. \A u \in q.all : u \in q.pending[From[u]] \/ u \in q.queue[From[u]]
    <2> SUFFICES ASSUME NEW u \in q.all
                 PROVE  u \in q.pending[From[u]] \/ u \in q.queue[From[u]]
      OBVIOUS
    <2>1. CASE u = t
      BY <1>1, <2>1
    <2>2. CASE u # t
      <3>1. u \in p.all /\ u \notin F
        BY <2>2
      <3> QED
        BY <1>1, <3>1, ShapeFacts
    <2> QED
      BY <2>1, <2>2
  <1>6. \A a \in Accounts : \A u, v \in q.queue[a] : Nonce[u] = Nonce[v] => u = v
    BY <1>1, <1>2, ShapeFacts
  <1>7. \A a \in Accounts : \A u \in q.pending[a], v \in q.queue[a] : Nonce[u] # Nonce[v]
    <2> SUFFICES ASSUME NEW a \in Accounts, NEW u \in q.pending[a], NEW v \in q.queue[a]
                 PROVE  Nonce[u] # Nonce[v]
      OBVIOUS
    <2>1. CASE a = s /\ v = t
      BY <1>1, <2>1, ShapeFacts
    <2>2. CASE v \in p.queue[a]
      BY <2>2, ShapeFacts
    <2> QED
      BY <1>2, <2>1, <2>2
  <1>8. \A a \in Accounts : \A u, v \in q.pending[a] : Nonce[u] = Nonce[v] => u = v
    BY ShapeFacts
  <1> QED
    BY <1>3, <1>4, <1>5, <1>6, <1>7, <1>8 DEF Shape

(* The index with one more transaction still fits.                         *)
LEMMA OneMoreFits ==
    ASSUME NEW p \in Pools, Cardinality(p.all) + 1 <= GlobalSlots + GlobalQueue,
           NEW t \in Txs, NEW q \in Pools, q.all \subseteq p.all \cup {t}
    PROVE  Fits(q)
  <1>1. IsFiniteSet(p.all)
    BY TxFacts, PoolFields, FS_Subset
  <1>2. /\ IsFiniteSet(p.all \cup {t}) /\ Cardinality(p.all) \in Nat
        /\ Cardinality(p.all \cup {t}) \in {Cardinality(p.all), Cardinality(p.all) + 1}
    BY <1>1, FS_AddElement, FS_CardinalityType
  <1>3. q.all \in SUBSET (p.all \cup {t})
    OBVIOUS
  <1>4. /\ Cardinality(q.all) <= Cardinality(p.all \cup {t})
        /\ Cardinality(q.all) \in Nat
    BY <1>2, <1>3, FS_Subset, FS_CardinalityType
  <1> QED
    BY <1>2, <1>4, TxFacts DEF Fits

LEMMA InsertKeeps ==
    ASSUME NEW p, Shape(p), NEW t \in Txs, t \notin p.all,
           Cardinality(p.all) + 1 <= GlobalSlots + GlobalQueue,
           OwnedBut(p, From[t]), NEW o, o = Insert(p, t)
    PROVE  PutIn(p, t, o)
  <1>1. PICK s \in Accounts : s = From[t]
    BY TxFacts
  <1>2. p \in Pools /\ \A a \in Accounts : p.nonces[a] \in Nat
    BY PoolFields DEF Shape
  <1>3. p.pending[s] \in SUBSET Txs /\ p.queue[s] \in SUBSET Txs
    BY <1>2, PoolFields
  <1>4. \A a \in Accounts : (p.owner[a] = Legacy) <=> (a = s \/ Tracked(p, a))
    BY <1>1 DEF OwnedBut
  <1> DEFINE inPending == At(p.pending[s], Nonce[t]) # {}
             list == IF inPending THEN p.pending[s] ELSE p.queue[s]
             all  == (p.all \ Replaced(list, {t})) \cup {t}
             new  == Inserted(list, {t})
  <1>5. o = IF ~Wins(list, t) THEN Outcome(Release(p, {s}), {}, {})
            ELSE IF inPending
            THEN Outcome([p EXCEPT !.pending[s] = new, !.all = all], {}, {t})
            ELSE Outcome([p EXCEPT !.queue[s] = new, !.all = all],
                         IF Replaced(list, {t}) = {} THEN {s} ELSE {}, {})
    BY <1>1 DEF Insert
  <1>6. CASE ~Wins(list, t)
    <2>1. PICK r : r = Release(p, {s})
      OBVIOUS
    <2>2. o.pool = r /\ o.dirty = {} /\ o.events = {}
      BY <1>5, <1>6, <2>1, OutcomeFields
    <2>3. Shape(r) /\ (Due(p) => Due(r))
      BY <2>1, ReleaseKeeps
    <2>4. /\ r \in Pools
          /\ r.pending = p.pending /\ r.queue = p.queue /\ r.all = p.all
          /\ r.nonces = p.nonces /\ r.head = p.head
          /\ \A a \in Accounts :
                r.owner[a] = IF a \in {s} /\ ~Tracked(p, a) /\ p.owner[a] = Legacy
                             THEN None ELSE p.owner[a]
      BY <1>2, <2>1, ReleaseFields
    <2>5. Owned(r)
      <3> SUFFICES ASSUME NEW a \in Accounts PROVE (r.owner[a] = Legacy) <=> Tracked(r, a)
        BY DEF Owned
      <3>1. Tracked(r, a) <=> Tracked(p, a)
        BY <2>4 DEF Tracked
      <3> QED
        BY <1>4, <2>4, <3>1, TxFacts
    <2>6. Fits(r)
      <3>1. r.all \subseteq p.all \cup {t}
        BY <2>4
      <3> QED
        BY <1>2, <2>4, <3>1, OneMoreFits
    <2> HIDE DEF list
    <2> QED
      BY <1>2, <2>2, <2>3, <2>4, <2>5, <2>6 DEF PutIn
  <1>7. CASE Wins(list, t) /\ inPending
    <2>1. PICK f \in p.pending[s] : Nonce[f] = Nonce[t]
      BY <1>7 DEF At
    <2>2. At(p.pending[s], Nonce[t]) = {f}
      BY <2>1, ShapeFacts DEF At
    <2>3. /\ Replaced(p.pending[s], {t}) = {f}
          /\ Inserted(p.pending[s], {t}) = (p.pending[s] \ {f}) \cup {t}
      BY <1>3, <1>7, <2>2, OneInserted
    <2>4. PICK q : q = [p EXCEPT !.pending[s] = (p.pending[s] \ {f}) \cup {t},
                                 !.all = (p.all \ {f}) \cup {t}]
      OBVIOUS
    <2>5. o = Outcome(q, {}, {t})
      BY <1>5, <1>7, <2>3, <2>4
    <2>6. o.pool = q /\ o.dirty = {} /\ o.events = {t}
      BY <2>5, OutcomeFields
    <2>7. (p.pending[s] \ {f}) \cup {t} \in SUBSET Txs /\ (p.all \ {f}) \cup {t} \in SUBSET Txs
      BY <1>2, <1>3, PoolFields
    <2> HIDE DEF inPending, list, all, new
    <2>8. /\ q \in Pools
          /\ q.pending = [p.pending EXCEPT ![s] = (p.pending[s] \ {f}) \cup {t}]
          /\ q.queue = p.queue /\ q.all = (p.all \ {f}) \cup {t}
          /\ q.nonces = p.nonces /\ q.owner = p.owner /\ q.head = p.head
      BY <1>2, <2>4, <2>7 DEF Pools
    <2>9. /\ q.pending[s] = (p.pending[s] \ {f}) \cup {t}
          /\ \A a \in Accounts : a # s => q.pending[a] = p.pending[a]
      BY <1>2, <2>8, PoolFields
    <2>10. Shape(q)
      <3>1. InPlaceOf(p, q, t, f)
        BY <1>1, <2>1, <2>8, <2>9 DEF InPlaceOf
      <3> QED
        BY <2>8, <3>1, PendingReplaced
    <2>11. Fits(q)
      <3>1. q.all \subseteq p.all \cup {t}
        BY <2>8
      <3> QED
        BY <1>2, <2>8, <3>1, OneMoreFits
    <2>12. Owned(q)
      <3> SUFFICES ASSUME NEW a \in Accounts PROVE (q.owner[a] = Legacy) <=> Tracked(q, a)
        BY DEF Owned
      <3>1. Tracked(q, s) /\ (a # s => (Tracked(q, a) <=> Tracked(p, a)))
        BY <2>8, <2>9 DEF Tracked
      <3> QED
        BY <1>4, <2>8, <3>1
    <2>13. ASSUME Due(p) PROVE Due(q)
      <3> SUFFICES ASSUME NEW a \in Accounts
                   PROVE  /\ \A u \in q.pending[a] : Nonce[u] >= NextNonce(q, a)
                          /\ q.pending[a] = {} => q.nonces[a] = NextNonce(q, a)
                          /\ q.pending[a] # {} => /\ At(q.pending[a], NextNonce(q, a)) # {}
                                                  /\ q.nonces[a] > NextNonce(q, a)
        BY DEF Due
      <3>1. PICK n \in Nat : n = NextNonce(p, a) /\ NextNonce(q, a) = n
        BY <1>2, <2>8, NextNonceType DEF NextNonce
      <3>2. /\ \A u \in p.pending[a] : Nonce[u] >= n
            /\ p.pending[a] = {} => p.nonces[a] = n
            /\ p.pending[a] # {} => At(p.pending[a], n) # {} /\ p.nonces[a] > n
        BY <2>13, <3>1 DEF Due
      <3>3. CASE a # s
        BY <2>8, <2>9, <3>1, <3>2, <3>3
      <3>4. CASE a = s
        <4>1. PICK g \in p.pending[s] : Nonce[g] = n
          BY <2>1, <3>2, <3>4 DEF At
        <4>2. At(q.pending[s], n) # {}
          BY <2>1, <2>9, <4>1 DEF At
        <4>3. \A u \in q.pending[s] : Nonce[u] >= n
          BY <2>1, <2>9, <3>2, <3>4
        <4> QED
          BY <2>1, <2>8, <3>1, <3>2, <3>4, <4>2, <4>3 DEF At
      <3> QED
        BY <3>3, <3>4
    <2>14. \A a \in Accounts : \A u \in q.pending[a] : u \in p.pending[a] \/ u \in {t}
      BY <2>9
    <2>15. t \in q.pending[From[t]] /\ \E u \in p.pending[From[t]] : Nonce[u] = Nonce[t]
      BY <1>1, <2>1, <2>9
    <2> QED
      BY <1>2, <2>6, <2>8, <2>10, <2>11, <2>12, <2>13, <2>14, <2>15 DEF PutIn
  <1>8. CASE Wins(list, t) /\ ~inPending
    <2> DEFINE F == At(p.queue[s], Nonce[t])
               Q == (p.queue[s] \ F) \cup {t}
    <2>1. \A u : u \in F <=> u \in p.queue[s] /\ Nonce[u] = Nonce[t]
      BY DEF At
    <2>2. \A u \in p.pending[s] : Nonce[u] # Nonce[t]
      BY <1>8 DEF At
    <2>3. Replaced(p.queue[s], {t}) = F /\ Inserted(p.queue[s], {t}) = Q
      BY <1>3, <1>8, OneInserted
    <2> HIDE DEF F
    <2>4. PICK q : q = [p EXCEPT !.queue[s] = Q, !.all = (p.all \ F) \cup {t}]
      OBVIOUS
    <2>5. o = Outcome(q, IF F = {} THEN {s} ELSE {}, {})
      BY <1>5, <1>8, <2>3, <2>4
    <2>6. o.pool = q /\ o.dirty \subseteq Accounts /\ o.events = {}
      BY <2>5, OutcomeFields
    <2>7. Q \in SUBSET Txs /\ (p.all \ F) \cup {t} \in SUBSET Txs
      BY <1>2, <1>3, PoolFields
    <2> HIDE DEF inPending, list, all, new, Q
    <2>8. /\ q \in Pools
          /\ q.queue = [p.queue EXCEPT ![s] = Q]
          /\ q.pending = p.pending /\ q.all = (p.all \ F) \cup {t}
          /\ q.nonces = p.nonces /\ q.owner = p.owner /\ q.head = p.head
      BY <1>2, <2>4, <2>7 DEF Pools
    <2>9. /\ q.queue[s] = (p.queue[s] \ F) \cup {t}
          /\ \A a \in Accounts : a # s => q.queue[a] = p.queue[a]
      BY <1>2, <2>8, PoolFields DEF Q
    <2>10. Shape(q)
      <3>1. Enqueued(p, q, t, F)
        BY <1>1, <2>1, <2>2, <2>8, <2>9 DEF Enqueued
      <3> QED
        BY <2>8, <3>1, QueuedNew
    <2>11. Fits(q)
      <3>1. q.all \subseteq p.all \cup {t}
        BY <2>8
      <3> QED
        BY <1>2, <2>8, <3>1, OneMoreFits
    <2>12. Owned(q)
      <3> SUFFICES ASSUME NEW a \in Accounts PROVE (q.owner[a] = Legacy) <=> Tracked(q, a)
        BY DEF Owned
      <3>1. Tracked(q, s) /\ (a # s => (Tracked(q, a) <=> Tracked(p, a)))
        BY <2>8, <2>9 DEF Tracked
      <3> QED
        BY <1>4, <2>8, <3>1
    <2>13. Due(p) => Due(q)
      BY <2>8 DEF Due, NextNonce
    <2> QED
      BY <1>2, <2>6, <2>8, <2>10, <2>11, <2>12, <2>13 DEF PutIn
  <1> QED
    BY <1>6, <1>7, <1>8

LEMMA PutInAfter ==
    ASSUME NEW p, Shape(p), NEW m, Shape(m), m.head = p.head, NEW t \in Txs,
           \A a \in Accounts : m.pending[a] \subseteq p.pending[a] /\ m.nonces[a] <= p.nonces[a],
           Due(p) => Due(m), NEW o, PutIn(m, t, o)
    PROVE  PutIn(p, t, o)
  <1>1. \A a \in Accounts : /\ p.nonces[a] \in Nat /\ m.nonces[a] \in Nat
                            /\ o.pool.nonces[a] \in Nat
    BY PoolFields DEF PutIn, Shape
  <1>2. \A a \in Accounts : o.pool.nonces[a] <= p.nonces[a]
    BY <1>1 DEF PutIn
  <1>3. From[t] \in Accounts
    BY TxFacts
  <1> QED
    BY <1>2, <1>3 DEF PutIn

LEMMA AddKeeps ==
    ASSUME NEW p, Shape(p), Fits(p), Owned(p), NEW t \in Txs, NEW o \in Add(p, t)
    PROVE  PutIn(p, t, o)
  <1>1. PICK s \in Accounts : s = From[t]
    BY TxFacts
  <1>2. p \in Pools /\ \A a \in Accounts : p.nonces[a] \in Nat
    BY PoolFields DEF Shape
  <1>3. PICK q : q = [p EXCEPT !.owner[s] = Legacy]
    OBVIOUS
  <1>4. /\ q \in Pools /\ q.owner = [p.owner EXCEPT ![s] = Legacy]
        /\ q.pending = p.pending /\ q.queue = p.queue /\ q.all = p.all
        /\ q.nonces = p.nonces /\ q.head = p.head /\ q.changes = p.changes
    <2>1. [p.owner EXCEPT ![s] = Legacy] \in [Accounts -> {None, Legacy, Other}]
      BY <1>2, PoolFields
    <2> QED
      BY <1>2, <1>3, <2>1 DEF Pools
  <1>5. Shape(q)
    BY <1>4 DEF Shape
  <1>6. Due(p) => Due(q)
    BY <1>4 DEF Due, NextNonce
  <1>7. OwnedBut(q, s)
    <2> SUFFICES ASSUME NEW a \in Accounts
                 PROVE  (q.owner[a] = Legacy) <=> (a = s \/ Tracked(q, a))
      BY DEF OwnedBut
    <2>1. Tracked(q, a) <=> Tracked(p, a)
      BY <1>4 DEF Tracked
    <2>2. q.owner[a] = IF a = s THEN Legacy ELSE p.owner[a]
      BY <1>2, <1>4, PoolFields
    <2> QED
      BY <2>1, <2>2 DEF Owned
  <1>8. \/ o = Outcome(p, {}, {})
        \/ t \notin p.all /\ ~Full(p) /\ o = Insert(q, t)
        \/ t \notin p.all /\ \E d \in p.all : o = Insert(MakeRoom(q, t, d), t)
    BY <1>1, <1>3 DEF Add
  <1>9. CASE o = Outcome(p, {}, {})
    <2>1. o.pool = p /\ o.dirty = {} /\ o.events = {}
      BY <1>9, OutcomeFields
    <2> QED
      BY <1>2, <2>1 DEF PutIn
  <1>10. IsFiniteSet(p.all) /\ Cardinality(p.all) \in Nat
    BY <1>2, TxFacts, PoolFields, FS_Subset, FS_CardinalityType
  <1>11. CASE t \notin p.all /\ ~Full(p) /\ o = Insert(q, t)
    <2>1. Cardinality(q.all) + 1 <= GlobalSlots + GlobalQueue
      BY <1>4, <1>10, <1>11, TxFacts DEF Full
    <2>2. PutIn(q, t, o)
      BY <1>1, <1>4, <1>5, <1>7, <1>11, <2>1, InsertKeeps
    <2> QED
      BY <1>2, <1>4, <1>5, <1>6, <2>2, PutInAfter
  <1>12. CASE t \notin p.all /\ \E d \in p.all : o = Insert(MakeRoom(q, t, d), t)
    <2>1. PICK d \in p.all : o = Insert(MakeRoom(q, t, d), t)
      BY <1>12
    <2>2. PICK m : m = MakeRoom(q, t, d)
      OBVIOUS
    <2>3. /\ Shape(m) /\ m.all = q.all \ {d} /\ m.head = q.head
          /\ \A a \in Accounts : m.pending[a] \subseteq q.pending[a] /\ m.nonces[a] <= q.nonces[a]
          /\ Due(q) => Due(m)
          /\ OwnedBut(m, From[t])
      BY <1>1, <1>4, <1>5, <1>7, <2>1, <2>2, MakeRoomKeeps
    <2>4. Cardinality(m.all) + 1 <= GlobalSlots + GlobalQueue
      <3>1. PICK S : S = p.all
        OBVIOUS
      <3>2. IsFiniteSet(S) /\ d \in S /\ m.all = S \ {d}
        BY <1>4, <1>10, <2>1, <2>3, <3>1
      <3>3. Cardinality(m.all) = Cardinality(S) - 1
        BY <3>2, FS_RemoveElement
      <3> QED
        BY <1>10, <3>1, <3>3, TxFacts DEF Fits
    <2>5. t \notin m.all
      BY <1>4, <1>12, <2>3
    <2>6. PutIn(m, t, o)
      BY <2>1, <2>2, <2>3, <2>4, <2>5, InsertKeeps
    <2>7. /\ m.head = p.head /\ (Due(p) => Due(m))
          /\ \A a \in Accounts : m.pending[a] \subseteq p.pending[a] /\ m.nonces[a] <= p.nonces[a]
      BY <1>4, <1>6, <2>3
    <2> QED
      BY <2>3, <2>6, <2>7, PutInAfter
  <1> QED
    BY <1>8, <1>9, <1>11, <1>12

-----------------------------------------------------------------------------
(* promoteExecutables: part of a queue moves to the pending list.          *)

LEMMA PromotedFacts ==
    ASSUME NEW p, Shape(p), NEW a \in Accounts
    PROVE  /\ Promoted(p, a) \subseteq p.queue[a] /\ Waiting(p, a) \subseteq p.queue[a]
           /\ Promoted(p, a) \cap Waiting(p, a) = {}
           /\ Replaced(p.pending[a], Promoted(p, a)) = {}
           /\ Inserted(p.pending[a], Promoted(p, a)) = p.pending[a] \cup Promoted(p, a)
           /\ \A t \in Promoted(p, a) : Nonce[t] >= NextNonce(p, a)
           /\ Promoted(p, a) # {} /\ p.nonces[a] = NextNonce(p, a) =>
                 At(Promoted(p, a), NextNonce(p, a)) # {}
  <1> DEFINE L == Live(p, a)
             R == Ready(L, p.nonces[a])
  <1>1. p.pending[a] \in SUBSET Txs /\ p.queue[a] \in SUBSET Txs /\ p.nonces[a] \in Nat
    BY PoolFields DEF Shape
  <1>2. L \in SUBSET p.queue[a] /\ \A t \in L : Nonce[t] >= NextNonce(p, a)
    BY DEF Live
  <1>3. R \in SUBSET L /\ (R # {} => L # {} /\ ~(MinNonce(L) > p.nonces[a]))
    BY <1>1, <1>2, ReadyIsPart
  <1>4. Promoted(p, a) = Winners(p.pending[a], R)
    BY DEF Promoted
  <1>5. Waiting(p, a) \subseteq L \ R
    BY CapIsPart DEF Waiting
  <1>6. R # {} /\ p.nonces[a] = NextNonce(p, a) => At(R, NextNonce(p, a)) # {}
    <2> SUFFICES ASSUME R # {}, p.nonces[a] = NextNonce(p, a)
                 PROVE  At(R, NextNonce(p, a)) # {}
      OBVIOUS
    <2>1. L \in SUBSET Txs /\ L # {} /\ ~(MinNonce(L) > p.nonces[a])
      BY <1>1, <1>2, <1>3
    <2>2. PICK m \in L : Nonce[m] = MinNonce(L) /\ MinNonce(L) \in Nat
      BY <2>1, NonceBounds
    <2>3. Nonce[m] = NextNonce(p, a)
      BY <1>1, <1>2, <2>1, <2>2
    <2>4. \A n \in MinNonce(L) .. Nonce[m] : At(L, n) # {}
      BY <2>2 DEF At
    <2>5. m \in R
      BY <2>1, <2>2, <2>4 DEF Ready
    <2> QED
      BY <2>3, <2>5 DEF At
  <1> HIDE DEF L, R
  <1>7. \A t \in R : \A u \in p.pending[a] : Nonce[t] # Nonce[u]
    BY <1>2, <1>3, ShapeFacts
  <1>8. R \in SUBSET Txs
    BY <1>1, <1>2, <1>3
  <1>9. /\ Winners(p.pending[a], R) = R /\ Replaced(p.pending[a], R) = {}
        /\ Inserted(p.pending[a], R) = p.pending[a] \cup R
    BY <1>1, <1>7, <1>8, NothingReplaced
  <1> QED
    BY <1>2, <1>3, <1>4, <1>5, <1>6, <1>9

LEMMA PromoteKeeps ==
    ASSUME NEW p, Shape(p), NEW A \in SUBSET Accounts, NEW q, q = PromoteExecutables(p, A)
    PROVE  /\ Shape(q) /\ q.all \subseteq p.all /\ q.head = p.head /\ q.changes = p.changes
           /\ Owned(p) => Owned(q)
           /\ Due(p) => Due(q)
           /\ \A a \in Accounts : \A u \in q.pending[a] :
                 u \in p.pending[a] \/ (a \in A /\ u \in Promoted(p, a))
           /\ \A a \in A : Promoted(p, a) \subseteq q.pending[a]
  <1> DEFINE B == {a \in A : p.queue[a] # {}}
             gone == UNION {(p.queue[a] \ (Waiting(p, a) \cup Promoted(p, a)))
                              \cup Replaced(p.pending[a], Promoted(p, a)) : a \in B}
             qs == [a \in Accounts |-> IF a \in B THEN Waiting(p, a) ELSE p.queue[a]]
             ps == [a \in Accounts |->
                      IF a \in B THEN Inserted(p.pending[a], Promoted(p, a)) ELSE p.pending[a]]
             ns == [a \in Accounts |->
                      IF a \in B /\ Promoted(p, a) # {} THEN MaxNonce(Promoted(p, a)) + 1
                      ELSE p.nonces[a]]
             r == [p EXCEPT !.all = @ \ gone, !.queue = qs, !.pending = ps, !.nonces = ns]
  <1>1. q = Release(r, B)
    BY DEF PromoteExecutables
  <1>2. p \in Pools
    BY DEF Shape
  <1>3. \A a \in Accounts : /\ p.pending[a] \in SUBSET Txs /\ p.queue[a] \in SUBSET Txs
                            /\ p.nonces[a] \in Nat
    BY <1>2, PoolFields
  <1>4. \A a \in Accounts :
           /\ Promoted(p, a) \subseteq p.queue[a] /\ Waiting(p, a) \subseteq p.queue[a]
           /\ Promoted(p, a) \cap Waiting(p, a) = {}
           /\ Replaced(p.pending[a], Promoted(p, a)) = {}
           /\ Inserted(p.pending[a], Promoted(p, a)) = p.pending[a] \cup Promoted(p, a)
    BY PromotedFacts
  <1>5. \A a \in Accounts :
           Promoted(p, a) # {} => /\ MaxNonce(Promoted(p, a)) \in Nat
                                  /\ \A t \in Promoted(p, a) : Nonce[t] <= MaxNonce(Promoted(p, a))
    <2> SUFFICES ASSUME NEW a \in Accounts, Promoted(p, a) # {}
                 PROVE  /\ MaxNonce(Promoted(p, a)) \in Nat
                        /\ \A t \in Promoted(p, a) : Nonce[t] <= MaxNonce(Promoted(p, a))
      OBVIOUS
    <2>1. Promoted(p, a) \in SUBSET Txs
      BY <1>3, <1>4
    <2> QED
      BY <2>1, NonceBounds
  <1>6. B \in SUBSET Accounts
    OBVIOUS
  <1>7. \A u : u \in gone <=> \E a \in B : /\ u \in p.queue[a] /\ u \notin Waiting(p, a)
                                           /\ u \notin Promoted(p, a)
    BY <1>4, <1>6
  <1>8. /\ \A a \in Accounts : qs[a] = IF a \in B THEN Waiting(p, a) ELSE p.queue[a]
        /\ \A a \in Accounts : ps[a] = IF a \in B THEN p.pending[a] \cup Promoted(p, a)
                                       ELSE p.pending[a]
        /\ \A a \in Accounts : ns[a] = IF a \in B /\ Promoted(p, a) # {}
                                       THEN MaxNonce(Promoted(p, a)) + 1 ELSE p.nonces[a]
    BY <1>4
  <1>9. \A a \in A : a \notin B => Promoted(p, a) = {}
    BY <1>4
  <1>10. /\ qs \in [Accounts -> SUBSET Txs] /\ ps \in [Accounts -> SUBSET Txs]
         /\ ns \in [Accounts -> Nat]
    <2>1. qs \in [Accounts -> SUBSET Txs]
      BY <1>3, <1>4
    <2>2. ps \in [Accounts -> SUBSET Txs]
      BY <1>3, <1>4
    <2>3. ns \in [Accounts -> Nat]
      BY <1>3, <1>5
    <2> QED
      BY <2>1, <2>2, <2>3
  <1>11. \A a \in B : p.queue[a] # {} /\ a \in A
    OBVIOUS
  <1>12. \A a \in A : p.queue[a] # {} => a \in B
    OBVIOUS
  <1> HIDE DEF B, gone, qs, ps, ns
  <1>13. /\ r \in Pools /\ r.all = p.all \ gone /\ r.queue = qs /\ r.pending = ps
         /\ r.nonces = ns /\ r.owner = p.owner /\ r.head = p.head /\ r.changes = p.changes
    BY <1>2, <1>10 DEF Pools
  <1> HIDE DEF r
  <1>14. \A a \in Accounts : \A u \in r.pending[a] :
            u \in p.pending[a] \/ (a \in B /\ u \in Promoted(p, a) /\ u \in p.queue[a])
    BY <1>4, <1>8, <1>13
  <1>15. \A a \in Accounts : \A u \in r.queue[a] :
            u \in p.queue[a] /\ (a \in B => u \in Waiting(p, a) /\ u \notin Promoted(p, a))
    BY <1>4, <1>8, <1>13
  <1>16. Shape(r)
    <2>1. \A a \in Accounts : \A u \in r.pending[a] : From[u] = a /\ u \in r.all
      <3> SUFFICES ASSUME NEW a \in Accounts, NEW u \in r.pending[a]
                   PROVE  From[u] = a /\ u \in r.all
        OBVIOUS
      <3>1. From[u] = a /\ u \in p.all
        BY <1>14, ShapeFacts
      <3>2. u \notin gone
        <4> SUFFICES ASSUME NEW b \in B, u \in p.queue[b], u \notin Promoted(p, b) PROVE FALSE
          BY <1>7
        <4>1. b = a
          BY <1>6, <3>1, ShapeFacts
        <4>2. u \in p.pending[a]
          BY <1>14, <4>1
        <4> QED
          BY <1>6, <4>1, <4>2, ShapeFacts
      <3> QED
        BY <1>13, <3>1, <3>2
    <2>2. \A a \in Accounts : \A u \in r.queue[a] : From[u] = a /\ u \in r.all
      <3> SUFFICES ASSUME NEW a \in Accounts, NEW u \in r.queue[a]
                   PROVE  From[u] = a /\ u \in r.all
        OBVIOUS
      <3>1. From[u] = a /\ u \in p.all
        BY <1>15, ShapeFacts
      <3>2. u \notin gone
        <4> SUFFICES ASSUME NEW b \in B, u \in p.queue[b], u \notin Waiting(p, b) PROVE FALSE
          BY <1>7
        <4>1. b = a
          BY <1>6, <3>1, ShapeFacts
        <4> QED
          BY <1>15, <4>1
      <3> QED
        BY <1>13, <3>1, <3>2
    <2>3. \A u \in r.all : u \in r.pending[From[u]] \/ u \in r.queue[From[u]]
      <3> SUFFICES ASSUME NEW u \in r.all
                   PROVE  u \in r.pending[From[u]] \/ u \in r.queue[From[u]]
        OBVIOUS
      <3>1. u \in p.all /\ u \notin gone
        BY <1>13
      <3>2. PICK a \in Accounts : a = From[u] /\ (u \in p.pending[a] \/ u \in p.queue[a])
        BY <3>1, ShapeFacts
      <3>3. CASE u \in p.pending[a]
        BY <1>8, <1>13, <3>2, <3>3
      <3>4. CASE u \in p.queue[a] /\ a \notin B
        BY <1>8, <1>13, <3>2, <3>4
      <3>5. CASE u \in p.queue[a] /\ a \in B
        BY <1>7, <1>8, <1>13, <3>1, <3>2, <3>5
      <3> QED
        BY <3>2, <3>3, <3>4, <3>5
    <2>4. \A a \in Accounts : \A u, v \in r.pending[a] : Nonce[u] = Nonce[v] => u = v
      BY <1>14, ShapeFacts
    <2>5. \A a \in Accounts : \A u, v \in r.queue[a] : Nonce[u] = Nonce[v] => u = v
      BY <1>15, ShapeFacts
    <2>6. \A a \in Accounts : \A u \in r.pending[a], v \in r.queue[a] : Nonce[u] # Nonce[v]
      <3> SUFFICES ASSUME NEW a \in Accounts, NEW u \in r.pending[a], NEW v \in r.queue[a],
                          Nonce[u] = Nonce[v]
                   PROVE  FALSE
        OBVIOUS
      <3>1. v \in p.queue[a]
        BY <1>15
      <3>2. u \notin p.pending[a]
        BY <3>1, ShapeFacts
      <3>3. a \in B /\ u \in Promoted(p, a) /\ u \in p.queue[a]
        BY <1>14, <3>2
      <3>4. u = v
        BY <3>1, <3>3, ShapeFacts
      <3> QED
        BY <1>15, <3>3, <3>4
    <2> QED
      BY <1>13, <2>1, <2>2, <2>3, <2>4, <2>5, <2>6 DEF Shape
  <1>17. Due(p) => Due(r)
    <2> SUFFICES ASSUME Due(p), NEW a \in Accounts
                 PROVE  /\ \A u \in r.pending[a] : Nonce[u] >= NextNonce(r, a)
                        /\ r.pending[a] = {} => r.nonces[a] = NextNonce(r, a)
                        /\ r.pending[a] # {} => /\ At(r.pending[a], NextNonce(r, a)) # {}
                                                /\ r.nonces[a] > NextNonce(r, a)
      BY DEF Due
    <2>1. PICK n \in Nat : n = NextNonce(p, a) /\ NextNonce(r, a) = n
      BY <1>2, <1>13, NextNonceType DEF NextNonce
    <2>2. /\ \A u \in p.pending[a] : Nonce[u] >= n
          /\ p.pending[a] = {} => p.nonces[a] = n
          /\ p.pending[a] # {} => At(p.pending[a], n) # {} /\ p.nonces[a] > n
      BY <2>1 DEF Due
    <2>3. CASE a \notin B \/ Promoted(p, a) = {}
      <3>1. r.pending[a] = p.pending[a] /\ r.nonces[a] = p.nonces[a]
        BY <1>8, <1>13, <2>3
      <3> QED
        BY <2>1, <2>2, <3>1
    <2>4. CASE a \in B /\ Promoted(p, a) # {}
      <3>1. /\ r.pending[a] = p.pending[a] \cup Promoted(p, a)
            /\ r.nonces[a] = MaxNonce(Promoted(p, a)) + 1
        BY <1>8, <1>13, <2>4
      <3>2. \A t \in Promoted(p, a) : Nonce[t] >= n
        BY <2>1, PromotedFacts
      <3>3. At(r.pending[a], n) # {}
        <4>1. CASE p.pending[a] = {}
          <5>1. At(Promoted(p, a), n) # {}
            BY <2>1, <2>2, <2>4, <4>1, PromotedFacts
          <5> QED
            BY <3>1, <5>1 DEF At
        <4>2. CASE p.pending[a] # {}
          BY <2>2, <3>1, <4>2 DEF At
        <4> QED
          BY <4>1, <4>2
      <3>4. r.nonces[a] > n
        <4>1. PICK t \in Promoted(p, a) : TRUE
          BY <2>4
        <4>2. /\ Nonce[t] \in Nat /\ Nonce[t] >= n /\ Nonce[t] <= MaxNonce(Promoted(p, a))
              /\ MaxNonce(Promoted(p, a)) \in Nat
          BY <1>4, <1>5, <3>2, <4>1, ShapeFacts
        <4> QED
          BY <3>1, <4>2
      <3>5. \A u \in r.pending[a] : Nonce[u] >= n
        BY <2>2, <3>1, <3>2
      <3>6. r.pending[a] # {}
        BY <2>4, <3>1
      <3> QED
        BY <2>1, <3>3, <3>4, <3>5, <3>6
    <2> QED
      BY <2>3, <2>4
  <1>18. Shape(q) /\ (Due(r) => Due(q))
    BY <1>1, <1>16, ReleaseKeeps
  <1>19. /\ q.pending = r.pending /\ q.queue = r.queue /\ q.all = r.all
         /\ q.nonces = r.nonces /\ q.head = r.head /\ q.changes = r.changes
         /\ \A a \in Accounts :
               q.owner[a] = IF a \in B /\ ~Tracked(r, a) /\ r.owner[a] = Legacy
                            THEN None ELSE r.owner[a]
    BY <1>1, <1>13, ReleaseFields
  <1>20. Owned(p) => Owned(q)
    <2> SUFFICES ASSUME Owned(p), NEW a \in Accounts
                 PROVE  (q.owner[a] = Legacy) <=> Tracked(q, a)
      BY DEF Owned
    <2>1. (p.owner[a] = Legacy) <=> Tracked(p, a)
      BY DEF Owned
    <2>2. Tracked(q, a) <=> Tracked(r, a)
      BY <1>19 DEF Tracked
    <2>3. CASE a \in B
      <3>1. Tracked(p, a)
        BY <1>11, <2>3 DEF Tracked
      <3> QED
        BY <1>13, <1>19, <2>1, <2>2, <2>3, <3>1, TxFacts
    <2>4. CASE a \notin B
      <3>1. Tracked(r, a) <=> Tracked(p, a)
        BY <1>8, <1>13, <2>4 DEF Tracked
      <3> QED
        BY <1>13, <1>19, <2>1, <2>2, <2>4, <3>1
    <2> QED
      BY <2>3, <2>4
  <1>21. \A a \in A : Promoted(p, a) \subseteq q.pending[a]
    BY <1>8, <1>9, <1>13, <1>19
  <1>22. \A a \in Accounts : \A u \in q.pending[a] :
            u \in p.pending[a] \/ (a \in A /\ u \in Promoted(p, a))
    BY <1>11, <1>14, <1>19
  <1> QED
    BY <1>13, <1>17, <1>18, <1>19, <1>20, <1>21, <1>22

-----------------------------------------------------------------------------
(* demoteUnexecutables and the next nonces at the end of a reset.          *)

LEMMA DemoteKeeps ==
    ASSUME NEW p, Shape(p), NEW q, q = DemoteUnexecutables(p)
    PROVE  /\ Shape(q) /\ q.all \subseteq p.all /\ q.head = p.head /\ q.changes = p.changes
           /\ Owned(p) => Owned(q)
           /\ \A a \in Accounts :
                 /\ q.pending[a] \subseteq p.pending[a]
                 /\ \A t \in q.pending[a] : Nonce[t] >= NextNonce(q, a)
                 /\ q.pending[a] # {} => At(q.pending[a], NextNonce(q, a)) # {}
  <1> DEFINE due(a)   == {t \in p.pending[a] : Nonce[t] >= NextNonce(p, a)}
             drops(a) == {t \in due(a) : Cost[t] > Balance[p.head][a]}
             sound(a) == {t \in due(a) : \A d \in drops(a) : Nonce[t] < Nonce[d]}
             front(a) == Executable(sound(a), NextNonce(p, a))
             back(a)  == due(a) \ (drops(a) \cup front(a))
             gone     == UNION {(p.pending[a] \ due(a)) \cup drops(a)
                                  \cup Replaced(p.queue[a], back(a)) : a \in Accounts}
             ps == [a \in Accounts |-> front(a)]
             qs == [a \in Accounts |-> Inserted(p.queue[a], back(a))]
             r  == [p EXCEPT !.all = @ \ gone, !.pending = ps, !.queue = qs]
             A  == {a \in Accounts : p.pending[a] # {}}
  <1>1. q = Release(r, A)
    BY DEF DemoteUnexecutables
  <1>2. p \in Pools /\ \A a \in Accounts : NextNonce(p, a) \in Nat
    BY NextNonceType DEF Shape
  <1>3. \A a \in Accounts : p.pending[a] \in SUBSET Txs /\ p.queue[a] \in SUBSET Txs
    BY <1>2, PoolFields
  <1>4. \A a \in Accounts :
           /\ due(a) \subseteq p.pending[a] /\ drops(a) \subseteq due(a)
           /\ sound(a) \subseteq due(a) \ drops(a)
           /\ \A t \in due(a) : Nonce[t] >= NextNonce(p, a)
    <2> SUFFICES ASSUME NEW a \in Accounts
                 PROVE  /\ due(a) \subseteq p.pending[a] /\ drops(a) \subseteq due(a)
                        /\ sound(a) \subseteq due(a) \ drops(a)
                        /\ \A t \in due(a) : Nonce[t] >= NextNonce(p, a)
      OBVIOUS
    <2>1. \A t \in p.pending[a] : Nonce[t] \in Nat
      BY ShapeFacts
    <2> QED
      BY <2>1
  <1> HIDE DEF due, drops, sound
  <1>5. \A a \in Accounts :
           /\ front(a) \subseteq sound(a)
           /\ front(a) # {} => At(front(a), NextNonce(p, a)) # {}
    BY DEF Executable
  <1> HIDE DEF front
  <1>6. \A a \in Accounts :
           /\ front(a) \subseteq p.pending[a] /\ back(a) \subseteq p.pending[a]
           /\ front(a) \cap back(a) = {}
           /\ \A t \in p.pending[a] : \/ t \in front(a) /\ t \in due(a) /\ t \notin drops(a)
                                      \/ t \in back(a) /\ t \in due(a) /\ t \notin drops(a)
                                      \/ t \notin front(a) /\ t \notin back(a)
                                           /\ (t \notin due(a) \/ t \in drops(a))
    BY <1>4, <1>5
  <1>7. \A a \in Accounts :
           /\ Replaced(p.queue[a], back(a)) = {}
           /\ Inserted(p.queue[a], back(a)) = p.queue[a] \cup back(a)
    <2> SUFFICES ASSUME NEW a \in Accounts
                 PROVE  /\ Replaced(p.queue[a], back(a)) = {}
                        /\ Inserted(p.queue[a], back(a)) = p.queue[a] \cup back(a)
      OBVIOUS
    <2>1. back(a) \in SUBSET Txs /\ p.queue[a] \in SUBSET Txs
      BY <1>3, <1>6
    <2>2. \A t \in back(a) : \A u \in p.queue[a] : Nonce[t] # Nonce[u]
      BY <1>6, ShapeFacts
    <2> HIDE DEF back
    <2> QED
      BY <2>1, <2>2, NothingReplaced
  <1> HIDE DEF back
  <1>8. \A u : u \in gone <=>
           \E a \in Accounts : u \in p.pending[a] /\ (u \notin due(a) \/ u \in drops(a))
    BY <1>4, <1>7
  <1>9. \A a \in Accounts : ps[a] = front(a) /\ qs[a] = p.queue[a] \cup back(a)
    BY <1>7
  <1>10. ps \in [Accounts -> SUBSET Txs] /\ qs \in [Accounts -> SUBSET Txs]
    BY <1>3, <1>6, <1>7
  <1>11. \A a \in Accounts : a \in A <=> p.pending[a] # {}
    OBVIOUS
  <1> HIDE DEF gone, ps, qs, A
  <1>12. /\ r \in Pools /\ r.all = p.all \ gone /\ r.queue = qs /\ r.pending = ps
         /\ r.nonces = p.nonces /\ r.owner = p.owner /\ r.head = p.head
         /\ r.changes = p.changes
    BY <1>2, <1>10 DEF Pools
  <1> HIDE DEF r
  <1>13. Shape(r)
    <2>1. \A a \in Accounts : \A u \in r.pending[a] : u \in p.pending[a] /\ u \in front(a)
      BY <1>6, <1>9, <1>12
    <2>2. \A a \in Accounts : \A u \in r.queue[a] :
             u \in p.queue[a] \/ (u \in p.pending[a] /\ u \in back(a))
      BY <1>6, <1>9, <1>12
    <2>3. \A a \in Accounts : \A u \in r.pending[a] : From[u] = a /\ u \in r.all
      <3> SUFFICES ASSUME NEW a \in Accounts, NEW u \in r.pending[a]
                   PROVE  From[u] = a /\ u \in r.all
        OBVIOUS
      <3>1. From[u] = a /\ u \in p.all
        BY <2>1, ShapeFacts
      <3>2. u \notin gone
        BY <1>6, <1>8, <2>1, <3>1, ShapeFacts
      <3> QED
        BY <1>12, <3>1, <3>2
    <2>4. \A a \in Accounts : \A u \in r.queue[a] : From[u] = a /\ u \in r.all
      <3> SUFFICES ASSUME NEW a \in Accounts, NEW u \in r.queue[a]
                   PROVE  From[u] = a /\ u \in r.all
        OBVIOUS
      <3>1. From[u] = a /\ u \in p.all
        BY <2>2, ShapeFacts
      <3>2. u \notin gone
        <4> SUFFICES ASSUME NEW b \in Accounts, u \in p.pending[b],
                            u \notin due(b) \/ u \in drops(b)
                     PROVE  FALSE
          BY <1>8
        <4>1. b = a
          BY <3>1, ShapeFacts
        <4>2. u \in back(a)
          BY <2>2, <4>1, ShapeFacts
        <4> QED
          BY <1>6, <4>1, <4>2
      <3> QED
        BY <1>12, <3>1, <3>2
    <2>5. \A u \in r.all : u \in r.pending[From[u]] \/ u \in r.queue[From[u]]
      <3> SUFFICES ASSUME NEW u \in r.all
                   PROVE  u \in r.pending[From[u]] \/ u \in r.queue[From[u]]
        OBVIOUS
      <3>1. u \in p.all /\ u \notin gone
        BY <1>12
      <3>2. PICK a \in Accounts : a = From[u] /\ (u \in p.pending[a] \/ u \in p.queue[a])
        BY <3>1, ShapeFacts
      <3>3. CASE u \in p.pending[a]
        BY <1>6, <1>8, <1>9, <1>12, <3>1, <3>2, <3>3
      <3>4. CASE u \in p.queue[a]
        BY <1>9, <1>12, <3>2, <3>4
      <3> QED
        BY <3>2, <3>3, <3>4
    <2>6. \A a \in Accounts : \A u, v \in r.pending[a] : Nonce[u] = Nonce[v] => u = v
      BY <2>1, ShapeFacts
    <2>7. \A a \in Accounts : \A u, v \in r.queue[a] : Nonce[u] = Nonce[v] => u = v
      BY <2>2, ShapeFacts
    <2>8. \A a \in Accounts : \A u \in r.pending[a], v \in r.queue[a] : Nonce[u] # Nonce[v]
      <3> SUFFICES ASSUME NEW a \in Accounts, NEW u \in r.pending[a], NEW v \in r.queue[a],
                          Nonce[u] = Nonce[v]
                   PROVE  FALSE
        OBVIOUS
      <3>1. u \in p.pending[a] /\ u \in front(a)
        BY <2>1
      <3>2. v \in p.pending[a] /\ v \in back(a)
        BY <2>2, <3>1, ShapeFacts
      <3>3. u = v
        BY <3>1, <3>2, ShapeFacts
      <3> QED
        BY <1>6, <3>1, <3>2, <3>3
    <2> QED
      BY <1>12, <2>3, <2>4, <2>5, <2>6, <2>7, <2>8 DEF Shape
  <1>14. Shape(q)
    BY <1>1, <1>13, ReleaseKeeps
  <1>15. /\ q.pending = r.pending /\ q.queue = r.queue /\ q.all = r.all
         /\ q.nonces = r.nonces /\ q.head = r.head /\ q.changes = r.changes
         /\ \A a \in Accounts :
               q.owner[a] = IF a \in A /\ ~Tracked(r, a) /\ r.owner[a] = Legacy
                            THEN None ELSE r.owner[a]
    BY <1>1, <1>12, ReleaseFields
  <1>16. Owned(p) => Owned(q)
    <2> SUFFICES ASSUME Owned(p), NEW a \in Accounts
                 PROVE  (q.owner[a] = Legacy) <=> Tracked(q, a)
      BY DEF Owned
    <2>1. (p.owner[a] = Legacy) <=> Tracked(p, a)
      BY DEF Owned
    <2>2. Tracked(q, a) <=> Tracked(r, a)
      BY <1>15 DEF Tracked
    <2>3. CASE a \in A
      <3>1. Tracked(p, a)
        BY <1>11, <2>3 DEF Tracked
      <3> QED
        BY <1>12, <1>15, <2>1, <2>2, <2>3, <3>1, TxFacts
    <2>4. CASE a \notin A
      <3>1. p.pending[a] = {} /\ r.pending[a] = {} /\ r.queue[a] = p.queue[a]
        <4>1. p.pending[a] = {}
          BY <1>11, <2>4
        <4>2. front(a) = {} /\ back(a) = {}
          BY <1>6, <4>1
        <4> QED
          BY <1>9, <1>12, <4>1, <4>2
      <3> QED
        BY <1>12, <1>15, <2>1, <2>2, <2>4, <3>1 DEF Tracked
    <2> QED
      BY <2>3, <2>4
  <1>17. \A a \in Accounts : NextNonce(q, a) = NextNonce(p, a) /\ q.pending[a] = front(a)
    BY <1>9, <1>12, <1>15 DEF NextNonce
  <1> QED
    BY <1>4, <1>5, <1>6, <1>12, <1>14, <1>15, <1>16, <1>17

LEMMA SettleKeeps ==
    ASSUME NEW p, Shape(p), NEW q, q = SettleNonces(p),
           \A a \in Accounts :
              /\ \A t \in p.pending[a] : Nonce[t] >= NextNonce(p, a)
              /\ p.pending[a] # {} => At(p.pending[a], NextNonce(p, a)) # {}
    PROVE  /\ Shape(q) /\ Due(q)
           /\ q.pending = p.pending /\ q.all = p.all /\ q.head = p.head
           /\ q.changes = p.changes /\ (Owned(p) => Owned(q))
  <1> DEFINE ns == [a \in Accounts |->
                      IF p.pending[a] = {} THEN NextNonce(p, a) ELSE MaxNonce(p.pending[a]) + 1]
  <1>1. p \in Pools /\ \A a \in Accounts : NextNonce(p, a) \in Nat
    BY NextNonceType DEF Shape
  <1>2. \A a \in Accounts : p.pending[a] # {} =>
           /\ MaxNonce(p.pending[a]) \in Nat
           /\ \A t \in p.pending[a] : Nonce[t] <= MaxNonce(p.pending[a])
    <2> SUFFICES ASSUME NEW a \in Accounts, p.pending[a] # {}
                 PROVE  /\ MaxNonce(p.pending[a]) \in Nat
                        /\ \A t \in p.pending[a] : Nonce[t] <= MaxNonce(p.pending[a])
      OBVIOUS
    <2>1. p.pending[a] \in SUBSET Txs
      BY <1>1, PoolFields
    <2> QED
      BY <2>1, NonceBounds
  <1>3. ns \in [Accounts -> Nat]
    BY <1>1, <1>2
  <1>4. \A a \in Accounts : ns[a] = IF p.pending[a] = {} THEN NextNonce(p, a)
                                    ELSE MaxNonce(p.pending[a]) + 1
    OBVIOUS
  <1>5. q = [p EXCEPT !.nonces = ns]
    BY DEF SettleNonces
  <1> HIDE DEF ns
  <1>6. /\ q \in Pools /\ q.pending = p.pending /\ q.queue = p.queue /\ q.all = p.all
        /\ q.nonces = ns /\ q.owner = p.owner /\ q.head = p.head /\ q.changes = p.changes
    BY <1>1, <1>3, <1>5 DEF Pools
  <1>7. Shape(q)
    BY <1>6 DEF Shape
  <1>8. Owned(p) => Owned(q)
    BY <1>6 DEF Owned, Tracked
  <1>9. Due(q)
    <2> SUFFICES ASSUME NEW a \in Accounts
                 PROVE  /\ \A u \in q.pending[a] : Nonce[u] >= NextNonce(q, a)
                        /\ q.pending[a] = {} => q.nonces[a] = NextNonce(q, a)
                        /\ q.pending[a] # {} => /\ At(q.pending[a], NextNonce(q, a)) # {}
                                                /\ q.nonces[a] > NextNonce(q, a)
      BY DEF Due
    <2>1. NextNonce(q, a) = NextNonce(p, a)
      BY <1>6 DEF NextNonce
    <2>2. q.pending[a] # {} => q.nonces[a] > NextNonce(q, a)
      <3> SUFFICES ASSUME q.pending[a] # {} PROVE q.nonces[a] > NextNonce(p, a)
        BY <2>1
      <3>1. PICK t \in p.pending[a] : Nonce[t] = NextNonce(p, a)
        BY <1>6 DEF At
      <3>2. Nonce[t] <= MaxNonce(p.pending[a]) /\ MaxNonce(p.pending[a]) \in Nat
        BY <1>2, <3>1
      <3> QED
        BY <1>1, <1>4, <1>6, <3>1, <3>2
    <2> QED
      BY <1>4, <1>6, <2>1, <2>2
  <1> QED
    BY <1>6, <1>7, <1>8, <1>9

-----------------------------------------------------------------------------
(* truncatePending and truncateQueue.                                      *)

LEMMA CutLevelType ==
    ASSUME NEW p \in Pools
    PROVE  CutLevel(p) \in Nat \ {0}
  <1> DEFINE fits == {l \in AccountSlots .. Cardinality(p.all) : Total(CutTo(p, l)) <= GlobalSlots}
  <1>1. Cardinality(p.all) \in Nat
    BY TxFacts, PoolFields, FS_Subset, FS_CardinalityType
  <1>2. fits \subseteq AccountSlots .. Cardinality(p.all)
    OBVIOUS
  <1>3. CutLevel(p) = IF fits = {} THEN AccountSlots ELSE Max(fits)
    BY DEF CutLevel
  <1> HIDE DEF fits
  <1>4. \A l \in fits : l \in Nat \ {0}
    BY <1>1, <1>2, TxFacts
  <1>5. fits # {} => Max(fits) \in fits
    <2>1. IsFiniteSet(AccountSlots .. Cardinality(p.all))
      BY <1>1, TxFacts, FS_Interval
    <2>2. IsFiniteSet(fits)
      BY <1>2, <2>1, FS_Subset
    <2>3. fits \in SUBSET Nat
      BY <1>4
    <2> QED
      BY <2>2, <2>3, MaxOfFinite
  <1> QED
    BY <1>3, <1>4, <1>5, TxFacts

LEMMA TruncatePendingKeeps ==
    ASSUME NEW p, Shape(p), Due(p), NEW q, q = TruncatePending(p)
    PROVE  Kept(p, q)
  <1> DEFINE level == CutLevel(p)
             cut == CutTo(p, level)
             over(a) == p.pending[a] \ cut[a]
             ns == [a \in Accounts |->
                      IF over(a) = {} THEN p.nonces[a] ELSE Min({p.nonces[a], MinNonce(over(a))})]
             gone == UNION {over(a) : a \in Accounts}
             r == [p EXCEPT !.pending = cut, !.all = @ \ gone, !.nonces = ns]
  <1>1. q = p \/ q = r
    BY DEF TruncatePending
  <1>2. p \in Pools
    BY DEF Shape
  <1>3. level \in Nat \ {0}
    BY <1>2, CutLevelType
  <1> HIDE DEF level
  <1>4. \A a \in Accounts : /\ p.pending[a] \in SUBSET Txs /\ p.nonces[a] \in Nat
                            /\ NextNonce(p, a) \in Nat
    BY <1>2, PoolFields, NextNonceType
  <1>5. \A a \in Accounts : cut[a] = Cap(p.pending[a], level)
    BY DEF CutTo
  <1>6. cut \in [Accounts -> SUBSET Txs]
    <2>1. cut = [a \in Accounts |-> Cap(p.pending[a], level)]
      BY DEF CutTo
    <2>2. \A a \in Accounts : Cap(p.pending[a], level) \in SUBSET Txs
      BY <1>4, CapIsPart
    <2> HIDE DEF cut
    <2> QED
      BY <2>1, <2>2
  <1>7. \A a \in Accounts : cut[a] \subseteq p.pending[a]
    BY <1>5, CapIsPart
  <1>8. \A a \in Accounts : \A t \in p.pending[a] : Nonce[t] = NextNonce(p, a) => t \in cut[a]
    <2> SUFFICES ASSUME NEW a \in Accounts, NEW t \in p.pending[a], Nonce[t] = NextNonce(p, a)
                 PROVE  t \in cut[a]
      OBVIOUS
    <2>1. \A u \in p.pending[a] : Nonce[t] <= Nonce[u]
      BY <1>4, ShapeFacts DEF Due
    <2>2. t \in Cap(p.pending[a], level)
      BY <1>3, <1>4, <2>1, CapKeepsFront
    <2> HIDE DEF cut
    <2> QED
      BY <1>5, <2>2
  <1> HIDE DEF cut
  <1>9. \A a \in Accounts : \A t \in over(a) : t \in p.pending[a] /\ Nonce[t] > NextNonce(p, a)
    <2> SUFFICES ASSUME NEW a \in Accounts, NEW t \in over(a)
                 PROVE  t \in p.pending[a] /\ Nonce[t] > NextNonce(p, a)
      OBVIOUS
    <2>1. t \in p.pending[a] /\ Nonce[t] # NextNonce(p, a)
      BY <1>8
    <2>2. Nonce[t] >= NextNonce(p, a) /\ Nonce[t] \in Nat
      BY <2>1, ShapeFacts DEF Due
    <2> QED
      BY <1>4, <2>1, <2>2
  <1>10. \A a \in Accounts :
            /\ ns[a] \in Nat /\ ns[a] <= p.nonces[a]
            /\ p.nonces[a] > NextNonce(p, a) => ns[a] > NextNonce(p, a)
            /\ p.pending[a] = {} => ns[a] = p.nonces[a]
    <2> SUFFICES ASSUME NEW a \in Accounts
                 PROVE  /\ ns[a] \in Nat /\ ns[a] <= p.nonces[a]
                        /\ p.nonces[a] > NextNonce(p, a) => ns[a] > NextNonce(p, a)
                        /\ p.pending[a] = {} => ns[a] = p.nonces[a]
      OBVIOUS
    <2>1. ns[a] = IF over(a) = {} THEN p.nonces[a] ELSE Min({p.nonces[a], MinNonce(over(a))})
      OBVIOUS
    <2>2. p.pending[a] = {} => over(a) = {}
      OBVIOUS
    <2>3. over(a) \in SUBSET Txs
      BY <1>4
    <2> HIDE DEF over, ns
    <2>4. CASE over(a) = {}
      BY <1>4, <2>1, <2>4
    <2>5. CASE over(a) # {}
      <3>1. PICK m \in Nat : /\ m = MinNonce(over(a))
                             /\ \E t \in over(a) : Nonce[t] = m
        BY <2>3, <2>5, NonceBounds
      <3>2. m > NextNonce(p, a)
        BY <1>9, <3>1
      <3>3. /\ Min({p.nonces[a], m}) \in {p.nonces[a], m}
            /\ Min({p.nonces[a], m}) <= p.nonces[a]
        BY <1>4, LesserOfTwo
      <3> QED
        BY <1>4, <2>1, <2>2, <2>5, <3>1, <3>2, <3>3
    <2> QED
      BY <2>4, <2>5
  <1>11. ns \in [Accounts -> Nat]
    <2>1. ns = [a \in Accounts |-> ns[a]]
      OBVIOUS
    <2> HIDE DEF ns
    <2> QED
      BY <1>10, <2>1
  <1>12. \A u : u \in gone <=> \E a \in Accounts : u \in p.pending[a] /\ u \notin cut[a]
    OBVIOUS
  <1> HIDE DEF over, ns, gone
  <1>13. /\ r \in Pools /\ r.all = p.all \ gone /\ r.queue = p.queue /\ r.pending = cut
         /\ r.nonces = ns /\ r.owner = p.owner /\ r.head = p.head /\ r.changes = p.changes
    BY <1>2, <1>6, <1>11 DEF Pools
  <1> HIDE DEF r
  <1>14. Shape(r)
    <2>1. \A a \in Accounts : \A u \in r.pending[a] : u \in p.pending[a] /\ u \in cut[a]
      BY <1>7, <1>13
    <2>2. \A a \in Accounts : \A u \in r.pending[a] : From[u] = a /\ u \in r.all
      BY <1>12, <1>13, <2>1, ShapeFacts
    <2>3. \A a \in Accounts : \A u \in r.queue[a] : From[u] = a /\ u \in r.all
      BY <1>12, <1>13, ShapeFacts
    <2>4. \A u \in r.all : u \in r.pending[From[u]] \/ u \in r.queue[From[u]]
      BY <1>12, <1>13, ShapeFacts
    <2>5. \A a \in Accounts : \A u, v \in r.pending[a] : Nonce[u] = Nonce[v] => u = v
      BY <2>1, ShapeFacts
    <2>6. \A a \in Accounts : \A u, v \in r.queue[a] : Nonce[u] = Nonce[v] => u = v
      BY <1>13, ShapeFacts
    <2>7. \A a \in Accounts : \A u \in r.pending[a], v \in r.queue[a] : Nonce[u] # Nonce[v]
      BY <1>13, <2>1, ShapeFacts
    <2> QED
      BY <1>13, <2>2, <2>3, <2>4, <2>5, <2>6, <2>7 DEF Shape
  <1>15. \A a \in Accounts :
            p.pending[a] # {} => At(cut[a], NextNonce(p, a)) # {} /\ cut[a] # {}
    BY <1>8 DEF Due, At
  <1>16. Due(r)
    <2> SUFFICES ASSUME NEW a \in Accounts
                 PROVE  /\ \A u \in r.pending[a] : Nonce[u] >= NextNonce(r, a)
                        /\ r.pending[a] = {} => r.nonces[a] = NextNonce(r, a)
                        /\ r.pending[a] # {} => /\ At(r.pending[a], NextNonce(r, a)) # {}
                                                /\ r.nonces[a] > NextNonce(r, a)
      BY DEF Due
    <2>1. NextNonce(r, a) = NextNonce(p, a)
      BY <1>13 DEF NextNonce
    <2>2. CASE p.pending[a] = {}
      BY <1>7, <1>10, <1>13, <2>1, <2>2 DEF Due
    <2>3. CASE p.pending[a] # {}
      <3>1. p.nonces[a] > NextNonce(p, a) /\ \A u \in p.pending[a] : Nonce[u] >= NextNonce(p, a)
        BY <2>3 DEF Due
      <3> QED
        BY <1>7, <1>10, <1>13, <1>15, <2>1, <2>3, <3>1
    <2> QED
      BY <2>2, <2>3
  <1>17. Owned(p) => Owned(r)
    <2>1. \A a \in Accounts : Tracked(r, a) <=> Tracked(p, a)
      BY <1>7, <1>13, <1>15 DEF Tracked
    <2> QED
      BY <1>13, <2>1 DEF Owned
  <1>18. Kept(p, r)
    BY <1>7, <1>10, <1>13, <1>14, <1>16, <1>17 DEF Kept
  <1> QED
    BY <1>1, <1>18, KeptReflexive

LEMMA TruncateQueueKeeps ==
    ASSUME NEW p, Shape(p), NEW q \in TruncateQueue(p)
    PROVE  Kept(p, q)
  <1>1. p \in Pools
    BY DEF Shape
  <1>2. q = p \/ \E S \in SUBSET Txs : q = RemoveAll(p, S)
    <2> DEFINE excess == Total(p.queue) - GlobalQueue
               before(rank, a) == MapThenSumSet(LAMBDA b : Cardinality(p.queue[b]),
                                                {b \in Accounts : rank[b] < rank[a]})
               toDrop(rank, a) == Max({0, excess - before(rank, a)})
               kept(rank, a) == Cap(p.queue[a],
                                    Max({0, Cardinality(p.queue[a]) - toDrop(rank, a)}))
               ts(rank) == UNION {p.queue[a] \ kept(rank, a) : a \in Accounts}
    <2>1. TruncateQueue(p) =
             IF excess <= 0 THEN {p}
             ELSE {RemoveAll(p, ts(rank)) : rank \in Injection(Accounts, 1 .. Cardinality(Accounts))}
      BY DEF TruncateQueue
    <2>2. \A rank : ts(rank) \in SUBSET Txs
      <3> HIDE DEF kept
      <3> QED
        BY <1>1, PoolFields
    <2> HIDE DEF ts, excess
    <2>3. q = p \/ \E rank : q = RemoveAll(p, ts(rank))
      BY <2>1
    <2> QED
      BY <2>2, <2>3
  <1> QED
    BY <1>2, KeptReflexive, RemoveAllKeeps

(* What holds between two locked sections.                                 *)
Good(p) == Shape(p) /\ Fits(p) /\ Due(p) /\ Owned(p)

LEMMA FewerFit ==
    ASSUME NEW p \in Pools, Fits(p), NEW q, q.all \subseteq p.all
    PROVE  Fits(q)
  <1>1. IsFiniteSet(p.all) /\ q.all \in SUBSET p.all
    BY TxFacts, PoolFields, FS_Subset
  <1>2. Cardinality(q.all) <= Cardinality(p.all) /\ Cardinality(p.all) \in Nat
    BY <1>1, FS_Subset, FS_CardinalityType
  <1>3. Cardinality(q.all) \in Nat
    BY <1>1, FS_Subset, FS_CardinalityType
  <1> QED
    BY <1>2, <1>3, TxFacts DEF Fits

LEMMA KeptIsGood ==
    ASSUME NEW p, Good(p), NEW q, Kept(p, q)
    PROVE  Good(q)
  <1>1. p \in Pools /\ Fits(p) /\ q.all \subseteq p.all
    BY DEF Good, Shape, Kept
  <1>2. Fits(q)
    BY <1>1, FewerFit
  <1> QED
    BY <1>2 DEF Good, Kept

LEMMA TruncatedIsGood ==
    ASSUME NEW p, Good(p), NEW q \in Truncated(p)
    PROVE  /\ Good(q) /\ q.all \subseteq p.all
           /\ \A a \in Accounts : q.pending[a] \subseteq p.pending[a]
           /\ q.head = p.head
  <1>1. PICK m : m = TruncatePending(p)
    OBVIOUS
  <1>2. PICK r \in TruncateQueue(m) : q = [r EXCEPT !.changes = 0]
    BY <1>1 DEF Truncated
  <1>3. Kept(p, m) /\ Shape(p)
    BY <1>1, TruncatePendingKeeps DEF Good
  <1>4. Kept(m, r)
    BY <1>2, <1>3, TruncateQueueKeeps DEF Kept
  <1>5. Kept(p, r)
    BY <1>3, <1>4, KeptTransitive
  <1>6. Good(r) /\ r \in Pools
    BY <1>5, KeptIsGood DEF Good, Shape
  <1>7. /\ q \in Pools /\ q.pending = r.pending /\ q.queue = r.queue /\ q.all = r.all
        /\ q.nonces = r.nonces /\ q.owner = r.owner /\ q.head = r.head
    BY <1>2, <1>6 DEF Pools
  <1>8. Shape(q)
    BY <1>6, <1>7 DEF Good, Shape
  <1>9. Fits(q) /\ Due(q) /\ Owned(q)
    BY <1>6, <1>7 DEF Good, Fits, Due, NextNonce, Owned, Tracked
  <1> QED
    BY <1>5, <1>7, <1>8, <1>9 DEF Good, Kept

-----------------------------------------------------------------------------
(* What a reset reinjects: transactions the old head had made stale.       *)

Below(b) == {t \in Txs : Nonce[t] < StateNonce[b][From[t]]}

LEMMA WiderSeq ==
    ASSUME NEW A, NEW B, A \subseteq B, NEW s \in Seq(A)
    PROVE  s \in Seq(B)
  <1>1. Len(s) \in Nat /\ s = [i \in 1..Len(s) |-> s[i]] /\ \A i \in 1..Len(s) : s[i] \in B
    OBVIOUS
  <1> QED
    BY <1>1, IsASeq

LEMMA BranchNonces == \A b, stop \in Blocks : Branch(b, stop) \in Seq(Below(b))
  <1> SUFFICES ASSUME NEW c \in Blocks, NEW stop \in Blocks
               PROVE  Branch(c, stop) \in Seq(Below(c))
    OBVIOUS
  <1> DEFINE n == Number[c]
             S == {k \in 0..n : \A b \in Blocks : Number[b] <= k => Branch(b, stop) \in Seq(Below(b))}
  <1>1. n \in Nat
    BY ChainFacts
  <1>2. \A b \in Blocks : b \in Ancestors[stop] => Branch(b, stop) \in Seq(Below(b))
    <2> SUFFICES ASSUME NEW b \in Blocks, b \in Ancestors[stop]
                 PROVE  Branch(b, stop) \in Seq(Below(b))
      OBVIOUS
    <2>1. Branch(b, stop) = <<>>
      BY BranchEquation
    <2> QED
      BY <2>1
  <1>3. ASSUME NEW b \in Blocks, b # Genesis, b \notin Ancestors[stop],
               Branch(Parent[b], stop) \in Seq(Below(Parent[b]))
        PROVE  Branch(b, stop) \in Seq(Below(b))
    <2>1. Below(Parent[b]) \subseteq Below(b)
      <3> SUFFICES ASSUME NEW t \in Below(Parent[b]) PROVE t \in Below(b)
        OBVIOUS
      <3>1. t \in Txs /\ From[t] \in Accounts /\ Nonce[t] \in Nat
            /\ Nonce[t] < StateNonce[Parent[b]][From[t]]
        BY TxFacts DEF Below
      <3>2. /\ StateNonce[Parent[b]][From[t]] <= StateNonce[b][From[t]]
            /\ StateNonce[Parent[b]][From[t]] \in Nat /\ StateNonce[b][From[t]] \in Nat
        BY <1>3, <3>1, ChainFacts
      <3> QED
        BY <3>1, <3>2 DEF Below
    <2>2. Branch(Parent[b], stop) \in Seq(Below(b))
      BY <1>3, <2>1, WiderSeq
    <2>3. Included[b] \in Seq(Below(b))
      <3>1. Included[b] \in Seq(Txs)
        BY ChainFacts
      <3>2. \A i \in 1..Len(Included[b]) : Included[b][i] \in Below(b)
        BY <3>1, ChainFacts DEF Below
      <3> QED
        BY <3>1, <3>2, IsASeq
    <2>4. Branch(b, stop) = Included[b] \o Branch(Parent[b], stop)
      BY <1>3, BranchEquation
    <2> QED
      BY <2>2, <2>3, <2>4
  <1>4. \A b \in Blocks : b \notin Ancestors[stop] =>
           b # Genesis /\ Parent[b] \in Blocks /\ Number[Parent[b]] < Number[b]
                       /\ Number[b] \in Nat /\ Number[Parent[b]] \in Nat
    BY GenesisIsAncestor, ChainFacts
  <1>5. 0 \in S
    <2> SUFFICES ASSUME NEW b \in Blocks, Number[b] <= 0
                 PROVE  Branch(b, stop) \in Seq(Below(b))
      BY <1>1
    <2>1. b \in Ancestors[stop]
      BY <1>4
    <2> QED
      BY <1>2, <2>1
  <1>6. ASSUME NEW k \in 1..n, k - 1 \in S
        PROVE  k \in S
    <2> SUFFICES ASSUME NEW b \in Blocks, Number[b] <= k
                 PROVE  Branch(b, stop) \in Seq(Below(b))
      BY <1>1
    <2>1. CASE b \in Ancestors[stop]
      BY <1>2, <2>1
    <2>2. CASE b \notin Ancestors[stop]
      <3>1. b # Genesis /\ Parent[b] \in Blocks /\ Number[Parent[b]] <= k - 1
        BY <1>4, <2>2
      <3>2. Branch(Parent[b], stop) \in Seq(Below(Parent[b]))
        BY <1>6, <3>1
      <3> QED
        BY <1>3, <2>2, <3>1, <3>2
    <2> QED
      BY <2>1, <2>2
  <1>7. n \in S
    <2> HIDE DEF S, n
    <2>1. \A k \in 0..n : k \in S
      BY <1>1, <1>5, <1>6, UpTo
    <2> QED
      BY <1>1, <2>1
  <1> QED
    BY <1>1, <1>7

(* A sequence without some of its members.                                 *)
LEMMA FilteredIn ==
    ASSUME NEW R, NEW back, NEW txs \in Seq(R)
    PROVE  TxDifference(txs, back) \in Seq(R)
  <1> DEFINE n == Len(txs)
             V == Seq(R)
             Eq(F) == F = [s \in SUBSET (1..n) |->
                              IF s = {} THEN <<>>
                              ELSE IF txs[Max(s)] \in back THEN F[s \ {Max(s)}]
                                   ELSE Append(F[s \ {Max(s)}], txs[Max(s)])]
             iter == CHOOSE F : Eq(F)
             step == [x \in V \X (1..n) |->
                        IF txs[x[2]] \in back THEN x[1] ELSE Append(x[1], txs[x[2]])]
  <1>1. TxDifference(txs, back) = iter[1..n]
    <2>1. DOMAIN txs = 1..n
      OBVIOUS
    <2> HIDE DEF n
    <2> QED
      BY <2>1 DEF TxDifference, FoldLeft, MapThenFoldSet
  <1>2. n \in Nat /\ <<>> \in V /\ \A i \in 1..n : txs[i] \in R
    OBVIOUS
  <1>3. /\ step \in [V \X (1..n) -> V]
        /\ \A v \in V, i \in 1..n :
              step[<<v, i>>] = IF txs[i] \in back THEN v ELSE Append(v, txs[i])
    BY <1>2
  <1> HIDE DEF n, step
  <1>4. PICK h \in [SUBSET (1..n) -> V] : IsFold(h, <<>>, step, n)
    <2>1. n \in Nat /\ <<>> \in V /\ step \in [V \X (1..n) -> V]
      BY <1>2, <1>3
    <2> HIDE DEF V
    <2> QED
      BY <2>1, FoldExists
  <1>5. Eq(h)
    <2>1. ASSUME NEW s \in SUBSET (1..n)
          PROVE  h[s] = IF s = {} THEN <<>>
                        ELSE IF txs[Max(s)] \in back THEN h[s \ {Max(s)}]
                             ELSE Append(h[s \ {Max(s)}], txs[Max(s)])
      <3>1. s # {} => s \ {Max(s)} \in SUBSET (1..n) /\ Max(s) \in 1..n
        BY <1>2, MaxOf
      <3>2. h[s] = IF s = {} THEN <<>> ELSE step[<<h[s \ {Max(s)}], Max(s)>>]
        BY <1>4 DEF IsFold
      <3> HIDE DEF V
      <3> QED
        BY <1>3, <3>1, <3>2
    <2>2. h = [s \in SUBSET (1..n) |-> h[s]]
      OBVIOUS
    <2> QED
      BY <2>1, <2>2
  <1>6. Eq(iter)
    BY <1>5
  <1> HIDE DEF iter
  <1>7. /\ iter[{}] = <<>>
        /\ \A s \in SUBSET (1..n) : s # {} /\ iter[s \ {Max(s)}] \in V =>
              iter[s] = step[<<iter[s \ {Max(s)}], Max(s)>>]
    <2>1. \A s \in SUBSET (1..n) :
             iter[s] = IF s = {} THEN <<>>
                       ELSE IF txs[Max(s)] \in back THEN iter[s \ {Max(s)}]
                            ELSE Append(iter[s \ {Max(s)}], txs[Max(s)])
      BY <1>6
    <2>2. \A s \in SUBSET (1..n) : s # {} => Max(s) \in 1..n
      BY <1>2, MaxOf
    <2> HIDE DEF V
    <2> QED
      BY <1>3, <2>1, <2>2
  <1>8. PICK g \in [0..n -> V] : iter[1..n] = g[n]
    <2> HIDE DEF V
    <2>1. PICK v0 \in V : v0 = <<>>
      BY <1>2
    <2>2. n \in Nat /\ step \in [V \X (1..n) -> V]
      BY <1>2, <1>3
    <2>3. /\ iter[{}] = v0
          /\ \A s \in SUBSET (1..n) : s # {} /\ iter[s \ {Max(s)}] \in V =>
                iter[s] = step[<<iter[s \ {Max(s)}], Max(s)>>]
      BY <1>7, <2>1
    <2>4. \E g \in [0..n -> V] : iter[1..n] = g[n] /\ Solves(g, v0, step, n)
      BY <2>2, <2>3, FoldChain
    <2> QED
      BY <2>4
  <1> QED
    BY <1>1, <1>2, <1>8

LEMMA ReinjectionsAreStale ==
    ASSUME NEW old \in Blocks, NEW new \in Blocks, NEW lost \in Reinjections(old, new)
    PROVE  lost \in Seq(Below(old))
  <1>1. Branch(old, new) \in Seq(Below(old))
    BY BranchNonces
  <1>2. Lost(old, new) \in Seq(Below(old))
    BY <1>1, FilteredIn DEF Lost
  <1>3. lost = Lost(old, new) \/ lost = <<>>
    BY DEF Reinjections
  <1>4. <<>> \in Seq(Below(old))
    OBVIOUS
  <1> QED
    BY <1>2, <1>3, <1>4

-----------------------------------------------------------------------------
(* addTxsLocked of what a reset reinjects, all of it members of R.  A      *)
(* pending transaction has its event among those of the outcome, or was    *)
(* pending before and no event took its place.  If nothing of R has the    *)
(* nonce of a pending transaction there are no events.                     *)

Quiet(p, R) == \A t \in R : \A u \in p.pending[From[t]] : Nonce[u] # Nonce[t]

Unreplaced(p, a, u, events) ==
    u \in p.pending[a] /\ \A e \in events : From[e] = a => Nonce[e] # Nonce[u]

Reached(p, R, o) ==
    /\ Shape(o.pool) /\ Fits(o.pool) /\ Owned(o.pool) /\ o.pool.head = p.head
    /\ o.events \subseteq Txs
    /\ \A a \in Accounts : o.pool.nonces[a] <= p.nonces[a]
    /\ \A a \in Accounts : \A u \in o.pool.pending[a] :
          u \in o.events \/ Unreplaced(p, a, u, o.events)
    /\ Quiet(p, R) => o.events = {}

LEMMA ReachedStep ==
    ASSUME NEW p, Shape(p), NEW R \in SUBSET Txs, NEW s, Reached(p, R, s), NEW t \in R,
           NEW o \in Add(s.pool, t), NEW n, n = Outcome(o.pool, {}, s.events \cup o.events)
    PROVE  Reached(p, R, n)
  <1>1. PutIn(s.pool, t, o)
    BY AddKeeps DEF Reached
  <1>2. n.pool = o.pool /\ n.events = s.events \cup o.events
    BY OutcomeFields
  <1>3. \A a \in Accounts : n.pool.nonces[a] <= p.nonces[a]
    <2> SUFFICES ASSUME NEW a \in Accounts
                 PROVE  n.pool.nonces[a] <= p.nonces[a]
      OBVIOUS
    <2>1. p \in Pools /\ s.pool \in Pools /\ n.pool \in Pools
      BY <1>1, <1>2 DEF PutIn, Reached, Shape
    <2>2. PICK x \in Nat, y \in Nat, z \in Nat :
             x = n.pool.nonces[a] /\ y = s.pool.nonces[a] /\ z = p.nonces[a]
      BY <2>1, PoolFields
    <2>3. n.pool.nonces[a] <= s.pool.nonces[a] /\ s.pool.nonces[a] <= p.nonces[a]
      BY <1>1, <1>2 DEF PutIn, Reached
    <2> QED
      BY <2>2, <2>3
  <1>4. ASSUME NEW a \in Accounts, NEW u \in n.pool.pending[a], u \notin n.events
        PROVE  Unreplaced(p, a, u, n.events)
    <2>1. u \in o.pool.pending[a] /\ u \notin s.events /\ u \notin o.events
      BY <1>2, <1>4
    <2>2. u \in s.pool.pending[a]
      BY <1>1, <2>1 DEF PutIn
    <2>3. Unreplaced(p, a, u, s.events)
      BY <2>1, <2>2 DEF Reached
    <2>4. \A e \in o.events : From[e] = a => Nonce[e] # Nonce[u]
      <3> SUFFICES ASSUME NEW e \in o.events, From[e] = a, Nonce[e] = Nonce[u] PROVE FALSE
        OBVIOUS
      <3>1. e \in o.pool.pending[a] /\ Shape(o.pool)
        BY <1>1 DEF PutIn
      <3>2. e = u
        BY <2>1, <3>1, ShapeFacts
      <3> QED
        BY <2>1, <3>2
    <2> QED
      BY <1>2, <2>3, <2>4 DEF Unreplaced
  <1>5. ASSUME Quiet(p, R) PROVE n.events = {}
    <2>1. s.events = {}
      BY <1>5 DEF Reached
    <2>2. \A u \in s.pool.pending[From[t]] : u \in p.pending[From[t]]
      BY <2>1, TxFacts DEF Reached, Unreplaced
    <2>3. o.events = {}
      BY <1>1, <1>5, <2>2 DEF PutIn, Quiet
    <2> QED
      BY <1>2, <2>1, <2>3
  <1>6. n.events \subseteq Txs
    BY <1>1, <1>2 DEF PutIn, Reached
  <1>7. Shape(n.pool) /\ Fits(n.pool) /\ Owned(n.pool) /\ n.pool.head = p.head
    BY <1>1, <1>2 DEF PutIn, Reached
  <1> QED
    BY <1>3, <1>4, <1>5, <1>6, <1>7 DEF Reached

LEMMA ReinjectedReached ==
    ASSUME NEW p, Shape(p), Fits(p), Owned(p), NEW R \in SUBSET Txs, NEW lost \in Seq(R),
           NEW o \in Reinjected(p, lost)
    PROVE  Reached(p, R, o)
  <1> DEFINE n == Len(lost)
             Outs == {x \in [pool : Pools, dirty : {{}}, events : SUBSET Txs] : Reached(p, R, x)}
             V == SUBSET Outs
             v0 == {Outcome(p, {}, {})}
             Grow(X, t) == UNION {{Outcome(x.pool, {}, s.events \cup x.events) : x \in Add(s.pool, t)}
                                    : s \in X}
             Eq(F) == F = [i \in 0..n |-> IF i = 0 THEN v0 ELSE Grow(F[i - 1], lost[i])]
             after == CHOOSE F : Eq(F)
             step == [x \in V \X (1..n) |-> Grow(x[1], lost[x[2]])]
  <1>1. Reinjected(p, lost) = after[n]
    BY DEF Reinjected
  <1>2. n \in Nat /\ \A i \in 1..n : lost[i] \in R
    OBVIOUS
  <1> HIDE DEF n
  <1>3. v0 \in V
    <2>1. PICK x : x = Outcome(p, {}, {})
      OBVIOUS
    <2>2. x.pool = p /\ x.dirty = {} /\ x.events = {}
      BY <2>1, OutcomeFields
    <2>3. \A a \in Accounts : p.nonces[a] \in Nat
      BY PoolFields DEF Shape
    <2>4. Reached(p, R, x)
      BY <2>2, <2>3 DEF Reached, Unreplaced
    <2>5. x \in [pool : Pools, dirty : {{}}, events : SUBSET Txs]
      BY <2>1 DEF Outcome, Shape
    <2> QED
      BY <2>1, <2>4, <2>5
  <1>4. \A X \in V : \A i \in 1..n : Grow(X, lost[i]) \in V
    <2> HIDE DEF Outs
    <2> SUFFICES ASSUME NEW X \in V, NEW i \in 1..n, NEW y \in Grow(X, lost[i])
                 PROVE  y \in Outs
      OBVIOUS
    <2>0. PICK s \in X : \E x \in Add(s.pool, lost[i]) :
                            y = Outcome(x.pool, {}, s.events \cup x.events)
      OBVIOUS
    <2>1. PICK x \in Add(s.pool, lost[i]) : y = Outcome(x.pool, {}, s.events \cup x.events)
      BY <2>0
    <2>2. s \in Outs /\ Reached(p, R, s) /\ lost[i] \in R
      BY <1>2 DEF Outs
    <2>3. Reached(p, R, y)
      BY <2>1, <2>2, ReachedStep
    <2>4. y.pool = x.pool /\ y.events = s.events \cup x.events
      BY <2>1, OutcomeFields
    <2>5. x.pool \in Pools /\ s.events \cup x.events \in SUBSET Txs
      BY <2>3, <2>4 DEF Reached, Shape
    <2>6. y \in [pool : Pools, dirty : {{}}, events : SUBSET Txs]
      BY <2>1, <2>5 DEF Outcome
    <2> QED
      BY <2>3, <2>6 DEF Outs
  <1> HIDE DEF V, Grow, v0
  <1>5. /\ step \in [V \X (1..n) -> V]
        /\ \A X \in V, i \in 1..n : step[<<X, i>>] = Grow(X, lost[i])
    BY <1>4
  <1> HIDE DEF step
  <1>6. PICK g \in [0..n -> V] : Solves(g, v0, step, n)
    BY <1>2, <1>3, <1>5, Chain
  <1>7. Eq(g)
    <2>1. \A i \in 0..n : g[i] = IF i = 0 THEN v0 ELSE Grow(g[i - 1], lost[i])
      <3> SUFFICES ASSUME NEW i \in 0..n
                   PROVE  g[i] = IF i = 0 THEN v0 ELSE Grow(g[i - 1], lost[i])
        OBVIOUS
      <3>1. i # 0 => i \in 1..n /\ i - 1 \in 0..n
        BY <1>2
      <3> QED
        BY <1>5, <1>6, <3>1 DEF Solves
    <2>2. g = [i \in 0..n |-> g[i]]
      OBVIOUS
    <2> QED
      BY <2>1, <2>2
  <1>8. Eq(after)
    BY <1>7
  <1> HIDE DEF after
  <1>9. \A i \in 0..n : after[i] \in V
    <2> DEFINE S == {i \in 0..n : after[i] \in V}
    <2>1. \A i \in 0..n : after[i] = IF i = 0 THEN v0 ELSE Grow(after[i - 1], lost[i])
      BY <1>8
    <2>2. 0 \in S
      BY <1>2, <1>3, <2>1
    <2>3. \A i \in 1..n : i - 1 \in S => i \in S
      BY <1>2, <1>4, <2>1
    <2> HIDE DEF S
    <2>4. \A i \in 0..n : i \in S
      BY <1>2, <2>2, <2>3, UpTo
    <2> QED
      BY <2>4 DEF S
  <1>10. after[n] \in V
    BY <1>2, <1>9
  <1> QED
    BY <1>1, <1>10 DEF V

LEMMA OnHeadKeeps ==
    ASSUME NEW p, Good(p), NEW new \in Blocks, NEW q, q = OnHead(p, new)
    PROVE  /\ Shape(q) /\ Fits(q) /\ Owned(q) /\ q.head = new
           /\ q.pending = p.pending /\ q.nonces = StateNonce[new]
  <1>1. p \in Pools /\ StateNonce[new] \in [Accounts -> Nat]
    BY ChainFacts DEF Good, Shape
  <1>2. /\ q \in Pools /\ q.pending = p.pending /\ q.queue = p.queue /\ q.all = p.all
        /\ q.nonces = StateNonce[new] /\ q.owner = p.owner /\ q.head = new
    BY <1>1 DEF OnHead, Pools
  <1>3. Shape(q)
    BY <1>2 DEF Good, Shape
  <1> QED
    BY <1>2, <1>3 DEF Good, Fits, Owned, Tracked

(* The outcomes of a reset that found its blocks and its state.            *)
LEMMA ResetReached ==
    ASSUME NEW p, Good(p), NEW old \in Blocks, NEW new \in Blocks, NEW o \in Reset(p, old, new)
    PROVE  \E q : /\ Shape(q) /\ q.head = new /\ q.pending = p.pending
                  /\ q.nonces = StateNonce[new] /\ Reached(q, Below(old), o)
  <1>1. PICK q : q = OnHead(p, new)
    OBVIOUS
  <1>2. PICK lost \in Reinjections(old, new) : o \in Reinjected(q, lost)
    BY <1>1 DEF Reset
  <1>3. lost \in Seq(Below(old))
    BY <1>2, ReinjectionsAreStale
  <1>4. /\ Shape(q) /\ Fits(q) /\ Owned(q) /\ q.head = new
        /\ q.pending = p.pending /\ q.nonces = StateNonce[new]
    BY <1>1, OnHeadKeeps
  <1>5. Below(old) \in SUBSET Txs
    BY DEF Below
  <1>6. Reached(q, Below(old), o)
    BY <1>2, <1>3, <1>4, <1>5, ReinjectedReached
  <1> QED
    BY <1>4, <1>6

(* Validation makes any such pool a good one.                              *)
LEMMA ValidatedIsGood ==
    ASSUME NEW p, Shape(p), Fits(p), Owned(p), NEW q \in Validated(p)
    PROVE  /\ Good(q) /\ q.head = p.head /\ q.all \subseteq p.all
           /\ \A a \in Accounts : \A u \in q.pending[a] :
                 /\ u \in p.pending[a] \/ u \in Promoted(p, a)
                 /\ \A b \in Accounts : \A t \in Promoted(p, b) :
                       From[t] = From[u] /\ Nonce[t] = Nonce[u] => t = u
  <1>1. PICK m : m = PromoteExecutables(p, Accounts)
    OBVIOUS
  <1>2. PICK r : r = DemoteUnexecutables(m)
    OBVIOUS
  <1>3. q = SettleNonces(r)
    BY <1>1, <1>2 DEF Validated
  <1>4. /\ Shape(m) /\ m.all \subseteq p.all /\ m.head = p.head
        /\ Owned(m)
        /\ \A a \in Accounts : \A u \in m.pending[a] :
              u \in p.pending[a] \/ u \in Promoted(p, a)
        /\ \A a \in Accounts : Promoted(p, a) \subseteq m.pending[a]
    BY <1>1, PromoteKeeps
  <1>5. /\ Shape(r) /\ r.all \subseteq m.all /\ r.head = m.head /\ Owned(r)
        /\ \A a \in Accounts :
              /\ r.pending[a] \subseteq m.pending[a]
              /\ \A t \in r.pending[a] : Nonce[t] >= NextNonce(r, a)
              /\ r.pending[a] # {} => At(r.pending[a], NextNonce(r, a)) # {}
    BY <1>2, <1>4, DemoteKeeps
  <1>6. /\ Shape(q) /\ Due(q) /\ Owned(q)
        /\ q.pending = r.pending /\ q.all = r.all /\ q.head = r.head
    BY <1>3, <1>5, SettleKeeps
  <1>7. q.all \subseteq p.all /\ p \in Pools
    BY <1>4, <1>5, <1>6 DEF Shape
  <1>8. Fits(q)
    BY <1>7, FewerFit
  <1>9. ASSUME NEW a \in Accounts, NEW u \in q.pending[a]
        PROVE  /\ u \in p.pending[a] \/ u \in Promoted(p, a)
               /\ \A b \in Accounts : \A t \in Promoted(p, b) :
                     From[t] = From[u] /\ Nonce[t] = Nonce[u] => t = u
    <2>1. u \in m.pending[a]
      BY <1>5, <1>6, <1>9
    <2>2. \A b \in Accounts : \A t \in Promoted(p, b) : t \in m.pending[b]
      BY <1>4
    <2> QED
      BY <1>4, <2>1, <2>2, ShapeFacts
  <1> QED
    BY <1>4, <1>5, <1>6, <1>7, <1>8, <1>9 DEF Good

-----------------------------------------------------------------------------
(* Every step keeps the types and leaves a good pool.                      *)

Scheds == [reset : Requests \cup {None}, dirty : SUBSET Accounts,
           events : SUBSET Txs, launch : BOOLEAN]

PoolTyped == TypeOK /\ Good(pool)

LEMMA ScheduleTyped ==
    ASSUME NEW s \in Scheds, NEW r \in Runs \cup {None}, Schedule(s, r)
    PROVE  run' \in Runs \cup {None} /\ sched' \in Scheds
  <1>1. CASE r = None /\ s.launch
    <2>1. run' = [phase |-> "lock", reset |-> s.reset, dirty |-> s.dirty, events |-> s.events]
      BY <1>1 DEF Schedule
    <2>2. sched' = NothingDue
      BY <1>1 DEF Schedule
    <2>3. run' \in Runs
      BY <2>1 DEF Scheds, Runs
    <2> QED
      BY <2>2, <2>3 DEF Scheds, NothingDue
  <1>2. CASE ~(r = None /\ s.launch)
    BY <1>2, Zenon DEF Schedule
  <1> QED
    BY <1>1, <1>2

LEMMA PutTyped == \A events, ts \in SUBSET Txs : Put(events, ts) \in SUBSET Txs
  BY DEF Put

LEMMA PromotedTyped ==
    ASSUME NEW p, Shape(p), NEW a \in Accounts
    PROVE  Promoted(p, a) \in SUBSET Txs
  <1>1. Promoted(p, a) \subseteq PromoteExecutables(p, {a}).pending[a]
    BY PromoteKeeps
  <1>2. Shape(PromoteExecutables(p, {a}))
    BY PromoteKeeps
  <1> QED
    BY <1>1, <1>2, ShapeFacts

LEMMA InitTyped ==
    ASSUME Init PROVE PoolTyped
  <1>1. pool \in Pools
    BY ChainFacts DEF Init, LegacyInit, Pools
  <1>2. /\ pool.all = {} /\ pool.nonces = StateNonce[Genesis] /\ pool.head = Genesis
        /\ \A a \in Accounts : pool.pending[a] = {} /\ pool.queue[a] = {} /\ pool.owner[a] = None
    BY DEF Init, LegacyInit
  <1>3. Shape(pool)
    BY <1>1, <1>2 DEF Shape
  <1>4. Due(pool) /\ Owned(pool)
    BY <1>2, TxFacts DEF Due, NextNonce, Owned, Tracked
  <1>5. Fits(pool)
    BY <1>2, TxFacts, FS_EmptySet DEF Fits
  <1>6. TypeOK
    <2>1. sched \in Scheds
      BY DEF Init, LegacyInit, NothingDue, Scheds
    <2>2. calls \in 0 .. MaxCalls /\ inputs \in 0 .. MaxInputs
      BY BoundsAssumption DEF Init
    <2>3. gasTip \in Tips /\ call \in [Callers -> Adding \cup Asking \cup {None}]
      BY TxFacts DEF Init, LegacyInit
    <2> QED
      BY <1>1, <2>1, <2>2, <2>3, ChainFacts DEF Init, LegacyInit, TypeOK, Scheds
  <1> QED
    BY <1>3, <1>4, <1>5, <1>6 DEF PoolTyped, Good

(* The actions that leave the pool alone.                                  *)
LEMMA LoopTyped ==
    ASSUME PoolTyped,
           \/ ResetRequested \/ ResetReturns \/ ResetDone \/ ResetAbandoned \/ CloseLegacy
           \/ \E b \in Blocks : NewHead(b)
           \/ \E s \in Syncers : Sync(s)
           \/ Quit,
           calls' \in 0 .. MaxCalls /\ inputs' \in 0 .. MaxInputs
    PROVE  PoolTyped'
  <1>1. TypeOK /\ Good(pool)
    BY DEF PoolTyped
  <1>2. ASSUME NEW old \in Blocks, NEW new \in Blocks, NEW forced \in BOOLEAN,
               NEW current \in Resetters \cup {None}, StartReset(old, new, forced, current)
        PROVE  resetter' \in Resetters \cup {None} /\ resetForced' \in BOOLEAN
    <2>1. CASE (old # new \/ forced) /\ current = None
      <3>1. resetForced' = FALSE /\ resetter' = [phase |-> "request", old |-> old, new |-> new]
        BY <1>2, <2>1, Zenon DEF StartReset
      <3> QED
        BY <3>1 DEF Resetters
    <2>2. CASE ~((old # new \/ forced) /\ current = None)
      BY <1>2, <2>2, Zenon DEF StartReset
    <2> QED
      BY <2>1, <2>2
  <1>2a. ASSUME NEW state \in {"out", "overtaken"}
         PROVE  WaiterIs(state) \in [Syncers -> {"out", "waiting", "overtaken"}]
    BY <1>1 DEF TypeOK, WaiterIs
  <1>3. CASE ResetRequested
    <2>1. pool' = pool
      BY <1>3 DEF ResetRequested
    <2>2. resetter \in Resetters /\ resetter' \in Resetters
      BY <1>1, <1>3 DEF TypeOK, ResetRequested, Resetters
    <2>3. run' \in Runs \cup {None} /\ sched' \in Scheds
      <3>1. CASE UNCHANGED <<sched, run>>
        BY <1>1, <3>1 DEF TypeOK, Scheds
      <3>2. CASE RequestReset(resetter.old, resetter.new)
        <4>1. PICK s : s = [sched EXCEPT !.reset = [old |-> IF @ = None THEN resetter.old ELSE @.old,
                                                    new |-> resetter.new],
                                         !.launch = TRUE]
          OBVIOUS
        <4>2. s \in Scheds
          BY <1>1, <2>2, <4>1 DEF TypeOK, Scheds, Requests, Resetters
        <4>3. Schedule(s, run)
          BY <3>2, <4>1 DEF RequestReset
        <4> QED
          BY <1>1, <4>2, <4>3, ScheduleTyped DEF TypeOK
      <3> QED
        BY <1>3, <3>1, <3>2 DEF ResetRequested
    <2> QED
      BY <1>1, <1>3, <2>1, <2>2, <2>3 DEF PoolTyped, TypeOK, ResetRequested, Scheds
  <1>4. CASE ResetReturns
    <2>1. resetter \in Resetters /\ resetter' \in Resetters
      BY <1>1, <1>4 DEF TypeOK, ResetReturns, Resetters
    <2> QED
      BY <1>1, <1>4, <2>1 DEF PoolTyped, TypeOK, ResetReturns, legacyVars
  <1>5. CASE ResetDone
    <2>1. resetter.new \in Blocks
      BY <1>1, <1>5 DEF TypeOK, ResetDone, Resetters
    <2>2. resetter' \in Resetters \cup {None} /\ resetForced' \in BOOLEAN
      BY <1>1, <1>2, <1>5, <2>1 DEF TypeOK, ResetDone
    <2>3. syncing' \in [Syncers -> {"out", "waiting", "overtaken"}]
      BY <1>1, <1>2a, <1>5 DEF TypeOK, ResetDone
    <2> QED
      BY <1>1, <1>5, <2>1, <2>2, <2>3 DEF PoolTyped, TypeOK, ResetDone, legacyVars
  <1>6. CASE ResetAbandoned
    BY <1>1, <1>6 DEF PoolTyped, TypeOK, ResetAbandoned, legacyVars
  <1>7. CASE CloseLegacy
    BY <1>1, <1>7 DEF PoolTyped, TypeOK, CloseLegacy, loopVars
  <1>8. ASSUME NEW b \in Blocks, NewHead(b) PROVE PoolTyped'
    <2>1. resetter' \in Resetters \cup {None} /\ resetForced' \in BOOLEAN
      BY <1>1, <1>2, <1>8 DEF TypeOK, NewHead
    <2>2. resetWaiter' \in Waiters \cup {None}
      BY <1>1, <1>8 DEF TypeOK, NewHead, Waiters
    <2> QED
      BY <1>1, <1>8, <2>1, <2>2 DEF PoolTyped, TypeOK, NewHead, legacyVars
  <1>9. ASSUME NEW s \in Syncers, Sync(s) PROVE PoolTyped'
    <2>1. resetter' \in Resetters \cup {None} /\ resetForced' \in BOOLEAN
      BY <1>1, <1>2, <1>9 DEF TypeOK, Sync
    <2>2. resetWaiter' \in Waiters
      BY <1>1, <1>9 DEF TypeOK, Sync, Waiters
    <2>3. syncing' \in [Syncers -> {"out", "waiting", "overtaken"}]
      <3>1. PICK f : f = WaiterIs("overtaken")
        OBVIOUS
      <3>2. f \in [Syncers -> {"out", "waiting", "overtaken"}]
        BY <1>2a, <3>1
      <3>3. syncing' = [f EXCEPT ![s] = "waiting"]
        BY <1>9, <3>1 DEF Sync
      <3> QED
        BY <3>2, <3>3
    <2> QED
      BY <1>1, <1>9, <2>1, <2>2, <2>3 DEF PoolTyped, TypeOK, Sync, legacyVars
  <1>10. CASE Quit
    <2>1. syncing' \in [Syncers -> {"out", "waiting", "overtaken"}]
      BY <1>2a, <1>10 DEF Quit
    <2> QED
      BY <1>1, <1>10, <2>1 DEF PoolTyped, TypeOK, Quit, legacyVars
  <1> QED
    BY <1>3, <1>4, <1>5, <1>6, <1>7, <1>8, <1>9, <1>10

(* The actions of the legacy pool also keep PendingIsAnnounced, here for   *)
(* one transaction at a time.                                              *)
Heard(u) == u \in announced \/ u \in sched.events \/ (run # None /\ u \in run.events)

AllHeard ==
    ~shutdown /\ ~resetFailed => \A a \in Accounts : \A u \in pool.pending[a] : Heard(u)

LEMMA AnnouncedIsHeard == PendingIsAnnounced <=> AllHeard
  BY DEF PendingIsAnnounced, AllHeard, Heard

Sound == PoolTyped /\ AllHeard

(* What a step of the legacy pool leaves to the rest.                      *)
Around == UNCHANGED loopVars /\ calls' \in 0 .. MaxCalls /\ inputs' \in 0 .. MaxInputs

LEMMA AddLockedSound ==
    ASSUME Sound, Around, NEW c \in Callers, AddLocked(c)
    PROVE  Sound' /\ pool'.head = pool.head
  <1>1. TypeOK /\ Good(pool) /\ AllHeard
    BY DEF Sound, PoolTyped
  <1>2. PICK t : t = call[c].tx
    OBVIOUS
  <1>3. t \in Txs
    BY <1>1, <1>2 DEF TypeOK, AddLocked, Adding, Asking
  <1>4. PICK o \in Add(pool, t) :
           /\ Pool(o.pool)
           /\ QueueTxEvents(o.events)
           /\ call' = [call EXCEPT ![c] = [phase |-> "request", dirty |-> o.dirty]]
    BY <1>2 DEF AddLocked
  <1>5. PutIn(pool, t, o)
    BY <1>1, <1>3, <1>4, AddKeeps DEF Good
  <1>6. Good(pool') /\ pool' = o.pool /\ announced' = announced \cap o.pool.all
    BY <1>1, <1>4, <1>5 DEF Good, PutIn, Pool
  <1>7. o.events \in SUBSET Txs
    BY <1>3, <1>5 DEF PutIn
  <1>8. sched' \in Scheds
    <2>1. CASE UNCHANGED sched
      BY <1>1, <2>1 DEF TypeOK, Scheds
    <2>2. CASE sched' = [sched EXCEPT !.events = Put(@, o.events)]
      <3>1. Put(sched.events, o.events) \in SUBSET Txs
        BY <1>1, <1>7, PutTyped DEF TypeOK
      <3> QED
        BY <1>1, <2>2, <3>1 DEF TypeOK, Scheds
    <2> QED
      BY <1>4, <2>1, <2>2 DEF QueueTxEvents
  <1>9. call' \in [Callers -> Adding \cup Asking \cup {None}]
    <2>1. [phase |-> "request", dirty |-> o.dirty] \in Asking
      BY <1>5 DEF PutIn, Asking
    <2> QED
      BY <1>1, <1>4, <2>1 DEF TypeOK
  <1>10. TypeOK'
    <2>1. pool' \in Pools
      BY <1>6 DEF Good, Shape
    <2>2. announced' \in SUBSET Txs
      BY <1>1, <1>6 DEF TypeOK
    <2> QED
      BY <1>1, <1>8, <1>9, <2>1, <2>2 DEF TypeOK, Scheds, AddLocked, Around, loopVars
  <1>11. AllHeard'
    <2> SUFFICES ASSUME ~shutdown, ~resetFailed, ~shutdown', ~resetFailed',
                        NEW a \in Accounts, NEW u \in pool'.pending[a]
                 PROVE  Heard(u)'
      BY DEF AllHeard, AddLocked
    <2>1. sched'.events = Put(sched.events, o.events) /\ run' = run
      BY <1>1, <1>4 DEF QueueTxEvents, TypeOK, AddLocked
    <2>2. Shape(pool') /\ u \in pool'.all
      BY <1>6, ShapeFacts DEF Good
    <2>3. CASE u \in o.events
      BY <2>1, <2>3 DEF Heard, Put
    <2>4. CASE u \notin o.events
      <3>1. Heard(u)
        BY <1>1, <1>5, <1>6, <2>4 DEF PutIn, AllHeard
      <3>2. \A e \in o.events : From[e] # From[u] \/ Nonce[e] # Nonce[u]
        <4> SUFFICES ASSUME NEW e \in o.events, From[e] = From[u], Nonce[e] = Nonce[u]
                     PROVE  FALSE
          OBVIOUS
        <4>1. e \in pool'.pending[a]
          BY <1>5, <1>6, <2>2, ShapeFacts DEF PutIn
        <4>2. e = u
          BY <2>2, <4>1, ShapeFacts
        <4> QED
          BY <2>4, <4>2
      <3> QED
        BY <1>6, <2>1, <2>2, <3>1, <3>2 DEF Heard, Put
    <2> QED
      BY <2>3, <2>4
  <1> QED
    BY <1>5, <1>6, <1>10, <1>11 DEF Sound, PoolTyped, PutIn

LEMMA PromoteRunSound ==
    ASSUME Sound, Around, PromoteRun
    PROVE  /\ Sound' /\ pool'.head = pool.head
           /\ run' \in Runs /\ run'.reset = None
  <1>1. TypeOK /\ Good(pool) /\ AllHeard
    BY DEF Sound, PoolTyped
  <1>2. run \in Runs /\ run.dirty \in SUBSET Accounts /\ run.events \in SUBSET Txs
    BY <1>1 DEF TypeOK, PromoteRun, Runs
  <1>3. PICK p : p = PromoteExecutables(pool, run.dirty)
    OBVIOUS
  <1>4. PICK ts : ts = UNION {Promoted(pool, a) : a \in run.dirty}
    OBVIOUS
  <1>5. PICK q \in Truncated(p) :
           Pool(q) /\ run' = [run EXCEPT !.phase = "send", !.events = Put(@, ts)]
    BY <1>3, <1>4 DEF PromoteRun
  <1>6. /\ Shape(p) /\ p.all \subseteq pool.all /\ Owned(p) /\ Due(p) /\ p.head = pool.head
        /\ \A a \in Accounts : \A u \in p.pending[a] :
              u \in pool.pending[a] \/ (a \in run.dirty /\ u \in Promoted(pool, a))
        /\ \A a \in run.dirty : Promoted(pool, a) \subseteq p.pending[a]
    BY <1>1, <1>2, <1>3, PromoteKeeps DEF Good
  <1>7. Fits(p)
    BY <1>1, <1>6, FewerFit DEF Good, Shape
  <1>8. Good(p)
    BY <1>6, <1>7 DEF Good
  <1>9. Good(q) /\ q.head = p.head /\ \A a \in Accounts : q.pending[a] \subseteq p.pending[a]
    BY <1>5, <1>8, TruncatedIsGood
  <1>10. pool' = q /\ announced' = announced \cap q.all
    BY <1>5 DEF Pool
  <1>11. ts \in SUBSET Txs /\ Put(run.events, ts) \in SUBSET Txs
    <2>1. \A a \in run.dirty : Promoted(pool, a) \subseteq Txs
      BY <1>2, <1>6, ShapeFacts
    <2>2. ts \in SUBSET Txs
      BY <1>4, <2>1
    <2> QED
      BY <1>2, <2>2, PutTyped
  <1>12. run' \in Runs /\ run'.events = Put(run.events, ts) /\ run'.reset = None
    BY <1>2, <1>5, <1>11 DEF Runs, PromoteRun
  <1>13. TypeOK'
    <2>1. pool' \in Pools
      BY <1>9, <1>10 DEF Good, Shape
    <2>2. announced' \in SUBSET Txs
      BY <1>1, <1>10 DEF TypeOK
    <2> QED
      BY <1>1, <1>12, <2>1, <2>2 DEF TypeOK, PromoteRun, Around, loopVars
  <1>14. AllHeard'
    <2> SUFFICES ASSUME ~shutdown, ~resetFailed, NEW a \in Accounts, NEW u \in q.pending[a]
                 PROVE  Heard(u)'
      BY <1>10 DEF AllHeard, PromoteRun
    <2>1. u \in p.pending[a] /\ u \in q.all /\ From[u] = a
      BY <1>9, ShapeFacts DEF Good
    <2>2. run' # None /\ sched' = sched
      BY <1>12, NoneAssumption DEF PromoteRun
    <2>3. CASE u \in ts
      BY <1>12, <2>2, <2>3 DEF Heard, Put
    <2>4. CASE u \notin ts
      <3>1. u \in pool.pending[a]
        BY <1>4, <1>6, <2>1, <2>4
      <3>2. Heard(u)
        BY <1>1, <3>1 DEF AllHeard
      <3>3. \A t \in ts : From[t] # From[u] \/ Nonce[t] # Nonce[u]
        <4> SUFFICES ASSUME NEW t \in ts, From[t] = From[u], Nonce[t] = Nonce[u] PROVE FALSE
          OBVIOUS
        <4>1. PICK b \in run.dirty : t \in Promoted(pool, b)
          BY <1>4
        <4>2. b \in Accounts /\ t \in p.pending[b]
          BY <1>2, <1>6, <4>1
        <4>3. t = u
          BY <1>6, <2>1, <4>2, ShapeFacts
        <4> QED
          BY <2>4, <4>3
      <3> QED
        BY <1>10, <1>12, <2>1, <2>2, <3>2, <3>3 DEF Heard, Put
    <2> QED
      BY <2>3, <2>4
  <1> QED
    BY <1>6, <1>9, <1>10, <1>12, <1>13, <1>14 DEF Sound, PoolTyped

LEMMA AfterResetLeaves ==
    ASSUME run \in Runs, NEW p, Shape(p), Fits(p), Owned(p), AfterReset(p)
    PROVE  /\ Good(pool') /\ pool'.head = p.head
           /\ announced' = announced \cap pool'.all
           /\ run' \in Runs /\ run'.phase = "send" /\ run'.reset = run.reset
           /\ \A a \in Accounts : \A u \in pool'.pending[a] :
                 \/ u \in run'.events
                 \/ /\ u \in p.pending[a]
                    /\ u \in run.events => Nonce[u] < p.nonces[a]
  <1>1. PICK ts : ts = UNION {Promoted(p, a) : a \in Accounts}
    OBVIOUS
  <1>2. PICK fresh : fresh = {e \in run.events : Nonce[e] >= p.nonces[From[e]]}
    OBVIOUS
  <1>3. PICK r \in Validated(p) : \E q \in Truncated(r) :
           /\ Pool(q)
           /\ run' = [run EXCEPT !.phase = "send", !.events = Put(fresh, ts)]
    BY <1>1, <1>2 DEF AfterReset
  <1>4. PICK q \in Truncated(r) :
           /\ Pool(q)
           /\ run' = [run EXCEPT !.phase = "send", !.events = Put(fresh, ts)]
    BY <1>3
  <1>5. /\ Good(r) /\ r.head = p.head
        /\ \A a \in Accounts : \A u \in r.pending[a] :
              /\ u \in p.pending[a] \/ u \in Promoted(p, a)
              /\ \A b \in Accounts : \A t \in Promoted(p, b) :
                    From[t] = From[u] /\ Nonce[t] = Nonce[u] => t = u
    BY <1>3, ValidatedIsGood
  <1>6. Good(q) /\ q.head = p.head /\ \A a \in Accounts : q.pending[a] \subseteq r.pending[a]
    BY <1>4, <1>5, TruncatedIsGood
  <1>7. pool' = q /\ announced' = announced \cap q.all
    BY <1>4 DEF Pool
  <1>8. Put(fresh, ts) \in SUBSET Txs
    <2>1. \A a \in Accounts : Promoted(p, a) \in SUBSET Txs
      BY PromotedTyped
    <2>2. ts \in SUBSET Txs
      BY <1>1, <2>1
    <2>3. fresh \in SUBSET Txs
      BY <1>2 DEF Runs
    <2> QED
      BY <2>2, <2>3, PutTyped
  <1>9. run' \in Runs /\ run'.phase = "send" /\ run'.reset = run.reset /\ run'.events = Put(fresh, ts)
    BY <1>4, <1>8 DEF Runs
  <1>10. ASSUME NEW a \in Accounts, NEW u \in q.pending[a], u \notin run'.events
         PROVE  u \in p.pending[a] /\ (u \in run.events => Nonce[u] < p.nonces[a])
    <2>1. u \notin ts
      BY <1>9, <1>10 DEF Put
    <2>2. u \in r.pending[a] /\ From[u] = a
      BY <1>6, ShapeFacts DEF Good
    <2>3. u \in p.pending[a]
      BY <1>1, <1>5, <2>1, <2>2
    <2>4. \A t \in ts : From[t] # From[u] \/ Nonce[t] # Nonce[u]
      BY <1>1, <1>5, <2>1, <2>2
    <2>5. u \notin fresh
      BY <1>9, <1>10, <2>4 DEF Put
    <2>6. Nonce[u] \in Nat /\ p.nonces[a] \in Nat
      BY <2>3, ShapeFacts, PoolFields
    <2> QED
      BY <1>2, <2>2, <2>3, <2>5, <2>6
  <1> QED
    BY <1>6, <1>7, <1>9, <1>10

LEMMA ResetRunSound ==
    ASSUME Sound, Around, ResetRun
    PROVE  /\ Sound' /\ run' \in Runs /\ run'.phase = "send" /\ run'.reset = run.reset
           /\ pool'.head = run.reset.new
           /\ ~shutdown /\ pool.head = run.reset.old => sched' = sched
  <1>1. TypeOK /\ Good(pool) /\ AllHeard
    BY DEF Sound, PoolTyped
  <1>2. run \in Runs /\ run.reset \in Requests
    BY <1>1 DEF TypeOK, ResetRun, Runs
  <1>3. PICK old, new : old = run.reset.old /\ new = run.reset.new
    OBVIOUS
  <1>4. old \in Blocks /\ new \in Blocks
    BY <1>2, <1>3 DEF Requests
  <1>5. PICK o \in Reset(pool, old, new) : QueueTxEvents(o.events) /\ AfterReset(o.pool)
    BY <1>3 DEF ResetRun
  <1>6. PICK q : /\ Shape(q) /\ q.head = new /\ q.pending = pool.pending
                 /\ q.nonces = StateNonce[new] /\ Reached(q, Below(old), o)
    BY <1>1, <1>4, <1>5, ResetReached
  <1>7. Shape(o.pool) /\ Fits(o.pool) /\ Owned(o.pool) /\ o.pool.head = new /\ o.events \in SUBSET Txs
    BY <1>6 DEF Reached
  <1>8. /\ Good(pool') /\ pool'.head = new
        /\ announced' = announced \cap pool'.all
        /\ run' \in Runs /\ run'.phase = "send" /\ run'.reset = run.reset
        /\ \A a \in Accounts : \A u \in pool'.pending[a] :
              \/ u \in run'.events
              \/ /\ u \in o.pool.pending[a]
                 /\ u \in run.events => Nonce[u] < o.pool.nonces[a]
    BY <1>2, <1>5, <1>7, AfterResetLeaves
  <1>9. sched' \in Scheds
    <2>1. CASE UNCHANGED sched
      BY <1>1, <2>1 DEF TypeOK, Scheds
    <2>2. CASE sched' = [sched EXCEPT !.events = Put(@, o.events)]
      <3>1. Put(sched.events, o.events) \in SUBSET Txs
        BY <1>1, <1>7, PutTyped DEF TypeOK
      <3> QED
        BY <1>1, <2>2, <3>1 DEF TypeOK, Scheds
    <2> QED
      BY <1>5, <2>1, <2>2 DEF QueueTxEvents
  <1>10. TypeOK'
    <2>1. pool' \in Pools
      BY <1>8 DEF Good, Shape
    <2>2. announced' \in SUBSET Txs
      BY <1>1, <1>8 DEF TypeOK
    <2> QED
      BY <1>1, <1>8, <1>9, <2>1, <2>2 DEF TypeOK, Scheds, ResetRun, Around, loopVars
  <1>11. AllHeard'
    <2> SUFFICES ASSUME ~shutdown, ~resetFailed, NEW a \in Accounts, NEW u \in pool'.pending[a]
                 PROVE  Heard(u)'
      BY DEF AllHeard, ResetRun
    <2>1. sched'.events = Put(sched.events, o.events) /\ run' # None
      BY <1>1, <1>5, <1>8, NoneAssumption DEF QueueTxEvents, TypeOK
    <2>2. CASE u \in run'.events
      BY <2>1, <2>2 DEF Heard
    <2>3. CASE u \in o.events
      BY <2>1, <2>3 DEF Heard, Put
    <2>4. CASE u \notin run'.events /\ u \notin o.events
      <3>1. u \in o.pool.pending[a] /\ (u \in run.events => Nonce[u] < o.pool.nonces[a])
        BY <1>8, <2>4
      <3>2. Unreplaced(q, a, u, o.events)
        BY <1>6, <2>4, <3>1 DEF Reached
      <3>3. Heard(u)
        BY <1>1, <1>6, <3>2 DEF AllHeard, Unreplaced
      <3>4. From[u] = a /\ u \in pool'.all
        BY <1>8, ShapeFacts DEF Good
      <3>5. u \notin run.events
        <4>1. Nonce[u] >= StateNonce[new][a]
          BY <1>8 DEF Good, Due, NextNonce
        <4>2. o.pool.nonces[a] <= StateNonce[new][a]
          BY <1>6 DEF Reached
        <4>3. o.pool.nonces[a] \in Nat /\ StateNonce[new][a] \in Nat /\ Nonce[u] \in Nat
          BY <1>4, <1>7, <3>1, PoolFields, ShapeFacts, ChainFacts
        <4> QED
          BY <3>1, <4>1, <4>2, <4>3
      <3> QED
        BY <1>8, <2>1, <3>2, <3>3, <3>4, <3>5 DEF Heard, Put, Unreplaced
    <2> QED
      BY <2>2, <2>3, <2>4
  <1>12. ASSUME ~shutdown, pool.head = old PROVE sched' = sched
    <2>1. Quiet(q, Below(old))
      <3> SUFFICES ASSUME NEW t \in Below(old), NEW u \in pool.pending[From[t]]
                   PROVE  Nonce[u] # Nonce[t]
        BY <1>6 DEF Quiet
      <3>1. t \in Txs /\ From[t] \in Accounts /\ Nonce[t] \in Nat
            /\ Nonce[t] < StateNonce[old][From[t]]
        BY TxFacts DEF Below
      <3>2. Nonce[u] >= StateNonce[old][From[t]] /\ Nonce[u] \in Nat
        BY <1>1, <1>12, <3>1, ShapeFacts DEF Good, Due, NextNonce
      <3>3. StateNonce[old][From[t]] \in Nat
        BY <1>4, <3>1, ChainFacts
      <3> QED
        BY <3>1, <3>2, <3>3
    <2>2. o.events = {}
      BY <1>6, <2>1 DEF Reached
    <2>3. Put(sched.events, o.events) = sched.events
      BY <2>2 DEF Put
    <2>4. sched' = [sched EXCEPT !.events = sched.events]
      BY <1>5, <1>12, <2>3 DEF QueueTxEvents
    <2> QED
      BY <1>1, <2>4 DEF TypeOK
  <1> QED
    BY <1>3, <1>8, <1>10, <1>11, <1>12 DEF Sound, PoolTyped

LEMMA ResetRunFailsSound ==
    ASSUME Sound, Around, ResetRunFails
    PROVE  Sound' /\ run' \in Runs
  <1>1. TypeOK /\ Good(pool)
    BY DEF Sound, PoolTyped
  <1>2. run \in Runs
    BY <1>1 DEF TypeOK, ResetRunFails
  <1>3. /\ Good(pool') /\ announced' = announced \cap pool'.all
        /\ run' \in Runs
    BY <1>1, <1>2, AfterResetLeaves DEF ResetRunFails, Good
  <1>4. TypeOK'
    <2>1. pool' \in Pools
      BY <1>3 DEF Good, Shape
    <2>2. announced' \in SUBSET Txs
      BY <1>1, <1>3 DEF TypeOK
    <2> QED
      BY <1>1, <1>3, <2>1, <2>2 DEF TypeOK, ResetRunFails, Around, loopVars
  <1>5. AllHeard'
    BY DEF ResetRunFails, AllHeard
  <1> QED
    BY <1>3, <1>4, <1>5 DEF Sound, PoolTyped

LEMMA ScheduleHears ==
    ASSUME NEW s \in Scheds, NEW r \in Runs \cup {None}, Schedule(s, r),
           NEW u, u \in s.events \/ (r # None /\ u \in r.events)
    PROVE  u \in sched'.events \/ (run' # None /\ u \in run'.events)
  <1>1. CASE r = None /\ s.launch
    <2>1. run' = [phase |-> "lock", reset |-> s.reset, dirty |-> s.dirty, events |-> s.events]
      BY <1>1 DEF Schedule
    <2>2. run' \in Runs /\ run'.events = s.events
      BY <2>1 DEF Scheds, Runs
    <2> QED
      BY <1>1, <2>2, NoneAssumption
  <1>2. CASE ~(r = None /\ s.launch)
    BY <1>2, Zenon DEF Schedule
  <1> QED
    BY <1>1, <1>2

(* Callers and the scheduler, between two locked sections.                 *)
LEMMA BeginAddSound ==
    ASSUME Sound, Around, NEW c \in Callers, NEW t \in Txs, BeginAdd(c, t)
    PROVE  Sound'
  <1>1. [phase |-> "lock", tx |-> t] \in Adding
    BY DEF Adding
  <1>2. TypeOK'
    BY <1>1 DEF Sound, PoolTyped, TypeOK, BeginAdd, Around, loopVars
  <1>3. UNCHANGED <<pool, sched, run, shutdown, announced, resetFailed>>
    BY DEF BeginAdd
  <1> QED
    BY <1>2, <1>3 DEF Sound, PoolTyped, AllHeard, Heard

LEMMA RequestPromoteSound ==
    ASSUME Sound, Around, NEW c \in Callers, RequestPromote(c)
    PROVE  Sound'
  <1>1. TypeOK /\ Good(pool) /\ AllHeard
    BY DEF Sound, PoolTyped
  <1>2. UNCHANGED <<pool, gasTip, shutdown, loop, announced, resetFailed>>
    BY DEF RequestPromote
  <1>3. call[c].dirty \in SUBSET Accounts
    BY <1>1 DEF TypeOK, RequestPromote, Adding, Asking
  <1>4. /\ run' \in Runs \cup {None} /\ sched' \in Scheds
        /\ \A u : Heard(u) => Heard(u)'
    <2>1. CASE UNCHANGED <<sched, run>>
      BY <1>1, <1>2, <2>1 DEF TypeOK, Scheds, Heard
    <2>2. CASE Schedule([sched EXCEPT !.dirty = @ \cup call[c].dirty, !.launch = TRUE], run)
      <3>1. PICK s : s = [sched EXCEPT !.dirty = @ \cup call[c].dirty, !.launch = TRUE]
        OBVIOUS
      <3>2. s \in Scheds /\ s.events = sched.events
        BY <1>1, <1>3, <3>1 DEF TypeOK, Scheds
      <3>3. Schedule(s, run) /\ run \in Runs \cup {None}
        BY <1>1, <2>2, <3>1 DEF TypeOK
      <3>4. run' \in Runs \cup {None} /\ sched' \in Scheds
        BY <3>2, <3>3, ScheduleTyped
      <3>5. ASSUME NEW u, Heard(u) PROVE Heard(u)'
        <4>1. CASE u \in announced
          BY <1>2, <4>1 DEF Heard
        <4>2. CASE u \in s.events \/ (run # None /\ u \in run.events)
          BY <3>2, <3>3, <4>2, ScheduleHears DEF Heard
        <4> QED
          BY <3>2, <3>5, <4>1, <4>2 DEF Heard
      <3> QED
        BY <3>4, <3>5
    <2> QED
      BY <2>1, <2>2 DEF RequestPromote
  <1>5. call' \in [Callers -> Adding \cup Asking \cup {None}]
    BY <1>1 DEF TypeOK, RequestPromote
  <1>6. TypeOK'
    BY <1>1, <1>2, <1>4, <1>5 DEF TypeOK, Scheds, Around, loopVars
  <1>7. AllHeard' /\ Good(pool')
    BY <1>1, <1>2, <1>4 DEF AllHeard
  <1> QED
    BY <1>6, <1>7 DEF Sound, PoolTyped

LEMMA RunSendSound ==
    ASSUME Sound, Around, RunSend
    PROVE  Sound'
  <1>1. TypeOK /\ Good(pool) /\ AllHeard
    BY DEF Sound, PoolTyped
  <1>2. /\ UNCHANGED <<pool, gasTip, call, shutdown, loop, resetFailed>>
        /\ announced' = announced \cup (run.events \cap pool.all)
    BY DEF RunSend
  <1>3. pool.all \in SUBSET Txs
    BY <1>1, PoolFields DEF TypeOK
  <1>4. /\ run' \in Runs \cup {None} /\ sched' \in Scheds
        /\ \A u \in sched.events : u \in sched'.events \/ (run' # None /\ u \in run'.events)
    <2>1. CASE UNCHANGED sched /\ run' = None
      BY <1>1, <2>1 DEF TypeOK, Scheds
    <2>2. CASE Schedule(sched, None)
      <3>1. sched \in Scheds
        BY <1>1 DEF TypeOK, Scheds
      <3> QED
        BY <2>2, <3>1, ScheduleTyped, ScheduleHears
    <2> QED
      BY <2>1, <2>2 DEF RunSend
  <1>5. TypeOK'
    BY <1>1, <1>2, <1>3, <1>4 DEF TypeOK, Scheds, Around, loopVars
  <1>6. ASSUME ~shutdown, ~resetFailed, NEW a \in Accounts, NEW u \in pool.pending[a]
        PROVE  Heard(u)'
    <2>1. Heard(u) /\ u \in pool.all
      BY <1>1, <1>6, ShapeFacts DEF AllHeard, Good
    <2> QED
      BY <1>2, <1>4, <2>1 DEF Heard
  <1> QED
    BY <1>1, <1>2, <1>5, <1>6 DEF Sound, PoolTyped, AllHeard

(* The setters and the timers: the pool loses transactions, or only the    *)
(* owner of an account changes.                                            *)
LEMMA ShrinkSound ==
    ASSUME Sound, Around, UNCHANGED <<call, sched, run, shutdown, loop, resetFailed>>,
           gasTip' \in Tips, NEW q, Good(q), Pool(q),
           \A a \in Accounts : q.pending[a] \subseteq pool.pending[a]
    PROVE  Sound'
  <1>1. pool' = q /\ announced' = announced \cap q.all
    BY DEF Pool
  <1>2. pool' \in Pools /\ announced' \in SUBSET Txs
    BY <1>1 DEF Sound, PoolTyped, TypeOK, Good, Shape
  <1>3. TypeOK'
    BY <1>2 DEF Sound, PoolTyped, TypeOK, Around, loopVars
  <1>4. ASSUME ~shutdown, ~resetFailed, NEW a \in Accounts, NEW u \in q.pending[a]
        PROVE  Heard(u)'
    <2>1. u \in q.all /\ Heard(u)
      BY <1>4, ShapeFacts DEF Good, Sound, AllHeard
    <2> QED
      BY <1>1, <2>1 DEF Heard
  <1> QED
    BY <1>1, <1>3, <1>4 DEF Sound, PoolTyped, AllHeard

LEMMA InputSound ==
    ASSUME Sound, Around, LegacyInput
    PROVE  Sound' /\ pool'.head = pool.head
  <1>1. TypeOK /\ Good(pool) /\ AllHeard /\ Shape(pool) /\ pool \in Pools
    BY DEF Sound, PoolTyped, Good, Shape
  <1>2. ASSUME NEW tip \in Tips, SetGasTip(tip) PROVE Sound' /\ pool'.head = pool.head
    <2>1. PICK q : q = IF tip > gasTip THEN RemoveAll(pool, {t \in pool.all : Price[t] < tip})
                       ELSE pool
      OBVIOUS
    <2>2. PICK S \in SUBSET Txs : S = {t \in pool.all : Price[t] < tip}
      BY <1>1, PoolFields
    <2>3. Kept(pool, q)
      BY <1>1, <2>1, <2>2, RemoveAllKeeps, KeptReflexive
    <2>4. Good(q) /\ q.head = pool.head /\ \A a \in Accounts : q.pending[a] \subseteq pool.pending[a]
      BY <1>1, <2>3, KeptIsGood DEF Kept
    <2>5. Pool(q) /\ gasTip' \in Tips /\ UNCHANGED <<call, sched, run, shutdown, loop, resetFailed>>
      BY <1>2, <2>1 DEF SetGasTip
    <2> QED
      BY <2>4, <2>5, ShrinkSound DEF Pool
  <1>3. ASSUME NEW A \in SUBSET Accounts, Evict(A) PROVE Sound' /\ pool'.head = pool.head
    <2>1. PICK S : S = UNION {pool.queue[a] : a \in A}
      OBVIOUS
    <2>2. S \in SUBSET Txs
      BY <1>1, <2>1, PoolFields
    <2>3. PICK q : q = RemoveAll(pool, S)
      OBVIOUS
    <2>4. Kept(pool, q)
      BY <1>1, <2>2, <2>3, RemoveAllKeeps
    <2>5. Good(q) /\ q.head = pool.head /\ \A a \in Accounts : q.pending[a] \subseteq pool.pending[a]
      BY <1>1, <2>4, KeptIsGood DEF Kept
    <2>6. Pool(q) /\ gasTip' \in Tips /\ UNCHANGED <<call, sched, run, shutdown, loop, resetFailed>>
      BY <1>1, <1>3, <2>1, <2>3 DEF Evict, TypeOK
    <2> QED
      BY <2>5, <2>6, ShrinkSound DEF Pool
  <1>4. CASE Clear
    <2>1. PICK m : m = [pool EXCEPT !.all = {}, !.nonces = StateNonce[pool.head],
                                    !.pending = [a \in Accounts |-> {}],
                                    !.queue = [a \in Accounts |-> {}]]
      OBVIOUS
    <2>2. /\ m \in Pools /\ m.all = {} /\ m.nonces = StateNonce[pool.head]
          /\ m.head = pool.head /\ m.owner = pool.owner
          /\ \A a \in Accounts : m.pending[a] = {} /\ m.queue[a] = {}
      BY <1>1, <2>1, ChainFacts DEF Pools
    <2>3. PICK B : B = {From[t] : t \in pool.all}
      OBVIOUS
    <2>4. PICK q : q = Release(m, B)
      OBVIOUS
    <2>5. /\ q \in Pools /\ q.pending = m.pending /\ q.queue = m.queue /\ q.all = m.all
          /\ q.nonces = m.nonces /\ q.head = m.head
          /\ \A a \in Accounts : q.owner[a] = IF a \in B /\ ~Tracked(m, a) /\ m.owner[a] = Legacy
                                              THEN None ELSE m.owner[a]
      BY <2>2, <2>4, ReleaseFields
    <2>6. Owned(q)
      <3> SUFFICES ASSUME NEW a \in Accounts PROVE q.owner[a] # Legacy /\ ~Tracked(q, a)
        BY DEF Owned
      <3>1. ~Tracked(m, a) /\ ~Tracked(q, a)
        BY <2>2, <2>5 DEF Tracked
      <3>2. CASE pool.owner[a] = Legacy
        <4>1. Tracked(pool, a)
          BY <1>1, <3>2 DEF Good, Owned
        <4>2. a \in B
          BY <1>1, <2>3, <4>1, ShapeFacts DEF Tracked
        <4> QED
          BY <2>2, <2>5, <3>1, <3>2, <4>2, TxFacts
      <3>3. CASE pool.owner[a] # Legacy
        BY <2>2, <2>5, <3>1, <3>3
      <3> QED
        BY <3>1, <3>2, <3>3
    <2>7. Shape(q)
      BY <2>2, <2>5 DEF Shape
    <2>8. Due(q)
      BY <2>2, <2>5 DEF Due, NextNonce
    <2>9. Fits(q)
      BY <2>2, <2>5, TxFacts, FS_EmptySet DEF Fits
    <2>10. Good(q) /\ \A a \in Accounts : q.pending[a] \subseteq pool.pending[a]
      BY <2>2, <2>5, <2>6, <2>7, <2>8, <2>9 DEF Good
    <2>11. Pool(q) /\ gasTip' \in Tips /\ UNCHANGED <<call, sched, run, shutdown, loop, resetFailed>>
      BY <1>1, <1>4, <2>1, <2>3, <2>4 DEF Clear, TypeOK
    <2> QED
      BY <2>2, <2>5, <2>10, <2>11, ShrinkSound DEF Pool
  <1>5. ASSUME NEW b \in Accounts, OtherReserves(b) PROVE Sound' /\ pool'.head = pool.head
    <2>1. PICK w : w = IF pool.owner[b] = None THEN Other ELSE None
      OBVIOUS
    <2>2. pool' = [pool EXCEPT !.owner = [pool.owner EXCEPT ![b] = w]]
      BY <1>1, <1>5, <2>1 DEF OtherReserves, Pools
    <2>3. pool.owner[b] # Legacy /\ w # Legacy /\ w \in {None, Legacy, Other}
      BY <1>5, <2>1, TxFacts DEF OtherReserves
    <2>4. /\ pool' \in Pools /\ pool'.pending = pool.pending /\ pool'.queue = pool.queue
          /\ pool'.all = pool.all /\ pool'.nonces = pool.nonces /\ pool'.head = pool.head
          /\ \A a \in Accounts : pool'.owner[a] = IF a = b THEN w ELSE pool.owner[a]
      BY <1>1, <2>2, <2>3 DEF Pools
    <2>5. Shape(pool')
      BY <1>1, <2>4 DEF Shape
    <2>6. Fits(pool') /\ Due(pool') /\ Owned(pool')
      BY <1>1, <2>3, <2>4 DEF Good, Fits, Due, NextNonce, Owned, Tracked
    <2>7. UNCHANGED <<gasTip, call, sched, run, shutdown, loop, announced, resetFailed>>
      BY <1>5 DEF OtherReserves
    <2>8. TypeOK'
      BY <1>1, <2>4, <2>7 DEF TypeOK, Around, loopVars
    <2>9. AllHeard'
      BY <1>1, <2>4, <2>7 DEF AllHeard, Heard
    <2> QED
      BY <2>4, <2>5, <2>6, <2>8, <2>9 DEF Sound, PoolTyped, Good
  <1> QED
    BY <1>2, <1>3, <1>4, <1>5 DEF LegacyInput

(* The main loop.                                                          *)
LEMMA LoopSound ==
    ASSUME Sound,
           \/ ResetRequested \/ ResetReturns \/ ResetDone \/ ResetAbandoned \/ CloseLegacy
           \/ \E b \in Blocks : NewHead(b)
           \/ \E s \in Syncers : Sync(s)
           \/ Quit,
           calls' \in 0 .. MaxCalls /\ inputs' \in 0 .. MaxInputs
    PROVE  Sound' /\ pool' = pool
  <1>1. PoolTyped' /\ TypeOK /\ AllHeard
    BY LoopTyped DEF Sound, PoolTyped
  <1>2. CASE UNCHANGED legacyVars
    BY <1>1, <1>2 DEF Sound, AllHeard, Heard, legacyVars
  <1>3. CASE CloseLegacy
    BY <1>1, <1>3 DEF Sound, AllHeard, CloseLegacy
  <1>4. CASE ResetRequested
    <2>1. UNCHANGED <<pool, announced, shutdown, resetFailed>>
      BY <1>4 DEF ResetRequested
    <2>2. ASSUME NEW u, Heard(u) PROVE Heard(u)'
      <3>1. CASE UNCHANGED <<sched, run>>
        BY <2>1, <2>2, <3>1 DEF Heard
      <3>2. CASE RequestReset(resetter.old, resetter.new)
        <4>1. resetter \in Resetters
          BY <1>1, <1>4 DEF TypeOK, ResetRequested
        <4>2. PICK s : s = [sched EXCEPT !.reset = [old |-> IF @ = None THEN resetter.old ELSE @.old,
                                                    new |-> resetter.new],
                                         !.launch = TRUE]
          OBVIOUS
        <4>3. s \in Scheds /\ s.events = sched.events
          BY <1>1, <4>1, <4>2 DEF TypeOK, Scheds, Requests, Resetters
        <4>4. Schedule(s, run) /\ run \in Runs \cup {None}
          BY <1>1, <3>2, <4>2 DEF RequestReset, TypeOK
        <4>5. CASE u \in announced
          BY <2>1, <4>5 DEF Heard
        <4>6. CASE u \in s.events \/ (run # None /\ u \in run.events)
          BY <4>3, <4>4, <4>6, ScheduleHears DEF Heard
        <4> QED
          BY <2>2, <4>3, <4>5, <4>6 DEF Heard
      <3> QED
        BY <1>4, <3>1, <3>2 DEF ResetRequested
    <2>3. AllHeard'
      BY <1>1, <2>1, <2>2 DEF AllHeard
    <2> QED
      BY <1>1, <2>1, <2>3 DEF Sound
  <1>5. \/ UNCHANGED legacyVars \/ CloseLegacy \/ ResetRequested
    BY DEF ResetReturns, ResetDone, ResetAbandoned, NewHead, Sync, Quit
  <1> QED
    BY <1>2, <1>3, <1>4, <1>5

LEMMA StepCases ==
    ASSUME Sound, Next
    PROVE  \/ Around /\ (\/ \E c \in Callers : AddLocked(c) \/ RequestPromote(c)
                         \/ \E c \in Callers, t \in Txs : BeginAdd(c, t)
                         \/ PromoteRun \/ ResetRun \/ ResetRunFails \/ RunSend \/ LoopStops
                         \/ LegacyInput)
           \/ /\ calls' \in 0 .. MaxCalls /\ inputs' \in 0 .. MaxInputs
              /\ \/ ResetRequested \/ ResetReturns \/ ResetDone \/ ResetAbandoned \/ CloseLegacy
                 \/ \E b \in Blocks : NewHead(b)
                 \/ \E s \in Syncers : Sync(s)
                 \/ Quit
  <1>1. calls' \in 0 .. MaxCalls /\ inputs' \in 0 .. MaxInputs
    <2>1. calls \in 0 .. MaxCalls /\ inputs \in 0 .. MaxInputs /\ MaxCalls \in Nat /\ MaxInputs \in Nat
      BY BoundsAssumption DEF Sound, PoolTyped, TypeOK
    <2>2. \/ calls' = calls \/ (calls < MaxCalls /\ calls' = calls + 1)
      BY DEF Next
    <2>3. \/ inputs' = inputs \/ (inputs < MaxInputs /\ inputs' = inputs + 1)
      BY DEF Next
    <2> QED
      BY <2>1, <2>2, <2>3
  <1> QED
    BY <1>1 DEF Next, Step, Input, LegacyStep, Submit, Around

LEMMA SoundStep == Sound /\ [Next]_vars => Sound'
  <1> SUFFICES ASSUME Sound, [Next]_vars PROVE Sound'
    OBVIOUS
  <1>1. CASE UNCHANGED vars
    BY <1>1 DEF Sound, PoolTyped, TypeOK, AllHeard, Heard, vars, legacyVars, loopVars
  <1>2. ASSUME LoopStops, Around PROVE Sound'
    <2>1. TypeOK'
      BY <1>2 DEF LoopStops, Around, loopVars, Sound, PoolTyped, TypeOK
    <2>2. UNCHANGED <<pool, sched, run, shutdown, announced, resetFailed>>
      BY <1>2 DEF LoopStops
    <2> QED
      BY <2>1, <2>2 DEF Sound, PoolTyped, AllHeard, Heard
  <1>3. CASE Next
    BY <1>2, <1>3, StepCases, AddLockedSound, RequestPromoteSound, BeginAddSound, PromoteRunSound,
       ResetRunSound, ResetRunFailsSound, RunSendSound, InputSound, LoopSound
  <1> QED
    BY <1>1, <1>3

LEMMA SoundInit == Init => Sound
  <1> SUFFICES ASSUME Init PROVE Sound
    OBVIOUS
  <1>1. PoolTyped
    BY InitTyped
  <1>2. AllHeard
    BY DEF Init, LegacyInit, AllHeard
  <1> QED
    BY <1>1, <1>2 DEF Sound

LEMMA SoundIsEnough == Sound => TypeOK /\ PoolInternals /\ ReservedIffTracked /\ PendingIsAnnounced
  <1> SUFFICES ASSUME Sound PROVE TypeOK /\ PoolInternals /\ ReservedIffTracked /\ PendingIsAnnounced
    OBVIOUS
  <1>1. TypeOK /\ Shape(pool) /\ Fits(pool) /\ Due(pool) /\ Owned(pool) /\ AllHeard
    BY DEF Sound, PoolTyped, Good
  <1>2. pool.all = UNION {pool.pending[a] \cup pool.queue[a] : a \in Accounts}
    <2>1. pool.all \in SUBSET Txs
      BY <1>1, PoolFields DEF TypeOK
    <2>2. \A t \in pool.all : \E a \in Accounts : t \in pool.pending[a] \cup pool.queue[a]
      BY <1>1, <2>1, TxFacts DEF Shape
    <2>3. \A a \in Accounts : \A t \in pool.pending[a] \cup pool.queue[a] : t \in pool.all
      BY <1>1 DEF Shape
    <2> QED
      BY <2>2, <2>3
  <1>3. ASSUME NEW a \in Accounts
        PROVE  /\ pool.pending[a] \cap pool.queue[a] = {}
               /\ \A t, u \in pool.pending[a] \cup pool.queue[a] : Nonce[t] = Nonce[u] => t = u
    BY <1>1 DEF Shape
  <1>4. PoolInternals
    BY <1>1, <1>2, <1>3 DEF PoolInternals, Fits, Due
  <1> QED
    BY <1>1, <1>4, AnnouncedIsHeard DEF ReservedIffTracked, Owned

(* TypeOK: every variable of the two pools keeps the shape the code gives  *)
(* it, for any chain, any transactions and any limits.                     *)
THEOREM TypeCorrect == Spec => []TypeOK
  <1>1. Sound => TypeOK
    BY SoundIsEnough
  <1> QED
    BY <1>1, SoundInit, SoundStep, PTL DEF Spec

(* PoolInternals: add, removeTx, promoteExecutables, demoteUnexecutables,  *)
(* the two truncations, Clear and every reorganisation keep the index, the *)
(* lists and the next nonces in step, for any chain and any limits.        *)
THEOREM InternalsStayConsistent == Spec => []PoolInternals
  <1>1. Sound => PoolInternals
    BY SoundIsEnough
  <1> QED
    BY <1>1, SoundInit, SoundStep, PTL DEF Spec

(* ReservedIffTracked: the reserver is called exactly when the pool gets   *)
(* its first and loses its last transaction of an account.                 *)
THEOREM ReservationsMatch == Spec => []ReservedIffTracked
  <1>1. Sound => ReservedIffTracked
    BY SoundIsEnough
  <1> QED
    BY <1>1, SoundInit, SoundStep, PTL DEF Spec

(* PendingIsAnnounced: no interleaving of additions, runs and resets loses *)
(* the event of a transaction that is pending.                             *)
THEOREM NoEventIsLost == Spec => []PendingIsAnnounced
  <1>1. Sound => PendingIsAnnounced
    BY SoundIsEnough
  <1> QED
    BY <1>1, SoundInit, SoundStep, PTL DEF Spec

-----------------------------------------------------------------------------
(* NobodyStranded.  That no event is stranded rests on the heads: as long  *)
(* as no reset has failed, the head a reset starts from is the head the    *)
(* pool stands on.  What such a reset reinjects is older than anything     *)
(* pending, replaces nothing and queues no event; so every queued event is *)
(* that of a caller who has yet to ask for a run, or has asked.            *)

Carried == IF run = None THEN None ELSE run.reset

HeadsFollow ==
    ~shutdown /\ ~resetFailed =>
        /\ sched.reset # None =>
              /\ Carried = None /\ resetter # None /\ resetter.phase = "wait"
              /\ sched.reset.old = pool.head /\ sched.reset.new = resetter.new
        /\ Carried # None =>
              /\ resetter # None /\ resetter.phase = "wait" /\ Carried.new = resetter.new
              /\ pool.head = IF run.phase = "lock" THEN Carried.old ELSE Carried.new
        /\ sched.reset = None /\ Carried = None =>
              /\ resetter = None /\ main = "up" => oldHead = pool.head
              /\ resetter # None =>
                    pool.head = IF resetter.phase = "request" THEN resetter.old ELSE resetter.new

EventsHaveSender ==
    ~shutdown /\ ~resetFailed /\ sched.events # {} =>
        \/ sched.launch
        \/ \E c \in Callers : call[c] # None /\ call[c].phase = "request"

MainServes ==
    main = "up" /\ (newHead # oldHead \/ resetForced \/ resetWaiter # None) => resetter # None

SchedulerServes ==
    loop = "up" => /\ sched.launch => run # None
                   /\ sched.reset # None \/ sched.dirty # {} => sched.launch

LoopWaits == ~shutdown => loop = "up"

Attended == HeadsFollow /\ EventsHaveSender /\ MainServes /\ SchedulerServes /\ LoopWaits

LEMMA ScheduleCases ==
    ASSUME NEW s \in Scheds, NEW r \in Runs \cup {None}, Schedule(s, r)
    PROVE  \/ /\ r = None /\ sched' = NothingDue
              /\ sched'.reset = None /\ sched'.dirty = {} /\ sched'.events = {} /\ ~sched'.launch
              /\ run' \in Runs /\ run' # None /\ run'.phase = "lock" /\ run'.reset = s.reset
           \/ sched' = s /\ run' = r /\ (s.launch => r # None)
  <1>1. CASE r = None /\ s.launch
    <2>1. run' = [phase |-> "lock", reset |-> s.reset, dirty |-> s.dirty, events |-> s.events]
      BY <1>1 DEF Schedule
    <2>2. sched' = NothingDue
      BY <1>1 DEF Schedule
    <2>3. run' \in Runs /\ run'.phase = "lock" /\ run'.reset = s.reset
      BY <2>1 DEF Scheds, Runs
    <2>4. sched'.reset = None /\ sched'.dirty = {} /\ sched'.events = {} /\ ~sched'.launch
      BY <2>2 DEF NothingDue
    <2> QED
      BY <1>1, <2>2, <2>3, <2>4, NoneAssumption
  <1>2. CASE ~(r = None /\ s.launch)
    BY <1>2, Zenon DEF Schedule
  <1> QED
    BY <1>1, <1>2

(* A step that leaves the heads, the scheduler's request and the run.      *)
LEMMA HeadsKept ==
    ASSUME HeadsFollow, UNCHANGED <<resetter, main, oldHead, run, shutdown, resetFailed>>,
           pool'.head = pool.head, sched'.reset = sched.reset
    PROVE  HeadsFollow'
  BY DEF HeadsFollow, Carried

LEMMA AttendedInit == Init => Attended
  <1> SUFFICES ASSUME Init PROVE Attended
    OBVIOUS
  <1>1. /\ sched.reset = None /\ sched.dirty = {} /\ sched.events = {} /\ ~sched.launch
        /\ run = None /\ pool.head = Genesis
    BY DEF Init, LegacyInit, NothingDue
  <1> QED
    BY <1>1 DEF Init, LegacyInit, Attended, HeadsFollow, Carried, EventsHaveSender, MainServes,
                SchedulerServes, LoopWaits

(* A step that leaves the main loop, the scheduler, the run and the callers. *)
LEMMA AttendedKept ==
    ASSUME Attended, UNCHANGED <<sched, run, call, shutdown, loop, resetFailed>>,
           UNCHANGED loopVars, pool'.head = pool.head
    PROVE  Attended'
  <1>1. HeadsFollow'
    BY HeadsKept DEF Attended, loopVars
  <1> QED
    BY <1>1 DEF Attended, EventsHaveSender, MainServes, SchedulerServes, LoopWaits, loopVars

LEMMA AttendedByCallers ==
    ASSUME Sound, Attended, Around, NEW c \in Callers,
           \/ AddLocked(c) \/ RequestPromote(c) \/ \E t \in Txs : BeginAdd(c, t)
    PROVE  Attended'
  <1>1. TypeOK /\ DOMAIN call = Callers /\ sched \in Scheds
    BY DEF Sound, PoolTyped, TypeOK, Scheds
  <1>2. MainServes' /\ LoopWaits'
    BY DEF Attended, MainServes, LoopWaits, Around, loopVars, AddLocked, RequestPromote, BeginAdd
  <1>3. ASSUME NEW t \in Txs, BeginAdd(c, t) PROVE Attended'
    <2>1. UNCHANGED <<pool, sched, run, shutdown, loop, resetFailed>>
      BY <1>3 DEF BeginAdd
    <2>2. HeadsFollow'
      BY <2>1, HeadsKept DEF Attended, Around, loopVars
    <2>3. EventsHaveSender'
      <3>1. \A d \in Callers : call[d] # None => call'[d] = call[d]
        BY <1>1, <1>3 DEF BeginAdd
      <3> QED
        BY <2>1, <3>1 DEF Attended, EventsHaveSender
    <2>4. SchedulerServes'
      BY <2>1 DEF Attended, SchedulerServes
    <2> QED
      BY <1>2, <2>2, <2>3, <2>4 DEF Attended
  <1>4. CASE AddLocked(c)
    <2>1. UNCHANGED <<run, shutdown, loop, resetFailed>>
      BY <1>4 DEF AddLocked
    <2>2. sched'.reset = sched.reset /\ sched'.dirty = sched.dirty /\ sched'.launch = sched.launch
      BY <1>1, <1>4 DEF AddLocked, QueueTxEvents, Scheds
    <2>3. HeadsFollow'
      BY <1>4, <2>1, <2>2, HeadsKept, AddLockedSound DEF Attended, Around, loopVars
    <2>4. EventsHaveSender'
      <3>1. PICK d : call' = [call EXCEPT ![c] = [phase |-> "request", dirty |-> d]]
        BY <1>4 DEF AddLocked
      <3>2. call'[c].phase = "request" /\ call'[c] = [phase |-> "request", dirty |-> d]
        BY <1>1, <3>1
      <3>3. call'[c] # None
        <4>1. call' \in [Callers -> Adding \cup Asking \cup {None}]
          BY <1>4, AddLockedSound DEF Sound, PoolTyped, TypeOK
        <4>2. d \in SUBSET Accounts
          <5>1. PICK t : t = call[c].tx
            OBVIOUS
          <5>2. t \in Txs
            BY <1>1, <1>4, <5>1 DEF TypeOK, AddLocked, Adding, Asking
          <5>3. PICK o \in Add(pool, t) :
                   call' = [call EXCEPT ![c] = [phase |-> "request", dirty |-> o.dirty]]
            BY <1>4, <5>1 DEF AddLocked
          <5>4. o.dirty \in SUBSET Accounts
            BY <5>2, <5>3, AddKeeps DEF Sound, PoolTyped, Good, PutIn
          <5>5. call'[c] = [phase |-> "request", dirty |-> o.dirty]
            BY <1>1, <5>3
          <5> QED
            BY <3>2, <5>4, <5>5
        <4>3. call'[c] \in Asking
          BY <3>2, <4>2 DEF Asking
        <4> QED
          BY <4>3, NoneAssumption
      <3> QED
        BY <3>2, <3>3 DEF EventsHaveSender
    <2>5. SchedulerServes'
      BY <2>1, <2>2 DEF Attended, SchedulerServes
    <2> QED
      BY <1>2, <2>3, <2>4, <2>5 DEF Attended
  <1>5. CASE RequestPromote(c)
    <2>1. UNCHANGED <<pool, shutdown, loop, resetFailed>>
      BY <1>5 DEF RequestPromote
    <2>2. CASE shutdown /\ UNCHANGED <<sched, run>>
      BY <1>2, <2>1, <2>2 DEF Attended, HeadsFollow, EventsHaveSender, SchedulerServes
    <2>3. CASE Schedule([sched EXCEPT !.dirty = @ \cup call[c].dirty, !.launch = TRUE], run)
      <3>1. PICK s : s = [sched EXCEPT !.dirty = @ \cup call[c].dirty, !.launch = TRUE]
        OBVIOUS
      <3>2. call[c].dirty \in SUBSET Accounts
        BY <1>1, <1>5 DEF TypeOK, RequestPromote, Adding, Asking
      <3>3. s \in Scheds /\ s.reset = sched.reset /\ s.launch
        BY <1>1, <3>1, <3>2 DEF Scheds
      <3>4. Schedule(s, run) /\ run \in Runs \cup {None}
        BY <1>1, <2>3, <3>1 DEF TypeOK
      <3>5. \/ /\ run = None
               /\ sched'.reset = None /\ sched'.dirty = {} /\ sched'.events = {} /\ ~sched'.launch
               /\ run' # None /\ run'.phase = "lock" /\ run'.reset = sched.reset
            \/ sched' = s /\ run' = run /\ run # None
        BY <3>3, <3>4, ScheduleCases
      <3>6. EventsHaveSender' /\ SchedulerServes'
        BY <3>3, <3>5 DEF EventsHaveSender, SchedulerServes
      <3>7. HeadsFollow'
        BY <2>1, <3>3, <3>5 DEF Attended, HeadsFollow, Carried, Around, loopVars
      <3> QED
        BY <1>2, <3>6, <3>7 DEF Attended
    <2> QED
      BY <1>5, <2>2, <2>3 DEF RequestPromote
  <1> QED
    BY <1>3, <1>4, <1>5

LEMMA AttendedByRuns ==
    ASSUME Sound, Attended, Around, PromoteRun \/ ResetRun \/ ResetRunFails \/ RunSend
    PROVE  Attended'
  <1>1. TypeOK /\ sched \in Scheds /\ run \in Runs \cup {None}
    BY DEF Sound, PoolTyped, TypeOK, Scheds
  <1>2. MainServes' /\ LoopWaits'
    BY DEF Attended, MainServes, LoopWaits, Around, loopVars, PromoteRun, ResetRun, ResetRunFails,
           RunSend
  <1>3. CASE PromoteRun
    <2>1. /\ run' # None /\ run'.reset = None /\ pool'.head = pool.head
      BY <1>3, PromoteRunSound, NoneAssumption
    <2>2. run # None /\ run.reset = None /\ UNCHANGED <<call, sched, shutdown, loop, resetFailed>>
      BY <1>3 DEF PromoteRun
    <2>3. HeadsFollow'
      BY <2>1, <2>2 DEF Attended, HeadsFollow, Carried, Around, loopVars
    <2>4. EventsHaveSender' /\ SchedulerServes'
      BY <2>1, <2>2 DEF Attended, EventsHaveSender, SchedulerServes
    <2> QED
      BY <1>2, <2>3, <2>4 DEF Attended
  <1>4. CASE ResetRun
    <2>1. /\ run' # None /\ run'.reset = run.reset /\ run'.phase = "send"
          /\ pool'.head = run.reset.new
          /\ ~shutdown /\ pool.head = run.reset.old => sched' = sched
      BY <1>4, ResetRunSound, NoneAssumption
    <2>2. /\ run # None /\ run.reset # None /\ run.phase = "lock"
          /\ UNCHANGED <<call, shutdown, loop, resetFailed>>
      BY <1>4 DEF ResetRun
    <2>3. ASSUME ~shutdown, ~resetFailed PROVE sched' = sched
      BY <2>1, <2>2, <2>3 DEF Attended, HeadsFollow, Carried
    <2>4. HeadsFollow'
      BY <2>1, <2>2, <2>3 DEF Attended, HeadsFollow, Carried, Around, loopVars
    <2>5. EventsHaveSender'
      BY <2>2, <2>3 DEF Attended, EventsHaveSender
    <2>6. sched'.reset = sched.reset /\ sched'.dirty = sched.dirty /\ sched'.launch = sched.launch
      BY <1>1, <1>4 DEF ResetRun, QueueTxEvents, Scheds
    <2>7. SchedulerServes'
      BY <2>1, <2>2, <2>6 DEF Attended, SchedulerServes
    <2> QED
      BY <1>2, <2>4, <2>5, <2>7 DEF Attended
  <1>5. CASE ResetRunFails
    <2>1. run' # None /\ run # None /\ UNCHANGED <<sched, loop>> /\ resetFailed'
      BY <1>5, ResetRunFailsSound, NoneAssumption DEF ResetRunFails
    <2> QED
      BY <1>2, <2>1 DEF Attended, HeadsFollow, EventsHaveSender, SchedulerServes
  <1>6. CASE RunSend
    <2>1. UNCHANGED <<pool, call, shutdown, loop, resetFailed>> /\ run # None /\ run.phase = "send"
      BY <1>6 DEF RunSend
    <2>2. CASE loop # "up"
      BY <1>2, <2>1, <2>2 DEF Attended, HeadsFollow, EventsHaveSender, SchedulerServes, LoopWaits
    <2>3. CASE loop = "up"
      <3>1. \/ /\ sched'.reset = None /\ sched'.dirty = {} /\ sched'.events = {} /\ ~sched'.launch
               /\ run' # None /\ run'.phase = "lock" /\ run'.reset = sched.reset
            \/ sched' = sched /\ run' = None /\ ~sched.launch
        BY <1>1, <1>6, <2>3, ScheduleCases DEF RunSend
      <3>2. SchedulerServes'
        BY <2>1, <2>3, <3>1 DEF Attended, SchedulerServes
      <3>3. EventsHaveSender'
        BY <2>1, <3>1 DEF Attended, EventsHaveSender
      <3>4. HeadsFollow'
        <4> SUFFICES ASSUME ~shutdown, ~resetFailed PROVE HeadsFollow'
          BY <2>1 DEF HeadsFollow
        <4>1. UNCHANGED <<resetter, main, oldHead>>
          BY DEF Around, loopVars
        <4>2. sched'.reset = None \/ sched'.reset = sched.reset
          BY <3>1
        <4>3. CASE run.reset # None
          <5>1. /\ sched.reset = None /\ resetter # None /\ resetter.phase = "wait"
                /\ pool.head = resetter.new
            BY <2>1, <4>3 DEF Attended, HeadsFollow, Carried
          <5>2. sched'.reset = None /\ Carried' = None
            BY <3>1, <5>1 DEF Carried
          <5> QED
            BY <2>1, <4>1, <5>1, <5>2 DEF HeadsFollow
        <4>4. CASE run.reset = None
          BY <2>1, <3>1, <4>1, <4>4 DEF Attended, HeadsFollow, Carried
        <4> QED
          BY <4>3, <4>4
      <3> QED
        BY <1>2, <3>2, <3>3, <3>4 DEF Attended
    <2> QED
      BY <2>2, <2>3
  <1> QED
    BY <1>3, <1>4, <1>5, <1>6

LEMMA AttendedByMain ==
    ASSUME Sound, Attended,
           \/ ResetRequested \/ ResetReturns \/ ResetDone \/ ResetAbandoned \/ CloseLegacy
           \/ \E b \in Blocks : NewHead(b)
           \/ \E s \in Syncers : Sync(s)
           \/ Quit
    PROVE  Attended'
  <1>1. /\ TypeOK /\ sched \in Scheds /\ run \in Runs \cup {None}
        /\ resetter \in Resetters \cup {None}
    BY DEF Sound, PoolTyped, TypeOK, Scheds
  <1>2. ASSUME NEW old \in Blocks, NEW new \in Blocks, NEW forced \in BOOLEAN,
               NEW current \in Resetters \cup {None}, StartReset(old, new, forced, current)
        PROVE  \/ /\ current = None /\ resetter' \in Resetters /\ resetter' # None
                  /\ resetter'.phase = "request" /\ resetter'.old = old
               \/ /\ resetter' = current /\ resetForced' = forced
                  /\ current = None => old = new /\ ~forced
    <2>1. CASE (old # new \/ forced) /\ current = None
      <3>1. resetter' = [phase |-> "request", old |-> old, new |-> new]
        BY <1>2, <2>1, Zenon DEF StartReset
      <3>2. resetter' \in Resetters /\ resetter'.phase = "request" /\ resetter'.old = old
        BY <3>1 DEF Resetters
      <3> QED
        BY <2>1, <3>2, NoneAssumption
    <2>2. CASE ~((old # new \/ forced) /\ current = None)
      BY <1>2, <2>2, Zenon DEF StartReset
    <2> QED
      BY <2>1, <2>2
  <1>3. ASSUME UNCHANGED legacyVars PROVE EventsHaveSender' /\ SchedulerServes' /\ LoopWaits'
    BY <1>3 DEF legacyVars, Attended, EventsHaveSender, SchedulerServes, LoopWaits
  <1>4. CASE ResetRequested
    <2>1. /\ UNCHANGED <<pool, call, shutdown, loop, resetFailed>>
          /\ UNCHANGED <<oldHead, newHead, resetForced, resetWaiter, main>>
          /\ resetter # None /\ resetter.phase = "request"
      BY <1>4 DEF ResetRequested
    <2>2. MainServes' /\ LoopWaits'
      <3>1. resetter' \in Resetters
        BY <1>1, <1>4 DEF ResetRequested, Resetters
      <3> QED
        BY <2>1, <3>1, NoneAssumption DEF Attended, MainServes, LoopWaits
    <2>3. CASE shutdown /\ UNCHANGED <<sched, run>>
      BY <2>1, <2>2, <2>3 DEF Attended, HeadsFollow, EventsHaveSender, SchedulerServes
    <2>4. CASE /\ RequestReset(resetter.old, resetter.new)
               /\ resetter' = [resetter EXCEPT !.phase = "wait"]
      <3>1. PICK s : s = [sched EXCEPT !.reset = [old |-> IF @ = None THEN resetter.old ELSE @.old,
                                                  new |-> resetter.new],
                                       !.launch = TRUE]
        OBVIOUS
      <3>2. /\ s \in Scheds /\ s.launch /\ s.reset \in Requests /\ s.reset.new = resetter.new
            /\ sched.reset = None => s.reset.old = resetter.old
        BY <1>1, <2>1, <3>1 DEF Scheds, Requests, Resetters
      <3>3. Schedule(s, run)
        BY <2>4, <3>1 DEF RequestReset
      <3>4. \/ /\ run = None
               /\ sched'.reset = None /\ sched'.dirty = {} /\ sched'.events = {} /\ ~sched'.launch
               /\ run' # None /\ run'.phase = "lock" /\ run'.reset = s.reset
            \/ sched' = s /\ run' = run /\ run # None
        BY <1>1, <3>2, <3>3, ScheduleCases
      <3>5. EventsHaveSender' /\ SchedulerServes'
        BY <3>2, <3>4 DEF EventsHaveSender, SchedulerServes
      <3>6. /\ resetter' \in Resetters /\ resetter' # None /\ resetter'.phase = "wait"
            /\ resetter'.new = resetter.new
        BY <1>1, <2>1, <2>4, NoneAssumption DEF Resetters
      <3>7. ASSUME ~shutdown, ~resetFailed
            PROVE  sched.reset = None /\ Carried = None /\ pool.head = resetter.old
        BY <2>1, <3>7 DEF Attended, HeadsFollow
      <3>8. s.reset # None
        BY <3>2, NoneAssumption
      <3>9. HeadsFollow'
        BY <2>1, <3>2, <3>4, <3>6, <3>7, <3>8 DEF HeadsFollow, Carried
      <3> QED
        BY <2>2, <3>5, <3>9 DEF Attended
    <2> QED
      BY <1>4, <2>3, <2>4 DEF ResetRequested
  <1>5. CASE ResetReturns
    <2>1. /\ UNCHANGED legacyVars /\ UNCHANGED <<oldHead, newHead, resetForced, resetWaiter, main>>
          /\ resetter # None /\ resetter.phase = "wait"
          /\ resetter' = [resetter EXCEPT !.phase = "done"]
      BY <1>5 DEF ResetReturns
    <2>2. /\ resetter' \in Resetters /\ resetter' # None /\ resetter'.phase = "done"
          /\ resetter'.new = resetter.new
      BY <1>1, <2>1, NoneAssumption DEF Resetters
    <2>3. ASSUME ~shutdown PROVE sched.reset = None /\ Carried = None
      BY <1>5, <2>3 DEF ResetReturns, ResetUnderWay, LoopEnded, Attended, LoopWaits, Carried
    <2>4. HeadsFollow'
      BY <2>1, <2>2, <2>3 DEF Attended, HeadsFollow, Carried, legacyVars
    <2>5. MainServes'
      BY <2>2 DEF MainServes
    <2> QED
      BY <1>3, <2>1, <2>4, <2>5 DEF Attended
  <1>6. CASE ResetDone
    <2>1. /\ UNCHANGED legacyVars /\ UNCHANGED <<newHead, main>>
          /\ resetter # None /\ resetter.phase = "done" /\ main = "up"
          /\ oldHead' = resetter.new
          /\ resetWaiter' = IF resetForced THEN resetWaiter ELSE None
          /\ StartReset(resetter.new, newHead, resetForced, None)
      BY <1>6 DEF ResetDone
    <2>2. resetter.new \in Blocks /\ newHead \in Blocks /\ resetForced \in BOOLEAN
      BY <1>1, <2>1 DEF TypeOK, Resetters
    <2>3. \/ /\ resetter' # None /\ resetter'.phase = "request" /\ resetter'.old = resetter.new
          \/ /\ resetter' = None /\ resetForced' = resetForced
             /\ resetter.new = newHead /\ ~resetForced
      BY <1>2, <2>1, <2>2
    <2>4. ASSUME ~shutdown, ~resetFailed
          PROVE  sched.reset = None /\ Carried = None /\ pool.head = resetter.new
      BY <2>1, <2>4 DEF Attended, HeadsFollow
    <2>5. HeadsFollow'
      BY <2>1, <2>3, <2>4 DEF HeadsFollow, Carried, legacyVars
    <2>6. MainServes'
      <3>1. CASE resetter' # None
        BY <3>1 DEF MainServes
      <3>2. CASE resetter' = None
        <4>1. ~resetForced' /\ oldHead' = newHead'
          BY <2>1, <2>3, <3>2
        <4>2. resetWaiter' = None
          BY <2>1, <2>3, <3>2
        <4> QED
          BY <4>1, <4>2 DEF MainServes
      <3> QED
        BY <3>1, <3>2
    <2> QED
      BY <1>3, <2>1, <2>5, <2>6 DEF Attended
  <1>7. CASE ResetAbandoned
    <2>1. /\ UNCHANGED legacyVars /\ UNCHANGED <<oldHead, main>> /\ resetter' = None
          /\ resetter # None /\ resetter.phase = "done" /\ main = "down"
      BY <1>7 DEF ResetAbandoned
    <2>2. ASSUME ~shutdown, ~resetFailed PROVE sched.reset = None /\ Carried = None
      BY <2>1, <2>2 DEF Attended, HeadsFollow
    <2>3. HeadsFollow' /\ MainServes'
      BY <2>1, <2>2 DEF HeadsFollow, Carried, legacyVars, MainServes
    <2> QED
      BY <1>3, <2>1, <2>3 DEF Attended
  <1>8. CASE CloseLegacy
    <2>1. shutdown' /\ UNCHANGED <<sched, run, loop>> /\ UNCHANGED loopVars
      BY <1>8 DEF CloseLegacy
    <2> QED
      BY <2>1 DEF Attended, HeadsFollow, EventsHaveSender, SchedulerServes, MainServes, LoopWaits,
                  loopVars
  <1>9. ASSUME NEW b \in Blocks, NewHead(b) PROVE Attended'
    <2>1. /\ UNCHANGED legacyVars /\ UNCHANGED <<oldHead, main>> /\ newHead' = b
          /\ resetWaiter = None => resetWaiter' = None
          /\ main = "up" /\ StartReset(oldHead, b, resetForced, resetter)
      BY <1>9 DEF NewHead
    <2>2. oldHead \in Blocks /\ resetForced \in BOOLEAN
      BY <1>1 DEF TypeOK
    <2>3. \/ /\ resetter = None /\ resetter' # None
             /\ resetter'.phase = "request" /\ resetter'.old = oldHead
          \/ /\ resetter' = resetter /\ resetForced' = resetForced
             /\ resetter = None => oldHead = b /\ ~resetForced
      BY <1>1, <1>2, <2>1, <2>2
    <2>4. HeadsFollow'
      BY <2>1, <2>3 DEF Attended, HeadsFollow, Carried, legacyVars
    <2>5. MainServes'
      <3>1. CASE resetter' # None
        BY <3>1 DEF MainServes
      <3>2. CASE resetter' = None
        <4>1. resetter = None /\ ~resetForced' /\ oldHead' = newHead'
          BY <2>1, <2>3, <3>2
        <4>2. resetWaiter' = None
          BY <2>1, <4>1 DEF Attended, MainServes
        <4> QED
          BY <4>1, <4>2 DEF MainServes
      <3> QED
        BY <3>1, <3>2
    <2> QED
      BY <1>3, <2>1, <2>4, <2>5 DEF Attended
  <1>10. ASSUME NEW c \in Syncers, Sync(c) PROVE Attended'
    <2>1. /\ UNCHANGED legacyVars /\ UNCHANGED <<oldHead, newHead, main>>
          /\ main = "up" /\ StartReset(oldHead, newHead, TRUE, resetter)
      BY <1>10 DEF Sync
    <2>2. oldHead \in Blocks /\ newHead \in Blocks
      BY <1>1 DEF TypeOK
    <2>3. \/ /\ resetter = None /\ resetter' # None
             /\ resetter'.phase = "request" /\ resetter'.old = oldHead
          \/ resetter' = resetter /\ resetter # None
      <3>1. CASE resetter = None
        <4>1. resetter' = [phase |-> "request", old |-> oldHead, new |-> newHead]
          BY <2>1, <3>1, Zenon DEF StartReset
        <4>2. resetter' \in Resetters /\ resetter'.phase = "request" /\ resetter'.old = oldHead
          BY <2>2, <4>1 DEF Resetters
        <4> QED
          BY <3>1, <4>2, NoneAssumption
      <3>2. CASE resetter # None
        BY <2>1, <3>2, Zenon DEF StartReset
      <3> QED
        BY <3>1, <3>2
    <2>4. HeadsFollow'
      BY <2>1, <2>3 DEF Attended, HeadsFollow, Carried, legacyVars
    <2>5. MainServes'
      BY <2>3 DEF MainServes
    <2> QED
      BY <1>3, <2>1, <2>4, <2>5 DEF Attended
  <1>11. CASE Quit
    <2>1. UNCHANGED legacyVars /\ UNCHANGED <<oldHead, resetter>> /\ main' = "down"
      BY <1>11 DEF Quit
    <2>2. HeadsFollow' /\ MainServes'
      BY <2>1 DEF Attended, HeadsFollow, Carried, legacyVars, MainServes
    <2> QED
      BY <1>3, <2>1, <2>2 DEF Attended
  <1> QED
    BY <1>4, <1>5, <1>6, <1>7, <1>8, <1>9, <1>10, <1>11

LEMMA AttendedStep == Sound /\ Attended /\ [Next]_vars => Attended'
  <1> SUFFICES ASSUME Sound, Attended, [Next]_vars PROVE Attended'
    OBVIOUS
  <1>1. CASE UNCHANGED vars
    BY <1>1, AttendedKept DEF vars, legacyVars
  <1>2. ASSUME LoopStops, Around PROVE Attended'
    <2>1. /\ UNCHANGED <<pool, call, sched, run, shutdown, resetFailed>>
          /\ shutdown /\ loop' = "down" /\ UNCHANGED loopVars
      BY <1>2 DEF LoopStops, Around
    <2> QED
      BY <2>1 DEF Attended, HeadsFollow, EventsHaveSender, MainServes, SchedulerServes, LoopWaits,
                  loopVars
  <1>3. ASSUME LegacyInput, Around PROVE Attended'
    <2>1. /\ UNCHANGED <<call, sched, run, shutdown, loop, resetFailed>>
          /\ UNCHANGED loopVars
      BY <1>3 DEF LegacyInput, SetGasTip, Evict, Clear, OtherReserves, Around
    <2>2. pool'.head = pool.head
      BY <1>3, InputSound
    <2> QED
      BY <2>1, <2>2, AttendedKept
  <1>4. CASE Next
    BY <1>2, <1>3, <1>4, StepCases, AttendedByCallers, AttendedByRuns, AttendedByMain
  <1> QED
    BY <1>1, <1>4

(* A Sync that waits and was not overtaken is the one the main loop knows. *)
Held ==
    \A s \in Syncers : syncing[s] = "waiting" =>
        main = "up" /\ resetWaiter # None /\ resetWaiter.caller = s

LEMMA HeldStep == Sound /\ Held /\ [Next]_vars => Held'
  <1> SUFFICES ASSUME Sound, Held, [Next]_vars PROVE Held'
    OBVIOUS
  <1>1. /\ resetWaiter \in Waiters \cup {None} /\ None \notin Waiters
        /\ syncing \in [Syncers -> {"out", "waiting", "overtaken"}] /\ newHead \in Blocks
    BY NoneAssumption DEF Sound, PoolTyped, TypeOK
  <1>2. ASSUME UNCHANGED <<resetWaiter, syncing, main>> PROVE Held'
    BY <1>2 DEF Held
  (* When the one that waits is answered or overtaken, nobody else waits.  *)
  <1>3. ASSUME NEW state \in {"out", "overtaken"}, NEW u \in Syncers
        PROVE  WaiterIs(state)[u] # "waiting"
    <2>1. WaiterIs(state)[u] =
            IF resetWaiter # None /\ u = resetWaiter.caller THEN state ELSE syncing[u]
      BY DEF WaiterIs
    <2>2. CASE resetWaiter # None /\ u = resetWaiter.caller
      BY <2>1, <2>2
    <2>3. CASE ~(resetWaiter # None /\ u = resetWaiter.caller)
      BY <2>1, <2>3 DEF Held
    <2> QED
      BY <2>2, <2>3
  <1>4. CASE ResetDone
    <2>1. CASE resetForced
      BY <1>2, <1>4, <2>1 DEF ResetDone
    <2>2. CASE ~resetForced
      <3>1. syncing' = WaiterIs("out")
        BY <1>4, <2>2 DEF ResetDone
      <3> QED
        BY <1>3, <3>1 DEF Held
    <2> QED
      BY <2>1, <2>2
  <1>5. CASE Quit
    <2>1. syncing' = WaiterIs("out")
      BY <1>5 DEF Quit
    <2> QED
      BY <1>3, <2>1 DEF Held
  <1>6. ASSUME NEW b \in Blocks, NewHead(b) PROVE Held'
    <2>1. /\ UNCHANGED <<syncing, main>>
          /\ resetWaiter # None => resetWaiter' = [resetWaiter EXCEPT !.heard = @ \cup {b}]
      BY <1>6 DEF NewHead
    <2>2. CASE resetWaiter # None
      <3>1. resetWaiter' \in Waiters /\ resetWaiter'.caller = resetWaiter.caller
        BY <1>1, <2>1, <2>2 DEF Waiters
      <3> QED
        BY <1>1, <2>1, <3>1 DEF Held
    <2>3. CASE resetWaiter = None
      BY <2>1, <2>3 DEF Held
    <2> QED
      BY <2>2, <2>3
  <1>7. ASSUME NEW c \in Syncers, Sync(c) PROVE Held'
    <2>1. PICK f : f = WaiterIs("overtaken")
      OBVIOUS
    <2>2. DOMAIN f = Syncers /\ \A u \in Syncers : f[u] # "waiting"
      BY <1>3, <2>1 DEF WaiterIs
    <2>3. /\ main = "up" /\ main' = main /\ syncing' = [f EXCEPT ![c] = "waiting"]
          /\ resetWaiter' = [caller |-> c, heard |-> {newHead}]
      BY <1>7, <2>1 DEF Sync
    <2>4. \A u \in Syncers : syncing'[u] = "waiting" => u = c
      BY <2>2, <2>3
    <2>5. resetWaiter' \in Waiters /\ resetWaiter'.caller = c
      BY <1>1, <2>3 DEF Waiters
    <2> QED
      BY <1>1, <2>3, <2>4, <2>5 DEF Held
  <1>8. CASE Around \/ ResetRequested \/ ResetReturns \/ ResetAbandoned \/ CloseLegacy
    <2>1. UNCHANGED <<resetWaiter, syncing, main>>
      BY <1>8 DEF Around, ResetRequested, ResetReturns, ResetAbandoned, CloseLegacy, loopVars
    <2> QED
      BY <1>2, <2>1
  <1>9. CASE Next
    BY <1>4, <1>5, <1>6, <1>7, <1>8, <1>9, StepCases
  <1> QED
    BY <1>2, <1>9 DEF vars, loopVars

LEMMA HeldInit == Init => Held
  BY DEF Init, Held

(* NobodyStranded: whichever way callers, the scheduler, the resets, Sync  *)
(* and Close interleave, whoever waits has a goroutine that will act,      *)
(* except a Sync that a later one overtook.                                *)
THEOREM NobodyIsStranded == Spec => []NobodyStranded
  <1>1. Attended /\ Held => NobodyStranded
    <2> SUFFICES ASSUME Attended, Held PROVE NobodyStranded
      OBVIOUS
    <2>1. \A s \in Syncers : syncing[s] = "waiting" =>
            /\ main = "up" /\ resetter # None
            /\ resetWaiter # None /\ resetWaiter.caller = s
      BY DEF Attended, MainServes, Held
    <2> QED
      BY <2>1 DEF Attended, EventsHaveSender, MainServes, SchedulerServes, NobodyStranded
  <1> QED
    BY <1>1, SoundInit, SoundStep, AttendedInit, AttendedStep, HeldInit, HeldStep, PTL DEF Spec

(* HeadsFollow: until a reset fails or the pool is shut, every reset under *)
(* way starts from the head the pool stands on and ends at the head the    *)
(* main loop asked for, so oldHead of the main loop never drifts from it.  *)
THEOREM ResetsFollowTheHead == Spec => []HeadsFollow
  <1>1. Attended => HeadsFollow
    BY DEF Attended
  <1> QED
    BY <1>1, SoundInit, SoundStep, AttendedInit, AttendedStep, PTL DEF Spec
-----------------------------------------------------------------------------
(* What the main loop promises: the head it heard of last is reached, and  *)
(* a Sync is answered by a reset that began after it.                      *)

SyncServed ==
    /\ main = "up" => ~shutdown
    /\ main = "up" /\ resetWaiter # None =>
          /\ newHead \in resetWaiter.heard
          /\ resetForced \/ (resetter # None /\ resetter.new \in resetWaiter.heard)

LEMMA SyncServedStep == Sound /\ SyncServed /\ [Next]_vars => SyncServed'
  <1> SUFFICES ASSUME Sound, SyncServed, [Next]_vars PROVE SyncServed'
    OBVIOUS
  <1>1. /\ resetter \in Resetters \cup {None} /\ resetWaiter \in Waiters \cup {None}
        /\ oldHead \in Blocks /\ newHead \in Blocks /\ resetForced \in BOOLEAN
    BY DEF Sound, PoolTyped, TypeOK
  <1>2. ASSUME UNCHANGED loopVars, shutdown' = shutdown PROVE SyncServed'
    BY <1>2 DEF SyncServed, loopVars
  (* A reset begins with the newest head, or what was asked for is kept.   *)
  <1>3. ASSUME NEW old \in Blocks, NEW new \in Blocks, NEW forced \in BOOLEAN,
               NEW current, StartReset(old, new, forced, current)
        PROVE  \/ resetter' # None /\ resetter'.new = new
               \/ resetter' = current /\ resetForced' = forced /\ (forced => current # None)
    <2>1. CASE (old # new \/ forced) /\ current = None
      <3>1. resetter' = [phase |-> "request", old |-> old, new |-> new]
        BY <1>3, <2>1, Zenon DEF StartReset
      <3>2. resetter' \in Resetters /\ resetter'.new = new
        BY <3>1 DEF Resetters
      <3> QED
        BY <3>2, NoneAssumption
    <2>2. CASE ~((old # new \/ forced) /\ current = None)
      BY <1>3, <2>2, Zenon DEF StartReset
    <2> QED
      BY <2>1, <2>2
  <1>4. CASE ResetRequested \/ ResetReturns
    <2>1. /\ UNCHANGED <<newHead, resetForced, resetWaiter, main>> /\ shutdown' = shutdown
          /\ resetter # None
          /\ \E phase \in {"wait", "done"} : resetter' = [resetter EXCEPT !.phase = phase]
      BY <1>4 DEF ResetRequested, ResetReturns, legacyVars
    <2>2. resetter' \in Resetters /\ resetter'.new = resetter.new
      BY <1>1, <2>1 DEF Resetters
    <2>3. resetter' # None
      BY <2>2, NoneAssumption
    <2> QED
      BY <2>1, <2>2, <2>3 DEF SyncServed
  <1>5. CASE ResetDone
    <2>1. /\ UNCHANGED <<newHead, main>> /\ shutdown' = shutdown /\ main = "up"
          /\ resetWaiter' = IF resetForced THEN resetWaiter ELSE None
          /\ StartReset(resetter.new, newHead, resetForced, None)
          /\ resetter # None
      BY <1>5 DEF ResetDone, legacyVars
    <2>2. resetter.new \in Blocks
      BY <1>1, <2>1 DEF Resetters
    <2>3. resetForced => resetter' # None /\ resetter'.new = newHead
      BY <1>1, <1>3, <2>1, <2>2
    <2> QED
      BY <2>1, <2>3 DEF SyncServed
  <1>6. CASE ResetAbandoned \/ CloseLegacy \/ Quit
    <2>1. main' = "down"
      BY <1>6 DEF ResetAbandoned, CloseLegacy, Quit, loopVars
    <2> QED
      BY <2>1 DEF SyncServed
  <1>7. ASSUME NEW b \in Blocks, NewHead(b) PROVE SyncServed'
    <2>1. /\ shutdown' = shutdown /\ main' = main /\ main = "up" /\ newHead' = b
          /\ StartReset(oldHead, b, resetForced, resetter)
          /\ resetWaiter' = IF resetWaiter = None THEN None
                            ELSE [resetWaiter EXCEPT !.heard = @ \cup {b}]
      BY <1>7 DEF NewHead, legacyVars
    <2>2. CASE resetWaiter = None
      BY <2>1, <2>2 DEF SyncServed
    <2>3. CASE resetWaiter # None
      <3>1. b \in resetWaiter'.heard /\ resetWaiter.heard \subseteq resetWaiter'.heard
        BY <1>1, <2>1, <2>3 DEF Waiters
      <3>2. \/ resetter' # None /\ resetter'.new = b
            \/ resetter' = resetter /\ resetForced' = resetForced
        BY <1>1, <1>3, <2>1
      <3> QED
        BY <2>1, <2>3, <3>1, <3>2 DEF SyncServed
    <2> QED
      BY <2>2, <2>3
  <1>8. ASSUME NEW c \in Syncers, Sync(c) PROVE SyncServed'
    <2>1. /\ shutdown' = shutdown /\ UNCHANGED <<newHead, main>>
          /\ StartReset(oldHead, newHead, TRUE, resetter)
          /\ resetWaiter' = [caller |-> c, heard |-> {newHead}]
      BY <1>8 DEF Sync, legacyVars
    <2>2. resetWaiter'.heard = {newHead}
      BY <2>1
    <2>3. \/ resetter' # None /\ resetter'.new = newHead
          \/ resetForced' = TRUE
      BY <1>1, <1>3, <2>1
    <2> QED
      BY <2>1, <2>2, <2>3 DEF SyncServed
  <1>9. ASSUME Next PROVE SyncServed'
    <2>1. CASE Around /\ (\/ \E c \in Callers : AddLocked(c) \/ RequestPromote(c)
                          \/ \E c \in Callers, t \in Txs : BeginAdd(c, t)
                          \/ PromoteRun \/ ResetRun \/ ResetRunFails \/ RunSend \/ LoopStops
                          \/ LegacyInput)
      <3>1. UNCHANGED loopVars /\ shutdown' = shutdown
        BY <2>1 DEF Around, AddLocked, RequestPromote, BeginAdd, PromoteRun, ResetRun,
           ResetRunFails, RunSend, LoopStops, LegacyInput, SetGasTip, Evict, Clear, OtherReserves
      <3> QED
        BY <1>2, <3>1
    <2> QED
      BY <1>4, <1>5, <1>6, <1>7, <1>8, <1>9, <2>1, StepCases
  <1> QED
    BY <1>2, <1>9 DEF vars, legacyVars

LEMMA SyncServedInit == Init => SyncServed
  BY DEF Init, LegacyInit, SyncServed

HeadReached == main = "up" /\ resetter = None /\ ~resetFailed => pool.head = newHead

(* HeadReached: once the main loop has no reset to wait for, the pool      *)
(* stands on the head the loop heard of last: a head that came while a     *)
(* reset was running got one of its own, and no reset was taken for done   *)
(* before the scheduler's run had carried it out.                          *)
THEOREM TheHeadIsReached == Spec => []HeadReached
  <1>1. Attended /\ SyncServed => HeadReached
    BY DEF Attended, HeadsFollow, MainServes, SyncServed, HeadReached
  <1> QED
    BY <1>1, SoundInit, SoundStep, AttendedInit, AttendedStep, SyncServedInit, SyncServedStep,
       PTL DEF Spec

(* SyncAnswered: the main loop answers a Sync only when the pool stands on *)
(* a head known at the call or heard of since; the reset that was running  *)
(* when the Sync came does not count.                                      *)
THEOREM SyncIsAnswered == Spec => SyncAnswered
  <1> DEFINE Answer == main' = "up" /\ resetWaiter # None /\ resetWaiter' = None /\ ~resetFailed
                         => pool.head \in resetWaiter.heard
  <1>1. Sound /\ Attended /\ SyncServed /\ [Next]_vars => [Answer]_vars
    <2> SUFFICES ASSUME Sound, Attended, SyncServed, Next,
                        main' = "up", resetWaiter # None, resetWaiter' = None, ~resetFailed
                 PROVE  pool.head \in resetWaiter.heard
      OBVIOUS
    <2>1. ResetDone
      <3>1. resetWaiter \in Waiters /\ None \notin Waiters
        BY NoneAssumption DEF Sound, PoolTyped, TypeOK
      <3>2. ASSUME NEW b \in Blocks, NewHead(b) PROVE FALSE
        <4>1. resetWaiter' = [resetWaiter EXCEPT !.heard = @ \cup {b}]
          BY <3>2 DEF NewHead
        <4>2. resetWaiter' \in Waiters
          BY <3>1, <4>1 DEF Waiters
        <4> QED
          BY <3>1, <4>2
      <3>3. ASSUME NEW c \in Syncers, Sync(c) PROVE FALSE
        <4>1. resetWaiter' = [caller |-> c, heard |-> {newHead}] /\ newHead \in Blocks
          BY <3>3 DEF Sync, Sound, PoolTyped, TypeOK
        <4>2. resetWaiter' \in Waiters
          BY <4>1 DEF Waiters
        <4> QED
          BY <3>1, <4>2
      <3>4. CASE Around \/ ResetRequested \/ ResetReturns \/ ResetAbandoned \/ CloseLegacy
        <4>1. resetWaiter' = resetWaiter
          BY <3>4 DEF Around, ResetRequested, ResetReturns, ResetAbandoned, CloseLegacy, loopVars
        <4> QED
          BY <4>1
      <3>5. ~Quit
        BY DEF Quit
      <3> QED
        BY <3>2, <3>3, <3>4, <3>5, StepCases
    <2>2. main = "up" /\ resetter # None /\ resetter.phase = "done" /\ ~resetForced
      <3>1. /\ main = "up" /\ resetter # None /\ resetter.phase = "done"
            /\ resetWaiter' = IF resetForced THEN resetWaiter ELSE None
        BY <2>1 DEF ResetDone
      <3> QED
        BY <3>1
    <2>3. ~shutdown /\ resetter.new \in resetWaiter.heard
      BY <2>2 DEF SyncServed
    <2>4. pool.head = resetter.new
      BY <2>2, <2>3 DEF Attended, HeadsFollow
    <2> QED
      BY <2>3, <2>4
  <1> QED
    BY <1>1, SoundInit, SoundStep, AttendedInit, AttendedStep, SyncServedInit,
       SyncServedStep, PTL DEF Spec, SyncAnswered
=============================================================================
