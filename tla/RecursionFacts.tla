--------------------------- MODULE RecursionFacts ---------------------------
(***************************************************************************)
(* What the recursive definitions of the library compute, as the proofs    *)
(* about the components need it: sums and folds over finite sets, folds    *)
(* over sequences, the concatenation of a sequence of sequences, functions *)
(* that recur to a lower rank.  Induction is done with WFMin: a set of     *)
(* counterexamples that is not empty has a minimal member.                 *)
(***************************************************************************)
EXTENDS SequencesExt, FiniteSetTheorems, SequenceTheorems, TLAPS

(* Every set of finite sets that has a member has a minimal one.           *)
LEMMA MinimalSet ==
    ASSUME NEW S, IsFiniteSet(S), NEW C \in SUBSET SUBSET S, C # {}
    PROVE  \E T \in C : \A U \in C : U \subseteq T => U = T
  <1>1. IsWellFoundedOn(StrictSubsetOrdering(S), FiniteSubsetsOf(S))
    BY FS_StrictSubsetOrderingWellFounded
  <1>2. C \subseteq FiniteSubsetsOf(S)
    BY FS_FiniteSubsetsOfFinite
  <1>3. PICK T \in C : \A U \in C : <<U, T>> \notin StrictSubsetOrdering(S)
    BY <1>1, <1>2, WFMin, Zenon
  <1>4. \A U \in C : U \subseteq T => U = T
    BY <1>3 DEF StrictSubsetOrdering
  <1> QED
    BY <1>4

(* Every set of natural numbers that has a member has a least one.         *)
LEMMA LeastNatural ==
    ASSUME NEW C \in SUBSET Nat, C # {}
    PROVE  \E m \in C : \A k \in C : m <= k
  <1>1. IsWellFoundedOn(OpToRel(<, Nat), Nat)
    BY NatLessThanWellFounded
  <1>2. PICK m \in C : \A k \in C : <<k, m>> \notin OpToRel(<, Nat)
    BY <1>1, WFMin, Zenon
  <1>3. \A k \in C : ~(k < m)
    BY <1>2 DEF OpToRel
  <1> QED
    BY <1>3

-----------------------------------------------------------------------------
(* Sums over finite sets: SumFunctionOnSet is a recursive function on the  *)
(* subsets of its second argument.                                         *)

Pick(s) == CHOOSE x \in s : TRUE

Rest(s) == s \ {Pick(s)}

(* g satisfies the recursive definition of the sum on the subsets of S.    *)
Sums(f, S, g) ==
    g = [s \in SUBSET S |-> IF s = {} THEN 0 ELSE f[Pick(s)] + g[Rest(s)]]

(* Some function satisfies it on the subsets of S.                         *)
Summable(f, S) == \E g : Sums(f, S, g)

LEMMA PickRest ==
    ASSUME NEW s, s # {}
    PROVE  /\ Pick(s) \in s /\ Rest(s) \subseteq s /\ Rest(s) # s
           /\ Pick(s) \notin Rest(s)
  BY DEF Pick, Rest

LEMMA SumsValue ==
    ASSUME NEW f, NEW S, NEW g, Sums(f, S, g), NEW s \in SUBSET S
    PROVE  g[s] = IF s = {} THEN 0 ELSE f[Pick(s)] + g[Rest(s)]
  BY DEF Sums

(* Two solutions agree on the sets both are defined for.                   *)
LEMMA SumsAgree ==
    ASSUME NEW f, NEW S, NEW T, NEW g, NEW h, IsFiniteSet(S),
           Sums(f, S, g), Sums(f, T, h)
    PROVE  \A s \in SUBSET (S \cap T) : g[s] = h[s]
  <1> DEFINE C == {s \in SUBSET (S \cap T) : g[s] # h[s]}
  <1> SUFFICES ASSUME C # {} PROVE FALSE
    OBVIOUS
  <1>1. C \in SUBSET SUBSET S
    OBVIOUS
  <1> HIDE DEF C
  <1>2. PICK s \in C : \A u \in C : u \subseteq s => u = s
    BY <1>1, MinimalSet
  <1> USE DEF C
  <1>3. s \in SUBSET S /\ s \in SUBSET T /\ g[s] # h[s]
    OBVIOUS
  <1>4. s # {}
    BY <1>3 DEF Sums
  <1>5. Rest(s) \in SUBSET (S \cap T) /\ Rest(s) \notin C
    BY <1>2, <1>4, PickRest
  <1>6. g[Rest(s)] = h[Rest(s)]
    BY <1>5
  <1>7. g[s] = f[Pick(s)] + g[Rest(s)] /\ h[s] = f[Pick(s)] + h[Rest(s)]
    BY <1>3, <1>4 DEF Sums
  <1> QED
    BY <1>3, <1>6, <1>7

(* The recursive definition has a solution on the subsets of a finite set. *)
LEMMA AllSummable ==
    ASSUME NEW f, NEW S, IsFiniteSet(S)
    PROVE  \A T \in SUBSET S : Summable(f, T)
  <1> DEFINE C == {T \in SUBSET S : ~Summable(f, T)}
  <1> SUFFICES ASSUME C # {} PROVE FALSE
    OBVIOUS
  <1>1. C \in SUBSET SUBSET S
    OBVIOUS
  <1> HIDE DEF C
  <1>2. PICK T \in C : \A U \in C : U \subseteq T => U = T
    BY <1>1, MinimalSet
  <1> USE DEF C
  <1> DEFINE Sol(U) == CHOOSE g : Sums(f, U, g)
             Val(s) == IF s = {} THEN 0 ELSE f[Pick(s)] + Sol(Rest(s))[Rest(s)]
             k == [s \in SUBSET T |-> Val(s)]
  <1>3. \A U \in SUBSET T : U # T => Sums(f, U, Sol(U)) /\ IsFiniteSet(U)
    <2> SUFFICES ASSUME NEW U \in SUBSET T, U # T
                 PROVE  Sums(f, U, Sol(U)) /\ IsFiniteSet(U)
      OBVIOUS
    <2>1. U \in SUBSET S /\ U \notin C
      BY <1>2
    <2>2. \E g : Sums(f, U, g)
      BY <2>1 DEF Summable
    <2> QED
      BY <2>1, <2>2, FS_Subset
  <1>4. ASSUME NEW s \in SUBSET T, s # {}
        PROVE  k[Rest(s)] = Sol(Rest(s))[Rest(s)]
    <2> DEFINE r == Rest(s)
    <2>1. r \in SUBSET T /\ r # T
      BY <1>4, PickRest
    <2>2. Sums(f, r, Sol(r)) /\ IsFiniteSet(r)
      BY <1>3, <2>1
    <2>3. CASE r = {}
      <3>1. Sol(r)[r] = 0
        BY <2>2, <2>3 DEF Sums
      <3> QED
        BY <2>1, <2>3, <3>1
    <2>4. CASE r # {}
      <3> DEFINE q == Rest(r)
      <3>1. q \in SUBSET r /\ q \in SUBSET T /\ q # T
        BY <2>1, <2>4, PickRest
      <3>2. Sums(f, q, Sol(q)) /\ IsFiniteSet(q)
        BY <1>3, <3>1
      <3>3. Sol(r)[q] = Sol(q)[q]
        <4>1. q \in SUBSET (q \cap r)
          BY <3>1
        <4> HIDE DEF q, r, Sol
        <4> QED
          BY <2>2, <3>2, <4>1, SumsAgree
      <3>4. Sol(r)[r] = f[Pick(r)] + Sol(r)[q]
        BY <2>2, <2>4 DEF Sums
      <3>5. k[r] = f[Pick(r)] + Sol(q)[q]
        BY <2>1, <2>4
      <3> QED
        BY <3>3, <3>4, <3>5
    <2> QED
      BY <2>3, <2>4
  <1>5. Sums(f, T, k)
    <2>1. ASSUME NEW s \in SUBSET T
          PROVE  Val(s) = IF s = {} THEN 0 ELSE f[Pick(s)] + k[Rest(s)]
      <3>1. s # {} => k[Rest(s)] = Sol(Rest(s))[Rest(s)]
        BY <1>4
      <3> HIDE DEF k, Sol
      <3> QED
        BY <3>1
    <2> HIDE DEF Val
    <2> QED
      BY <2>1 DEF Sums
  <1>6. Summable(f, T)
    <2> HIDE DEF k
    <2> QED
      BY <1>5 DEF Summable
  <1> QED
    BY <1>6

(* The equation of the sum.                                                *)
LEMMA SumEquation ==
    ASSUME NEW f, NEW S, IsFiniteSet(S)
    PROVE  SumFunctionOnSet(f, S) =
               IF S = {} THEN 0 ELSE f[Pick(S)] + SumFunctionOnSet(f, Rest(S))
  <1> DEFINE Sol(U) == CHOOSE g : Sums(f, U, g)
  <1>1. \A U : SumFunctionOnSet(f, U) = Sol(U)[U]
    BY DEF SumFunctionOnSet, FoldFunctionOnSet, MapThenFoldSet, Sums, Pick, Rest
  <1>2. \A U \in SUBSET S : Sums(f, U, Sol(U))
    BY AllSummable DEF Summable
  <1> HIDE DEF Sol
  <1>3. Sol(S)[S] = IF S = {} THEN 0 ELSE f[Pick(S)] + Sol(S)[Rest(S)]
    <2>1. Sums(f, S, Sol(S)) /\ S \in SUBSET S
      BY <1>2
    <2> QED
      BY <2>1, SumsValue
  <1>4. CASE S = {}
    BY <1>3, <1>1, <1>4
  <1>5. CASE S # {}
    <2>1. Rest(S) \in SUBSET S
      BY <1>5, PickRest
    <2>2. Sol(S)[S] = f[Pick(S)] + Sol(S)[Rest(S)]
      BY <1>3, <1>5
    <2>3. Sol(S)[Rest(S)] = Sol(Rest(S))[Rest(S)]
      <3>1. Sums(f, S, Sol(S)) /\ Sums(f, Rest(S), Sol(Rest(S)))
        BY <1>2, <2>1
      <3>2. Rest(S) \in SUBSET (S \cap Rest(S))
        BY <2>1
      <3> QED
        BY <3>1, <3>2, SumsAgree
    <2> QED
      BY <1>1, <1>5, <2>2, <2>3
  <1> QED
    BY <1>4, <1>5

(* A sum of stakes is a natural number.                                    *)
LEMMA SumIsNatural ==
    ASSUME NEW D, NEW f \in [D -> Nat], NEW S \in SUBSET D, IsFiniteSet(S)
    PROVE  SumFunctionOnSet(f, S) \in Nat
  <1> DEFINE C == {T \in SUBSET S : SumFunctionOnSet(f, T) \notin Nat}
  <1> SUFFICES ASSUME C # {} PROVE FALSE
    OBVIOUS
  <1>1. C \in SUBSET SUBSET S
    OBVIOUS
  <1> HIDE DEF C
  <1>2. PICK T \in C : \A U \in C : U \subseteq T => U = T
    BY <1>1, MinimalSet
  <1> USE DEF C
  <1>3. IsFiniteSet(T)
    BY FS_Subset
  <1>4. T # {}
    <2>1. T = {} => SumFunctionOnSet(f, T) = 0
      BY <1>3, SumEquation
    <2> QED
      BY <2>1
  <1>5. Rest(T) \in SUBSET S /\ Rest(T) \notin C
    BY <1>2, <1>4, PickRest
  <1>6. SumFunctionOnSet(f, Rest(T)) \in Nat /\ f[Pick(T)] \in Nat
    BY <1>4, <1>5, PickRest
  <1>7. SumFunctionOnSet(f, T) = f[Pick(T)] + SumFunctionOnSet(f, Rest(T))
    BY <1>3, <1>4, SumEquation
  <1> QED
    BY <1>6, <1>7

(* The summand that is taken out first makes no difference.                *)
LEMMA SumWithout ==
    ASSUME NEW D, NEW f \in [D -> Nat], NEW S \in SUBSET D, IsFiniteSet(S)
    PROVE  \A T \in SUBSET S : \A x \in T :
               SumFunctionOnSet(f, T) = f[x] + SumFunctionOnSet(f, T \ {x})
  <1> DEFINE Sum(T) == SumFunctionOnSet(f, T)
             C == {T \in SUBSET S : \E x \in T : Sum(T) # f[x] + Sum(T \ {x})}
  <1> SUFFICES ASSUME C # {} PROVE FALSE
    OBVIOUS
  <1>1. C \in SUBSET SUBSET S
    OBVIOUS
  <1> HIDE DEF C
  <1>2. PICK T \in C : \A U \in C : U \subseteq T => U = T
    BY <1>1, MinimalSet
  <1> USE DEF C
  <1>3. PICK x \in T : Sum(T) # f[x] + Sum(T \ {x})
    OBVIOUS
  <1> DEFINE c == Pick(T)
  <1>4. /\ T \in SUBSET S /\ T # {} /\ c \in T
        /\ \A U \in SUBSET T : IsFiniteSet(U) /\ Sum(U) \in Nat
    BY <1>3, PickRest, FS_Subset, SumIsNatural
  <1>5. Sum(T) = f[c] + Sum(T \ {c})
    BY <1>4, SumEquation DEF Rest
  <1>6. x # c
    BY <1>3, <1>5
  <1>7. \A U \in SUBSET T : U # T => \A y \in U : Sum(U) = f[y] + Sum(U \ {y})
    BY <1>2, <1>4
  <1>8. /\ T \ {c} \in SUBSET T /\ T \ {c} # T /\ x \in T \ {c}
        /\ T \ {x} \in SUBSET T /\ T \ {x} # T /\ c \in T \ {x}
        /\ (T \ {c}) \ {x} = (T \ {x}) \ {c}
    BY <1>4, <1>6
  <1> DEFINE both == (T \ {x}) \ {c}
  <1>9. Sum(T \ {c}) = f[x] + Sum(both) /\ Sum(T \ {x}) = f[c] + Sum(both)
    BY <1>7, <1>8
  <1>10. f[x] \in Nat /\ f[c] \in Nat /\ Sum(both) \in Nat
    BY <1>4, <1>3
  <1> HIDE DEF Sum, both, c
  <1> QED
    BY <1>3, <1>5, <1>9, <1>10

(* More operators have more stake.                                         *)
THEOREM SumGrows ==
    ASSUME NEW D, NEW f \in [D -> Nat], NEW S \in SUBSET D, IsFiniteSet(S),
           NEW A \in SUBSET S
    PROVE  SumFunctionOnSet(f, A) <= SumFunctionOnSet(f, S)
  <1> DEFINE Sum(T) == SumFunctionOnSet(f, T)
             C == {T \in SUBSET S : A \subseteq T /\ ~(Sum(A) <= Sum(T))}
  <1> SUFFICES ASSUME C # {} PROVE FALSE
    OBVIOUS
  <1>1. C \in SUBSET SUBSET S
    OBVIOUS
  <1> HIDE DEF C
  <1>2. PICK T \in C : \A U \in C : U \subseteq T => U = T
    BY <1>1, MinimalSet
  <1> USE DEF C
  <1>3. \A U \in SUBSET S : Sum(U) \in Nat
    BY FS_Subset, SumIsNatural
  <1>4. PICK x \in T : x \notin A
    BY <1>3
  <1>5. T \ {x} \in SUBSET S /\ A \subseteq T \ {x} /\ T \ {x} \notin C
    BY <1>2, <1>4
  <1>6. Sum(A) <= Sum(T \ {x})
    BY <1>5
  <1>7. Sum(T) = f[x] + Sum(T \ {x}) /\ f[x] \in Nat
    BY <1>4, SumWithout
  <1>8. Sum(A) \in Nat /\ Sum(T) \in Nat /\ Sum(T \ {x}) \in Nat
    BY <1>3, <1>5
  <1> HIDE DEF Sum
  <1> QED
    BY <1>6, <1>7, <1>8

-----------------------------------------------------------------------------
(* Recursion along a sequence.                                             *)

(* g is the recursion that starts with v0 and goes on with step, up to m.  *)
Solves(g, v0, step, m) == g[0] = v0 /\ \A i \in 1..m : g[i] = step[<<g[i - 1], i>>]

(* A recursion from 0 upwards has a solution.                              *)
LEMMA Chain ==
    ASSUME NEW V, NEW v0 \in V, NEW n \in Nat, NEW step \in [V \X (1..n) -> V]
    PROVE  \E g \in [0..n -> V] : Solves(g, v0, step, n)
  <1> DEFINE Solvable(m) == \E g \in [0..m -> V] : Solves(g, v0, step, m)
             C == {m \in 0..n : ~Solvable(m)}
  <1> HIDE DEF Solvable
  <1> SUFFICES ASSUME C # {} PROVE FALSE
    BY DEF Solvable
  <1>1. C \in SUBSET Nat
    OBVIOUS
  <1> HIDE DEF C
  <1>2. PICK m \in C : \A k \in C : m <= k
    BY <1>1, LeastNatural
  <1> USE DEF C
  <1>3. m \in 0..n /\ ~Solvable(m)
    OBVIOUS
  <1>4. m # 0
    <2>1. m = 0 => /\ [i \in 0..m |-> v0] \in [0..m -> V]
                   /\ Solves([i \in 0..m |-> v0], v0, step, m)
      BY DEF Solves
    <2> QED
      BY <1>3, <2>1 DEF Solvable
  <1>5. m - 1 \in 0..n /\ ~(m <= m - 1)
    BY <1>3, <1>4
  <1>5a. Solvable(m - 1)
    BY <1>2, <1>5
  <1>6. PICK g \in [0..(m - 1) -> V] : Solves(g, v0, step, m - 1)
    BY <1>5a DEF Solvable
  <1> DEFINE last == step[<<g[m - 1], m>>]
             h == [i \in 0..m |-> IF i = m THEN last ELSE g[i]]
  <1>7. last \in V
    BY <1>3, <1>4
  <1> HIDE DEF last
  <1>8. h \in [0..m -> V]
    BY <1>3, <1>4, <1>7
  <1>9. /\ \A i \in 0..(m - 1) : h[i] = g[i]
        /\ h[m] = last
    BY <1>3, <1>4
  <1> HIDE DEF h
  <1>10. Solves(h, v0, step, m)
    <2>1. h[0] = v0
      BY <1>3, <1>4, <1>6, <1>9 DEF Solves
    <2>2. ASSUME NEW i \in 1..m
          PROVE  h[i] = step[<<h[i - 1], i>>]
      <3>1. CASE i = m
        <4>1. m - 1 \in 0..(m - 1)
          BY <1>3, <1>4
        <4>2. h[m - 1] = g[m - 1] /\ h[m] = step[<<g[m - 1], m>>]
          BY <1>9, <4>1 DEF last
        <4> QED
          BY <3>1, <4>2
      <3>2. CASE i # m
        <4>1. i \in 1..(m - 1) /\ i \in 0..(m - 1) /\ i - 1 \in 0..(m - 1)
          BY <1>3, <3>2
        <4> QED
          BY <1>6, <1>9, <4>1 DEF Solves
      <3> QED
        BY <3>1, <3>2
    <2> QED
      BY <2>1, <2>2 DEF Solves
  <1> QED
    BY <1>3, <1>8, <1>10 DEF Solvable


(* Induction up to n, for the numbers that have been shown so far.         *)
LEMMA UpTo ==
    ASSUME NEW n \in Nat, NEW S, 0 \in S, \A i \in 1..n : i - 1 \in S => i \in S
    PROVE  \A i \in 0..n : i \in S
  <1> DEFINE C == {i \in 0..n : i \notin S}
  <1> SUFFICES ASSUME C # {} PROVE FALSE
    OBVIOUS
  <1>1. C \in SUBSET Nat
    OBVIOUS
  <1> HIDE DEF C
  <1>2. PICK m \in C : \A k \in C : m <= k
    BY <1>1, LeastNatural
  <1>3. m \in 0..n /\ m \notin S /\ m # 0
    BY DEF C
  <1>4. m - 1 \in 0..n /\ m \in 1..n /\ ~(m <= m - 1)
    BY <1>3
  <1>5. m - 1 \in S
    BY <1>2, <1>4 DEF C
  <1> QED
    BY <1>3, <1>4, <1>5

(* The same without a bound.                                               *)
SolvesAll(g, v0, step) ==
    g[0] = v0 /\ \A i \in Nat \ {0} : g[i] = step[<<g[i - 1], i>>]

LEMMA LongChain ==
    ASSUME NEW V, NEW v0 \in V, NEW step \in [V \X Nat -> V]
    PROVE  \E g \in [Nat -> V] : SolvesAll(g, v0, step)
  <1> DEFINE Part(g, n) == g[0] = v0 /\ \A i \in 1..n : g[i] = step[<<g[i - 1], i>>]
             Sol(n) == CHOOSE g \in [0..n -> V] : Part(g, n)
  <1>1. \A n \in Nat : Sol(n) \in [0..n -> V] /\ Part(Sol(n), n)
    <2> SUFFICES ASSUME NEW n \in Nat PROVE \E g \in [0..n -> V] : Part(g, n)
      OBVIOUS
    <2> DEFINE some == [x \in V \X (1..n) |-> step[x]]
    <2>1. some \in [V \X (1..n) -> V] /\ \A v \in V, i \in 1..n : some[<<v, i>>] = step[<<v, i>>]
      OBVIOUS
    <2> HIDE DEF some
    <2>2. PICK g \in [0..n -> V] : Solves(g, v0, some, n)
      BY <2>1, Chain
    <2>3. \A i \in 1..n : g[i - 1] \in V
      <3>1. \A i \in 1..n : i - 1 \in 0..n
        OBVIOUS
      <3> QED
        BY <3>1
    <2>4. Part(g, n)
      BY <2>1, <2>2, <2>3 DEF Solves
    <2> QED
      BY <2>4
  <1> HIDE DEF Sol
  <1>2. ASSUME NEW n \in Nat, n # 0
        PROVE  Sol(n)[n - 1] = Sol(n - 1)[n - 1]
    <2> DEFINE m == n - 1
               S == {i \in 0..m : Sol(n)[i] = Sol(m)[i]}
    <2>1. m \in Nat /\ \A i \in 1..m : i \in 1..n
      BY <1>2
    <2>2. Part(Sol(n), n) /\ Part(Sol(m), m)
      BY <1>1, <2>1
    <2>3. 0 \in S
      BY <2>1, <2>2
    <2>4. \A i \in 1..m : i - 1 \in S => i \in S
      <3> SUFFICES ASSUME NEW i \in 1..m, i - 1 \in S PROVE Sol(n)[i] = Sol(m)[i] /\ i \in 0..m
        OBVIOUS
      <3>1. Sol(n)[i] = step[<<Sol(n)[i - 1], i>>] /\ Sol(m)[i] = step[<<Sol(m)[i - 1], i>>]
        BY <2>1, <2>2
      <3> HIDE DEF m
      <3> QED
        BY <3>1
    <2>5. m \in S
      <3> HIDE DEF S, m
      <3>1. \A i \in 0..m : i \in S
        BY <2>1, <2>3, <2>4, UpTo
      <3> QED
        BY <2>1, <3>1
    <2> QED
      BY <2>5
  <1> DEFINE g == [n \in Nat |-> Sol(n)[n]]
  <1>3. g \in [Nat -> V]
    <2>1. \A n \in Nat : n \in 0..n
      OBVIOUS
    <2>2. \A n \in Nat : Sol(n) \in [0..n -> V]
      BY <1>1
    <2>3. \A n \in Nat : Sol(n)[n] \in V
      BY <2>1, <2>2
    <2> QED
      BY <2>3
  <1>4. g[0] = v0
    BY <1>1
  <1>5. ASSUME NEW i \in Nat \ {0}
        PROVE  g[i] = step[<<g[i - 1], i>>]
    <2>1. i \in 1..i /\ i - 1 \in Nat
      OBVIOUS
    <2>2. Sol(i)[i] = step[<<Sol(i)[i - 1], i>>]
      BY <1>1, <2>1
    <2> QED
      BY <1>2, <2>1, <2>2
  <1> HIDE DEF g
  <1> QED
    BY <1>3, <1>4, <1>5 DEF SolvesAll

(* A recursion along a rank has a solution.                                *)
SolvesRanked(h, D, rank, base, prev, step) ==
    \A s \in D : h[s] = IF rank[s] = 0 THEN base[s] ELSE step[<<h[prev[s]], s>>]

LEMMA RankedRecursion ==
    ASSUME NEW D, NEW V, NEW rank \in [D -> Nat], NEW base \in [D -> V],
           NEW prev \in [D -> D], NEW step \in [V \X D -> V],
           \A s \in D : rank[s] # 0 => rank[prev[s]] < rank[s]
    PROVE  \E h \in [D -> V] : SolvesRanked(h, D, rank, base, prev, step)
  <1> DEFINE W == [D -> V]
             Ext(F, i) == [s \in D |-> IF rank[s] = i THEN step[<<F[prev[s]], s>>] ELSE F[s]]
             up == [x \in W \X Nat |-> Ext(x[1], x[2])]
  <1>1. \A F \in W, i \in Nat : Ext(F, i) \in W
    <2> SUFFICES ASSUME NEW F \in W, NEW i \in Nat, NEW s \in D
                 PROVE  (IF rank[s] = i THEN step[<<F[prev[s]], s>>] ELSE F[s]) \in V
      OBVIOUS
    <2>1. F[prev[s]] \in V /\ F[s] \in V
      OBVIOUS
    <2> QED
      BY <2>1
  <1>2. /\ up \in [W \X Nat -> W] /\ base \in W
        /\ \A F \in W, i \in Nat : up[<<F, i>>] = Ext(F, i)
    <2>1. base \in W
      OBVIOUS
    <2> HIDE DEF W, Ext
    <2> QED
      BY <1>1, <2>1
  <1>3. PICK g \in [Nat -> W] : SolvesAll(g, base, up)
    <2>1. up \in [W \X Nat -> W] /\ base \in W
      BY <1>2
    <2> HIDE DEF W, up
    <2> QED
      BY <2>1, LongChain
  <1>4. \A i \in Nat \ {0} : g[i] = Ext(g[i - 1], i)
    <2>0. \A i \in Nat \ {0} : i - 1 \in Nat
      OBVIOUS
    <2> HIDE DEF W, up, Ext
    <2>1. \A i \in Nat \ {0} : g[i - 1] \in W
      BY <2>0
    <2> QED
      BY <1>2, <1>3, <2>1 DEF SolvesAll
  <1>5. ASSUME NEW s \in D, NEW n \in Nat, rank[s] <= n
        PROVE  g[n][s] = g[rank[s]][s]
    <2> DEFINE C == {i \in 0..n : rank[s] <= i => g[i][s] = g[rank[s]][s]}
    <2>0. rank[s] \in Nat
      OBVIOUS
    <2> HIDE DEF W, Ext, up
    <2>1. 0 \in C
      BY <2>0
    <2>2. ASSUME NEW i \in 1..n, i - 1 \in C
          PROVE  i \in C
      <3>1. CASE rank[s] = i
        BY <3>1
      <3>2. CASE rank[s] # i /\ rank[s] <= i
        <4>1. rank[s] <= i - 1
          BY <2>0, <3>2
        <4>2. g[i - 1][s] = g[rank[s]][s]
          BY <2>2, <4>1
        <4>3. g[i][s] = g[i - 1][s]
          <5>0. i \in Nat \ {0}
            OBVIOUS
          <5>1. g[i] = Ext(g[i - 1], i)
            BY <1>4, <5>0
          <5>2. Ext(g[i - 1], i)[s] = g[i - 1][s]
            BY <3>2 DEF Ext
          <5> QED
            BY <5>1, <5>2
        <4> QED
          BY <4>2, <4>3
      <3> QED
        BY <3>1, <3>2
    <2> HIDE DEF C
    <2>3. \A i \in 0..n : i \in C
      BY <2>1, <2>2, UpTo
    <2> QED
      BY <1>5, <2>3 DEF C
  <1> DEFINE h == [s \in D |-> g[rank[s]][s]]
  <1>6. h \in [D -> V]
    <2>1. \A s \in D : g[rank[s]] \in W
      <3> HIDE DEF W
      <3> QED
        OBVIOUS
    <2>2. \A s \in D : g[rank[s]][s] \in V
      BY <2>1
    <2> QED
      BY <2>2
  <1>7. ASSUME NEW s \in D
        PROVE  h[s] = IF rank[s] = 0 THEN base[s] ELSE step[<<h[prev[s]], s>>]
    <2>1. CASE rank[s] = 0
      BY <1>3, <2>1 DEF SolvesAll
    <2>2. CASE rank[s] # 0
      <3> DEFINE m == rank[s]
                 r == prev[s]
      <3>1. m \in Nat \ {0} /\ m - 1 \in Nat /\ r \in D /\ rank[r] <= m - 1
        <4>1. rank[s] \in Nat /\ prev[s] \in D /\ rank[prev[s]] \in Nat
          OBVIOUS
        <4>2. rank[prev[s]] < rank[s]
          BY <2>2
        <4> QED
          BY <2>2, <4>1, <4>2
      <3>2. g[m][s] = step[<<g[m - 1][r], s>>]
        <4>1. g[m] = Ext(g[m - 1], m)
          BY <1>4, <3>1
        <4> QED
          BY <4>1
      <3>3. g[m - 1][r] = h[r]
        BY <1>5, <3>1
      <3> QED
        BY <2>2, <3>2, <3>3
    <2> QED
      BY <2>1, <2>2
  <1> HIDE DEF h
  <1> QED
    BY <1>6, <1>7 DEF SolvesRanked

-----------------------------------------------------------------------------
(* Folding a sequence from the left: FoldLeft is a recursive function on   *)
(* the sets of its indices that takes the largest index out first.         *)

LEMMA MaxOf ==
    ASSUME NEW n \in Nat, NEW s \in SUBSET (1..n), s # {}
    PROVE  Max(s) \in s /\ \A y \in s : y <= Max(s)
  <1> DEFINE C == {n - y : y \in s}
  <1>0. \A y \in s : n - y \in Nat
    OBVIOUS
  <1>1. C \in SUBSET Nat
    BY <1>0
  <1>1a. C # {}
    OBVIOUS
  <1> HIDE DEF C
  <1>2. PICK m \in C : \A k \in C : m <= k
    BY <1>1, <1>1a, LeastNatural
  <1>3. PICK x \in s : m = n - x
    BY DEF C
  <1>4. \A y \in s : n - x <= n - y
    BY <1>2, <1>3 DEF C
  <1>5. \A y \in s : x >= y
    BY <1>4
  <1>6. \E z \in s : \A y \in s : z >= y
    BY <1>5
  <1>7. Max(s) \in s /\ \A y \in s : Max(s) >= y
    BY <1>6 DEF Max
  <1> QED
    BY <1>7

LEMMA MaxOfInterval ==
    ASSUME NEW n \in Nat, NEW i \in 1..n
    PROVE  Max(1..i) = i /\ (1..i) \ {i} = 1..(i - 1) /\ 1..i # {}
  <1>1. 1..i \in SUBSET (1..n) /\ i \in 1..i
    OBVIOUS
  <1>2. Max(1..i) \in 1..i /\ \A y \in 1..i : y <= Max(1..i)
    BY <1>1, MaxOf
  <1> QED
    BY <1>1, <1>2

(* h is the recursion over sets of indices.                                *)
IsFold(h, v0, step, n) ==
    \A s \in SUBSET (1..n) :
        h[s] = IF s = {} THEN v0 ELSE step[<<h[s \ {Max(s)}], Max(s)>>]

LEMMA FoldExists ==
    ASSUME NEW V, NEW v0 \in V, NEW n \in Nat, NEW step \in [V \X (1..n) -> V]
    PROVE  \E h \in [SUBSET (1..n) -> V] : IsFold(h, v0, step, n)
  <1> DEFINE D == SUBSET (1..n)
             rank == [s \in D |-> IF s = {} THEN 0 ELSE Max(s)]
             base == [s \in D |-> v0]
             prev == [s \in D |-> s \ {Max(s)}]
             next == [x \in V \X D |-> IF x[2] = {} THEN v0 ELSE step[<<x[1], Max(x[2])>>]]
  <1>1. \A s \in D : s # {} => Max(s) \in s /\ Max(s) \in 1..n /\ \A y \in s : y <= Max(s)
    BY MaxOf
  <1>2. rank \in [D -> Nat] /\ \A s \in D : rank[s] = 0 <=> s = {}
    BY <1>1
  <1>3. base \in [D -> V] /\ prev \in [D -> D]
    OBVIOUS
  <1>4. next \in [V \X D -> V] /\ \A v \in V, s \in D : s # {} => next[<<v, s>>] = step[<<v, Max(s)>>]
    <2> HIDE DEF D
    <2> QED
      BY <1>1
  <1>5. ASSUME NEW s \in D, rank[s] # 0
        PROVE  rank[prev[s]] < rank[s]
    <2> DEFINE r == s \ {Max(s)}
    <2>1. s # {} /\ r \in D /\ prev[s] = r /\ rank[s] = Max(s)
      BY <1>5
    <2>2. Max(s) \in 1..n /\ \A y \in r : y < Max(s)
      BY <1>1, <2>1
    <2>3. r # {} => Max(r) \in r
      BY <1>1, <2>1
    <2>4. rank[r] = IF r = {} THEN 0 ELSE Max(r)
      BY <2>1
    <2> HIDE DEF r, rank, prev, D
    <2>5. CASE r = {}
      BY <2>1, <2>2, <2>4, <2>5
    <2>6. CASE r # {}
      BY <2>1, <2>2, <2>3, <2>4, <2>6
    <2> QED
      BY <2>5, <2>6
  <1> HIDE DEF D, rank, base, prev, next
  <1>6. PICK h \in [D -> V] : SolvesRanked(h, D, rank, base, prev, next)
    <2>1. rank \in [D -> Nat] /\ next \in [V \X D -> V]
      BY <1>2, <1>4
    <2> QED
      BY <1>3, <1>5, <2>1, RankedRecursion
  <1>7. ASSUME NEW s \in D
        PROVE  h[s] = IF s = {} THEN v0 ELSE step[<<h[s \ {Max(s)}], Max(s)>>]
    <2>1. base[s] = v0 /\ prev[s] = s \ {Max(s)} /\ h[prev[s]] \in V
      BY <1>3 DEF base, prev
    <2>2. h[s] = IF rank[s] = 0 THEN base[s] ELSE next[<<h[prev[s]], s>>]
      BY <1>6 DEF SolvesRanked
    <2>3. CASE s = {}
      BY <1>2, <2>1, <2>2, <2>3
    <2>4. CASE s # {}
      <3>1. h[s] = next[<<h[prev[s]], s>>]
        BY <1>2, <2>2, <2>4
      <3>2. next[<<h[prev[s]], s>>] = step[<<h[prev[s]], Max(s)>>]
        BY <1>4, <2>1, <2>4
      <3> QED
        BY <2>1, <2>4, <3>1, <3>2
    <2> QED
      BY <2>3, <2>4
  <1> QED
    BY <1>7 DEF IsFold, D

(* A function that satisfies the recursion wherever the recursion is       *)
(* defined takes the values of a chain on the sets 1..i.                   *)
LEMMA FoldChain ==
    ASSUME NEW V, NEW v0 \in V, NEW n \in Nat, NEW step \in [V \X (1..n) -> V],
           NEW f, f[{}] = v0,
           \A s \in SUBSET (1..n) : s # {} /\ f[s \ {Max(s)}] \in V =>
               f[s] = step[<<f[s \ {Max(s)}], Max(s)>>]
    PROVE  \E g \in [0..n -> V] : f[1..n] = g[n] /\ Solves(g, v0, step, n)
  <1> DEFINE g == [i \in 0..n |-> f[1..i]]
             S == {i \in 0..n : g[i] \in V}
  <1>1. g[0] = v0 /\ 0 \in 0..n /\ g[n] = f[1..n]
    <2>1. 1..0 = {} /\ 0 \in 0..n /\ n \in 0..n
      OBVIOUS
    <2> QED
      BY <2>1
  <1>2. ASSUME NEW i \in 1..n, g[i - 1] \in V
        PROVE  g[i] = step[<<g[i - 1], i>>] /\ g[i] \in V
    <2>1. /\ i \in 0..n /\ i - 1 \in 0..n /\ 1..i \in SUBSET (1..n)
          /\ Max(1..i) = i /\ (1..i) \ {i} = 1..(i - 1) /\ 1..i # {}
      BY MaxOfInterval
    <2>2. f[(1..i) \ {i}] = g[i - 1]
      BY <2>1
    <2>3. f[1..i] = step[<<f[(1..i) \ {i}], i>>]
      BY <1>2, <2>1, <2>2
    <2>4. g[i] = step[<<g[i - 1], i>>]
      BY <2>1, <2>2, <2>3
    <2> HIDE DEF g
    <2> QED
      BY <1>2, <2>4
  <1>3. g = [i \in 0..n |-> g[i]]
    OBVIOUS
  <1> HIDE DEF g
  <1>4. \A i \in 0..n : i \in S
    <2>1. 0 \in S
      BY <1>1
    <2>2. \A i \in 1..n : i - 1 \in S => i \in S
      <3> SUFFICES ASSUME NEW i \in 1..n, i - 1 \in S PROVE i \in S
        OBVIOUS
      <3>1. g[i - 1] \in V /\ i \in 0..n
        OBVIOUS
      <3> HIDE DEF S
      <3>2. g[i] \in V
        BY <1>2, <3>1
      <3> QED
        BY <3>1, <3>2 DEF S
    <2> HIDE DEF S
    <2> QED
      BY <2>1, <2>2, UpTo
  <1>5. g \in [0..n -> V]
    BY <1>3, <1>4
  <1>6. \A i \in 1..n : i - 1 \in 0..n
    OBVIOUS
  <1>7. Solves(g, v0, step, n)
    BY <1>1, <1>2, <1>4, <1>6 DEF Solves
  <1> QED
    BY <1>1, <1>5, <1>7

(* Folding a set: FoldSet is a recursive function on its subsets that      *)
(* takes some member out first.                                            *)
IsSetFold(h, v0, step, S) ==
    \A s \in SUBSET S : h[s] = IF s = {} THEN v0 ELSE step[<<h[Rest(s)], Pick(s)>>]

LEMMA SetFoldExists ==
    ASSUME NEW V, NEW v0 \in V, NEW S, IsFiniteSet(S), NEW step \in [V \X S -> V]
    PROVE  \E h \in [SUBSET S -> V] : IsSetFold(h, v0, step, S)
  <1> DEFINE D == SUBSET S
             rank == [s \in D |-> Cardinality(s)]
             base == [s \in D |-> v0]
             prev == [s \in D |-> Rest(s)]
             next == [x \in V \X D |-> IF x[2] = {} THEN v0 ELSE step[<<x[1], Pick(x[2])>>]]
  <1>1. \A s \in D : /\ IsFiniteSet(s) /\ Cardinality(s) \in Nat
                     /\ Cardinality(s) = 0 <=> s = {}
    BY FS_Subset, FS_CardinalityType, FS_EmptySet
  <1>2. rank \in [D -> Nat] /\ \A s \in D : rank[s] = 0 <=> s = {}
    BY <1>1
  <1>3. \A s \in D : s # {} => Pick(s) \in s /\ Pick(s) \in S /\ Rest(s) = s \ {Pick(s)}
    BY PickRest DEF Rest
  <1>4. base \in [D -> V] /\ prev \in [D -> D]
    BY DEF Rest
  <1>5. next \in [V \X D -> V] /\ \A v \in V, s \in D : s # {} => next[<<v, s>>] = step[<<v, Pick(s)>>]
    <2> HIDE DEF D
    <2> QED
      BY <1>3
  <1>6. ASSUME NEW s \in D, rank[s] # 0
        PROVE  rank[prev[s]] < rank[s]
    <2>1. s # {} /\ Rest(s) \in D /\ prev[s] = Rest(s) /\ Rest(s) = s \ {Pick(s)} /\ Pick(s) \in s
      BY <1>2, <1>3, <1>6, PickRest
    <2>2. Cardinality(s \ {Pick(s)}) = Cardinality(s) - 1
      BY <1>1, <2>1, FS_RemoveElement
    <2>3. rank[prev[s]] = Cardinality(s) - 1 /\ rank[s] = Cardinality(s)
      BY <2>1, <2>2
    <2> HIDE DEF rank
    <2> QED
      BY <1>1, <2>3
  <1> HIDE DEF D, rank, base, prev, next
  <1>7. PICK h \in [D -> V] : SolvesRanked(h, D, rank, base, prev, next)
    <2>1. rank \in [D -> Nat] /\ next \in [V \X D -> V]
      BY <1>2, <1>5
    <2> QED
      BY <1>4, <1>6, <2>1, RankedRecursion
  <1>8. ASSUME NEW s \in D
        PROVE  h[s] = IF s = {} THEN v0 ELSE step[<<h[Rest(s)], Pick(s)>>]
    <2>1. base[s] = v0 /\ prev[s] = Rest(s) /\ h[prev[s]] \in V
      BY <1>4 DEF base, prev
    <2>2. h[s] = IF rank[s] = 0 THEN base[s] ELSE next[<<h[prev[s]], s>>]
      BY <1>7 DEF SolvesRanked
    <2>3. CASE s = {}
      BY <1>2, <2>1, <2>2, <2>3
    <2>4. CASE s # {}
      <3>1. h[s] = next[<<h[prev[s]], s>>]
        BY <1>2, <2>2, <2>4
      <3>2. next[<<h[prev[s]], s>>] = step[<<h[prev[s]], Pick(s)>>]
        BY <1>5, <2>1, <2>4
      <3> QED
        BY <2>1, <2>4, <3>1, <3>2
    <2> QED
      BY <2>3, <2>4
  <1> QED
    BY <1>8 DEF IsSetFold, D

(* What every step of a fold keeps, the fold keeps.                        *)
LEMMA SetFoldIn ==
    ASSUME NEW V, NEW S, IsFiniteSet(S), NEW f, f[{}] \in V,
           \A s \in SUBSET S : s # {} /\ f[Rest(s)] \in V => f[s] \in V
    PROVE  \A s \in SUBSET S : f[s] \in V
  <1> DEFINE C == {s \in SUBSET S : f[s] \notin V}
  <1> SUFFICES ASSUME C # {} PROVE FALSE
    OBVIOUS
  <1>1. C \in SUBSET SUBSET S
    OBVIOUS
  <1> HIDE DEF C
  <1>2. PICK s \in C : \A u \in C : u \subseteq s => u = s
    BY <1>1, MinimalSet
  <1>3. s \in SUBSET S /\ f[s] \notin V /\ s # {}
    BY DEF C
  <1>4. Rest(s) \in SUBSET S /\ Rest(s) \notin C
    BY <1>2, <1>3, PickRest
  <1> QED
    BY <1>3, <1>4 DEF C

-----------------------------------------------------------------------------
(* Induction on finite sets, for the sets that have been shown so far.     *)
LEMMA FiniteInduction ==
    ASSUME NEW S, IsFiniteSet(S), NEW P, {} \in P,
           \A T \in SUBSET S : \A x \in T : T \ {x} \in P => T \in P
    PROVE  S \in P
  <1> DEFINE C == {T \in SUBSET S : T \notin P}
  <1> SUFFICES ASSUME C # {} PROVE FALSE
    OBVIOUS
  <1>1. C \in SUBSET SUBSET S
    OBVIOUS
  <1> HIDE DEF C
  <1>2. PICK T \in C : \A U \in C : U \subseteq T => U = T
    BY <1>1, MinimalSet
  <1>3. T \in SUBSET S /\ T \notin P /\ T # {}
    BY DEF C
  <1>4. PICK x \in T : TRUE
    BY <1>3
  <1>5. T \ {x} \in SUBSET S /\ T \ {x} \subseteq T /\ T \ {x} # T
    BY <1>3, <1>4
  <1>6. T \ {x} \in P
    BY <1>2, <1>5 DEF C
  <1> QED
    BY <1>3, <1>6

(* The least and the largest member.                                       *)

LEMMA MinOf ==
    ASSUME NEW S \in SUBSET Nat, S # {}
    PROVE  Min(S) \in S /\ \A y \in S : Min(S) <= y
  <1>1. \E m \in S : \A k \in S : m <= k
    BY LeastNatural
  <1> QED
    BY <1>1 DEF Min

LEMMA FiniteBound ==
    ASSUME NEW S, IsFiniteSet(S), \A y \in S : y \in Nat
    PROVE  \E n \in Nat : \A y \in S : y <= n
  <1> DEFINE P == {T \in SUBSET S : \E n \in Nat : \A y \in T : y <= n}
  <1>1. {} \in P
    <2>1. 0 \in Nat /\ \A y \in {} : y <= 0
      OBVIOUS
    <2> QED
      BY <2>1
  <1>2. ASSUME NEW T \in SUBSET S, NEW x \in T, T \ {x} \in P
        PROVE  T \in P
    <2>1. PICK n \in Nat : \A y \in T \ {x} : y <= n
      BY <1>2
    <2> DEFINE m == IF x <= n THEN n ELSE x
    <2>2. m \in Nat /\ x <= m /\ n <= m
      OBVIOUS
    <2> HIDE DEF m
    <2>3. \A y \in T : y <= m
      <3> SUFFICES ASSUME NEW y \in T PROVE y <= m
        OBVIOUS
      <3>1. y \in Nat /\ (y = x \/ y <= n)
        BY <2>1
      <3> QED
        BY <2>2, <3>1
    <2> QED
      BY <2>2, <2>3
  <1>3. S \in P
    <2> HIDE DEF P
    <2> QED
      BY <1>1, <1>2, FiniteInduction
  <1> QED
    BY <1>3

LEMMA MaxOfFinite ==
    ASSUME NEW S \in SUBSET Nat, IsFiniteSet(S), S # {}
    PROVE  Max(S) \in S /\ \A y \in S : y <= Max(S)
  <1>1. PICK n \in Nat : \A y \in S : y <= n
    BY FiniteBound
  <1> DEFINE C == {n - y : y \in S}
  <1>2. \A y \in S : n - y \in Nat
    BY <1>1
  <1>3. C \in SUBSET Nat
    BY <1>2
  <1>4. C # {}
    OBVIOUS
  <1> HIDE DEF C
  <1>5. PICK m \in C : \A k \in C : m <= k
    BY <1>3, <1>4, LeastNatural
  <1>6. PICK x \in S : m = n - x
    BY DEF C
  <1>7. \A y \in S : n - x <= n - y
    BY <1>5, <1>6 DEF C
  <1>8. \A y \in S : x >= y
    BY <1>7
  <1>9. \E z \in S : \A y \in S : z >= y
    BY <1>8
  <1>10. Max(S) \in S /\ \A y \in S : Max(S) >= y
    BY <1>9 DEF Max
  <1> QED
    BY <1>10

-----------------------------------------------------------------------------
(* The concatenation of a sequence of sequences.                           *)
LEMMA FlattenChain ==
    ASSUME NEW S, NEW rows \in Seq(Seq(S))
    PROVE  \E g \in [0..Len(rows) -> Seq(S)] :
              /\ FlattenSeq(rows) = g[Len(rows)]
              /\ g[0] = <<>>
              /\ \A i \in 1..Len(rows) : g[i] = g[i - 1] \o rows[i]
  <1> DEFINE n == Len(rows)
             V == Seq(S)
             Eq(F) == F = [i \in 1..n |-> IF i = 1 THEN rows[i] ELSE F[i - 1] \o rows[i]]
             F == CHOOSE F : Eq(F)
             step == [x \in V \X (1..n) |-> x[1] \o rows[x[2]]]
  <1>1. FlattenSeq(rows) = IF n = 0 THEN rows ELSE F[n]
    BY DEF FlattenSeq
  <1>2. step \in [V \X (1..n) -> V] /\ n \in Nat /\ <<>> \in V
    OBVIOUS
  <1>2a. \A v \in V, i \in 1..n : step[<<v, i>>] = v \o rows[i]
    OBVIOUS
  <1> HIDE DEF step
  <1>3. PICK g \in [0..n -> V] : Solves(g, <<>>, step, n)
    BY <1>2, Chain
  <1>4. g[0] = <<>> /\ \A i \in 1..n : g[i] = g[i - 1] \o rows[i]
    <2>1. \A i \in 1..n : g[i - 1] \in V
      OBVIOUS
    <2> HIDE DEF n, V
    <2> QED
      BY <1>2a, <1>3, <2>1 DEF Solves
  <1>5. CASE n = 0
    <2>1. rows = <<>>
      BY <1>5
    <2> QED
      BY <1>1, <1>4, <1>5, <2>1
  <1>6. CASE n # 0
    <2>0. g[1] = rows[1]
      <3>1. 1 \in 1..n /\ rows[1] \in Seq(S)
        BY <1>2, <1>6
      <3>2. <<>> \o rows[1] = rows[1]
        BY <3>1, ConcatEmptySeq
      <3> QED
        <4>0. \A i \in 1..n : g[i] = g[i - 1] \o rows[i]
          BY <1>4
        <4> HIDE DEF n, V
        <4>1. g[1] = g[1 - 1] \o rows[1]
          BY <4>0, <3>1
        <4>2. g[1 - 1] = <<>>
          <5>1. 1 - 1 = 0
            OBVIOUS
          <5>2. g[0] = <<>>
            BY <1>4
          <5> QED
            BY <5>1, <5>2, Zenon
        <4> QED
          BY <3>2, <4>1, <4>2, Zenon
    <2> DEFINE h == [i \in 1..n |-> g[i]]
    <2>1. \A i \in 1..n : h[i] = IF i = 1 THEN rows[i] ELSE h[i - 1] \o rows[i]
      <3>1. \A i \in 1..n : i # 1 => i - 1 \in 1..n
        OBVIOUS
      <3> QED
        BY <1>4, <2>0, <3>1
    <2>2. Eq(h)
      <3> HIDE DEF h
      <3>1. h = [i \in 1..n |-> h[i]]
        BY DEF h
      <3> QED
        BY <2>1, <3>1
    <2>3. Eq(F)
      BY <2>2
    <2> HIDE DEF F, h
    <2>4. \A i \in 1..n : F[i] = IF i = 1 THEN rows[i] ELSE F[i - 1] \o rows[i]
      BY <2>3
    <2> DEFINE D == {i \in 1..n : F[i] # g[i]}
    <2>5. D = {}
      <3> SUFFICES ASSUME D # {} PROVE FALSE
        OBVIOUS
      <3>1. D \in SUBSET Nat
        OBVIOUS
      <3> HIDE DEF D
      <3>2. PICK m \in D : \A k \in D : m <= k
        BY <3>1, LeastNatural
      <3>3. m \in 1..n /\ F[m] # g[m]
        BY DEF D
      <3>4. m # 1
        BY <2>0, <2>4, <3>3
      <3>5. m - 1 \in 1..n /\ ~(m <= m - 1)
        BY <3>3, <3>4
      <3>6. F[m - 1] = g[m - 1]
        BY <3>2, <3>5 DEF D
      <3> QED
        BY <1>4, <2>4, <3>3, <3>4, <3>6
    <2> QED
      <3>1. n \in 1..n
        BY <1>2, <1>6
      <3>2. F[n] = g[n]
        BY <2>5, <3>1
      <3> QED
        BY <1>1, <1>4, <1>6, <3>2
  <1> QED
    BY <1>5, <1>6

-----------------------------------------------------------------------------
(* Selecting the members of S from a sequence.                             *)
Filtered(txs, S) ==
    FoldLeft(LAMBDA acc, t : IF t \in S THEN Append(acc, t) ELSE acc, <<>>, txs)

FilterSteps(g, txs, S) ==
    /\ g[0] = <<>>
    /\ \A i \in 1..Len(txs) :
          g[i] = IF txs[i] \in S THEN Append(g[i - 1], txs[i]) ELSE g[i - 1]

LEMMA FilterChain ==
    ASSUME NEW S, NEW T, NEW txs \in Seq(T)
    PROVE  \E g \in [0..Len(txs) -> Seq(T)] :
              Filtered(txs, S) = g[Len(txs)] /\ FilterSteps(g, txs, S)
  <1> DEFINE n == Len(txs)
             Eq(F) == F = [s \in SUBSET (1..n) |->
                              IF s = {} THEN <<>>
                              ELSE (IF txs[Max(s)] \in S THEN Append(F[s \ {Max(s)}], txs[Max(s)]) ELSE F[s \ {Max(s)}])]
             iter == CHOOSE F : Eq(F)
             step == [x \in Seq(T) \X (1..n) |-> (IF txs[x[2]] \in S THEN Append(x[1], txs[x[2]]) ELSE x[1])]
  <1>1. Filtered(txs, S) = iter[1..n]
    <2>1. DOMAIN txs = 1..n
      OBVIOUS
    <2> HIDE DEF n
    <2> QED
      BY <2>1 DEF Filtered, FoldLeft, MapThenFoldSet
  <1>2. n \in Nat /\ <<>> \in Seq(T) /\ \A i \in 1..n : txs[i] \in T
    OBVIOUS
  <1>3. /\ step \in [Seq(T) \X (1..n) -> Seq(T)]
        /\ \A v \in Seq(T), i \in 1..n : step[<<v, i>>] = (IF txs[i] \in S THEN Append(v, txs[i]) ELSE v)
    BY <1>2
  <1> HIDE DEF n, step
  <1>4. PICK h \in [SUBSET (1..n) -> Seq(T)] : IsFold(h, <<>>, step, n)
    BY <1>2, <1>3, FoldExists
  <1>5. Eq(h)
    <2>1. ASSUME NEW s \in SUBSET (1..n)
          PROVE  h[s] = IF s = {} THEN <<>>
                        ELSE (IF txs[Max(s)] \in S THEN Append(h[s \ {Max(s)}], txs[Max(s)]) ELSE h[s \ {Max(s)}])
      <3>1. s # {} => s \ {Max(s)} \in SUBSET (1..n) /\ Max(s) \in 1..n
        BY <1>2, MaxOf
      <3>2. h[s] = IF s = {} THEN <<>> ELSE step[<<h[s \ {Max(s)}], Max(s)>>]
        BY <1>4 DEF IsFold
      <3> QED
        BY <1>3, <3>1, <3>2
    <2>2. h = [s \in SUBSET (1..n) |-> h[s]]
      OBVIOUS
    <2> QED
      BY <2>1, <2>2
  <1>6. Eq(iter)
    BY <1>5
  <1> HIDE DEF iter
  <1>7. /\ iter[{}] = <<>>
        /\ \A s \in SUBSET (1..n) : s # {} /\ iter[s \ {Max(s)}] \in Seq(T) =>
              iter[s] = step[<<iter[s \ {Max(s)}], Max(s)>>]
    <2>1. \A s \in SUBSET (1..n) :
             iter[s] = IF s = {} THEN <<>>
                       ELSE (IF txs[Max(s)] \in S THEN Append(iter[s \ {Max(s)}], txs[Max(s)]) ELSE iter[s \ {Max(s)}])
      BY <1>6
    <2>2. \A s \in SUBSET (1..n) : s # {} => Max(s) \in 1..n
      BY <1>2, MaxOf
    <2> QED
      BY <1>3, <2>1, <2>2
  <1>8. PICK g \in [0..n -> Seq(T)] : iter[1..n] = g[n] /\ Solves(g, <<>>, step, n)
    <2>1. PICK V, v0 : V = Seq(T) /\ v0 = <<>>
      OBVIOUS
    <2>2. n \in Nat /\ v0 \in V /\ step \in [V \X (1..n) -> V]
      BY <1>2, <1>3, <2>1
    <2>3. /\ iter[{}] = v0
          /\ \A s \in SUBSET (1..n) : s # {} /\ iter[s \ {Max(s)}] \in V =>
                iter[s] = step[<<iter[s \ {Max(s)}], Max(s)>>]
      BY <1>7, <2>1
    <2>4. \E g \in [0..n -> V] : iter[1..n] = g[n] /\ Solves(g, v0, step, n)
      BY <2>2, <2>3, FoldChain
    <2> QED
      BY <2>1, <2>4
  <1>9. \A i \in 1..n : g[i] = (IF txs[i] \in S THEN Append(g[i - 1], txs[i]) ELSE g[i - 1])
    <2>1. \A i \in 1..n : i - 1 \in 0..n
      BY <1>2
    <2> QED
      BY <1>3, <1>8, <2>1 DEF Solves
  <1> QED
    BY <1>1, <1>8, <1>9 DEF Solves, FilterSteps, n

(* Filtering a concatenation.                                              *)
LEMMA FilteredConcat ==
    ASSUME NEW S, NEW T, NEW s \in Seq(T), NEW t \in Seq(T)
    PROVE  /\ Filtered(s, S) \in Seq(T)
           /\ Filtered(s \o t, S) = Filtered(s, S) \o Filtered(t, S)
  <1> DEFINE m == Len(s)
             n == Len(t)
             u == s \o t
  <1>0. \A v, w \in Seq(T), e \in T : Append(v \o w, e) = v \o Append(w, e)
    <2> SUFFICES ASSUME NEW v \in Seq(T), NEW w \in Seq(T), NEW e \in T
                 PROVE  Append(v \o w, e) = v \o Append(w, e)
      OBVIOUS
    <2>1. v \o w \in Seq(T) /\ <<e>> \in Seq(T)
      BY ConcatProperties
    <2>2. Append(v \o w, e) = (v \o w) \o <<e>> /\ Append(w, e) = w \o <<e>>
      BY <2>1, AppendIsConcat
    <2> QED
      BY <2>1, <2>2, ConcatAssociative
  <1>1. m \in Nat /\ n \in Nat /\ u \in Seq(T) /\ Len(u) = m + n
    OBVIOUS
  <1>2. PICK f \in [0..m -> Seq(T)] : Filtered(s, S) = f[m] /\ FilterSteps(f, s, S)
    BY FilterChain
  <1>3. PICK g \in [0..n -> Seq(T)] : Filtered(t, S) = g[n] /\ FilterSteps(g, t, S)
    BY FilterChain
  <1>4. PICK h \in [0..(m + n) -> Seq(T)] : Filtered(u, S) = h[m + n] /\ FilterSteps(h, u, S)
    <2> HIDE DEF u
    <2> QED
      BY <1>1, FilterChain
  <1>5. /\ \A i \in 1..m : u[i] = s[i] /\ i \in 1..(m + n)
        /\ \A i \in 1..n : u[m + i] = t[i] /\ t[i] \in T /\ m + i \in 1..(m + n)
                           /\ (m + i) - 1 = m + (i - 1) /\ i - 1 \in 0..n
    OBVIOUS
  <1>6. Len(u) = m + n /\ Len(s) = m /\ Len(t) = n
    BY <1>1
  <1> HIDE DEF m, n, u
  <1>7. \A i \in 0..m : h[i] = f[i]
    <2> DEFINE D == {i \in Nat : h[i] = f[i]}
    <2>1. 0 \in D
      BY <1>2, <1>4 DEF FilterSteps
    <2>2. ASSUME NEW i \in 1..m, i - 1 \in D
          PROVE  i \in D
      <3>1. /\ h[i] = IF u[i] \in S THEN Append(h[i - 1], u[i]) ELSE h[i - 1]
            /\ f[i] = IF s[i] \in S THEN Append(f[i - 1], s[i]) ELSE f[i - 1]
        <4>1. i \in 1..Len(u) /\ i \in 1..Len(s)
          BY <1>5, <1>6
        <4> QED
          BY <1>2, <1>4, <4>1 DEF FilterSteps
      <3>2. u[i] = s[i] /\ h[i - 1] = f[i - 1] /\ i \in Nat
        <4>1. h[i - 1] = f[i - 1]
          BY <2>2
        <4>2. u[i] = s[i] /\ i \in Nat
          BY <1>1, <1>5
        <4> QED
          BY <4>1, <4>2
      <3>3. h[i] = f[i]
        <4>1. CASE s[i] \in S
          BY <3>1, <3>2, <4>1
        <4>2. CASE s[i] \notin S
          BY <3>1, <3>2, <4>2
        <4> QED
          BY <4>1, <4>2
      <3> QED
        BY <3>2, <3>3
    <2> HIDE DEF D
    <2>3. \A i \in 0..m : i \in D
      BY <1>1, <2>1, <2>2, UpTo
    <2> QED
      BY <2>3 DEF D
  <1>8. \A i \in 0..n : h[m + i] = f[m] \o g[i]
    <2> DEFINE D == {i \in Nat : h[m + i] = f[m] \o g[i]}
    <2>0. f[m] \in Seq(T)
      BY <1>1
    <2>1. 0 \in D
      <3>1. h[m + 0] = f[m] /\ g[0] = <<>>
        BY <1>1, <1>3, <1>7 DEF FilterSteps
      <3> QED
        BY <2>0, <3>1, ConcatEmptySeq
    <2>2. ASSUME NEW i \in 1..n, i - 1 \in D
          PROVE  i \in D
      <3>1. /\ h[m + i] = IF t[i] \in S THEN Append(h[m + (i - 1)], t[i]) ELSE h[m + (i - 1)]
            /\ g[i] = IF t[i] \in S THEN Append(g[i - 1], t[i]) ELSE g[i - 1]
        <4>1. m + i \in 1..Len(u) /\ i \in 1..Len(t) /\ (m + i) - 1 = m + (i - 1) /\ u[m + i] = t[i]
          BY <1>5, <1>6
        <4>2. h[m + i] = IF u[m + i] \in S THEN Append(h[(m + i) - 1], u[m + i])
                         ELSE h[(m + i) - 1]
          BY <1>4, <4>1 DEF FilterSteps
        <4>3. g[i] = IF t[i] \in S THEN Append(g[i - 1], t[i]) ELSE g[i - 1]
          BY <1>3, <4>1 DEF FilterSteps
        <4> QED
          BY <4>1, <4>2, <4>3, Zenon
      <3>2. h[m + (i - 1)] = f[m] \o g[i - 1] /\ g[i - 1] \in Seq(T) /\ t[i] \in T
        BY <1>5, <2>2
      <3>3. Append(f[m] \o g[i - 1], t[i]) = f[m] \o Append(g[i - 1], t[i])
        <4>1. PICK v \in Seq(T), w \in Seq(T), e \in T : v = f[m] /\ w = g[i - 1] /\ e = t[i]
          BY <2>0, <3>2
        <4>2. Append(v \o w, e) = v \o Append(w, e)
          BY <1>0
        <4> QED
          BY <4>1, <4>2
      <3>4. h[m + i] = f[m] \o g[i]
        BY <3>1, <3>2, <3>3, Zenon
      <3>5. i \in Nat
        BY <1>1
      <3> QED
        BY <3>4, <3>5, Zenon
    <2> HIDE DEF D
    <2>3. \A i \in 0..n : i \in D
      BY <1>1, <2>1, <2>2, UpTo
    <2> QED
      BY <2>3 DEF D
  <1>9. h[m + n] = f[m] \o g[n] /\ f[m] \in Seq(T)
    <2>1. n \in 0..n /\ m \in 0..m
      BY <1>1
    <2> QED
      BY <1>8, <2>1
  <1> QED
    BY <1>2, <1>3, <1>4, <1>9 DEF u

(* A sequence that is wholly in or wholly out of S.                        *)
LEMMA FilteredAll ==
    ASSUME NEW S, NEW T, NEW s \in Seq(T), \A i \in 1..Len(s) : s[i] \in S
    PROVE  Filtered(s, S) = s
  <1>1. PICK n \in Nat : n = Len(s)
    OBVIOUS
  <1>2. PICK g \in [0..n -> Seq(T)] : Filtered(s, S) = g[n] /\ FilterSteps(g, s, S)
    BY <1>1, FilterChain
  <1>3. \A i \in 1..n : s[i] \in T /\ g[i] = Append(g[i - 1], s[i]) /\ i - 1 \in 0..n
    <2>1. \A i \in 1..n : s[i] \in S /\ s[i] \in T /\ i - 1 \in 0..n
      BY <1>1
    <2>2. \A i \in 1..n : g[i] = IF s[i] \in S THEN Append(g[i - 1], s[i]) ELSE g[i - 1]
      BY <1>1, <1>2 DEF FilterSteps
    <2> QED
      BY <2>1, <2>2, Zenon
  <1> DEFINE D == {i \in Nat : i <= n => Len(g[i]) = i /\ \A j \in 1..i : g[i][j] = s[j]}
  <1>4. 0 \in D
    BY <1>2 DEF FilterSteps
  <1>5. ASSUME NEW i \in 1..n, i - 1 \in D
        PROVE  i \in D
    <2>1. PICK v \in Seq(T) : v = g[i - 1]
      BY <1>3
    <2>2. Len(v) = i - 1 /\ \A j \in 1..(i - 1) : v[j] = s[j]
      <3>1. i - 1 \in Nat /\ i - 1 <= n
        OBVIOUS
      <3> QED
        BY <1>5, <2>1, <3>1
    <2>3. /\ Len(Append(v, s[i])) = i /\ Append(v, s[i])[i] = s[i]
          /\ \A j \in 1..(i - 1) : Append(v, s[i])[j] = v[j]
      BY <1>3, <2>2
    <2>4. \A j \in 1..i : j = i \/ j \in 1..(i - 1)
      OBVIOUS
    <2>5. \A j \in 1..i : Append(v, s[i])[j] = s[j]
      BY <2>2, <2>3, <2>4
    <2>6. g[i] = Append(v, s[i]) /\ i \in Nat
      BY <1>3, <2>1
    <2> QED
      BY <2>3, <2>5, <2>6
  <1> HIDE DEF D
  <1>6. \A i \in 0..n : i \in D
    BY <1>4, <1>5, UpTo
  <1>7. g[n] \in Seq(T) /\ Len(g[n]) = n /\ \A j \in 1..n : g[n][j] = s[j]
    BY <1>6 DEF D
  <1> QED
    BY <1>1, <1>2, <1>7, SeqEqual

LEMMA FilteredNone ==
    ASSUME NEW S, NEW T, NEW s \in Seq(T), \A i \in 1..Len(s) : s[i] \notin S
    PROVE  Filtered(s, S) = <<>>
  <1>1. PICK n \in Nat : n = Len(s)
    OBVIOUS
  <1>2. PICK g \in [0..n -> Seq(T)] : Filtered(s, S) = g[n] /\ FilterSteps(g, s, S)
    BY <1>1, FilterChain
  <1> DEFINE D == {i \in Nat : g[i] = <<>>}
  <1>3. 0 \in D
    BY <1>2 DEF FilterSteps
  <1>4. ASSUME NEW i \in 1..n, i - 1 \in D
        PROVE  i \in D
    BY <1>1, <1>2, <1>4 DEF FilterSteps
  <1> HIDE DEF D
  <1>5. \A i \in 0..n : i \in D
    BY <1>3, <1>4, UpTo
  <1> QED
    BY <1>2, <1>5 DEF D
=============================================================================
