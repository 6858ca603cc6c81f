------------------------- MODULE BatchExecutorProofs -------------------------
(***************************************************************************)
(* Proofs about the batch executor: whatever the number of transactions    *)
(* and accounts, the merge of the copies gives independent transactions    *)
(* the nonces and balances of one-after-the-other execution, spends the    *)
(* nonce of a successful sender and leaves no trace of a failed            *)
(* transaction.                                                            *)
(***************************************************************************)
EXTENDS BatchExecutor, RecursionFacts

-----------------------------------------------------------------------------
(* One message.                                                            *)

LEMMA BuyGasTyped ==
    ASSUME NEW st \in State, NEW t \in Txs, PreCheck(st, t)
    PROVE  /\ BuyGas(st, t) =
                 [nonce |-> st.nonce,
                  balance |-> [a \in Accounts |->
                      IF a = From[t] THEN st.balance[a] - Fee[t] ELSE st.balance[a]],
                  storage |-> st.storage]
           /\ BuyGas(st, t) \in State
  <1>1. /\ From[t] \in Accounts /\ Value[t] \in Nat /\ Fee[t] \in Nat
        /\ st.balance[From[t]] \in Nat
        /\ st.balance[From[t]] >= Value[t] + Fee[t]
    BY BatchExecutorAssumption DEF PreCheck, State
  <1>2. /\ st = [nonce |-> st.nonce, balance |-> st.balance, storage |-> st.storage]
        /\ st.balance \in [Accounts -> Nat]
    BY DEF State
  <1>3. BuyGas(st, t) =
           [nonce |-> st.nonce,
            balance |-> [a \in Accounts |->
                IF a = From[t] THEN st.balance[a] - Fee[t] ELSE st.balance[a]],
            storage |-> st.storage]
    BY <1>1, <1>2 DEF BuyGas
  <1> DEFINE b == [a \in Accounts |->
                      IF a = From[t] THEN st.balance[a] - Fee[t] ELSE st.balance[a]]
  <1>4. b \in [Accounts -> Nat]
    BY <1>1, <1>2
  <1> QED
    BY <1>3, <1>4 DEF State

(* The nonces and balances after a message that returned no error.         *)
LEMMA SuccessValues ==
    ASSUME NEW st \in State, NEW t \in Txs, Succeeds(st, t)
    PROVE  LET moved == IF t \notin Reverts THEN Value[t] ELSE 0
               new == ApplyMessage(st, t)
           IN  /\ new \in State
               /\ \A a \in Accounts :
                     /\ new.nonce[a] =
                           IF a = From[t] THEN st.nonce[a] + 1
                           ELSE IF a = Target[t] /\ t \in Creates /\ t \notin Reverts THEN 1
                           ELSE st.nonce[a]
                     /\ a # Coinbase =>
                           new.balance[a] =
                               (st.balance[a] + (IF a = Forward[t] THEN moved ELSE 0))
                               - (IF a = From[t] THEN Fee[t] + moved ELSE 0)
  <1> DEFINE moved == IF t \notin Reverts THEN Value[t] ELSE 0
             mid == BuyGas(st, t)
             new == Execute(mid, t)
  <1>1. PreCheck(st, t) /\ ApplyMessage(st, t) = new
    BY DEF Succeeds, ApplyMessage
  <1>2. /\ From[t] \in Accounts /\ Target[t] \in Accounts /\ Coinbase \in Accounts
        /\ Value[t] \in Nat /\ Fee[t] \in Nat /\ moved \in Nat /\ moved <= Value[t]
    BY BatchExecutorAssumption
  <1>3. st.balance[From[t]] >= Value[t] + Fee[t]
    BY <1>1 DEF PreCheck
  <1>4. /\ st.nonce \in [Accounts -> Nat] /\ st.balance \in [Accounts -> Nat]
        /\ st.storage \in [Accounts -> Nat]
    BY DEF State
  <1>5. /\ mid.nonce = st.nonce /\ mid.storage = st.storage
        /\ \A a \in Accounts :
              mid.balance[a] = IF a = From[t] THEN st.balance[a] - Fee[t] ELSE st.balance[a]
    BY <1>1, BuyGasTyped
  <1>6. /\ new.nonce = [a \in Accounts |->
                        CASE a = From[t] -> mid.nonce[a] + 1
                          [] a = Target[t] /\ a # From[t] /\ t \in Creates /\ t \notin Reverts -> 1
                          [] OTHER -> mid.nonce[a]]
        /\ new.balance = [a \in Accounts |->
                        (mid.balance[a] + (IF a = Forward[t] THEN moved ELSE 0)
                                       + (IF a = Coinbase THEN Fee[t] ELSE 0))
                        - (IF a = From[t] THEN moved ELSE 0)]
        /\ new.storage = [a \in Accounts |->
                        IF a \in {Target[t], Forward[t]} /\ t \notin Reverts THEN mid.storage[a] + 1
                        ELSE mid.storage[a]]
        /\ new = [nonce |-> new.nonce, balance |-> new.balance, storage |-> new.storage]
    <2> HIDE DEF mid
    <2> QED
      BY DEF Execute
  <1> HIDE DEF mid, moved, new
  <1>7. ASSUME NEW a \in Accounts
        PROVE  /\ new.nonce[a] =
                     IF a = From[t] THEN st.nonce[a] + 1
                     ELSE IF a = Target[t] /\ t \in Creates /\ t \notin Reverts THEN 1
                     ELSE st.nonce[a]
               /\ new.nonce[a] \in Nat
    BY <1>4, <1>5, <1>6
  <1>8. ASSUME NEW a \in Accounts
        PROVE  /\ new.balance[a] \in Nat
               /\ a # Coinbase =>
                     new.balance[a] = (st.balance[a] + (IF a = Forward[t] THEN moved ELSE 0))
                                      - (IF a = From[t] THEN Fee[t] + moved ELSE 0)
    <2>1. st.balance[a] \in Nat
      BY <1>4
    <2>2. new.balance[a] = (mid.balance[a] + (IF a = Forward[t] THEN moved ELSE 0)
                                       + (IF a = Coinbase THEN Fee[t] ELSE 0))
                        - (IF a = From[t] THEN moved ELSE 0)
      BY <1>6
    <2>3. mid.balance[a] = IF a = From[t] THEN st.balance[a] - Fee[t] ELSE st.balance[a]
      BY <1>5
    <2> QED
      BY <1>2, <1>3, <2>1, <2>2, <2>3
  <1>9. ASSUME NEW a \in Accounts
        PROVE  new.storage[a] \in Nat
    BY <1>4, <1>5, <1>6
  <1>10. new \in State
    <2>1. /\ new.nonce = [a \in Accounts |-> new.nonce[a]]
          /\ new.balance = [a \in Accounts |-> new.balance[a]]
          /\ new.storage = [a \in Accounts |-> new.storage[a]]
      BY <1>6
    <2>2. /\ new.nonce \in [Accounts -> Nat] /\ new.balance \in [Accounts -> Nat]
          /\ new.storage \in [Accounts -> Nat]
      BY <1>7, <1>8, <1>9, <2>1
    <2> QED
      BY <1>6, <2>2 DEF State
  <1> QED
    BY <1>1, <1>7, <1>8, <1>10 DEF moved

(* A message takes states to states.                                       *)
LEMMA ApplyTyped ==
    ASSUME NEW st \in State, NEW t \in Txs
    PROVE  ApplyMessage(st, t) \in State
  <1>1. CASE Succeeds(st, t)
    BY <1>1, SuccessValues
  <1>2. CASE ~Succeeds(st, t) /\ PreCheck(st, t) /\ t \in LowGas
    BY <1>2, BuyGasTyped DEF ApplyMessage
  <1>3. CASE ~Succeeds(st, t) /\ ~(PreCheck(st, t) /\ t \in LowGas)
    BY <1>3 DEF ApplyMessage
  <1> QED
    BY <1>1, <1>2, <1>3

LEMMA CommitTyped ==
    ASSUME NEW st \in State, NEW t \in Txs
    PROVE  Commit(st, t) \in State
  BY ApplyTyped DEF Commit

-----------------------------------------------------------------------------
(* The folds of the model, as chains: g[i] is the value after i elements.  *)

(* One after the other.                                                    *)
LEMMA CommitChain ==
    ASSUME NEW st \in State, NEW txs \in Seq(Txs)
    PROVE  \E g \in [0..Len(txs) -> State] :
              /\ FoldLeft(Commit, st, txs) = g[Len(txs)]
              /\ g[0] = st
              /\ \A i \in 1..Len(txs) : g[i] = Commit(g[i - 1], txs[i])
  <1> DEFINE n == Len(txs)
             Eq(F) == F = [s \in SUBSET (1..n) |->
                              IF s = {} THEN st
                              ELSE Commit(F[s \ {Max(s)}], txs[Max(s)])]
             iter == CHOOSE F : Eq(F)
             step == [x \in State \X (1..n) |-> Commit(x[1], txs[x[2]])]
  <1>1. FoldLeft(Commit, st, txs) = iter[1..n]
    <2>1. DOMAIN txs = 1..n
      OBVIOUS
    <2> HIDE DEF n
    <2> QED
      BY <2>1 DEF FoldLeft, MapThenFoldSet
  <1>2. n \in Nat /\ st \in State /\ \A i \in 1..n : txs[i] \in Txs
    OBVIOUS
  <1>3. /\ step \in [State \X (1..n) -> State]
        /\ \A v \in State, i \in 1..n : step[<<v, i>>] = Commit(v, txs[i])
    BY <1>2, CommitTyped
  <1> HIDE DEF n, step
  <1>4. PICK h \in [SUBSET (1..n) -> State] : IsFold(h, st, step, n)
    BY <1>2, <1>3, FoldExists
  <1>5. Eq(h)
    <2>1. ASSUME NEW s \in SUBSET (1..n)
          PROVE  h[s] = IF s = {} THEN st
                        ELSE Commit(h[s \ {Max(s)}], txs[Max(s)])
      <3>1. s # {} => s \ {Max(s)} \in SUBSET (1..n) /\ Max(s) \in 1..n
        BY <1>2, MaxOf
      <3>2. h[s] = IF s = {} THEN st ELSE step[<<h[s \ {Max(s)}], Max(s)>>]
        BY <1>4 DEF IsFold
      <3> QED
        BY <1>3, <3>1, <3>2
    <2>2. h = [s \in SUBSET (1..n) |-> h[s]]
      OBVIOUS
    <2> QED
      BY <2>1, <2>2
  <1>6. Eq(iter)
    BY <1>5
  <1> HIDE DEF iter
  <1>7. /\ iter[{}] = st
        /\ \A s \in SUBSET (1..n) : s # {} /\ iter[s \ {Max(s)}] \in State =>
              iter[s] = step[<<iter[s \ {Max(s)}], Max(s)>>]
    <2>1. \A s \in SUBSET (1..n) :
             iter[s] = IF s = {} THEN st
                       ELSE Commit(iter[s \ {Max(s)}], txs[Max(s)])
      BY <1>6
    <2>2. \A s \in SUBSET (1..n) : s # {} => Max(s) \in 1..n
      BY <1>2, MaxOf
    <2> QED
      BY <1>3, <2>1, <2>2
  <1>8. PICK g \in [0..n -> State] : iter[1..n] = g[n] /\ Solves(g, st, step, n)
    <2>1. n \in Nat /\ st \in State /\ step \in [State \X (1..n) -> State]
      BY <1>2, <1>3
    <2> QED
      BY <1>7, <2>1, FoldChain
  <1>9. \A i \in 1..n : g[i] = Commit(g[i - 1], txs[i])
    <2>1. \A i \in 1..n : i - 1 \in 0..n
      BY <1>2
    <2>2. \A i \in 1..n : g[i] = Commit(g[i - 1], txs[i])
      BY <1>3, <1>8, <2>1 DEF Solves
    <2> QED
      BY <1>2, <2>2
  <1> QED
    BY <1>1, <1>8, <1>9 DEF Solves, n

(* One after the other, what failed ones leave included.                   *)
LEMMA ApplyChain ==
    ASSUME NEW st \in State, NEW txs \in Seq(Txs)
    PROVE  \E g \in [0..Len(txs) -> State] :
              /\ ApplyAll(st, txs) = g[Len(txs)]
              /\ g[0] = st
              /\ \A i \in 1..Len(txs) : g[i] = ApplyMessage(g[i - 1], txs[i])
  <1> DEFINE n == Len(txs)
             Eq(F) == F = [s \in SUBSET (1..n) |->
                              IF s = {} THEN st
                              ELSE ApplyMessage(F[s \ {Max(s)}], txs[Max(s)])]
             iter == CHOOSE F : Eq(F)
             step == [x \in State \X (1..n) |-> ApplyMessage(x[1], txs[x[2]])]
  <1>1. ApplyAll(st, txs) = iter[1..n]
    <2>1. DOMAIN txs = 1..n
      OBVIOUS
    <2> HIDE DEF n
    <2> QED
      BY <2>1 DEF ApplyAll, FoldLeft, MapThenFoldSet
  <1>2. n \in Nat /\ st \in State /\ \A i \in 1..n : txs[i] \in Txs
    OBVIOUS
  <1>3. /\ step \in [State \X (1..n) -> State]
        /\ \A v \in State, i \in 1..n : step[<<v, i>>] = ApplyMessage(v, txs[i])
    BY <1>2, ApplyTyped
  <1> HIDE DEF n, step
  <1>4. PICK h \in [SUBSET (1..n) -> State] : IsFold(h, st, step, n)
    BY <1>2, <1>3, FoldExists
  <1>5. Eq(h)
    <2>1. ASSUME NEW s \in SUBSET (1..n)
          PROVE  h[s] = IF s = {} THEN st
                        ELSE ApplyMessage(h[s \ {Max(s)}], txs[Max(s)])
      <3>1. s # {} => s \ {Max(s)} \in SUBSET (1..n) /\ Max(s) \in 1..n
        BY <1>2, MaxOf
      <3>2. h[s] = IF s = {} THEN st ELSE step[<<h[s \ {Max(s)}], Max(s)>>]
        BY <1>4 DEF IsFold
      <3> QED
        BY <1>3, <3>1, <3>2
    <2>2. h = [s \in SUBSET (1..n) |-> h[s]]
      OBVIOUS
    <2> QED
      BY <2>1, <2>2
  <1>6. Eq(iter)
    BY <1>5
  <1> HIDE DEF iter
  <1>7. /\ iter[{}] = st
        /\ \A s \in SUBSET (1..n) : s # {} /\ iter[s \ {Max(s)}] \in State =>
              iter[s] = step[<<iter[s \ {Max(s)}], Max(s)>>]
    <2>1. \A s \in SUBSET (1..n) :
             iter[s] = IF s = {} THEN st
                       ELSE ApplyMessage(iter[s \ {Max(s)}], txs[Max(s)])
      BY <1>6
    <2>2. \A s \in SUBSET (1..n) : s # {} => Max(s) \in 1..n
      BY <1>2, MaxOf
    <2> QED
      BY <1>3, <2>1, <2>2
  <1>8. PICK g \in [0..n -> State] : iter[1..n] = g[n] /\ Solves(g, st, step, n)
    <2>1. n \in Nat /\ st \in State /\ step \in [State \X (1..n) -> State]
      BY <1>2, <1>3
    <2> QED
      BY <1>7, <2>1, FoldChain
  <1>9. \A i \in 1..n : g[i] = ApplyMessage(g[i - 1], txs[i])
    <2>1. \A i \in 1..n : i - 1 \in 0..n
      BY <1>2
    <2>2. \A i \in 1..n : g[i] = ApplyMessage(g[i - 1], txs[i])
      BY <1>3, <1>8, <2>1 DEF Solves
    <2> QED
      BY <1>2, <2>2
  <1> QED
    BY <1>1, <1>8, <1>9 DEF Solves, n

(* A half of an announcement.                                              *)
LEMMA SelectChain ==
    ASSUME NEW S, NEW txs \in Seq(Txs)
    PROVE  \E g \in [0..Len(txs) -> Seq(Txs)] :
              /\ Select(txs, S) = g[Len(txs)]
              /\ g[0] = <<>>
              /\ \A i \in 1..Len(txs) : g[i] = (IF txs[i] \in S THEN Append(g[i - 1], txs[i]) ELSE g[i - 1])
  <1> DEFINE n == Len(txs)
             Eq(F) == F = [s \in SUBSET (1..n) |->
                              IF s = {} THEN <<>>
                              ELSE (IF txs[Max(s)] \in S THEN Append(F[s \ {Max(s)}], txs[Max(s)]) ELSE F[s \ {Max(s)}])]
             iter == CHOOSE F : Eq(F)
             step == [x \in Seq(Txs) \X (1..n) |-> (IF txs[x[2]] \in S THEN Append(x[1], txs[x[2]]) ELSE x[1])]
  <1>1. Select(txs, S) = iter[1..n]
    <2>1. DOMAIN txs = 1..n
      OBVIOUS
    <2> HIDE DEF n
    <2> QED
      BY <2>1 DEF Select, FoldLeft, MapThenFoldSet
  <1>2. n \in Nat /\ <<>> \in Seq(Txs) /\ \A i \in 1..n : txs[i] \in Txs
    OBVIOUS
  <1>3. /\ step \in [Seq(Txs) \X (1..n) -> Seq(Txs)]
        /\ \A v \in Seq(Txs), i \in 1..n : step[<<v, i>>] = (IF txs[i] \in S THEN Append(v, txs[i]) ELSE v)
    BY <1>2
  <1> HIDE DEF n, step
  <1>4. PICK h \in [SUBSET (1..n) -> Seq(Txs)] : IsFold(h, <<>>, step, n)
    BY <1>2, <1>3, FoldExists
  <1>5. Eq(h)
    <2>1. ASSUME NEW s \in SUBSET (1..n)
          PROVE  h[s] = IF s = {} THEN <<>>
                        ELSE (IF txs[Max(s)] \in S THEN Append(h[s \ {Max(s)}], txs[Max(s)]) ELSE h[s \ {Max(s)}])
      <3>1. s # {} => s \ {Max(s)} \in SUBSET (1..n) /\ Max(s) \in 1..n
        BY <1>2, MaxOf
      <3>2. h[s] = IF s = {} THEN <<>> ELSE step[<<h[s \ {Max(s)}], Max(s)>>]
        BY <1>4 DEF IsFold
      <3> QED
        BY <1>3, <3>1, <3>2
    <2>2. h = [s \in SUBSET (1..n) |-> h[s]]
      OBVIOUS
    <2> QED
      BY <2>1, <2>2
  <1>6. Eq(iter)
    BY <1>5
  <1> HIDE DEF iter
  <1>7. /\ iter[{}] = <<>>
        /\ \A s \in SUBSET (1..n) : s # {} /\ iter[s \ {Max(s)}] \in Seq(Txs) =>
              iter[s] = step[<<iter[s \ {Max(s)}], Max(s)>>]
    <2>1. \A s \in SUBSET (1..n) :
             iter[s] = IF s = {} THEN <<>>
                       ELSE (IF txs[Max(s)] \in S THEN Append(iter[s \ {Max(s)}], txs[Max(s)]) ELSE iter[s \ {Max(s)}])
      BY <1>6
    <2>2. \A s \in SUBSET (1..n) : s # {} => Max(s) \in 1..n
      BY <1>2, MaxOf
    <2> QED
      BY <1>3, <2>1, <2>2
  <1>8. PICK g \in [0..n -> Seq(Txs)] : iter[1..n] = g[n] /\ Solves(g, <<>>, step, n)
    <2>1. PICK V, v0 : V = Seq(Txs) /\ v0 = <<>>
      OBVIOUS
    <2>2. n \in Nat /\ v0 \in V /\ step \in [V \X (1..n) -> V]
      BY <1>2, <1>3, <2>1
    <2>3. /\ iter[{}] = v0
          /\ \A s \in SUBSET (1..n) : s # {} /\ iter[s \ {Max(s)}] \in V =>
                iter[s] = step[<<iter[s \ {Max(s)}], Max(s)>>]
      BY <1>7, <2>1
    <2>4. \E g \in [0..n -> V] : iter[1..n] = g[n] /\ Solves(g, v0, step, n)
      BY <2>2, <2>3, FoldChain
    <2> QED
      BY <2>1, <2>4
  <1>9. \A i \in 1..n : g[i] = (IF txs[i] \in S THEN Append(g[i - 1], txs[i]) ELSE g[i - 1])
    <2>1. \A i \in 1..n : i - 1 \in 0..n
      BY <1>2
    <2>2. \A i \in 1..n : g[i] = (IF txs[i] \in S THEN Append(g[i - 1], txs[i]) ELSE g[i - 1])
      BY <1>3, <1>8, <2>1 DEF Solves
    <2> QED
      BY <1>2, <2>2
  <1> QED
    BY <1>1, <1>8, <1>9 DEF Solves, n

(* Merging a copy takes states to states.                                  *)
LEMMA MergeTyped ==
    ASSUME TypeOK, NEW st \in State, NEW i \in 1..Len(parallelTxs)
    PROVE  /\ MergeTx(st, i) \in State
           /\ \A a \in Accounts :
                 /\ MergeTx(st, i).nonce[a] =
                       IF results[i] /\ a \in Merged(i)
                       THEN stateCopies[i].nonce[a] ELSE st.nonce[a]
                 /\ MergeTx(st, i).balance[a] =
                       IF results[i] /\ a \in Merged(i)
                       THEN stateCopies[i].balance[a] ELSE st.balance[a]
  <1>1. stateCopies[i] \in State
    BY DEF TypeOK
  <1>2. CASE ~results[i]
    BY <1>2 DEF MergeTx
  <1>3. CASE results[i]
    <2> DEFINE nonces == [a \in Accounts |->
                  IF a \in Merged(i) THEN stateCopies[i].nonce[a] ELSE st.nonce[a]]
               balances == [a \in Accounts |->
                  IF a \in Merged(i) THEN stateCopies[i].balance[a] ELSE st.balance[a]]
    <2>1. st = [nonce |-> st.nonce, balance |-> st.balance, storage |-> st.storage]
      BY DEF State
    <2>2. MergeTx(st, i) = [nonce |-> nonces, balance |-> balances, storage |-> st.storage]
      BY <1>3, <2>1 DEF MergeTx
    <2>3. nonces \in [Accounts -> Nat] /\ balances \in [Accounts -> Nat]
      BY <1>1 DEF State
    <2>4. MergeTx(st, i) \in State
      BY <2>2, <2>3 DEF State
    <2>5. MergeTx(st, i).nonce = nonces /\ MergeTx(st, i).balance = balances
      BY <2>2
    <2> QED
      BY <1>3, <2>4, <2>5
  <1> QED
    BY <1>2, <1>3

(* The merge of the copies.                                                *)
LEMMA MergeChain ==
    ASSUME TypeOK
    PROVE  \E g \in [0..Len(parallelTxs) -> State] :
              /\ FoldLeftDomain(MergeTx, statedb, parallelTxs) = g[Len(parallelTxs)]
              /\ g[0] = statedb
              /\ \A i \in 1..Len(parallelTxs) : g[i] = MergeTx(g[i - 1], i)
  <1> DEFINE n == Len(parallelTxs)
             index == [i \in DOMAIN parallelTxs |-> i]
             Eq(F) == F = [s \in SUBSET (1..n) |->
                              IF s = {} THEN statedb
                              ELSE MergeTx(F[s \ {Max(s)}], index[Max(s)])]
             iter == CHOOSE F : Eq(F)
             step == [x \in State \X (1..n) |-> MergeTx(x[1], index[x[2]])]
  <1>1. FoldLeftDomain(MergeTx, statedb, parallelTxs) = iter[1..n]
    <2>1. DOMAIN index = 1..n
      BY DEF TypeOK
    <2> HIDE DEF n, index
    <2> QED
      BY <2>1 DEF FoldLeftDomain, FoldLeft, MapThenFoldSet, index
  <1>2. n \in Nat /\ statedb \in State /\ \A i \in 1..n : index[i] = i
    BY DEF TypeOK
  <1>3. /\ step \in [State \X (1..n) -> State]
        /\ \A v \in State, i \in 1..n : step[<<v, i>>] = MergeTx(v, index[i])
    <2>1. \A i \in 1..n : index[i] \in 1..Len(parallelTxs)
      BY <1>2
    <2> HIDE DEF index
    <2> QED
      BY <2>1, MergeTyped
  <1> HIDE DEF n, step, index
  <1>4. PICK h \in [SUBSET (1..n) -> State] : IsFold(h, statedb, step, n)
    BY <1>2, <1>3, FoldExists
  <1>5. Eq(h)
    <2>1. ASSUME NEW s \in SUBSET (1..n)
          PROVE  h[s] = IF s = {} THEN statedb
                        ELSE MergeTx(h[s \ {Max(s)}], index[Max(s)])
      <3>1. s # {} => s \ {Max(s)} \in SUBSET (1..n) /\ Max(s) \in 1..n
        BY <1>2, MaxOf
      <3>2. h[s] = IF s = {} THEN statedb ELSE step[<<h[s \ {Max(s)}], Max(s)>>]
        BY <1>4 DEF IsFold
      <3> QED
        BY <1>3, <3>1, <3>2
    <2>2. h = [s \in SUBSET (1..n) |-> h[s]]
      OBVIOUS
    <2> QED
      BY <2>1, <2>2
  <1>6. Eq(iter)
    BY <1>5
  <1> HIDE DEF iter
  <1>7. /\ iter[{}] = statedb
        /\ \A s \in SUBSET (1..n) : s # {} /\ iter[s \ {Max(s)}] \in State =>
              iter[s] = step[<<iter[s \ {Max(s)}], Max(s)>>]
    <2>1. \A s \in SUBSET (1..n) :
             iter[s] = IF s = {} THEN statedb
                       ELSE MergeTx(iter[s \ {Max(s)}], index[Max(s)])
      BY <1>6
    <2>2. \A s \in SUBSET (1..n) : s # {} => Max(s) \in 1..n
      BY <1>2, MaxOf
    <2> QED
      BY <1>3, <2>1, <2>2
  <1>8. PICK g \in [0..n -> State] : iter[1..n] = g[n] /\ Solves(g, statedb, step, n)
    <2>1. n \in Nat /\ statedb \in State /\ step \in [State \X (1..n) -> State]
      BY <1>2, <1>3
    <2> QED
      BY <1>7, <2>1, FoldChain
  <1>9. \A i \in 1..n : g[i] = MergeTx(g[i - 1], i)
    <2>1. \A i \in 1..n : i - 1 \in 0..n
      BY <1>2
    <2>2. \A i \in 1..n : g[i] = MergeTx(g[i - 1], index[i])
      BY <1>3, <1>8, <2>1 DEF Solves
    <2> QED
      BY <1>2, <2>2
  <1> QED
    BY <1>1, <1>8, <1>9 DEF Solves, n
-----------------------------------------------------------------------------
(* The inductive invariant.                                                *)

(* A goroutine that is done ran its transaction on the state of the head;  *)
(* one that is not has done nothing.                                       *)
CopiesInv ==
    phase \in {"parallel", "sequential"} =>
        \A i \in DOMAIN parallelTxs :
            IF i \in finished
            THEN /\ stateCopies[i] = ApplyMessage(start, parallelTxs[i])
                 /\ results[i] = Succeeds(start, parallelTxs[i])
            ELSE stateCopies[i] = start /\ results[i] = FALSE

(* m is the merge, copy by copy.                                           *)
MergeSteps(m) ==
    /\ m[0] = start
    /\ \A i \in 1..Len(parallelTxs) : m[i] = MergeTx(m[i - 1], i)
    /\ statedb = m[Len(parallelTxs)]

(* The batch has worked on start alone, and after the merge every          *)
(* goroutine is done and statedb is what merging their copies gives.       *)
MergedInv ==
    /\ phase = "parallel" => statedb = start
    /\ phase = "sequential" =>
          /\ finished = DOMAIN parallelTxs
          /\ \E m \in [0..Len(parallelTxs) -> State] : MergeSteps(m)

ExecutorInv == TypeOK /\ CopiesInv /\ MergedInv

LEMMA ExecutorInit ==
    ASSUME Init
    PROVE  ExecutorInv
  <1>1. head \in State
    BY BatchExecutorAssumption DEF Init
  <1>2. TypeOK
    BY <1>1, BatchExecutorAssumption DEF Init, TypeOK
  <1> QED
    BY <1>2 DEF Init, ExecutorInv, CopiesInv, MergedInv

LEMMA ExecutorNext ==
    ASSUME ExecutorInv, [Next]_vars
    PROVE  ExecutorInv'
  <1>1. TypeOK /\ CopiesInv /\ MergedInv
    BY DEF ExecutorInv
  <1> DEFINE Same == /\ parallelTxs' = parallelTxs /\ sequentialTxs' = sequentialTxs
                     /\ statedb' = statedb /\ stateCopies' = stateCopies
                     /\ results' = results /\ finished' = finished /\ start' = start
  <1>2. ASSUME Same, phase' = phase, head' \in State, subscribed' \in BOOLEAN,
               txsCh' \in Seq(Seq(Txs)), Len(txsCh') <= ChanSize
        PROVE  ExecutorInv'
    <2>1. TypeOK'
      BY <1>1, <1>2 DEF TypeOK
    <2>2. CopiesInv'
      BY <1>1, <1>2 DEF CopiesInv
    <2>3. \A m : MergeSteps(m)' <=> MergeSteps(m)
      BY <1>2 DEF MergeSteps, MergeTx, Merged
    <2>4. MergedInv'
      BY <1>1, <1>2, <2>3 DEF MergedInv
    <2> QED
      BY <2>1, <2>2, <2>4 DEF ExecutorInv
  <1>3. ASSUME Same, phase' \in {"select", "executed", "stopped"}, head' = head,
               subscribed' = subscribed, txsCh' = txsCh
        PROVE  ExecutorInv'
    BY <1>1, <1>3 DEF ExecutorInv, TypeOK, CopiesInv, MergedInv
  <1>4. CASE Announce
    <2>1. PICK e \in Events : txsCh' = Append(txsCh, e)
      BY <1>4 DEF Announce
    <2>2. e \in Seq(Txs) /\ ChanSize \in Nat
      BY BatchExecutorAssumption
    <2>3. txsCh' \in Seq(Seq(Txs)) /\ Len(txsCh') = Len(txsCh) + 1
      BY <1>1, <2>1, <2>2 DEF TypeOK
    <2>4. Len(txsCh') <= ChanSize
      BY <1>1, <1>4, <2>2, <2>3 DEF TypeOK, Announce
    <2> QED
      BY <1>1, <1>2, <1>4, <2>3, <2>4 DEF Announce, loopVars, TypeOK
  <1>5. CASE NewHead
    BY <1>1, <1>2, <1>5, BatchExecutorAssumption DEF NewHead, loopVars, TypeOK
  <1>6. CASE Stop
    BY <1>1, <1>2, <1>6 DEF Stop, loopVars, TypeOK
  <1>7. CASE Exit
    BY <1>1, <1>3, <1>7 DEF Exit, loopVars
  <1>8. CASE Return
    BY <1>1, <1>3, <1>8 DEF Return, loopVars
  <1>9. CASE DropBatch
    <2>1. txsCh' \in Seq(Seq(Txs)) /\ Len(txsCh') = Len(txsCh) - 1
      BY <1>1, <1>9 DEF DropBatch, TypeOK
    <2>2. Len(txsCh') <= ChanSize
      BY <1>1, <2>1, BatchExecutorAssumption DEF TypeOK
    <2> QED
      BY <1>1, <1>2, <1>9, <2>1, <2>2 DEF DropBatch, loopVars, TypeOK
  <1>10. CASE ProcessBatch
    <2> DEFINE txs == Head(txsCh)
               tagged == Select(txs, Tagged)
    <2>1. txs \in Seq(Txs)
      BY <1>1, <1>10 DEF ProcessBatch, TypeOK
    <2>2. tagged \in Seq(Txs) /\ Select(txs, Txs \ Tagged) \in Seq(Txs)
      <3> HIDE DEF txs
      <3>1. Len(txs) \in 0..Len(txs)
        BY <2>1
      <3> QED
        BY <2>1, <3>1, SelectChain
    <2>3. txsCh' \in Seq(Seq(Txs)) /\ Len(txsCh') = Len(txsCh) - 1
      BY <1>1, <1>10 DEF ProcessBatch, TypeOK
    <2>4. Len(txsCh') <= ChanSize
      BY <1>1, <2>3, BatchExecutorAssumption DEF TypeOK
    <2>5. /\ parallelTxs' = tagged /\ sequentialTxs' = Select(txs, Txs \ Tagged)
          /\ stateCopies' = [i \in DOMAIN tagged |-> head]
          /\ results' = [i \in DOMAIN tagged |-> FALSE]
          /\ statedb' = head /\ start' = head /\ finished' = {} /\ phase' = "parallel"
          /\ head' = head /\ subscribed' = subscribed
      BY <1>10 DEF ProcessBatch
    <2> HIDE DEF txs, tagged
    <2>6. TypeOK'
      <3>1. DOMAIN tagged = 1..Len(tagged) /\ Len(tagged) \in Nat /\ head \in State
        BY <1>1, <2>2 DEF TypeOK
      <3>2. stateCopies' \in Seq(State) /\ results' \in Seq(BOOLEAN)
        BY <2>5, <3>1
      <3>3. DOMAIN stateCopies' = DOMAIN parallelTxs' /\ DOMAIN results' = DOMAIN parallelTxs'
        BY <2>5
      <3> QED
        BY <1>1, <2>2, <2>3, <2>4, <2>5, <3>2, <3>3 DEF TypeOK
    <2>7. CopiesInv'
      BY <2>5 DEF CopiesInv
    <2> QED
      BY <2>5, <2>6, <2>7 DEF ExecutorInv, MergedInv
  <1>11. ASSUME NEW i \in DOMAIN parallelTxs, RunTx(i)
         PROVE  ExecutorInv'
    <2>1. /\ phase = "parallel" /\ i \notin finished
          /\ stateCopies' = [stateCopies EXCEPT ![i] = ApplyMessage(stateCopies[i], parallelTxs[i])]
          /\ results' = [results EXCEPT ![i] = Succeeds(stateCopies[i], parallelTxs[i])]
          /\ finished' = finished \cup {i}
      BY <1>11 DEF RunTx
    <2>2. /\ head' = head /\ subscribed' = subscribed /\ txsCh' = txsCh /\ phase' = phase
          /\ parallelTxs' = parallelTxs /\ sequentialTxs' = sequentialTxs
          /\ statedb' = statedb /\ start' = start
      BY <1>11 DEF RunTx
    <2>3. /\ stateCopies[i] = start /\ statedb = start
          /\ parallelTxs[i] \in Txs /\ start \in State
      <3>1. stateCopies[i] = start
        BY <1>1, <2>1 DEF CopiesInv
      <3>2. statedb = start
        BY <1>1, <2>1 DEF MergedInv
      <3> QED
        BY <1>1, <3>1, <3>2 DEF TypeOK
    <2>4. ApplyMessage(start, parallelTxs[i]) \in State
      BY <2>3, ApplyTyped
    <2>5. Succeeds(start, parallelTxs[i]) \in BOOLEAN
      BY DEF Succeeds, PreCheck
    <2>6. TypeOK'
      <3>1. /\ stateCopies' \in Seq(State) /\ DOMAIN stateCopies' = DOMAIN stateCopies
        BY <1>1, <2>1, <2>3, <2>4 DEF TypeOK
      <3>2. results' \in Seq(BOOLEAN) /\ DOMAIN results' = DOMAIN results
        <4>1. results' = [results EXCEPT ![i] = Succeeds(start, parallelTxs[i])]
          BY <2>1, <2>3
        <4> HIDE DEF Succeeds
        <4> QED
          BY <1>1, <2>5, <4>1 DEF TypeOK
      <3> QED
        BY <1>1, <2>1, <2>2, <3>1, <3>2 DEF TypeOK
    <2>7. CopiesInv'
      <3> SUFFICES ASSUME NEW j \in DOMAIN parallelTxs
                   PROVE  IF j \in finished'
                          THEN /\ stateCopies'[j] = ApplyMessage(start, parallelTxs[j])
                               /\ results'[j] = Succeeds(start, parallelTxs[j])
                          ELSE stateCopies'[j] = start /\ results'[j] = FALSE
        BY <2>2 DEF CopiesInv
      <3>1. DOMAIN stateCopies = DOMAIN parallelTxs /\ DOMAIN results = DOMAIN parallelTxs
        BY <1>1 DEF TypeOK
      <3>2. CASE j = i
        BY <2>1, <2>3, <3>1, <3>2
      <3>3. CASE j # i
        <4>1. /\ stateCopies'[j] = stateCopies[j] /\ results'[j] = results[j]
              /\ j \in finished' <=> j \in finished
          BY <2>1, <3>1, <3>3
        <4> QED
          BY <1>1, <2>1, <4>1 DEF CopiesInv
      <3> QED
        BY <3>2, <3>3
    <2> QED
      BY <1>1, <2>1, <2>2, <2>6, <2>7 DEF ExecutorInv, MergedInv
  <1>12. CASE Merge
    <2>1. /\ phase = "parallel" /\ finished = DOMAIN parallelTxs /\ statedb = start
          /\ statedb' = FoldLeftDomain(MergeTx, statedb, parallelTxs)
      BY <1>1, <1>12 DEF Merge, MergedInv
    <2>2. /\ head' = head /\ subscribed' = subscribed /\ txsCh' = txsCh
          /\ phase' = "sequential"
          /\ parallelTxs' = parallelTxs /\ sequentialTxs' = sequentialTxs
          /\ stateCopies' = stateCopies /\ results' = results /\ finished' = finished
          /\ start' = start
      BY <1>12 DEF Merge
    <2>3. PICK m \in [0..Len(parallelTxs) -> State] :
             /\ statedb' = m[Len(parallelTxs)]
             /\ m[0] = start
             /\ \A i \in 1..Len(parallelTxs) : m[i] = MergeTx(m[i - 1], i)
      BY <1>1, <2>1, MergeChain
    <2>4. statedb' \in State
      <3>1. Len(parallelTxs) \in 0..Len(parallelTxs)
        BY <1>1 DEF TypeOK
      <3> QED
        BY <2>3, <3>1
    <2>5. TypeOK'
      BY <1>1, <2>2, <2>4 DEF TypeOK
    <2>6. CopiesInv'
      BY <1>1, <2>1, <2>2 DEF CopiesInv
    <2>7. MergeSteps(m)'
      <3>1. \A st, i : MergeTx(st, i)' = MergeTx(st, i)
        BY <2>2 DEF MergeTx, Merged
      <3> QED
        BY <2>2, <2>3, <3>1 DEF MergeSteps
    <2>8. MergedInv'
      BY <2>1, <2>2, <2>7 DEF MergedInv
    <2> QED
      BY <2>5, <2>6, <2>8 DEF ExecutorInv
  <1>13. CASE ExecuteSequentialBatch
    <2>1. statedb' \in State
      <3>1. /\ statedb' = ApplyAll(statedb, sequentialTxs)
            /\ statedb \in State /\ sequentialTxs \in Seq(Txs)
        BY <1>1, <1>13 DEF ExecuteSequentialBatch, TypeOK
      <3>2. PICK g \in [0..Len(sequentialTxs) -> State] :
               ApplyAll(statedb, sequentialTxs) = g[Len(sequentialTxs)]
        BY <3>1, ApplyChain
      <3>3. Len(sequentialTxs) \in 0..Len(sequentialTxs)
        BY <3>1
      <3> QED
        BY <3>1, <3>2, <3>3
    <2> QED
      BY <1>1, <1>13, <2>1
         DEF ExecuteSequentialBatch, ExecutorInv, TypeOK, CopiesInv, MergedInv
  <1>14. CASE UNCHANGED vars
    BY <1>1, <1>2, <1>14 DEF vars, loopVars, TypeOK
  <1> QED
    BY <1>4, <1>5, <1>6, <1>7, <1>8, <1>9, <1>10, <1>11, <1>12, <1>13, <1>14
       DEF Next, Loop

LEMMA ExecutorInvariant == Spec => []ExecutorInv
  BY ExecutorInit, ExecutorNext, PTL DEF Spec

(* Type correctness of the batch executor: the loop of processTransactions *)
(* never has a copy or a result too many, for any announcements, heads and *)
(* channel size.                                                           *)
THEOREM TypeCorrect == Spec => []TypeOK
  <1>1. ExecutorInv => TypeOK
    BY DEF ExecutorInv
  <1> QED
    BY <1>1, ExecutorInvariant, PTL

-----------------------------------------------------------------------------
(* What the merge computes, account by account.                            *)

LEMMA NoTrace ==
    ASSUME ExecutorInv
    PROVE  FailedLeavesNoTrace
  <1> SUFFICES ASSUME phase = "sequential", NEW a \in Accounts,
                      \A i \in DOMAIN parallelTxs : results[i] => a \notin Merged(i)
               PROVE  statedb.nonce[a] = start.nonce[a] /\ statedb.balance[a] = start.balance[a]
    BY DEF FailedLeavesNoTrace
  <1> DEFINE n == Len(parallelTxs)
  <1>1. TypeOK /\ n \in Nat /\ DOMAIN parallelTxs = 1..n
    BY DEF ExecutorInv, TypeOK
  <1>2. PICK m \in [0..n -> State] : MergeSteps(m)
    BY DEF ExecutorInv, MergedInv
  <1> DEFINE S == {i \in 0..n : m[i].nonce[a] = start.nonce[a] /\ m[i].balance[a] = start.balance[a]}
  <1>3. 0 \in S
    BY <1>1, <1>2 DEF MergeSteps
  <1>4. ASSUME NEW i \in 1..n, i - 1 \in S
        PROVE  i \in S
    <2>1. i \in 0..n /\ i - 1 \in 0..n
      BY <1>1
    <2>2. m[i] = MergeTx(m[i - 1], i) /\ m[i - 1] \in State
      BY <1>2, <2>1 DEF MergeSteps
    <2>3. ~(results[i] /\ a \in Merged(i))
      BY <1>1
    <2>4. /\ MergeTx(m[i - 1], i).nonce[a] = m[i - 1].nonce[a]
          /\ MergeTx(m[i - 1], i).balance[a] = m[i - 1].balance[a]
      BY <1>1, <2>2, <2>3, MergeTyped
    <2> QED
      BY <1>4, <2>1, <2>2, <2>4
  <1>5. n \in S
    <2> HIDE DEF S, n
    <2>1. \A i \in 0..n : i \in S
      BY <1>1, <1>3, <1>4, UpTo
    <2> QED
      BY <1>1, <2>1
  <1> QED
    BY <1>2, <1>5 DEF MergeSteps

(* The merge applies "changes from successful transactions" only: an       *)
(* account that no successful tagged transaction touches keeps the nonce   *)
(* and the balance of the head, however many others bought gas and failed. *)
THEOREM MergeLeavesNoTrace == Spec => []FailedLeavesNoTrace
  BY ExecutorInvariant, NoTrace, PTL

LEMMA NonceSpent ==
    ASSUME ExecutorInv
    PROVE  SpentNonceStays
  <1> DEFINE n == Len(parallelTxs)
  <1> SUFFICES ASSUME phase = "sequential", NEW k \in DOMAIN parallelTxs, results[k],
                      \A j \in DOMAIN parallelTxs :
                          Target[parallelTxs[j]] # From[parallelTxs[k]]
               PROVE  statedb.nonce[From[parallelTxs[k]]] =
                          start.nonce[From[parallelTxs[k]]] + 1
    BY DEF SpentNonceStays
  <1> DEFINE s == From[parallelTxs[k]]
  <1>1. TypeOK /\ n \in Nat /\ DOMAIN parallelTxs = 1..n /\ start \in State
    BY DEF ExecutorInv, TypeOK
  <1>2. PICK m \in [0..n -> State] : MergeSteps(m)
    BY DEF ExecutorInv, MergedInv
  <1>3. \A i \in 1..n : parallelTxs[i] \in Txs
    BY <1>1 DEF TypeOK
  <1>4. s \in Accounts /\ k \in 1..n
    BY <1>1, <1>3, BatchExecutorAssumption
  <1>5. ASSUME NEW i \in 1..n, results[i], s \in Merged(i)
        PROVE  stateCopies[i].nonce[s] = start.nonce[s] + 1
    <2>1. s = From[parallelTxs[i]]
      BY <1>1, <1>5 DEF Merged
    <2>2. /\ stateCopies[i] = ApplyMessage(start, parallelTxs[i])
          /\ Succeeds(start, parallelTxs[i])
      BY <1>1, <1>5 DEF ExecutorInv, CopiesInv, MergedInv
    <2> HIDE DEF s
    <2> QED
      BY <1>1, <1>3, <1>4, <2>1, <2>2, SuccessValues
  <1> DEFINE S == {i \in 0..n : k <= i => m[i].nonce[s] = start.nonce[s] + 1}
  <1>6. 0 \in S
    BY <1>1, <1>4
  <1>7. ASSUME NEW i \in 1..n, i - 1 \in S
        PROVE  i \in S
    <2>1. i \in 0..n /\ i - 1 \in 0..n
      BY <1>1
    <2>2. m[i] = MergeTx(m[i - 1], i) /\ m[i - 1] \in State
      BY <1>2, <2>1 DEF MergeSteps
    <2>3. m[i].nonce[s] = IF results[i] /\ s \in Merged(i)
                          THEN stateCopies[i].nonce[s] ELSE m[i - 1].nonce[s]
      BY <1>1, <1>4, <2>2, MergeTyped
    <2>4. k = i => s \in Merged(i) /\ results[i]
      BY DEF Merged
    <2>5. k <= i /\ k # i => k <= i - 1
      BY <1>4
    <2> HIDE DEF s
    <2> QED
      BY <1>5, <1>7, <2>1, <2>3, <2>4, <2>5
  <1>8. n \in S
    <2> HIDE DEF S, n
    <2>1. \A i \in 0..n : i \in S
      BY <1>1, <1>6, <1>7, UpTo
    <2> QED
      BY <1>1, <2>1
  <1> QED
    BY <1>1, <1>2, <1>4, <1>8 DEF MergeSteps

(* A nonce the parallel half has spent is spent for the half that runs in  *)
(* order, unless the sender is also paid by a tagged transaction of the    *)
(* same announcement.                                                      *)
THEOREM MergeSpendsNonces == Spec => []SpentNonceStays
  BY ExecutorInvariant, NonceSpent, PTL
(* The accounts transaction i sends from and is addressed to.              *)
Touched(i) == {From[parallelTxs[i]], Target[parallelTxs[i]]}

(* After i transactions, m by merging and c one after the other: they give *)
(* the same nonces and, but for the coinbase, balances, and the accounts   *)
(* of the transactions to come are as they were at the start.              *)
Agree(m, c, i) ==
    /\ \A a \in Accounts : m[i].nonce[a] = c[i].nonce[a]
    /\ \A a \in Accounts \ {Coinbase} : m[i].balance[a] = c[i].balance[a]
    /\ \A j \in 1..Len(parallelTxs) : i < j =>
          \A a \in Touched(j) :
              c[i].nonce[a] = start.nonce[a] /\ c[i].balance[a] = start.balance[a]

(* One more independent transaction.                                       *)
LEMMA AgreeStep ==
    ASSUME ExecutorInv, phase = "sequential", Independent,
           NEW i \in 1..Len(parallelTxs), NEW m, NEW c,
           m[i - 1] \in State, c[i - 1] \in State,
           m[i] = MergeTx(m[i - 1], i),
           c[i] = Commit(c[i - 1], parallelTxs[i]),
           Agree(m, c, i - 1)
    PROVE  Agree(m, c, i)
  <1> DEFINE t == parallelTxs[i]
             n == Len(parallelTxs)
  <1>1. /\ TypeOK /\ n \in Nat /\ DOMAIN parallelTxs = 1..n /\ start \in State
        /\ \A j \in 1..n : parallelTxs[j] \in Txs
    BY DEF ExecutorInv, TypeOK
  <1>2. /\ t \in Txs /\ From[t] \in Accounts /\ Target[t] \in Accounts
        /\ \A j \in 1..n : Touched(j) \subseteq Accounts
    BY <1>1, BatchExecutorAssumption DEF Touched
  <1>3. /\ stateCopies[i] = ApplyMessage(start, t)
        /\ results[i] = Succeeds(start, t)
    BY <1>1 DEF ExecutorInv, CopiesInv, MergedInv
  <1>4. /\ Coinbase \notin {From[t], Target[t]} /\ t \notin Creates
        /\ Forward[t] \in {From[t], Target[t]}
        /\ Merged(i) = {From[t], Target[t]} /\ Touched(i) = {From[t], Target[t]}
    BY <1>1 DEF Independent, Merged, Touched
  <1>5. \A a \in {From[t], Target[t]} :
           /\ c[i - 1].nonce[a] = start.nonce[a]
           /\ c[i - 1].balance[a] = start.balance[a]
    BY <1>1, <1>4 DEF Agree
  <1>6. Succeeds(c[i - 1], t) <=> Succeeds(start, t)
    BY <1>5 DEF Succeeds, PreCheck
  <1>7. \A j \in 1..n : i < j => /\ i - 1 < j
                                 /\ From[t] \notin Touched(j) /\ Target[t] \notin Touched(j)
                                 /\ Coinbase \notin Touched(j)
    <2> SUFFICES ASSUME NEW j \in 1..n, i < j
                 PROVE  /\ i - 1 < j
                        /\ From[t] \notin Touched(j) /\ Target[t] \notin Touched(j)
                        /\ Coinbase \notin Touched(j)
      OBVIOUS
    <2>1. i # j /\ i - 1 < j /\ i \in DOMAIN parallelTxs /\ j \in DOMAIN parallelTxs
      BY <1>1
    <2>2. Touched(i) \cap Touched(j) = {}
      BY <2>1 DEF Independent, Touched
    <2>3. Coinbase \notin Touched(j)
      BY <2>1 DEF Independent, Touched
    <2>4. From[t] \in Touched(i) /\ Target[t] \in Touched(i)
      BY DEF Touched
    <2> QED
      BY <2>1, <2>2, <2>3, <2>4
  <1>8. CASE ~Succeeds(start, t)
    <2>1. m[i] = m[i - 1] /\ c[i] = c[i - 1]
      BY <1>3, <1>6, <1>8 DEF MergeTx, Commit
    <2> QED
      BY <1>7, <2>1 DEF Agree
  <1>9. CASE Succeeds(start, t)
    <2> DEFINE moved == IF t \notin Reverts THEN Value[t] ELSE 0
               NewBalance(st, a) == (st.balance[a] + (IF a = Forward[t] THEN moved ELSE 0))
                                    - (IF a = From[t] THEN Fee[t] + moved ELSE 0)
    <2>1. \A a \in Accounts :
             /\ stateCopies[i].nonce[a] =
                   IF a = From[t] THEN start.nonce[a] + 1 ELSE start.nonce[a]
             /\ a # Coinbase => stateCopies[i].balance[a] = NewBalance(start, a)
      BY <1>1, <1>2, <1>3, <1>4, <1>9, SuccessValues
    <2>2. c[i] = ApplyMessage(c[i - 1], t)
      BY <1>6, <1>9 DEF Commit
    <2>3. \A a \in Accounts :
             /\ c[i].nonce[a] =
                   IF a = From[t] THEN c[i - 1].nonce[a] + 1 ELSE c[i - 1].nonce[a]
             /\ a # Coinbase => c[i].balance[a] = NewBalance(c[i - 1], a)
      BY <1>2, <1>4, <1>6, <1>9, <2>2, SuccessValues
    <2>4. \A a \in Accounts :
             /\ m[i].nonce[a] =
                   IF a \in {From[t], Target[t]} THEN stateCopies[i].nonce[a] ELSE m[i - 1].nonce[a]
             /\ m[i].balance[a] =
                   IF a \in {From[t], Target[t]} THEN stateCopies[i].balance[a] ELSE m[i - 1].balance[a]
      <3>1. results[i] /\ Merged(i) = {From[t], Target[t]}
        BY <1>3, <1>4, <1>9
      <3> HIDE DEF t
      <3> QED
        BY <1>1, <3>1, MergeTyped
    <2>5. ASSUME NEW a \in Accounts, a \notin {From[t], Target[t]}, a # Coinbase
          PROVE  c[i].nonce[a] = c[i - 1].nonce[a] /\ c[i].balance[a] = c[i - 1].balance[a]
      <3>1. c[i - 1].balance[a] \in Nat
        BY DEF State
      <3>2. c[i].balance[a] = NewBalance(c[i - 1], a)
        BY <2>3, <2>5
      <3>3. NewBalance(c[i - 1], a) = c[i - 1].balance[a]
        BY <1>4, <2>5, <3>1
      <3> QED
        BY <2>3, <2>5, <3>2, <3>3
    <2> HIDE DEF t
    <2>6. ASSUME NEW a \in Accounts
          PROVE  m[i].nonce[a] = c[i].nonce[a]
      <3>1. m[i - 1].nonce[a] = c[i - 1].nonce[a]
        BY DEF Agree
      <3>2. CASE a \in {From[t], Target[t]}
        BY <1>5, <2>1, <2>3, <2>4, <3>2
      <3>3. CASE a \notin {From[t], Target[t]}
        BY <2>3, <2>4, <3>1, <3>3
      <3> QED
        BY <3>2, <3>3
    <2>7. ASSUME NEW a \in Accounts \ {Coinbase}
          PROVE  m[i].balance[a] = c[i].balance[a]
      <3>1. CASE a \in {From[t], Target[t]}
        <4>1. NewBalance(start, a) = NewBalance(c[i - 1], a)
          BY <1>5, <3>1
        <4> HIDE DEF NewBalance
        <4> QED
          BY <2>1, <2>3, <2>4, <3>1, <4>1
      <3>2. CASE a \notin {From[t], Target[t]}
        <4>1. m[i - 1].balance[a] = c[i - 1].balance[a]
          BY DEF Agree
        <4> QED
          BY <2>4, <2>5, <3>2, <4>1
      <3> QED
        BY <3>1, <3>2
    <2>8. ASSUME NEW j \in 1..n, i < j, NEW a \in Touched(j)
          PROVE  c[i].nonce[a] = start.nonce[a] /\ c[i].balance[a] = start.balance[a]
      <3>1. a \in Accounts /\ a \notin {From[t], Target[t]} /\ a # Coinbase
        BY <1>2, <1>7, <2>8
      <3>2. c[i - 1].nonce[a] = start.nonce[a] /\ c[i - 1].balance[a] = start.balance[a]
        BY <1>7, <2>8 DEF Agree
      <3> QED
        BY <2>5, <3>1, <3>2
    <2> QED
      BY <2>6, <2>7, <2>8 DEF Agree
  <1> QED
    BY <1>8, <1>9

LEMMA Sequential ==
    ASSUME ExecutorInv
    PROVE  MergeIsSequential
  <1> DEFINE n == Len(parallelTxs)
             reference == CommitAll(parallelTxs)
  <1> SUFFICES ASSUME phase = "sequential", Independent
               PROVE  /\ statedb.nonce = reference.nonce
                      /\ \A a \in Accounts \ {Coinbase} :
                            statedb.balance[a] = reference.balance[a]
    BY DEF MergeIsSequential
  <1>1. /\ TypeOK /\ n \in Nat /\ start \in State /\ parallelTxs \in Seq(Txs)
        /\ statedb \in State
    BY DEF ExecutorInv, TypeOK
  <1>2. PICK m \in [0..n -> State] : MergeSteps(m)
    BY DEF ExecutorInv, MergedInv
  <1>3. PICK c \in [0..n -> State] :
           /\ reference = c[n]
           /\ c[0] = start
           /\ \A i \in 1..n : c[i] = Commit(c[i - 1], parallelTxs[i])
    BY <1>1, CommitChain DEF CommitAll
  <1> DEFINE S == {i \in 0..n : Agree(m, c, i)}
  <1>4. 0 \in S
    <2>1. m[0] = start /\ c[0] = start
      BY <1>2, <1>3 DEF MergeSteps
    <2> QED
      BY <1>1, <2>1 DEF Agree
  <1>5. ASSUME NEW i \in 1..n, i - 1 \in S
        PROVE  i \in S
    <2>1. i \in 0..n /\ i - 1 \in 0..n
      BY <1>1
    <2>2. m[i - 1] \in State /\ c[i - 1] \in State
      BY <2>1
    <2>3. m[i] = MergeTx(m[i - 1], i) /\ c[i] = Commit(c[i - 1], parallelTxs[i])
      BY <1>2, <1>3 DEF MergeSteps
    <2>4. Agree(m, c, i - 1)
      BY <1>5
    <2>5. Agree(m, c, i)
      BY <2>2, <2>3, <2>4, AgreeStep
    <2> QED
      BY <2>1, <2>5
  <1>6. n \in S
    <2> HIDE DEF S, n
    <2>1. \A i \in 0..n : i \in S
      BY <1>1, <1>4, <1>5, UpTo
    <2> QED
      BY <1>1, <2>1
  <1>7. Agree(m, c, n) /\ statedb = m[n] /\ reference = c[n] /\ c[n] \in State
    <2>1. n \in 0..n
      BY <1>1
    <2> QED
      BY <1>2, <1>3, <1>6, <2>1 DEF MergeSteps
  <1> HIDE DEF reference
  <1>8. statedb.nonce \in [Accounts -> Nat] /\ reference.nonce \in [Accounts -> Nat]
    BY <1>1, <1>7 DEF State
  <1>9. \A a \in Accounts : statedb.nonce[a] = reference.nonce[a]
    BY <1>7 DEF Agree
  <1>10. statedb.nonce = reference.nonce
    BY <1>8, <1>9
  <1>11. \A a \in Accounts \ {Coinbase} : statedb.balance[a] = reference.balance[a]
    BY <1>7 DEF Agree
  <1> QED
    BY <1>10, <1>11

(* executeParallelBatch is correct for the batches it is meant for: in     *)
(* whatever order the goroutines finish, independent tagged transactions   *)
(* whose calls stay between sender and recipient, any number of them,      *)
(* leave every account but the coinbase with the nonce and balance of      *)
(* one-after-the-other execution.                                          *)
THEOREM MergeGivesSequential == Spec => []MergeIsSequential
  BY ExecutorInvariant, Sequential, PTL
=============================================================================
