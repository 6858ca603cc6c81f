------------------------------- MODULE Grouping -------------------------------
(***************************************************************************)
(* What the parallel-execution helper promises to those who poll its       *)
(* groups, without its callbacks, queues and arrays.  A transaction whose  *)
(* storage keys become known is put into one of Groups in which nothing    *)
(* touches these keys; it goes to the rest only if there is no such group; *)
(* it is left out only if what it or another one touches is not known.     *)
(* Placed transactions stay until the whole assignment becomes the         *)
(* previous one.                                                           *)
(***************************************************************************)
CONSTANTS
    Txs,       \* transactions
    StorageKeys,     \* storage keys
    Groups,    \* names of the groups
    Unknown    \* the keys of a transaction that nobody could tell

VARIABLES
    touched,       \* the keys each transaction touches, or Unknown
    groups, rest,  \* the current assignment
    oldGroups, oldRest

assignment == <<groups, rest>>
previous == <<oldGroups, oldRest>>
vars == <<touched, assignment, previous>>

Empty == [g \in Groups |-> {}]

Init ==
    /\ touched = [t \in Txs |-> Unknown]
    /\ groups = Empty
    /\ rest = {}
    /\ oldGroups = Empty
    /\ oldRest = {}

Known(keys, g) == \A s \in groups[g] : keys[s] # Unknown

(* Nothing in group g touches what t touches.                              *)
Accepts(keys, t, g) ==
    /\ keys[t] # Unknown
    /\ Known(keys, g)
    /\ \A s \in groups[g] : keys[s] \cap keys[t] = {}

Blocked(keys, t, g) ==
    /\ keys[t] # Unknown
    /\ \E s \in groups[g] : keys[s] # Unknown /\ keys[s] \cap keys[t] # {}

Place(keys, t) ==
    /\ \E g \in Groups :
          /\ Accepts(keys, t, g) \/ groups = Empty
          /\ groups' = [groups EXCEPT ![g] = @ \cup {t}]
    /\ UNCHANGED rest

PutAside(keys, t) ==
    /\ \A g \in Groups : Blocked(keys, t, g)
    /\ rest' = rest \cup {t}
    /\ UNCHANGED groups

LeaveOut(keys, t) ==
    /\ groups # Empty
    /\ keys[t] = Unknown \/ \E g \in Groups : ~Known(keys, g)
    /\ UNCHANGED assignment

(* The keys of t become known, or are found to be unknown.                 *)
Assess(t) ==
    \E found \in {Unknown} \cup SUBSET StorageKeys :
        LET keys == [touched EXCEPT ![t] = found]
        IN  /\ touched' = keys
            /\ Place(keys, t) \/ PutAside(keys, t) \/ LeaveOut(keys, t)
            /\ UNCHANGED previous

Clean ==
    /\ oldGroups' = groups
    /\ oldRest' = rest
    /\ groups' = Empty
    /\ rest' = {}
    /\ UNCHANGED touched

Next == Clean \/ \E t \in Txs : Assess(t)

Spec == Init /\ [][Next]_vars
===============================================================================
