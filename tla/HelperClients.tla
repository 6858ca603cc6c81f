---------------------------- MODULE HelperClients ----------------------------
(***************************************************************************)
(* The helper together with those who poll GET /blocks: the Othentic       *)
(* services and the dashboard.  The groups change between any two polls.   *)
(* A poll reads the helper's state and changes nothing, so no client can   *)
(* disturb another: client says which of them runs.                        *)
(***************************************************************************)
EXTENDS BatchHelper

CONSTANTS
    Executions, Null, NoProof,
    Fetches, Intervals, Speeds, DefaultSpeed, Initial, None,
    Clients   \* a subset of {"othentic", "dashboard"}

VARIABLES
    client,
    \* the Othentic services
    phase, result, cid, pinned, tasks, vote,
    \* the dashboard
    blocks, isSimulating, simulationInterval, simulationSpeed, loading, error,
    intervals, fetch, mounted, timeout, rendered

Othentic == INSTANCE AttestationFlow WITH served <- Blocks
Dashboard == INSTANCE BlockStore WITH served <- Blocks

(* What a fetch that runs may be at.                                       *)
FetchStates == {Dashboard!Asked, Dashboard!Failure}
                   \cup [state : {"answer"}, content : Seq(AnyBlock)]

ASSUME HelperClientsAssumption ==
    /\ None \notin Intervals /\ None \notin FetchStates
    /\ DefaultSpeed \in Speeds

othenticVars == <<phase, result, cid, pinned, tasks, vote>>
dashboardVars ==
    <<blocks, isSimulating, simulationInterval, simulationSpeed, loading, error,
      intervals, fetch, mounted, timeout, rendered>>
allVars == <<client, vars, othenticVars, dashboardVars>>

AllInit ==
    /\ client \in Clients
    /\ Init
    /\ Othentic!Init
    /\ Dashboard!Init

HelperStep ==
    /\ Next
    /\ UNCHANGED <<client, othenticVars, dashboardVars>>

OthenticStep ==
    /\ client = "othentic"
    /\ Othentic!Next
    /\ UNCHANGED <<client, vars, dashboardVars>>

DashboardStep ==
    /\ client = "dashboard"
    /\ Dashboard!Next
    /\ UNCHANGED <<client, vars, othenticVars>>

AllNext == HelperStep \/ OthenticStep \/ DashboardStep

AllSpec == AllInit /\ [][AllNext]_allVars /\ Othentic!Fairness

-----------------------------------------------------------------------------
(* Properties                                                              *)

(* Type invariant of the clients' state.                                   *)
ClientsTypeOK ==
    /\ client \in Clients
    /\ Othentic!TypeOK
    /\ Dashboard!TypeOK
    /\ fetch \in [Fetches -> FetchStates \cup {None}]

(* The list in the map is the one t was placed with: a hash announced      *)
(* again is simulated again, against a later state.                        *)
Settled(t) == simulations[t] = 1

(* No two transactions of the block share a storage key, as far as their   *)
(* lists are still the ones they were placed with.                         *)
RunsInParallel(block) ==
    LET g == block.transactions
    IN  \A i, j \in DOMAIN g :
            i < j /\ Settled(g[i]) /\ Settled(g[j])
                => ~Overlap(accessListMap, g[i], g[j])

(* From the helper through two services to a vote: what a validator        *)
(* approved (validator.service.js 5-23) is a list of blocks as the helper  *)
(* serves them, in which no parallelizable block has two transactions with *)
(* a common storage key, although groups were cleaned and refilled while   *)
(* executions overlapped.  The performer is the repository's own: the      *)
(* validator compares hashes and would approve any array.  Keys are        *)
(* compared for hashes whose lists are still those of their placement.     *)
ApprovedRunsInParallel ==
    vote.approve =>
        /\ vote.task.data # Othentic!Hexlify(Othentic!Digest(Null))
        /\ \A i \in DOMAIN vote.task.proof.ipfs :
              vote.task.proof.ipfs[i].type = "parallelizable"
                  => RunsInParallel(vote.task.proof.ipfs[i])

(* Every POST /execute is answered (AttestationFlow).                      *)
ExecutionsEnd == Othentic!ExecutionsEnd

(* The dashboard leaves no timer and no loading flag behind (BlockStore).  *)
NothingLeftRunning == Dashboard!NothingLeftRunning
=============================================================================
