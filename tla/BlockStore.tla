------------------------------ MODULE BlockStore ------------------------------
(***************************************************************************)
(* The dashboard's block store (src/lib/store.ts) and the effect of the    *)
(* page that drives it (src/app/page.tsx 16-29).  A fetch of the helper's  *)
(* blocks is a request, the helper's answer and its arrival, so fetches    *)
(* overlap and arrive in any order.                                        *)
(*                                                                         *)
(* The effect arms a timeout that starts a fetch and, if the page was      *)
(* rendered with isSimulating false, the interval timer.  React runs the   *)
(* effect's cleanup and the effect again when it renders another value of  *)
(* isSimulating than the last, and the cleanup stops the simulation.       *)
(***************************************************************************)
EXTENDS Sequences, FiniteSets

CONSTANTS
    Fetches,         \* bound: the fetches in flight at a time
    Intervals,       \* identifiers of interval timers
    Speeds,          \* interval lengths
    DefaultSpeed,
    Initial,         \* the blocks generateInitialBlocks makes up
    None             \* null, and the state of a fetch that is not running

VARIABLES
    served,               \* the blocks the helper would answer with now
    \* the store
    blocks, isSimulating, simulationInterval, simulationSpeed, loading, error,
    \* the browser: interval timers that run, and fetches
    intervals, fetch,
    \* the page: mounted, its timeout armed, the isSimulating it was rendered with
    mounted, timeout, rendered

simulation == <<isSimulating, simulationInterval, simulationSpeed, intervals>>
shown == <<blocks, loading, error>>
page == <<mounted, timeout, rendered>>
vars == <<simulation, shown, fetch, page>>

Asked == [state |-> "asked"]
Answer(content) == [state |-> "answer", content |-> content]
Failure == [state |-> "failure"]

Init ==
    /\ blocks = Initial
    /\ isSimulating = FALSE
    /\ simulationInterval = None
    /\ simulationSpeed = DefaultSpeed
    /\ loading = FALSE
    /\ error = FALSE
    /\ intervals = {}
    /\ fetch = [f \in Fetches |-> None]
    /\ mounted = TRUE
    /\ timeout = TRUE
    /\ rendered = FALSE

-----------------------------------------------------------------------------
(* fetchBlocksFromAPI                                                      *)

(* addNewBlock; the fetch it starts never rejects, so its fallback, which  *)
(* would generate a block, has no step.                                    *)
AddNewBlock ==
    /\ \E f \in Fetches :
          /\ fetch[f] = None
          /\ fetch' = [fetch EXCEPT ![f] = Asked]
    /\ loading' = TRUE
    /\ error' = FALSE
    /\ UNCHANGED blocks

(* The helper answers; or the connection fails.                            *)
Respond(f) ==
    /\ fetch[f] = Asked
    /\ \E r \in {Answer(served), Failure} : fetch' = [fetch EXCEPT ![f] = r]
    /\ UNCHANGED <<simulation, shown, page>>

(* One row per block: its number, how many transactions, how many of them  *)
(* sequential.                                                             *)
Converted(content) ==
    [i \in DOMAIN content |->
        LET n == Len(content[i].transactions)
        IN  [id |-> content[i].groupId, transactions |-> n,
             sequentialCount |-> IF content[i].type = "sequential" THEN n ELSE 0]]

ShowBlocks(f) ==
    /\ fetch[f] # None /\ fetch[f].state = "answer"
    /\ blocks' = Converted(fetch[f].content)
    /\ loading' = FALSE
    /\ fetch' = [fetch EXCEPT ![f] = None]
    /\ UNCHANGED <<error, simulation, page>>

ShowError(f) ==
    /\ fetch[f] = Failure
    /\ error' = TRUE
    /\ loading' = FALSE
    /\ fetch' = [fetch EXCEPT ![f] = None]
    /\ UNCHANGED <<blocks, simulation, page>>

-----------------------------------------------------------------------------
(* The simulation timer                                                    *)

(* clearInterval, when there is an interval.                               *)
Cleared == intervals \ {simulationInterval}

MutantStartSimulation(speed) ==
    /\ \E i \in Intervals \ intervals :
          /\ intervals' = intervals \cup {i}
          /\ simulationInterval' = i
    /\ isSimulating' = TRUE
    /\ simulationSpeed' = speed

StartSimulation(speed) ==
    /\ \E i \in Intervals \ intervals :
          /\ intervals' = Cleared \cup {i}
          /\ simulationInterval' = i
    /\ isSimulating' = TRUE
    /\ simulationSpeed' = speed

StopSimulation ==
    /\ intervals' = Cleared
    /\ simulationInterval' = None
    /\ isSimulating' = FALSE
    /\ UNCHANGED simulationSpeed

Tick ==
    /\ intervals # {}
    /\ AddNewBlock
    /\ UNCHANGED <<simulation, page>>

Start(speed) == StartSimulation(speed) /\ UNCHANGED <<shown, fetch, page>>

Stop == StopSimulation /\ UNCHANGED <<shown, fetch, page>>

(* A running simulation is stopped and started again with the new speed.   *)
SetSimulationSpeed(speed) ==
    /\ \/ isSimulating /\ StartSimulation(speed)
       \/ /\ ~isSimulating
          /\ simulationSpeed' = speed
          /\ UNCHANGED <<isSimulating, simulationInterval, intervals>>
    /\ UNCHANGED <<shown, fetch, page>>

ResetBlocks ==
    /\ blocks' = Initial
    /\ UNCHANGED <<loading, error, simulation, fetch, page>>

-----------------------------------------------------------------------------
(* The page's effect                                                       *)

Timeout ==
    /\ timeout
    /\ timeout' = FALSE
    /\ AddNewBlock
    /\ \/ rendered /\ UNCHANGED simulation
       \/ ~rendered /\ StartSimulation(DefaultSpeed)
    /\ UNCHANGED <<mounted, rendered>>

(* The page is rendered with another isSimulating: cleanup, then effect.   *)
Render ==
    /\ mounted
    /\ isSimulating # rendered
    /\ StopSimulation
    /\ rendered' = isSimulating
    /\ timeout' = TRUE
    /\ UNCHANGED <<mounted, shown, fetch>>

Unmount ==
    /\ mounted
    /\ mounted' = FALSE
    /\ timeout' = FALSE
    /\ StopSimulation
    /\ UNCHANGED <<rendered, shown, fetch>>

Mount ==
    /\ ~mounted
    /\ mounted' = TRUE
    /\ rendered' = isSimulating
    /\ timeout' = TRUE
    /\ UNCHANGED <<simulation, shown, fetch>>

Next ==
    \/ Tick \/ Stop \/ ResetBlocks
    \/ \E speed \in Speeds : Start(speed) \/ SetSimulationSpeed(speed)
    \/ Timeout \/ Render \/ Unmount \/ Mount
    \/ \E f \in Fetches : Respond(f) \/ ShowBlocks(f) \/ ShowError(f)

-----------------------------------------------------------------------------
(* Properties                                                              *)

(* Type invariant: the fields of the store.                                *)
TypeOK ==
    /\ isSimulating \in BOOLEAN
    /\ simulationInterval \in Intervals \cup {None}
    /\ simulationSpeed \in Speeds
    /\ loading \in BOOLEAN /\ error \in BOOLEAN
    /\ intervals \subseteq Intervals
    /\ blocks = Initial \/ \A i \in DOMAIN blocks : blocks[i].id = i

(* Whatever starts, stops, speed changes and renderings follow each other, *)
(* nothing is left running that the store cannot end (store.ts 91-214):    *)
(* the interval timers that run are the one it would clear, and none when  *)
(* it is not simulating; and the loading flag, shared by overlapping       *)
(* fetches and cleared by the first to arrive, is set only while one of    *)
(* them is under way to clear it.                                          *)
NothingLeftRunning ==
    /\ intervals = {simulationInterval} \ {None}
    /\ isSimulating = (simulationInterval # None)
    /\ loading => \E f \in Fetches : fetch[f] # None
===============================================================================
