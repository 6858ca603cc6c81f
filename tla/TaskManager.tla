----------------------------- MODULE TaskManager -----------------------------
(***************************************************************************)
(* The contract IncredibleSquaringTaskManager                              *)
(* (blueprint/parallel-exec-eigenlayer/contracts/src).  The generator      *)
(* creates tasks, the aggregator records the one response of a task that   *)
(* enough stake has signed, anyone may challenge a recorded response.      *)
(*                                                                         *)
(* A hash stands for what it is the hash of.  Calls that revert change     *)
(* nothing and are left out.  The constructor and initialize ran before    *)
(* Init; pausing and ownership are never consulted.                        *)
(***************************************************************************)
EXTENDS Naturals, FiniteSets, Functions

CONSTANTS
    Senders, aggregator, generator,
    Operators, Quorums,
    Thresholds,        \* values of quorumThresholdPercentage, a uint32
    Results,           \* values of resultHash
    None,              \* bytes32(0)
    StakeAt,           \* StakeAt[b][q][o]: stake of o in quorum q at block b
    TASK_RESPONSE_WINDOW_BLOCK, TASK_CHALLENGE_WINDOW_BLOCK,
    MaxTasks,          \* bound: tasks created
    MaxBlock           \* bound: block number

Blocks == 0 .. MaxBlock
Indices == 0 .. MaxTasks - 1

Task == [taskCreatedBlock : Blocks, quorumThresholdPercentage : Thresholds,
         quorumNumbers : SUBSET Quorums]
TaskResponse == [referenceTaskIndex : Indices, resultHash : Results]
TaskResponseMetadata ==
    [taskResponsedBlock : Blocks, hashOfNonSigners : Blocks \X SUBSET Operators]

ASSUME TaskManagerAssumption ==
    /\ aggregator \in Senders /\ generator \in Senders
    /\ IsFiniteSet(Operators)
    /\ Thresholds \subseteq Nat
    /\ MaxTasks \in Nat /\ MaxBlock \in Nat
    /\ StakeAt \in [Blocks -> [Quorums -> [Operators -> Nat]]]
    /\ TASK_RESPONSE_WINDOW_BLOCK \in Nat /\ TASK_CHALLENGE_WINDOW_BLOCK \in Nat
    /\ None \notin Task /\ None \notin TaskResponse \X TaskResponseMetadata

VARIABLES
    number,          \* block.number
    signed,          \* external: signed[o], the responses o has signed
    latestTaskNum, allTaskHashes, allTaskResponses, taskSuccesfullyChallenged

contractVars == <<latestTaskNum, allTaskHashes, allTaskResponses, taskSuccesfullyChallenged>>
vars == <<number, signed, contractVars>>

Init ==
    /\ number = 0
    /\ signed = [o \in Operators |-> {}]
    /\ latestTaskNum = 0
    /\ allTaskHashes = [i \in Indices |-> None]
    /\ allTaskResponses = [i \in Indices |-> None]
    /\ taskSuccesfullyChallenged = [i \in Indices |-> FALSE]

-----------------------------------------------------------------------------
(* The chain and the operators.                                            *)

NewBlock ==
    /\ number < MaxBlock
    /\ number' = number + 1
    /\ UNCHANGED <<signed, contractVars>>

(* calculate_task: an operator answers a NewTaskCreated event once.        *)
Sign(o, response) ==
    /\ response.referenceTaskIndex < latestTaskNum
    /\ \A other \in signed[o] : other.referenceTaskIndex # response.referenceTaskIndex
    /\ signed' = [signed EXCEPT ![o] = @ \cup {response}]
    /\ UNCHANGED <<number, contractVars>>

-----------------------------------------------------------------------------
CreateNewTask(sender, quorumThresholdPercentage, quorumNumbers) ==
    /\ sender = generator
    /\ latestTaskNum < MaxTasks
    /\ allTaskHashes' = [allTaskHashes EXCEPT ![latestTaskNum] =
           [taskCreatedBlock |-> number,
            quorumThresholdPercentage |-> quorumThresholdPercentage,
            quorumNumbers |-> quorumNumbers]]
    /\ latestTaskNum' = latestTaskNum + 1
    /\ UNCHANGED <<number, signed, allTaskResponses, taskSuccesfullyChallenged>>

StakeOf(q, block, operators) == SumFunctionOnSet(StakeAt[block][q], operators)

(* BLSSignatureChecker.checkSignatures accepts the aggregate of exactly    *)
(* the operators that are not listed as non-signers, all of whom signed    *)
(* the message, for a reference block of the past.                         *)
CheckSignatures(message, quorumNumbers, referenceBlock, nonSigners) ==
    /\ quorumNumbers # {}
    /\ referenceBlock < number
    /\ \A o \in Operators \ nonSigners : message \in signed[o]

MutantThresholdMet(quorumThresholdPercentage, q, block, nonSigners) ==
    StakeOf(q, number, Operators \ nonSigners) * 100
        >= StakeOf(q, number, Operators) * (quorumThresholdPercentage % 256)

(* _THRESHOLD_DENOMINATOR is 100; the percentage is cut to a uint8.        *)
ThresholdMet(quorumThresholdPercentage, q, block, nonSigners) ==
    StakeOf(q, block, Operators \ nonSigners) * 100
        >= StakeOf(q, block, Operators) * (quorumThresholdPercentage % 256)

MutantRespondLate(sender, task, response, nonSigners) ==
    LET i == response.referenceTaskIndex
    IN  /\ sender = aggregator
        /\ task = allTaskHashes[i]
        /\ allTaskResponses[i] = None
        /\ CheckSignatures(response, task.quorumNumbers, task.taskCreatedBlock, nonSigners)
        /\ \A q \in task.quorumNumbers :
              ThresholdMet(task.quorumThresholdPercentage, q, task.taskCreatedBlock, nonSigners)
        /\ allTaskResponses' = [allTaskResponses EXCEPT ![i] =
               <<response, [taskResponsedBlock |-> number,
                            hashOfNonSigners |-> <<task.taskCreatedBlock, nonSigners>>]>>]
        /\ UNCHANGED <<number, signed, latestTaskNum, allTaskHashes, taskSuccesfullyChallenged>>

MutantRespondToLatest(sender, task, response, nonSigners) ==
    LET i == response.referenceTaskIndex
    IN  /\ sender = aggregator
        /\ task = allTaskHashes[i]
        /\ allTaskResponses[i] = None
        /\ number <= task.taskCreatedBlock + TASK_RESPONSE_WINDOW_BLOCK
        /\ CheckSignatures(response, task.quorumNumbers, task.taskCreatedBlock, nonSigners)
        /\ \A q \in task.quorumNumbers :
              ThresholdMet(task.quorumThresholdPercentage, q, task.taskCreatedBlock, nonSigners)
        /\ allTaskResponses' = [allTaskResponses EXCEPT ![latestTaskNum - 1] =
               <<response, [taskResponsedBlock |-> number,
                            hashOfNonSigners |-> <<task.taskCreatedBlock, nonSigners>>]>>]
        /\ UNCHANGED <<number, signed, latestTaskNum, allTaskHashes, taskSuccesfullyChallenged>>

RespondToTask(sender, task, response, nonSigners) ==
    LET i == response.referenceTaskIndex
    IN  /\ sender = aggregator
        /\ task = allTaskHashes[i]
        /\ allTaskResponses[i] = None
        /\ number <= task.taskCreatedBlock + TASK_RESPONSE_WINDOW_BLOCK
        /\ CheckSignatures(response, task.quorumNumbers, task.taskCreatedBlock, nonSigners)
        /\ \A q \in task.quorumNumbers :
              ThresholdMet(task.quorumThresholdPercentage, q, task.taskCreatedBlock, nonSigners)
        /\ allTaskResponses' = [allTaskResponses EXCEPT ![i] =
               <<response, [taskResponsedBlock |-> number,
                            hashOfNonSigners |-> <<task.taskCreatedBlock, nonSigners>>]>>]
        /\ UNCHANGED <<number, signed, latestTaskNum, allTaskHashes, taskSuccesfullyChallenged>>

MutantChallengeLate(task, response, nonSigners) ==
    LET i == response.referenceTaskIndex
        metadata == allTaskResponses[i][2]
    IN  /\ allTaskResponses[i] # None
        /\ response = allTaskResponses[i][1]
        /\ taskSuccesfullyChallenged[i] = FALSE
        /\ <<task.taskCreatedBlock, nonSigners>> = metadata.hashOfNonSigners
        /\ taskSuccesfullyChallenged' = [taskSuccesfullyChallenged EXCEPT ![i] = TRUE]
        /\ UNCHANGED <<number, signed, latestTaskNum, allTaskHashes, allTaskResponses>>

(* The caller supplies the recorded metadata: any other reverts.  Of the   *)
(* task only the block it was created at is looked at.  What the response  *)
(* says is not.                                                            *)
RaiseAndResolveChallenge(task, response, nonSigners) ==
    LET i == response.referenceTaskIndex
        metadata == allTaskResponses[i][2]
    IN  /\ allTaskResponses[i] # None
        /\ response = allTaskResponses[i][1]
        /\ taskSuccesfullyChallenged[i] = FALSE
        /\ number <= metadata.taskResponsedBlock + TASK_CHALLENGE_WINDOW_BLOCK
        /\ <<task.taskCreatedBlock, nonSigners>> = metadata.hashOfNonSigners
        /\ taskSuccesfullyChallenged' = [taskSuccesfullyChallenged EXCEPT ![i] = TRUE]
        /\ UNCHANGED <<number, signed, latestTaskNum, allTaskHashes, allTaskResponses>>

Next ==
    \/ NewBlock
    \/ \E o \in Operators, response \in TaskResponse : Sign(o, response)
    \/ \E sender \in Senders, p \in Thresholds, qs \in SUBSET Quorums :
          CreateNewTask(sender, p, qs)
    \/ \E sender \in Senders, task \in Task, response \in TaskResponse,
          nonSigners \in SUBSET Operators :
          RespondToTask(sender, task, response, nonSigners)
    \/ \E task \in Task, response \in TaskResponse, nonSigners \in SUBSET Operators :
          RaiseAndResolveChallenge(task, response, nonSigners)

Spec == Init /\ [][Next]_vars

-----------------------------------------------------------------------------
(* Properties                                                              *)

(* Type invariant: the contract's storage; a response is stored under the  *)
(* index it refers to.                                                     *)
TypeOK ==
    /\ number \in Blocks
    /\ signed \in [Operators -> SUBSET TaskResponse]
    /\ latestTaskNum \in 0 .. MaxTasks
    /\ allTaskHashes \in [Indices -> Task \cup {None}]
    /\ allTaskResponses \in [Indices -> (TaskResponse \X TaskResponseMetadata) \cup {None}]
    /\ \A i \in Indices : allTaskResponses[i] # None =>
          allTaskResponses[i][1].referenceTaskIndex = i
    /\ taskSuccesfullyChallenged \in [Indices -> BOOLEAN]

Responded == {i \in Indices : allTaskResponses[i] # None}

(* The operators that signed a recorded response held, in every quorum of  *)
(* the task and at the block it was created, the percentage of the stake   *)
(* that the task asks for (of percentages that a uint8 holds), whatever    *)
(* the stakes became before the response was sent.                         *)
ResponseBacked ==
    \A i \in Responded :
        LET task == allTaskHashes[i]
            response == allTaskResponses[i][1]
            signers == {o \in Operators : response \in signed[o]}
        IN  task # None /\ task.quorumThresholdPercentage < 256 =>
                \A q \in task.quorumNumbers :
                    StakeOf(q, task.taskCreatedBlock, signers) * 100
                        >= StakeOf(q, task.taskCreatedBlock, Operators)
                               * task.quorumThresholdPercentage

(* A response is recorded after the block of its task, whose stakes it is  *)
(* checked against, and before the response window closes.                 *)
RespondedInTime ==
    \A i \in Responded :
        /\ allTaskHashes[i] # None
        /\ LET created == allTaskHashes[i].taskCreatedBlock
               responded == allTaskResponses[i][2].taskResponsedBlock
           IN  created < responded /\ responded <= created + TASK_RESPONSE_WINDOW_BLOCK

(* Once recorded, a response, its task and a successful challenge are      *)
(* final, and a response is challenged only within the challenge window.   *)
ResponsesFinal ==
    [][\A i \in Indices :
          /\ allTaskResponses[i] # None =>
                allTaskResponses'[i] = allTaskResponses[i]
                    /\ allTaskHashes'[i] = allTaskHashes[i]
          /\ taskSuccesfullyChallenged[i] => taskSuccesfullyChallenged'[i]
          /\ ~taskSuccesfullyChallenged[i] /\ taskSuccesfullyChallenged'[i] =>
                /\ i \in Responded
                /\ number <= allTaskResponses[i][2].taskResponsedBlock
                                 + TASK_CHALLENGE_WINDOW_BLOCK]_vars
=============================================================================
