-------------------------- MODULE TaskManagerProofs --------------------------
(***************************************************************************)
(* Proofs about TaskManager, for all operators, quorums, stakes,           *)
(* percentages and windows.                                                *)
(***************************************************************************)
EXTENDS TaskManager, RecursionFacts, TLAPS

(* Tasks are stored under the numbers given out so far, so that a new one  *)
(* takes the place of none; none was created in a block to come.           *)
TasksNumbered ==
    \A i \in Indices :
        /\ allTaskHashes[i] # None => i < latestTaskNum
        /\ allTaskHashes[i] # None => allTaskHashes[i].taskCreatedBlock <= number

(* The inductive invariant.                                                *)
Inv == TypeOK /\ TasksNumbered /\ RespondedInTime /\ ResponseBacked

-----------------------------------------------------------------------------
(* Type correctness                                                        *)

LEMMA TypeInit == Init => TypeOK
  BY TaskManagerAssumption DEF Init, TypeOK, Blocks, Indices

LEMMA TypeNext ==
    ASSUME TypeOK, [Next]_vars
    PROVE  TypeOK'
  <1> USE TaskManagerAssumption
  <1>1. CASE NewBlock
    BY <1>1 DEF TypeOK, NewBlock, Blocks, contractVars
  <1>2. ASSUME NEW o \in Operators, NEW response \in TaskResponse, Sign(o, response)
        PROVE  TypeOK'
    BY <1>2 DEF TypeOK, Sign, contractVars
  <1>3. ASSUME NEW sender \in Senders, NEW p \in Thresholds, NEW qs \in SUBSET Quorums,
               CreateNewTask(sender, p, qs)
        PROVE  TypeOK'
    BY <1>3 DEF TypeOK, CreateNewTask, Task, Indices
  <1>4. ASSUME NEW sender \in Senders, NEW task \in Task, NEW response \in TaskResponse,
               NEW nonSigners \in SUBSET Operators,
               RespondToTask(sender, task, response, nonSigners)
        PROVE  TypeOK'
    BY <1>4 DEF TypeOK, RespondToTask, Task, TaskResponse, TaskResponseMetadata
  <1>5. ASSUME NEW task \in Task, NEW response \in TaskResponse,
               NEW nonSigners \in SUBSET Operators,
               RaiseAndResolveChallenge(task, response, nonSigners)
        PROVE  TypeOK'
    BY <1>5 DEF TypeOK, RaiseAndResolveChallenge, TaskResponse
  <1>6. CASE UNCHANGED vars
    BY <1>6 DEF TypeOK, vars, contractVars
  <1> QED
    BY <1>1, <1>2, <1>3, <1>4, <1>5, <1>6 DEF Next

(* The contract's storage keeps its shape, and a response is stored under  *)
(* the index it refers to.                                                 *)
THEOREM TypeCorrect == Spec => []TypeOK
  BY TypeInit, TypeNext, PTL DEF Spec

-----------------------------------------------------------------------------
(* Responses in time                                                       *)

LEMMA InTimeInit == Init => TasksNumbered /\ RespondedInTime
  BY DEF Init, TasksNumbered, RespondedInTime, Responded

LEMMA InTimeNext ==
    ASSUME TypeOK, TasksNumbered, RespondedInTime, [Next]_vars
    PROVE  TasksNumbered' /\ RespondedInTime'
  <1> USE TaskManagerAssumption DEF TasksNumbered, RespondedInTime, Responded
  <1>1. CASE NewBlock
    BY <1>1 DEF TypeOK, NewBlock, Blocks, contractVars, Task
  <1>2. ASSUME NEW o \in Operators, NEW response \in TaskResponse, Sign(o, response)
        PROVE  TasksNumbered' /\ RespondedInTime'
    BY <1>2 DEF Sign, contractVars
  <1>3. ASSUME NEW sender \in Senders, NEW p \in Thresholds, NEW qs \in SUBSET Quorums,
               CreateNewTask(sender, p, qs)
        PROVE  TasksNumbered' /\ RespondedInTime'
    <2>1. \A i \in Indices : i # latestTaskNum => allTaskHashes'[i] = allTaskHashes[i]
      BY <1>3 DEF CreateNewTask, TypeOK
    <2>2. latestTaskNum \notin Responded /\ latestTaskNum \in Indices
      BY <1>3 DEF CreateNewTask, TypeOK, Indices
    <2>3. allTaskHashes'[latestTaskNum].taskCreatedBlock = number
      BY <1>3, <2>2 DEF CreateNewTask, TypeOK
    <2>4. TasksNumbered'
      BY <1>3, <2>1, <2>2, <2>3 DEF CreateNewTask, TypeOK, Indices, Blocks
    <2>5. RespondedInTime'
      BY <1>3, <2>1, <2>2 DEF CreateNewTask
    <2> QED
      BY <2>4, <2>5
  <1>4. ASSUME NEW sender \in Senders, NEW task \in Task, NEW response \in TaskResponse,
               NEW nonSigners \in SUBSET Operators,
               RespondToTask(sender, task, response, nonSigners)
        PROVE  TasksNumbered' /\ RespondedInTime'
    <2> DEFINE i == response.referenceTaskIndex
    <2>1. /\ i \in Indices /\ allTaskHashes[i] = task /\ task # None
          /\ task.taskCreatedBlock < number
          /\ number <= task.taskCreatedBlock + TASK_RESPONSE_WINDOW_BLOCK
      BY <1>4 DEF RespondToTask, CheckSignatures, TaskResponse
    <2>2. allTaskResponses'[i][2].taskResponsedBlock = number
      BY <1>4, <2>1 DEF RespondToTask, TypeOK
    <2>3. \A j \in Indices : j # i => allTaskResponses'[j] = allTaskResponses[j]
      BY <1>4 DEF RespondToTask, TypeOK
    <2>4. UNCHANGED <<number, latestTaskNum, allTaskHashes>>
      BY <1>4 DEF RespondToTask
    <2> QED
      BY <2>1, <2>2, <2>3, <2>4
  <1>5. ASSUME NEW task \in Task, NEW response \in TaskResponse,
               NEW nonSigners \in SUBSET Operators,
               RaiseAndResolveChallenge(task, response, nonSigners)
        PROVE  TasksNumbered' /\ RespondedInTime'
    BY <1>5 DEF RaiseAndResolveChallenge
  <1>6. CASE UNCHANGED vars
    BY <1>6 DEF vars, contractVars
  <1> QED
    BY <1>1, <1>2, <1>3, <1>4, <1>5, <1>6 DEF Next

(* respondToTask records a response only after the block of its task and   *)
(* before the response window closes.                                      *)
THEOREM RespondsInTime == Spec => []RespondedInTime
  <1>1. TypeOK /\ TasksNumbered /\ RespondedInTime /\ [Next]_vars
            => TasksNumbered' /\ RespondedInTime'
    BY InTimeNext
  <1> QED
    BY <1>1, TypeCorrect, InTimeInit, PTL DEF Spec

-----------------------------------------------------------------------------
(* Stake behind a response                                                 *)

(* The stake of operators in a quorum of the registry at a block.          *)
LEMMA StakeGrows ==
    ASSUME NEW q \in Quorums, NEW b \in Blocks, NEW B \in SUBSET Operators,
           NEW A \in SUBSET B
    PROVE  /\ StakeOf(q, b, A) \in Nat /\ StakeOf(q, b, B) \in Nat
           /\ StakeOf(q, b, A) <= StakeOf(q, b, B)
  <1>1. StakeAt[b][q] \in [Operators -> Nat]
    BY TaskManagerAssumption
  <1>2. IsFiniteSet(A) /\ IsFiniteSet(B)
    BY TaskManagerAssumption, FS_Subset
  <1> QED
    BY <1>1, <1>2, SumIsNatural, SumGrows DEF StakeOf

(* The signers of a response, as ResponseBacked counts them.               *)
Signers(response) == {o \in Operators : response \in signed[o]}

(* ResponseBacked for one task.                                            *)
Backed(i) ==
    LET task == allTaskHashes[i]
    IN  task # None /\ task.quorumThresholdPercentage < 256 =>
            \A q \in task.quorumNumbers :
                StakeOf(q, task.taskCreatedBlock, Signers(allTaskResponses[i][1])) * 100
                    >= StakeOf(q, task.taskCreatedBlock, Operators)
                           * task.quorumThresholdPercentage

LEMMA BackedInit == Init => ResponseBacked
  BY DEF Init, ResponseBacked, Responded

(* More signatures do not hurt.                                            *)
LEMMA MoreSigners ==
    ASSUME TypeOK, TypeOK', NEW i \in Indices, allTaskResponses[i] # None, Backed(i),
           allTaskHashes'[i] = allTaskHashes[i],
           allTaskResponses'[i] = allTaskResponses[i],
           \A o \in Operators : signed[o] \subseteq signed'[o]
    PROVE  Backed(i)'
  <1> DEFINE task == allTaskHashes[i]
             response == allTaskResponses[i][1]
  <1> SUFFICES ASSUME task # None, task.quorumThresholdPercentage < 256,
                      NEW q \in task.quorumNumbers
               PROVE  StakeOf(q, task.taskCreatedBlock, Signers(response)') * 100
                          >= StakeOf(q, task.taskCreatedBlock, Operators)
                                 * task.quorumThresholdPercentage
    BY DEF Backed, Signers
  <1>1. task \in Task
    BY DEF TypeOK
  <1>2. Signers(response) \subseteq Signers(response)' /\ Signers(response)' \subseteq Operators
    BY DEF Signers
  <1>3. /\ StakeOf(q, task.taskCreatedBlock, Signers(response)) \in Nat
        /\ StakeOf(q, task.taskCreatedBlock, Signers(response)') \in Nat
        /\ StakeOf(q, task.taskCreatedBlock, Operators) \in Nat
        /\ StakeOf(q, task.taskCreatedBlock, Signers(response))
               <= StakeOf(q, task.taskCreatedBlock, Signers(response)')
    BY <1>1, <1>2, StakeGrows DEF Task
  <1>4. StakeOf(q, task.taskCreatedBlock, Signers(response)) * 100
            >= StakeOf(q, task.taskCreatedBlock, Operators) * task.quorumThresholdPercentage
    BY DEF Backed
  <1>5. task.quorumThresholdPercentage \in Nat
    BY <1>1, TaskManagerAssumption DEF Task
  <1>6. StakeOf(q, task.taskCreatedBlock, Operators) * task.quorumThresholdPercentage \in Nat
    BY <1>3, <1>5
  <1> HIDE DEF task, response
  <1> QED
    BY <1>3, <1>4, <1>6

(* What respondToTask has just recorded is backed: the check it makes is   *)
(* about operators that signed.                                            *)
LEMMA RecordedIsBacked ==
    ASSUME TypeOK, TypeOK', NEW sender \in Senders, NEW task \in Task,
           NEW response \in TaskResponse, NEW nonSigners \in SUBSET Operators,
           RespondToTask(sender, task, response, nonSigners)
    PROVE  Backed(response.referenceTaskIndex)'
  <1> DEFINE i == response.referenceTaskIndex
             b == task.taskCreatedBlock
             p == task.quorumThresholdPercentage
  <1>1. /\ i \in Indices /\ allTaskHashes'[i] = task /\ allTaskResponses'[i][1] = response
        /\ signed' = signed
    BY DEF RespondToTask, TypeOK, TaskResponse
  <1>2. b \in Blocks /\ p \in Nat
    BY TaskManagerAssumption DEF Task
  <1> SUFFICES ASSUME p < 256, NEW q \in task.quorumNumbers
               PROVE  StakeOf(q, b, Signers(response)) * 100 >= StakeOf(q, b, Operators) * p
    BY <1>1 DEF Backed, Signers
  <1>3. q \in Quorums
    BY DEF Task
  <1>4. StakeOf(q, b, Operators \ nonSigners) * 100 >= StakeOf(q, b, Operators) * (p % 256)
    BY DEF RespondToTask, ThresholdMet
  <1>5. p % 256 = p
    BY <1>2
  <1>6. Operators \ nonSigners \subseteq Signers(response) /\ Signers(response) \subseteq Operators
    BY DEF RespondToTask, CheckSignatures, Signers
  <1> HIDE DEF i, b, p
  <1>7. /\ StakeOf(q, b, Operators \ nonSigners) \in Nat
        /\ StakeOf(q, b, Signers(response)) \in Nat
        /\ StakeOf(q, b, Operators) \in Nat
        /\ StakeOf(q, b, Operators \ nonSigners) <= StakeOf(q, b, Signers(response))
    BY <1>2, <1>3, <1>6, StakeGrows
  <1>8. StakeOf(q, b, Operators) * p \in Nat
    BY <1>2, <1>7
  <1> QED
    BY <1>4, <1>5, <1>7, <1>8

LEMMA BackedNext ==
    ASSUME TypeOK, TypeOK', TasksNumbered, RespondedInTime, ResponseBacked, [Next]_vars
    PROVE  ResponseBacked'
  <1>1. \A i \in Responded : Backed(i)
    BY DEF ResponseBacked, Backed, Signers
  <1> SUFFICES ASSUME NEW i \in Indices, allTaskResponses'[i] # None
               PROVE  Backed(i)'
    BY DEF ResponseBacked, Backed, Signers, Responded
  <1>2. ASSUME allTaskResponses'[i] = allTaskResponses[i],
               allTaskHashes'[i] = allTaskHashes[i],
               \A o \in Operators : signed[o] \subseteq signed'[o]
        PROVE  Backed(i)'
    <2>1. Backed(i)
      BY <1>1, <1>2 DEF Responded
    <2> QED
      BY <1>2, <2>1, MoreSigners
  <1>3. CASE NewBlock
    BY <1>2, <1>3 DEF NewBlock, contractVars
  <1>4. ASSUME NEW o \in Operators, NEW response \in TaskResponse, Sign(o, response)
        PROVE  Backed(i)'
    <2>1. \A oo \in Operators : signed[oo] \subseteq signed'[oo]
      BY <1>4 DEF Sign, TypeOK
    <2> QED
      BY <1>2, <1>4, <2>1 DEF Sign, contractVars
  <1>5. ASSUME NEW sender \in Senders, NEW p \in Thresholds, NEW qs \in SUBSET Quorums,
               CreateNewTask(sender, p, qs)
        PROVE  Backed(i)'
    <2>1. i # latestTaskNum
      BY <1>5 DEF CreateNewTask, RespondedInTime, Responded, TasksNumbered, TypeOK
    <2> QED
      BY <1>2, <1>5, <2>1 DEF CreateNewTask, TypeOK
  <1>6. ASSUME NEW sender \in Senders, NEW task \in Task, NEW response \in TaskResponse,
               NEW nonSigners \in SUBSET Operators,
               RespondToTask(sender, task, response, nonSigners)
        PROVE  Backed(i)'
    <2>1. CASE i = response.referenceTaskIndex
      BY <1>6, <2>1, RecordedIsBacked
    <2>2. CASE i # response.referenceTaskIndex
      BY <1>2, <1>6, <2>2 DEF RespondToTask, TypeOK
    <2> QED
      BY <2>1, <2>2
  <1>7. ASSUME NEW task \in Task, NEW response \in TaskResponse,
               NEW nonSigners \in SUBSET Operators,
               RaiseAndResolveChallenge(task, response, nonSigners)
        PROVE  Backed(i)'
    BY <1>2, <1>7 DEF RaiseAndResolveChallenge
  <1>8. CASE UNCHANGED vars
    BY <1>2, <1>8 DEF vars, contractVars
  <1> QED
    BY <1>3, <1>4, <1>5, <1>6, <1>7, <1>8 DEF Next

(* Whatever stakes become after the task was created, a response that the  *)
(* contract records is signed by the stake of that block which the task    *)
(* asks for.                                                               *)
THEOREM ResponsesAreBacked == Spec => []ResponseBacked
  <1>1. Init => Inv
    BY TypeInit, InTimeInit, BackedInit DEF Inv
  <1>2. Inv /\ [Next]_vars => Inv'
    BY TypeNext, InTimeNext, BackedNext DEF Inv
  <1>3. Inv => ResponseBacked
    BY DEF Inv
  <1> QED
    BY <1>1, <1>2, <1>3, PTL DEF Spec

-----------------------------------------------------------------------------
(* Finality                                                                *)

(* What ResponsesFinal says of one step.                                   *)
FinalStep ==
    \A i \in Indices :
        /\ allTaskResponses[i] # None =>
              allTaskResponses'[i] = allTaskResponses[i]
                  /\ allTaskHashes'[i] = allTaskHashes[i]
        /\ taskSuccesfullyChallenged[i] => taskSuccesfullyChallenged'[i]
        /\ ~taskSuccesfullyChallenged[i] /\ taskSuccesfullyChallenged'[i] =>
              /\ i \in Responded
              /\ number <= allTaskResponses[i][2].taskResponsedBlock
                               + TASK_CHALLENGE_WINDOW_BLOCK

LEMMA StepIsFinal ==
    ASSUME TypeOK, TasksNumbered, RespondedInTime, [Next]_vars
    PROVE  FinalStep
  <1> USE DEF FinalStep, Responded
  <1>1. CASE NewBlock
    BY <1>1 DEF NewBlock, contractVars
  <1>2. ASSUME NEW o \in Operators, NEW response \in TaskResponse, Sign(o, response)
        PROVE  FinalStep
    BY <1>2 DEF Sign, contractVars
  <1>3. ASSUME NEW sender \in Senders, NEW p \in Thresholds, NEW qs \in SUBSET Quorums,
               CreateNewTask(sender, p, qs)
        PROVE  FinalStep
    <2>1. \A i \in Responded : i # latestTaskNum
      BY <1>3 DEF RespondedInTime, TasksNumbered, TypeOK
    <2> QED
      BY <1>3, <2>1 DEF CreateNewTask, TypeOK
  <1>4. ASSUME NEW sender \in Senders, NEW task \in Task, NEW response \in TaskResponse,
               NEW nonSigners \in SUBSET Operators,
               RespondToTask(sender, task, response, nonSigners)
        PROVE  FinalStep
    BY <1>4 DEF RespondToTask, TypeOK
  <1>5. ASSUME NEW task \in Task, NEW response \in TaskResponse,
               NEW nonSigners \in SUBSET Operators,
               RaiseAndResolveChallenge(task, response, nonSigners)
        PROVE  FinalStep
    BY <1>5 DEF RaiseAndResolveChallenge, TypeOK, TaskResponse
  <1>6. CASE UNCHANGED vars
    BY <1>6 DEF vars, contractVars
  <1> QED
    BY <1>1, <1>2, <1>3, <1>4, <1>5, <1>6 DEF Next

(* No later call changes a recorded response, its task or a successful     *)
(* challenge, and challenges succeed only within their window.             *)
THEOREM RecordsAreFinal == Spec => ResponsesFinal
  <1>1. TypeOK /\ TasksNumbered /\ RespondedInTime /\ [Next]_vars
            => TasksNumbered' /\ RespondedInTime'
    BY InTimeNext
  <1>2. TypeOK /\ TasksNumbered /\ RespondedInTime /\ [Next]_vars => [FinalStep]_vars
    BY StepIsFinal
  <1>3. Spec => [][FinalStep]_vars
    BY <1>1, <1>2, TypeCorrect, InTimeInit, PTL DEF Spec
  <1> QED
    BY <1>3 DEF ResponsesFinal, FinalStep
==============================================================================
