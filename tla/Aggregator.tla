----------------------------- MODULE Aggregator -----------------------------
(***************************************************************************)
(* The BLS aggregator of the blueprint (parallel-exec-eigenlayer/src):     *)
(* the operators' job and RPC client (jobs/compute_x_square.rs,            *)
(* api_client.rs, contexts/client.rs), the aggregator's RPC handler        *)
(* and its loop over cached responses (contexts/aggregator.rs), and        *)
(* the job that initialises a task (jobs/initialize_task.rs).              *)
(*                                                                         *)
(* The mutexes are not variables: who holds one follows from the program   *)
(* counters.  The outer mutex is the loop's from "check" to the return of  *)
(* process_response; handlers take it for one step.  The BLS service's is  *)
(* the loop's from "recv" on: the guards of an if let live to its end.     *)
(* response_cache and tasks_responses are only locked under the outer one. *)
(***************************************************************************)
EXTENDS Naturals, FiniteSets, SequencesExt

CONSTANTS
    Tasks,
    Responses,      \* signed task responses
    TaskOf,         \* task_response.referenceTaskIndex
    Digest,         \* keccak256 of the task_response
    SignerOf,       \* operator_id
    Enough,         \* sets of operators that hold a quorum
    Wide,           \* tasks whose threshold percentage may not fit a u8
    MAX_RETRIES

ASSUME AggregatorAssumption ==
    /\ TaskOf \in [Responses -> Tasks]
    /\ \A r, s \in Responses : Digest[r] = Digest[s] => TaskOf[r] = TaskOf[s]
    /\ Wide \subseteq Tasks
    /\ MAX_RETRIES \in Nat \ {0}

Digests == {Digest[r] : r \in Responses}
Operators == {SignerOf[r] : r \in Responses}

(* What the BLS service sends for a task: a digest, or that it expired.    *)
Expired == [kind |-> "expired"]
Aggregated(d) == [kind |-> "aggregated", digest |-> d]
Results == {Expired} \cup {Aggregated(d) : d \in Digests}

VARIABLES
    client,            \* per response: state and attempt of its sender
    is_shutdown, server,
    tasks, initialize, \* keys of tasks; state of the job of each task
    response_cache, tasks_responses,
    pc, batch,         \* of the loop; batch: responses_to_process from here on
    received,          \* the aggregated response the loop is sending
    service,           \* external: state of a task in the BLS service
    signatures,        \* external: <<digest, operator>>, with repetitions
    receiver,          \* aggregated_response_receiver
    failed             \* history: some process_response returned an error

jobVars == <<tasks, initialize>>
loopVars == <<tasks_responses, pc, batch, received, failed>>
serviceVars == <<service, signatures, receiver>>
vars == <<client, is_shutdown, server, jobVars, response_cache, loopVars, serviceVars>>

Init ==
    /\ client = [r \in Responses |-> [state |-> "fetch", attempt |-> 1]]
    /\ is_shutdown = FALSE /\ server = "running"
    /\ tasks = {} /\ initialize = [t \in Tasks |-> "none"]
    /\ response_cache = <<>> /\ tasks_responses = {}
    /\ pc = "tick" /\ batch = <<>> /\ received = Expired
    /\ service = [t \in Tasks |-> "none"]
    /\ signatures = <<>> /\ receiver = <<>>
    /\ failed = FALSE

AggregatorFree == pc \in {"tick", "next", "pop", "ended"}
TasksFree == pc # "sending" /\ \A t \in Tasks : initialize[t] # "service"
ServiceFree == pc \notin {"recv", "send", "sending"}

-----------------------------------------------------------------------------
(* calculate_task: the blocks are fetched and their hash is signed.        *)

CalculateTask(r) ==
    /\ client[r].state = "fetch"
    /\ client' = [client EXCEPT ![r].state = "ready"]
    /\ UNCHANGED <<is_shutdown, server, jobVars, response_cache, loopVars, serviceVars>>

(* The API does not answer in the expected form, or there is no key: the   *)
(* job returns 0.  In the states "accepted" and "gaveUp" it returns 1.     *)
CalculationFails(r) ==
    /\ client[r].state = "fetch"
    /\ client' = [client EXCEPT ![r].state = "failed"]
    /\ UNCHANGED <<is_shutdown, server, jobVars, response_cache, loopVars, serviceVars>>

-----------------------------------------------------------------------------
(* send_signed_task_response                                               *)

MutantRetry(r) ==
    client' = [client EXCEPT ![r] =
        IF @.attempt <= MAX_RETRIES
        THEN [state |-> "ready", attempt |-> @.attempt + 1]
        ELSE [@ EXCEPT !.state = "gaveUp"]]

Retry(r) ==
    client' = [client EXCEPT ![r] =
        IF @.attempt < MAX_RETRIES
        THEN [state |-> "ready", attempt |-> @.attempt + 1]
        ELSE [@ EXCEPT !.state = "gaveUp"]]

Request(r) ==
    /\ client[r].state = "ready"
    /\ IF server = "running"
       THEN client' = [client EXCEPT ![r].state = "waiting"]
       ELSE Retry(r)
    /\ UNCHANGED <<is_shutdown, server, jobVars, response_cache, loopVars, serviceVars>>

(* The connection breaks before the handler has run.                       *)
RequestLost(r) ==
    /\ client[r].state = "waiting"
    /\ Retry(r)
    /\ UNCHANGED <<is_shutdown, server, jobVars, response_cache, loopVars, serviceVars>>

(* process_signed_task_response; its answer may be lost.                   *)
ProcessSignedTaskResponse(r) ==
    /\ client[r].state = "waiting"
    /\ server = "running"
    /\ AggregatorFree
    /\ response_cache' = Append(response_cache, r)
    /\ \/ client' = [client EXCEPT ![r].state = "accepted"]
       \/ Retry(r)
    /\ UNCHANGED <<is_shutdown, server, jobVars, loopVars, serviceVars>>

-----------------------------------------------------------------------------
(* initialize_bls_task: holds tasks while it waits for the service.        *)

InitializeTask(t) ==
    /\ initialize[t] = "none"
    /\ TasksFree
    /\ tasks' = tasks \cup {t}
    /\ initialize' = [initialize EXCEPT ![t] = "service"]
    /\ UNCHANGED <<client, is_shutdown, server, response_cache, loopVars, serviceVars>>

(* The conversion of a wide percentage panics and releases the mutexes.    *)
InitializeNewTask(t) ==
    /\ initialize[t] = "service"
    /\ ServiceFree
    /\ \/ service' = [service EXCEPT ![t] = "open"]
       \/ t \in Wide /\ UNCHANGED service
    /\ initialize' = [initialize EXCEPT ![t] = "done"]
    /\ UNCHANGED <<client, is_shutdown, server, tasks, response_cache, loopVars,
                   signatures, receiver>>

(* The task's timer in the service.                                        *)
Expire(t) ==
    /\ service[t] = "open"
    /\ service' = [service EXCEPT ![t] = "closed"]
    /\ receiver' = Append(receiver, Expired)
    /\ UNCHANGED <<client, is_shutdown, server, jobVars, response_cache, loopVars, signatures>>

-----------------------------------------------------------------------------
(* process_cached_responses                                                *)

MutantTick ==
    /\ pc = "tick"
    /\ batch' = response_cache
    /\ pc' = "next"
    /\ UNCHANGED <<client, is_shutdown, server, jobVars, response_cache, tasks_responses,
                   received, failed, serviceVars>>

Tick ==
    /\ pc = "tick"
    /\ batch' = IF is_shutdown THEN batch ELSE response_cache
    /\ pc' = IF is_shutdown THEN "ended" ELSE "next"
    /\ UNCHANGED <<client, is_shutdown, server, jobVars, response_cache, tasks_responses,
                   received, failed, serviceVars>>

NextResponse ==
    /\ pc = "next"
    /\ pc' = IF batch = <<>> THEN "tick" ELSE "check"
    /\ UNCHANGED <<client, is_shutdown, server, jobVars, response_cache, tasks_responses,
                   batch, received, failed, serviceVars>>

Resp == Head(batch)

MutantCheckForgets ==
    /\ pc = "check"
    /\ TasksFree
    /\ pc' = IF TaskOf[Resp] \notin tasks \/ Digest[Resp] \in tasks_responses
             THEN "pop" ELSE "sign"
    /\ UNCHANGED <<client, is_shutdown, server, jobVars, response_cache, tasks_responses,
                   batch, received, failed, serviceVars>>

(* process_response up to the service.  A response to a task that is not   *)
(* initialised is cached once more and Ok returned; so is Ok for a digest  *)
(* that was seen, whoever signed it.                                       *)
Check ==
    /\ pc = "check"
    /\ TasksFree
    /\ IF TaskOf[Resp] \notin tasks
       THEN /\ response_cache' = Append(response_cache, Resp)
            /\ pc' = "pop"
       ELSE /\ pc' = IF Digest[Resp] \in tasks_responses THEN "pop" ELSE "sign"
            /\ UNCHANGED response_cache
    /\ UNCHANGED <<client, is_shutdown, server, jobVars, tasks_responses, batch, received,
                   failed, serviceVars>>

(* The error is logged; the response stays in the cache.                   *)
ProcessingFails ==
    /\ failed' = TRUE
    /\ batch' = Tail(batch)
    /\ pc' = "next"

SignersOf(d, sigs) == {o \in Operators : <<d, o>> \in ToSet(sigs)}

MutantSignAndForget ==
    /\ pc = "sign"
    /\ ServiceFree
    /\ IF service[TaskOf[Resp]] = "open"
       THEN LET d == Digest[Resp]
                sigs == Append(signatures, <<d, SignerOf[Resp]>>)
                enough == SignersOf(d, sigs) \in Enough
            IN  /\ signatures' = sigs
                /\ receiver' = IF enough THEN Append(receiver, Aggregated(d)) ELSE receiver
                /\ service' = [service EXCEPT ![TaskOf[Resp]] = IF enough THEN "closed" ELSE @]
                /\ pc' = "relock"
                /\ UNCHANGED <<tasks_responses, batch, failed>>
       ELSE ProcessingFails /\ UNCHANGED <<tasks_responses, serviceVars>>
    /\ UNCHANGED <<client, is_shutdown, server, jobVars, response_cache, received>>

(* process_new_signature is refused unless the task is open in the         *)
(* service, which answers once a quorum has signed one digest.             *)
Sign ==
    /\ pc = "sign"
    /\ ServiceFree
    /\ IF service[TaskOf[Resp]] = "open"
       THEN LET d == Digest[Resp]
                sigs == Append(signatures, <<d, SignerOf[Resp]>>)
                enough == SignersOf(d, sigs) \in Enough
            IN  /\ signatures' = sigs
                /\ receiver' = IF enough THEN Append(receiver, Aggregated(d)) ELSE receiver
                /\ service' = [service EXCEPT ![TaskOf[Resp]] = IF enough THEN "closed" ELSE @]
                /\ tasks_responses' = tasks_responses \cup {d}
                /\ pc' = "relock"
                /\ UNCHANGED <<batch, failed>>
       ELSE ProcessingFails /\ UNCHANGED <<tasks_responses, serviceVars>>
    /\ UNCHANGED <<client, is_shutdown, server, jobVars, response_cache, received>>

Relock ==
    /\ pc = "relock"
    /\ ServiceFree
    /\ pc' = "recv"
    /\ UNCHANGED <<client, is_shutdown, server, jobVars, response_cache, tasks_responses,
                   batch, received, failed, serviceVars>>

MutantRecv ==
    /\ pc = "recv"
    /\ receiver # <<>>
    /\ receiver' = Tail(receiver)
    /\ received' = Head(receiver)
    /\ pc' = IF Head(receiver) = Expired THEN "recv" ELSE "send"
    /\ UNCHANGED <<client, is_shutdown, server, jobVars, response_cache, tasks_responses,
                   batch, failed, service, signatures>>

(* recv waits, with both mutexes, for an answer about any task.            *)
Recv ==
    /\ pc = "recv"
    /\ receiver # <<>>
    /\ receiver' = Tail(receiver)
    /\ received' = Head(receiver)
    /\ IF Head(receiver) = Expired
       THEN ProcessingFails
       ELSE pc' = "send" /\ UNCHANGED <<batch, failed>>
    /\ UNCHANGED <<client, is_shutdown, server, jobVars, response_cache, tasks_responses,
                   service, signatures>>

(* send_aggregated_response_to_contract locks tasks ...                    *)
Send ==
    /\ pc = "send"
    /\ TasksFree
    /\ pc' = "sending"
    /\ UNCHANGED <<client, is_shutdown, server, jobVars, response_cache, tasks_responses,
                   batch, received, failed, serviceVars>>

(* ... and waits for send and get_receipt, with all mutexes and without a  *)
(* timeout: nothing but the chain ends this step.                          *)
Sent ==
    /\ pc = "sending"
    /\ \/ pc' = "pop" /\ UNCHANGED <<batch, failed>>
       \/ ProcessingFails
    /\ UNCHANGED <<client, is_shutdown, server, jobVars, response_cache, tasks_responses,
                   received, serviceVars>>

Pop ==
    /\ pc = "pop"
    /\ response_cache' = IF response_cache = <<>> THEN <<>> ELSE Tail(response_cache)
    /\ batch' = Tail(batch)
    /\ pc' = "next"
    /\ UNCHANGED <<client, is_shutdown, server, jobVars, tasks_responses, received, failed,
                   serviceVars>>

-----------------------------------------------------------------------------
Shutdown ==
    /\ ~is_shutdown
    /\ is_shutdown' = TRUE
    /\ UNCHANGED <<client, server, jobVars, response_cache, loopVars, serviceVars>>

(* start_server polls the flag and closes the server.                      *)
CloseServer ==
    /\ is_shutdown
    /\ server = "running"
    /\ server' = "closed"
    /\ UNCHANGED <<client, is_shutdown, jobVars, response_cache, loopVars, serviceVars>>

Loop ==
    \/ Tick \/ NextResponse \/ Check \/ Sign \/ Relock \/ Recv \/ Send \/ Pop

Next ==
    \/ \E r \in Responses : CalculateTask(r) \/ CalculationFails(r)
    \/ \E r \in Responses : Request(r) \/ RequestLost(r) \/ ProcessSignedTaskResponse(r)
    \/ \E t \in Tasks : InitializeTask(t) \/ InitializeNewTask(t) \/ Expire(t)
    \/ Loop \/ Sent \/ Shutdown \/ CloseServer

(* Tokio runs every task that can go on, and its mutexes queue their       *)
(* waiters; the service's timers fire; a closed server's connections end.  *)
(* The chain owes no answer: Sent has no fairness.                         *)
Fairness ==
    /\ WF_vars(Loop)
    /\ WF_vars(CloseServer)
    /\ \A t \in Tasks : WF_vars(InitializeNewTask(t)) /\ WF_vars(Expire(t))
    /\ \A r \in Responses :
          /\ SF_vars(ProcessSignedTaskResponse(r))
          /\ WF_vars(server = "closed" /\ RequestLost(r))

Spec == Init /\ [][Next]_vars /\ Fairness

-----------------------------------------------------------------------------
(* Properties                                                              *)

(* Type invariant of the aggregator's state.                               *)
TypeOK ==
    /\ client \in [Responses -> [state : {"fetch", "failed", "ready", "waiting", "accepted", "gaveUp"},
                                 attempt : 1 .. MAX_RETRIES]]
    /\ is_shutdown \in BOOLEAN /\ server \in {"running", "closed"}
    /\ tasks \subseteq Tasks
    /\ initialize \in [Tasks -> {"none", "service", "done"}]
    /\ response_cache \in Seq(Responses) /\ batch \in Seq(Responses)
    /\ tasks_responses \subseteq Digests
    /\ pc \in {"tick", "next", "check", "sign", "relock", "recv", "send", "sending",
               "pop", "ended"}
    /\ pc \notin {"tick", "next", "ended"} => batch # <<>>
    /\ received \in Results /\ receiver \in Seq(Results)
    /\ service \in [Tasks -> {"none", "open", "closed"}]
    /\ signatures \in Seq(Digests \X Operators)
    /\ failed \in BOOLEAN

(* The answer the loop sends to the contract is about a response and a     *)
(* task that it knows, also when the shared channel delivers that of       *)
(* another task than the loop signed: neither expect of                    *)
(* send_aggregated_response_to_contract panics.                            *)
SentIsKnown ==
    pc \in {"send", "sending"} =>
        /\ received.digest \in tasks_responses
        /\ \E r \in Responses : Digest[r] = received.digest /\ TaskOf[r] \in tasks

(* As long as no processing failed, a response whose sender was told that  *)
(* it is accepted is in the cache or its digest has gone to the service,   *)
(* although every pop_front takes whatever is first in a cache that was    *)
(* rotated and appended to since the loop copied it.                       *)
AcceptedIsAccounted ==
    ~failed =>
        \A r \in Responses :
            client[r].state = "accepted" =>
                r \in ToSet(response_cache) \/ Digest[r] \in tasks_responses

(* The blueprint's README: it "aggregates BLS signatures before submitting *)
(* onchain".  A response the loop is done with, while the service collects *)
(* signatures for its task, has given its signature to the service.        *)
SignaturesAggregated ==
    [][(pc = "check" /\ pc' = "pop" /\ service[TaskOf[Resp]] = "open")
          => <<Digest[Resp], SignerOf[Resp]>> \in ToSet(signatures)]_vars

(* Two ways in which the code hangs for good, with the outer mutex held.   *)
(* The chain never answers a response that was sent to it; or the loop     *)
(* waits for the mutex of tasks and holds the service's, while the job of  *)
(* a task waits for the service's and holds that of tasks.                 *)
ChainAnswers == []<>(pc # "sending")
Crossed == pc = "send" /\ \E t \in Tasks : initialize[t] = "service"
NeverCrossed == []~Crossed

(* If the chain answers and the mutexes do not cross, an RPC request is    *)
(* answered, though the loop keeps the outer mutex while it waits for the  *)
(* service, which may lack a quorum: the task's timer ends the wait.       *)
RequestAnswered ==
    ChainAnswers /\ NeverCrossed =>
        \A r \in Responses : client[r].state = "waiting" ~> client[r].state # "waiting"

(* Under the same two conditions the loop ends after shutdown.             *)
ShutdownEnds ==
    ChainAnswers /\ NeverCrossed => (is_shutdown ~> pc = "ended")

(* The comment in process_cached_responses: "Only remove from cache if     *)
(* processing succeeded": a response that leaves the cache is the one that *)
(* was processed just now.                                                 *)
RemovedOnlyIfProcessed ==
    [][\A r \in Responses :
          r \in ToSet(response_cache) /\ r \notin ToSet(response_cache)' =>
              r = Head(batch)]_vars
=============================================================================
