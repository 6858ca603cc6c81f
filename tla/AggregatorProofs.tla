-------------------------- MODULE AggregatorProofs --------------------------
(***************************************************************************)
(* Proofs about Aggregator, for all responses, tasks, quorums and retries. *)
(***************************************************************************)
EXTENDS Aggregator, SequenceTheorems, TLAPS

-----------------------------------------------------------------------------
(* Type correctness                                                        *)

Client == [state : {"fetch", "failed", "ready", "waiting", "accepted", "gaveUp"},
           attempt : 1 .. MAX_RETRIES]

LEMMA TypeInit == Init => TypeOK
  <1> SUFFICES ASSUME Init PROVE TypeOK
    OBVIOUS
  <1>1. [state |-> "fetch", attempt |-> 1] \in Client
    BY AggregatorAssumption DEF Client
  <1>2. client \in [Responses -> Client]
    BY <1>1 DEF Init
  <1>3. received \in Results /\ receiver \in Seq(Results)
    BY DEF Init, Results
  <1>4. is_shutdown \in BOOLEAN /\ failed \in BOOLEAN
    BY Zenon DEF Init
  <1>5. /\ server \in {"running", "closed"} /\ tasks \subseteq Tasks
        /\ initialize \in [Tasks -> {"none", "service", "done"}]
        /\ service \in [Tasks -> {"none", "open", "closed"}]
    BY DEF Init
  <1>6. /\ response_cache \in Seq(Responses) /\ batch \in Seq(Responses)
        /\ tasks_responses \subseteq Digests /\ pc = "tick"
        /\ signatures \in Seq(Digests \X Operators)
    BY DEF Init
  <1> QED
    BY <1>2, <1>3, <1>4, <1>5, <1>6 DEF TypeOK, Client

LEMMA RetryType ==
    ASSUME TypeOK, NEW r \in Responses, Retry(r)
    PROVE  client' \in [Responses -> Client]
  <1> DEFINE c == client[r]
             d == IF c.attempt < MAX_RETRIES
                  THEN [state |-> "ready", attempt |-> c.attempt + 1]
                  ELSE [c EXCEPT !.state = "gaveUp"]
  <1>1. client \in [Responses -> Client] /\ c \in Client
    BY DEF TypeOK, Client
  <1>2. d \in Client
    BY <1>1, AggregatorAssumption DEF Client
  <1>3. client' = [client EXCEPT ![r] = d]
    BY DEF Retry
  <1> HIDE DEF c, d
  <1> QED
    BY <1>1, <1>2, <1>3

LEMMA ClientStateType ==
    ASSUME TypeOK, NEW r \in Responses,
           NEW s \in {"fetch", "failed", "ready", "waiting", "accepted", "gaveUp"},
           client' = [client EXCEPT ![r].state = s]
    PROVE  client' \in [Responses -> Client]
  <1>1. client \in [Responses -> Client] /\ client[r] \in Client
    BY DEF TypeOK, Client
  <1>2. PICK c \in Client : c = [client[r] EXCEPT !.state = s]
    BY <1>1 DEF Client
  <1>3. client' = [client EXCEPT ![r] = c]
    BY <1>2
  <1> QED
    BY <1>1, <1>3

(* Where the loop reads a response there is one.                           *)
LEMMA BatchHead ==
    ASSUME TypeOK, pc \notin {"tick", "next", "ended"}
    PROVE  /\ Resp \in Responses /\ Digest[Resp] \in Digests
           /\ SignerOf[Resp] \in Operators /\ TaskOf[Resp] \in Tasks
           /\ Tail(batch) \in Seq(Responses) /\ Aggregated(Digest[Resp]) \in Results
  <1>1. batch \in Seq(Responses) /\ batch # <<>>
    BY DEF TypeOK
  <1>2. Resp \in Responses /\ Tail(batch) \in Seq(Responses)
    BY <1>1, HeadTailProperties DEF Resp
  <1>3. /\ Digest[Resp] \in Digests /\ SignerOf[Resp] \in Operators
        /\ TaskOf[Resp] \in Tasks
    BY <1>2, AggregatorAssumption DEF Digests, Operators
  <1>4. Aggregated(Digest[Resp]) \in Results
    BY <1>3 DEF Results
  <1> QED
    BY <1>2, <1>3, <1>4

LEMMA TypeNext ==
    ASSUME TypeOK, [Next]_vars
    PROVE  TypeOK'
  <1> USE AggregatorAssumption DEF jobVars, loopVars, serviceVars
  <1>1. ASSUME NEW r \in Responses, CalculateTask(r) \/ CalculationFails(r)
        PROVE  TypeOK'
    <2>1. client' \in [Responses -> Client]
      BY <1>1, ClientStateType DEF CalculateTask, CalculationFails
    <2>2. UNCHANGED <<is_shutdown, server, jobVars, response_cache, loopVars, serviceVars>>
      BY <1>1 DEF CalculateTask, CalculationFails
    <2> QED
      BY <2>1, <2>2 DEF TypeOK, Client
  <1>2. ASSUME NEW r \in Responses, Request(r)
        PROVE  TypeOK'
    <2>1. client' \in [Responses -> Client]
      BY <1>2, RetryType, ClientStateType DEF Request
    <2> QED
      BY <1>2, <2>1 DEF TypeOK, Request, Client
  <1>3. ASSUME NEW r \in Responses, RequestLost(r)
        PROVE  TypeOK'
    BY <1>3, RetryType DEF TypeOK, RequestLost, Client
  <1>4. ASSUME NEW r \in Responses, ProcessSignedTaskResponse(r)
        PROVE  TypeOK'
    <2>1. response_cache' \in Seq(Responses)
      BY <1>4, AppendProperties DEF TypeOK, ProcessSignedTaskResponse
    <2>2. client' \in [Responses -> Client]
      <3>1. CASE Retry(r)
        BY <3>1, RetryType
      <3>2. CASE client' = [client EXCEPT ![r].state = "accepted"]
        BY <3>2, ClientStateType
      <3> QED
        BY <1>4, <3>1, <3>2 DEF ProcessSignedTaskResponse
    <2> QED
      BY <1>4, <2>1, <2>2 DEF TypeOK, ProcessSignedTaskResponse, Client
  <1>5. ASSUME NEW t \in Tasks, InitializeTask(t)
        PROVE  TypeOK'
    BY <1>5 DEF TypeOK, InitializeTask
  <1>6. ASSUME NEW t \in Tasks, InitializeNewTask(t)
        PROVE  TypeOK'
    BY <1>6 DEF TypeOK, InitializeNewTask
  <1>7. ASSUME NEW t \in Tasks, Expire(t)
        PROVE  TypeOK'
    BY <1>7 DEF TypeOK, Expire, Results
  <1>8. CASE Tick
    BY <1>8 DEF TypeOK, Tick
  <1>9. CASE NextResponse
    BY <1>9 DEF TypeOK, NextResponse
  <1>10. CASE Check
    <2>1. Resp \in Responses
      BY <1>10, BatchHead DEF Check
    <2>2. response_cache' \in Seq(Responses)
      <3>1. /\ response_cache \in Seq(Responses)
            /\ response_cache' = response_cache \/ response_cache' = Append(response_cache, Resp)
        BY <1>10 DEF TypeOK, Check
      <3> QED
        BY <2>1, <3>1
    <2> QED
      BY <1>10, <2>2 DEF TypeOK, Check
  <1>11. CASE Sign
    <2> DEFINE d == Digest[Resp]
    <2>1. /\ d \in Digests /\ SignerOf[Resp] \in Operators /\ TaskOf[Resp] \in Tasks
          /\ Tail(batch) \in Seq(Responses) /\ Aggregated(d) \in Results
      BY <1>11, BatchHead DEF Sign
    <2> HIDE DEF d
    <2>2. CASE service[TaskOf[Resp]] = "open"
      <3>1. receiver' \in Seq(Results)
        <4>1. /\ receiver \in Seq(Results)
              /\ receiver' = receiver \/ receiver' = Append(receiver, Aggregated(d))
          BY <1>11, <2>2 DEF TypeOK, Sign, d
        <4>2. Append(receiver, Aggregated(d)) \in Seq(Results)
          BY <2>1, <4>1, AppendProperties
        <4> QED
          BY <4>1, <4>2
      <3>2. signatures' \in Seq(Digests \X Operators)
        <4>1. <<d, SignerOf[Resp]>> \in Digests \X Operators
          BY <2>1
        <4>2. /\ signatures \in Seq(Digests \X Operators)
              /\ signatures' = Append(signatures, <<d, SignerOf[Resp]>>)
          BY <1>11, <2>2 DEF TypeOK, Sign, d
        <4> QED
          BY <4>1, <4>2
      <3>3. service' \in [Tasks -> {"none", "open", "closed"}]
        BY <1>11, <2>1, <2>2 DEF TypeOK, Sign
      <3>4. tasks_responses' \subseteq Digests
        BY <1>11, <2>1, <2>2 DEF TypeOK, Sign, d
      <3>5. pc' = "relock" /\ batch' = batch /\ failed' = failed /\ batch # <<>>
        BY <1>11, <2>2 DEF TypeOK, Sign
      <3> QED
        BY <1>11, <3>1, <3>2, <3>3, <3>4, <3>5 DEF TypeOK, Sign
    <2>3. CASE service[TaskOf[Resp]] # "open"
      BY <1>11, <2>1, <2>3 DEF TypeOK, Sign, ProcessingFails
    <2> QED
      BY <2>2, <2>3
  <1>12. CASE Relock
    BY <1>12 DEF TypeOK, Relock
  <1>13. CASE Recv
    <2>1. receiver' \in Seq(Results) /\ received' \in Results
      BY <1>13, HeadTailProperties DEF TypeOK, Recv
    <2>2. Tail(batch) \in Seq(Responses) /\ batch # <<>>
      BY <1>13, BatchHead DEF Recv, TypeOK
    <2>3. /\ batch' \in Seq(Responses) /\ failed' \in BOOLEAN /\ pc' \in {"next", "send"}
          /\ pc' = "send" => batch' # <<>>
      BY <1>13, <2>2 DEF TypeOK, Recv, ProcessingFails
    <2> QED
      BY <1>13, <2>1, <2>3 DEF TypeOK, Recv
  <1>14. CASE Send
    BY <1>14 DEF TypeOK, Send
  <1>15. CASE Sent
    <2>1. Tail(batch) \in Seq(Responses) /\ batch # <<>>
      BY <1>15, BatchHead DEF Sent, TypeOK
    <2>2. /\ batch' \in Seq(Responses) /\ failed' \in BOOLEAN /\ pc' \in {"next", "pop"}
          /\ pc' = "pop" => batch' # <<>>
      BY <1>15, <2>1 DEF TypeOK, Sent, ProcessingFails
    <2> QED
      BY <1>15, <2>2 DEF TypeOK, Sent
  <1>16. CASE Pop
    <2>1. Tail(batch) \in Seq(Responses)
      BY <1>16, BatchHead DEF Pop
    <2>2. response_cache' \in Seq(Responses)
      BY <1>16, HeadTailProperties DEF TypeOK, Pop
    <2> QED
      BY <1>16, <2>1, <2>2 DEF TypeOK, Pop
  <1>17. CASE Shutdown \/ CloseServer
    BY <1>17 DEF TypeOK, Shutdown, CloseServer
  <1>18. CASE UNCHANGED vars
    BY <1>18 DEF TypeOK, vars
  <1> QED
    BY <1>1, <1>2, <1>3, <1>4, <1>5, <1>6, <1>7, <1>8, <1>9, <1>10, <1>11, <1>12, <1>13,
       <1>14, <1>15, <1>16, <1>17, <1>18 DEF Next, Loop

(* Every variable keeps its shape, and the loop has a response at hand     *)
(* wherever it reads one.                                                  *)
THEOREM TypeCorrect == Spec => []TypeOK
  BY TypeInit, TypeNext, PTL DEF Spec

-----------------------------------------------------------------------------
(* What is sent is known                                                   *)

(* A digest the loop remembers is that of a response to a task it knows.   *)
DigestsKnown ==
    \A d \in tasks_responses :
        \E r \in Responses : Digest[r] = d /\ TaskOf[r] \in tasks

(* What the service answers, and what the loop took from the channel, is   *)
(* about a digest that the loop remembers.                                 *)
AnswersKnown ==
    /\ \A i \in DOMAIN receiver :
          receiver[i] # Expired => receiver[i].digest \in tasks_responses
    /\ pc \in {"send", "sending"} => received.digest \in tasks_responses

(* The loop goes to the service with a response to a known task.           *)
SigningKnown == pc = "sign" => TaskOf[Resp] \in tasks

KnownInv == DigestsKnown /\ AnswersKnown /\ SigningKnown

LEMMA KnownInit == Init => KnownInv
  BY DEF Init, KnownInv, DigestsKnown, AnswersKnown, SigningKnown

(* An element of a sequence with one more at its end.                      *)
LEMMA AppendElement ==
    ASSUME NEW S, NEW s \in Seq(S), NEW e \in S, NEW i \in DOMAIN Append(s, e)
    PROVE  \/ i \in DOMAIN s /\ Append(s, e)[i] = s[i]
           \/ i = Len(s) + 1 /\ Append(s, e)[i] = e
  OBVIOUS

(* The elements of the rest of a sequence are elements of it.              *)
LEMMA TailElement ==
    ASSUME NEW S, NEW s \in Seq(S), s # <<>>, NEW i \in DOMAIN Tail(s)
    PROVE  i + 1 \in DOMAIN s /\ Tail(s)[i] = s[i + 1] /\ i \in Nat \ {0}
  OBVIOUS

(* Expire and Sign write to the channel.                                   *)
LEMMA AnswersAfterExpire ==
    ASSUME TypeOK, KnownInv, NEW t \in Tasks, Expire(t)
    PROVE  KnownInv'
  <1>1. Expired \in Results /\ receiver \in Seq(Results) /\ receiver' = Append(receiver, Expired)
    BY DEF TypeOK, Results, Expire
  <1>2. ASSUME NEW i \in DOMAIN receiver', receiver'[i] # Expired
        PROVE  receiver'[i].digest \in tasks_responses
    BY <1>1, <1>2, AppendElement DEF KnownInv, AnswersKnown
  <1>3. UNCHANGED <<tasks, tasks_responses, pc, batch, received>>
    BY DEF Expire, jobVars, loopVars
  <1> QED
    BY <1>2, <1>3
    DEF KnownInv, DigestsKnown, AnswersKnown, SigningKnown, Resp

(* A digest that is signed is remembered in the same step.                 *)
LEMMA KnownAfterSign ==
    ASSUME TypeOK, KnownInv, Sign
    PROVE  KnownInv'
  <1> DEFINE d == Digest[Resp]
  <1>1. /\ d \in Digests /\ SignerOf[Resp] \in Operators /\ Resp \in Responses
        /\ Aggregated(d) \in Results
    BY BatchHead DEF Sign
  <1>2. UNCHANGED tasks /\ pc' \notin {"sign", "send", "sending"}
    BY DEF Sign, jobVars, ProcessingFails
  <1>3. CASE service[TaskOf[Resp]] = "open"
    <2>1. /\ tasks_responses' = tasks_responses \cup {d}
          /\ receiver' = receiver \/ receiver' = Append(receiver, Aggregated(d))
      BY <1>3 DEF Sign
    <2>2. TaskOf[Resp] \in tasks
      BY DEF KnownInv, SigningKnown, Sign
    <2>3. DigestsKnown'
      BY <1>1, <1>2, <2>1, <2>2 DEF KnownInv, DigestsKnown
    <2>4. AnswersKnown'
      <3>1. ASSUME NEW i \in DOMAIN receiver', receiver'[i] # Expired
            PROVE  receiver'[i].digest \in tasks_responses'
        <4>1. receiver \in Seq(Results)
          BY DEF TypeOK
        <4>2. Aggregated(d).digest = d
          BY DEF Aggregated
        <4>3. \/ i \in DOMAIN receiver /\ receiver'[i] = receiver[i]
              \/ receiver'[i] = Aggregated(d)
          BY <1>1, <2>1, <4>1, AppendElement
        <4> QED
          BY <2>1, <3>1, <4>2, <4>3 DEF KnownInv, AnswersKnown
      <3> QED
        BY <1>2, <3>1 DEF AnswersKnown
    <2>5. SigningKnown'
      BY <1>2 DEF SigningKnown
    <2> QED
      BY <2>3, <2>4, <2>5 DEF KnownInv
  <1>4. CASE service[TaskOf[Resp]] # "open"
    <2>1. UNCHANGED <<tasks_responses, receiver>>
      BY <1>4 DEF Sign, serviceVars
    <2> QED
      BY <1>2, <2>1
      DEF KnownInv, DigestsKnown, AnswersKnown, SigningKnown
  <1> QED
    BY <1>3, <1>4

(* The loop takes the first answer from the channel.                       *)
LEMMA KnownAfterRecv ==
    ASSUME TypeOK, KnownInv, Recv
    PROVE  KnownInv'
  <1>1. /\ receiver \in Seq(Results) /\ receiver # <<>>
        /\ receiver' = Tail(receiver) /\ received' = receiver[1]
    BY DEF TypeOK, Recv
  <1>2. UNCHANGED <<tasks, tasks_responses>> /\ pc' # "sign"
    BY DEF Recv, jobVars, ProcessingFails
  <1>3. pc' \in {"send", "sending"} => receiver[1] # Expired
    BY <1>1 DEF Recv, ProcessingFails
  <1>4. 1 \in DOMAIN receiver
    BY <1>1
  <1>5. \A i \in DOMAIN receiver' : i + 1 \in DOMAIN receiver /\ receiver'[i] = receiver[i + 1]
    BY <1>1, TailElement
  <1>6. AnswersKnown'
    BY <1>1, <1>2, <1>3, <1>4, <1>5 DEF KnownInv, AnswersKnown
  <1> QED
    BY <1>2, <1>6 DEF KnownInv, DigestsKnown, SigningKnown

LEMMA KnownNext ==
    ASSUME TypeOK, KnownInv, [Next]_vars
    PROVE  KnownInv'
  <1> USE DEF jobVars, loopVars, serviceVars
  (* Enough about the steps that change none of the four parts. *)
  <1>1. ASSUME UNCHANGED <<tasks_responses, batch, received, receiver>>,
               tasks \subseteq tasks', pc' = pc \/ pc' \notin {"sign", "send", "sending"}
        PROVE  KnownInv'
    BY <1>1 DEF KnownInv, DigestsKnown, AnswersKnown, SigningKnown, Resp
  <1>2. ASSUME NEW r \in Responses,
               \/ CalculateTask(r) \/ CalculationFails(r) \/ Request(r) \/ RequestLost(r)
               \/ ProcessSignedTaskResponse(r)
        PROVE  KnownInv'
    BY <1>1, <1>2
    DEF CalculateTask, CalculationFails, Request, RequestLost, ProcessSignedTaskResponse
  <1>3. ASSUME NEW t \in Tasks, InitializeTask(t) \/ InitializeNewTask(t)
        PROVE  KnownInv'
    BY <1>1, <1>3 DEF InitializeTask, InitializeNewTask
  <1>4. ASSUME NEW t \in Tasks, Expire(t)
        PROVE  KnownInv'
    BY <1>4, AnswersAfterExpire
  <1>5. CASE Tick
    BY <1>5 DEF Tick, KnownInv, DigestsKnown, AnswersKnown, SigningKnown
  <1>6. CASE NextResponse \/ Relock
    BY <1>1, <1>6 DEF NextResponse, Relock
  <1>7. CASE Check
    <2>1. pc' = "sign" => TaskOf[Resp] \in tasks
      BY <1>7 DEF Check
    <2> QED
      BY <1>7, <2>1
      DEF Check, KnownInv, DigestsKnown, AnswersKnown, SigningKnown, Resp
  <1>8. CASE Sign
    BY <1>8, KnownAfterSign
  <1>9. CASE Recv
    BY <1>9, KnownAfterRecv
  <1>10. CASE Send
    BY <1>10 DEF Send, KnownInv, DigestsKnown, AnswersKnown, SigningKnown
  <1>11. CASE Sent \/ Pop
    BY <1>11 DEF Sent, Pop, ProcessingFails, KnownInv, DigestsKnown, AnswersKnown,
                 SigningKnown
  <1>12. CASE Shutdown \/ CloseServer \/ UNCHANGED vars
    BY <1>1, <1>12 DEF Shutdown, CloseServer, vars
  <1> QED
    BY <1>2, <1>3, <1>4, <1>5, <1>6, <1>7, <1>8, <1>9, <1>10, <1>11, <1>12 DEF Next, Loop

(* Neither expect of send_aggregated_response panics, whichever task's     *)
(* answer the shared channel delivers.                                     *)
THEOREM OnlyKnownIsSent == Spec => []SentIsKnown
  <1>1. TypeOK /\ KnownInv /\ [Next]_vars => KnownInv'
    BY KnownNext
  <1>2. KnownInv => SentIsKnown
    BY DEF KnownInv, AnswersKnown, DigestsKnown, SentIsKnown
  <1> QED
    BY <1>1, <1>2, KnownInit, TypeCorrect, PTL DEF Spec

-----------------------------------------------------------------------------
(* Accepted responses are accounted for                                    *)

(* As long as nothing failed the rest of the copy the loop walks is the    *)
(* front of the cache, so that pop_front removes the response at hand, and *)
(* when it does its digest is with the service or a copy of it was cached  *)
(* behind.                                                                 *)
Aligned ==
    ~failed =>
        /\ \A i \in DOMAIN batch : i \in DOMAIN response_cache /\ response_cache[i] = batch[i]
        /\ pc \in {"relock", "recv", "send", "sending"} => Digest[Resp] \in tasks_responses
        /\ pc = "pop" => \/ Digest[Resp] \in tasks_responses
                         \/ \E i \in DOMAIN response_cache : i # 1 /\ response_cache[i] = Resp

LEMMA AlignedInit == Init => Aligned /\ AcceptedIsAccounted
  <1> SUFFICES ASSUME Init PROVE Aligned /\ AcceptedIsAccounted
    OBVIOUS
  <1>1. Aligned
    BY DEF Init, Aligned
  <1>2. \A r \in Responses : client[r].state # "accepted"
    BY DEF Init
  <1> QED
    BY <1>1, <1>2 DEF AcceptedIsAccounted

(* Elements of a sequence, when one is added at its end.                   *)
LEMMA AppendToSet ==
    ASSUME NEW S, NEW s \in Seq(S), NEW e \in S
    PROVE  /\ e \in ToSet(Append(s, e)) /\ ToSet(s) \subseteq ToSet(Append(s, e))
           /\ \A i \in DOMAIN s : i \in DOMAIN Append(s, e) /\ Append(s, e)[i] = s[i]
           /\ Len(s) + 1 \in DOMAIN Append(s, e) /\ Append(s, e)[Len(s) + 1] = e
  <1>1. /\ \A i \in DOMAIN s : i \in DOMAIN Append(s, e) /\ Append(s, e)[i] = s[i]
        /\ Len(s) + 1 \in DOMAIN Append(s, e) /\ Append(s, e)[Len(s) + 1] = e
    OBVIOUS
  <1> QED
    BY <1>1 DEF ToSet

(* The handler appends what it accepts.                                    *)
LEMMA AlignedAfterHandler ==
    ASSUME TypeOK, Aligned, AcceptedIsAccounted,
           NEW r \in Responses, ProcessSignedTaskResponse(r)
    PROVE  Aligned' /\ AcceptedIsAccounted'
  <1>1. response_cache \in Seq(Responses) /\ response_cache' = Append(response_cache, r)
    BY DEF TypeOK, ProcessSignedTaskResponse
  <1>2. UNCHANGED <<failed, batch, pc, tasks_responses>>
    BY DEF ProcessSignedTaskResponse, loopVars
  <1>3. Aligned'
    BY <1>1, <1>2, AppendToSet DEF Aligned, Resp
  <1>4. \A s \in Responses : s # r => client'[s] = client[s]
    BY DEF TypeOK, ProcessSignedTaskResponse, Retry
  <1>5. AcceptedIsAccounted'
    BY <1>1, <1>2, <1>4, AppendToSet DEF AcceptedIsAccounted
  <1> QED
    BY <1>3, <1>5

(* A response to an unknown task goes to the end of the cache as well.     *)
LEMMA AlignedAfterCheck ==
    ASSUME TypeOK, Aligned, AcceptedIsAccounted, Check
    PROVE  Aligned' /\ AcceptedIsAccounted'
  <1>1. response_cache \in Seq(Responses) /\ Resp \in Responses /\ batch # <<>>
    BY BatchHead DEF TypeOK, Check
  <1>2. UNCHANGED <<failed, batch, tasks_responses, client>> /\ pc' \in {"pop", "sign"}
    BY DEF Check
  <1>3. CASE TaskOf[Resp] \notin tasks
    <2>1. response_cache' = Append(response_cache, Resp)
      BY <1>3 DEF Check
    <2>2. ASSUME ~failed
          PROVE  Len(response_cache) + 1 # 1
      <3>1. 1 \in DOMAIN batch
        BY <1>1 DEF TypeOK
      <3>2. 1 \in DOMAIN response_cache
        BY <2>2, <3>1 DEF Aligned
      <3> QED
        BY <1>1, <3>2
    <2>3. Aligned'
      BY <1>1, <1>2, <2>1, <2>2, AppendToSet DEF Aligned, Resp
    <2>4. AcceptedIsAccounted'
      BY <1>1, <1>2, <2>1, AppendToSet DEF AcceptedIsAccounted
    <2> QED
      BY <2>3, <2>4
  <1>4. CASE TaskOf[Resp] \in tasks
    <2>1. /\ response_cache' = response_cache
          /\ pc' = "pop" => Digest[Resp] \in tasks_responses
      BY <1>4 DEF Check
    <2> QED
      BY <1>2, <2>1 DEF Aligned, AcceptedIsAccounted, Resp
  <1> QED
    BY <1>3, <1>4

(* pop_front removes the response that was processed.                      *)
LEMMA AlignedAfterPop ==
    ASSUME TypeOK, Aligned, AcceptedIsAccounted, Pop
    PROVE  Aligned' /\ AcceptedIsAccounted'
  <1>1. UNCHANGED <<failed, tasks_responses, client>> /\ pc' = "next"
    BY DEF Pop
  <1> SUFFICES ASSUME ~failed
               PROVE  Aligned' /\ AcceptedIsAccounted'
    BY <1>1 DEF Aligned, AcceptedIsAccounted
  <1>2. /\ batch \in Seq(Responses) /\ batch # <<>> /\ batch' = Tail(batch)
        /\ response_cache \in Seq(Responses)
    BY DEF TypeOK, Pop
  <1>3. 1 \in DOMAIN response_cache /\ response_cache[1] = Resp
    <2>1. 1 \in DOMAIN batch /\ batch[1] = Resp
      BY <1>2 DEF Resp
    <2> QED
      BY <2>1 DEF Aligned
  <1>4. response_cache # <<>> /\ response_cache' = Tail(response_cache)
    <2>1. response_cache # <<>>
      BY <1>2, <1>3
    <2> QED
      BY <2>1 DEF Pop
  <1>5. /\ DOMAIN response_cache' = 1 .. Len(response_cache) - 1
        /\ \A i \in DOMAIN response_cache' : response_cache'[i] = response_cache[i + 1]
    BY <1>2, <1>4
  <1>6. Aligned'
    <2>1. ASSUME NEW i \in DOMAIN batch'
          PROVE  i \in DOMAIN response_cache' /\ response_cache'[i] = batch'[i]
      <3>1. i + 1 \in DOMAIN batch /\ batch'[i] = batch[i + 1] /\ i \in Nat \ {0}
        BY <1>2, TailElement
      <3>2. i + 1 \in DOMAIN response_cache /\ response_cache[i + 1] = batch[i + 1]
        BY <3>1 DEF Aligned
      <3>3. i \in DOMAIN response_cache'
        BY <1>2, <1>5, <3>1, <3>2
      <3> QED
        BY <1>5, <3>1, <3>2, <3>3
    <2> QED
      BY <1>1, <2>1 DEF Aligned
  <1>7. ASSUME NEW i \in DOMAIN response_cache, i # 1
        PROVE  response_cache[i] \in ToSet(response_cache')
    <2>1. i - 1 \in DOMAIN response_cache' /\ response_cache'[i - 1] = response_cache[i]
      BY <1>2, <1>5, <1>7
    <2> QED
      BY <2>1 DEF ToSet
  <1>8. ASSUME NEW r \in Responses, r \in ToSet(response_cache)
        PROVE  r \in ToSet(response_cache') \/ Digest[r] \in tasks_responses
    <2>1. PICK i \in DOMAIN response_cache : r = response_cache[i]
      BY <1>8 DEF ToSet
    <2>2. CASE i # 1
      BY <1>7, <2>1, <2>2
    <2>3. CASE i = 1
      <3>1. r = Resp
        BY <1>3, <2>1, <2>3
      <3> QED
        BY <1>7, <3>1 DEF Aligned, Pop
    <2> QED
      BY <2>2, <2>3
  <1>9. AcceptedIsAccounted'
    BY <1>1, <1>8 DEF AcceptedIsAccounted
  <1> QED
    BY <1>6, <1>9

LEMMA AlignedNext ==
    ASSUME TypeOK, Aligned, AcceptedIsAccounted, [Next]_vars
    PROVE  Aligned' /\ AcceptedIsAccounted'
  <1> USE DEF jobVars, loopVars, serviceVars
  (* Steps of others than the loop that leave the cache alone. *)
  <1>1. ASSUME UNCHANGED <<response_cache, loopVars>>,
               \A s \in Responses : client'[s].state = "accepted" => client[s].state = "accepted"
        PROVE  Aligned' /\ AcceptedIsAccounted'
    BY <1>1 DEF Aligned, AcceptedIsAccounted, Resp
  <1>2. ASSUME NEW r \in Responses, CalculateTask(r) \/ CalculationFails(r)
        PROVE  Aligned' /\ AcceptedIsAccounted'
    BY <1>1, <1>2 DEF CalculateTask, CalculationFails, TypeOK
  <1>3. ASSUME NEW r \in Responses, Request(r) \/ RequestLost(r)
        PROVE  Aligned' /\ AcceptedIsAccounted'
    <2>1. \A s \in Responses : s # r => client'[s] = client[s]
      BY <1>3 DEF Request, RequestLost, Retry, TypeOK
    <2>2. client'[r].state # "accepted"
      BY <1>3 DEF Request, RequestLost, Retry, TypeOK
    <2>3. UNCHANGED <<response_cache, loopVars>>
      BY <1>3 DEF Request, RequestLost
    <2> QED
      BY <1>1, <2>1, <2>2, <2>3
  <1>4. ASSUME NEW r \in Responses, ProcessSignedTaskResponse(r)
        PROVE  Aligned' /\ AcceptedIsAccounted'
    BY <1>4, AlignedAfterHandler
  <1>5. ASSUME NEW t \in Tasks, InitializeTask(t) \/ InitializeNewTask(t) \/ Expire(t)
        PROVE  Aligned' /\ AcceptedIsAccounted'
    BY <1>1, <1>5 DEF InitializeTask, InitializeNewTask, Expire
  <1>6. CASE Tick
    BY <1>6 DEF Tick, Aligned, AcceptedIsAccounted
  <1>7. CASE NextResponse
    BY <1>7 DEF NextResponse, Aligned, AcceptedIsAccounted
  <1>8. CASE Check
    BY <1>8, AlignedAfterCheck
  <1>9. CASE Sign
    <2>1. CASE service[TaskOf[Resp]] = "open"
      BY <1>9, <2>1 DEF Sign, Aligned, AcceptedIsAccounted, Resp
    <2>2. CASE service[TaskOf[Resp]] # "open"
      BY <1>9, <2>2 DEF Sign, ProcessingFails, Aligned, AcceptedIsAccounted
    <2> QED
      BY <2>1, <2>2
  <1>10. CASE Relock \/ Send
    BY <1>10 DEF Relock, Send, Aligned, AcceptedIsAccounted, Resp
  <1>11. CASE Recv
    BY <1>11 DEF Recv, ProcessingFails, Aligned, AcceptedIsAccounted, Resp
  <1>12. CASE Sent
    BY <1>12 DEF Sent, ProcessingFails, Aligned, AcceptedIsAccounted, Resp
  <1>13. CASE Pop
    BY <1>13, AlignedAfterPop
  <1>14. CASE Shutdown \/ CloseServer \/ UNCHANGED vars
    BY <1>1, <1>14 DEF Shutdown, CloseServer, vars
  <1> QED
    BY <1>2, <1>3, <1>4, <1>5, <1>6, <1>7, <1>8, <1>9, <1>10, <1>11, <1>12, <1>13, <1>14
    DEF Next, Loop

(* Until some processing fails no accepted response is lost, although the  *)
(* loop pops whatever is first in a cache that others write to.            *)
THEOREM AcceptedIsKept == Spec => []AcceptedIsAccounted
  <1>1. TypeOK /\ Aligned /\ AcceptedIsAccounted /\ [Next]_vars
            => Aligned' /\ AcceptedIsAccounted'
    BY AlignedNext
  <1> QED
    BY <1>1, AlignedInit, TypeCorrect, PTL DEF Spec
=============================================================================
