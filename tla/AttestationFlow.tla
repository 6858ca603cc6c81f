--------------------------- MODULE AttestationFlow ---------------------------
(***************************************************************************)
(* The Othentic execution and validation services                          *)
(* (AVS/Othentic-AVS).  POST /execute, sent by a cron job every five       *)
(* seconds whether or not the last one has ended, fetches the helper's     *)
(* blocks, publishes them on IPFS and sends the network a task made of the *)
(* proof (the CID) and the data (a digest of the blocks).  The network     *)
(* asks validation services for a vote on each task.                       *)
(*                                                                         *)
(* An action is the code between two awaits of a handler together with the *)
(* outcome of the request it awaited.  A request that fails may have had   *)
(* its effect or not.                                                      *)
(***************************************************************************)
CONSTANTS
    Executions,   \* bound: the POST /execute requests
    Null,         \* what getBlock returns when its request fails
    NoProof       \* the empty string publishJSONToIpfs then returns

VARIABLES
    served,   \* the blocks the helper would answer with now; changed by it alone
    \* the handler of each POST /execute: where it is, and its local variables
    phase,
    result,
    cid,
    \* outside the services: content on IPFS, the network's tasks and the last vote
    pinned,
    tasks,
    vote

local == <<phase, result, cid>>
network == <<tasks, vote>>
vars == <<local, pinned, network>>

(* The awaits of the handler in order; then 200 or 500 has been answered.  *)
Phases == {"idle", "getBlock", "publish", "sendTask", "answered", "failed"}

(* SHA-256 of the JSON text, as a string of hex digits, and IPFS's content *)
(* address.  Both are taken to be equal only for equal content: no         *)
(* property says that the round trip to the validator preserves it.        *)
Digest(content) == [sha256 |-> [json |-> content]]
Address(content) == [ipfs |-> content]

(* The task's data is the hex form of the bytes of that string; only       *)
(* POST /validate turns it back into the string that validate compares.    *)
Hexlify(string) == [hex |-> string]
Unhexlify(data) == data.hex

NoVote == [task |-> Null, approve |-> FALSE]

Init ==
    /\ phase = [e \in Executions |-> "idle"]
    /\ result = [e \in Executions |-> Null]
    /\ cid = [e \in Executions |-> NoProof]
    /\ pinned = {}
    /\ tasks = {}
    /\ vote = NoVote

-----------------------------------------------------------------------------
(* Execution service                                                       *)

Goto(e, from, to) == phase[e] = from /\ phase' = [phase EXCEPT ![e] = to]

(* The cron job, or anyone else, posts a request.                          *)
Execute(e) ==
    /\ Goto(e, "idle", "getBlock")
    /\ UNCHANGED <<result, cid, pinned, network>>

GetBlock(e) ==
    /\ Goto(e, "getBlock", "publish")
    /\ result' = [result EXCEPT ![e] = served]
    /\ UNCHANGED <<cid, pinned, network>>

MutantGetBlockFails(e) ==
    /\ Goto(e, "getBlock", "idle")
    /\ UNCHANGED <<result, cid, pinned, network>>

(* The error is caught and null goes on as the result.                     *)
GetBlockFails(e) ==
    /\ Goto(e, "getBlock", "publish")
    /\ result' = [result EXCEPT ![e] = Null]
    /\ UNCHANGED <<cid, pinned, network>>

MutantPublishBareCid(e) ==
    /\ Goto(e, "publish", "sendTask")
    /\ pinned' = pinned \cup {result[e]}
    /\ cid' = [cid EXCEPT ![e] = result[e]]
    /\ UNCHANGED <<result, network>>

Publish(e) ==
    /\ Goto(e, "publish", "sendTask")
    /\ pinned' = pinned \cup {result[e]}
    /\ cid' = [cid EXCEPT ![e] = Address(result[e])]
    /\ UNCHANGED <<result, network>>

(* The error is caught and the empty proof goes on.                        *)
PublishFails(e) ==
    /\ Goto(e, "publish", "sendTask")
    /\ pinned' \in {pinned, pinned \cup {result[e]}}
    /\ cid' = [cid EXCEPT ![e] = NoProof]
    /\ UNCHANGED <<result, network>>

TaskOf(e) == [proof |-> cid[e], data |-> Hexlify(Digest(result[e]))]

SendTask(e) ==
    /\ Goto(e, "sendTask", "answered")
    /\ tasks' = tasks \cup {TaskOf(e)}
    /\ UNCHANGED <<result, cid, pinned, vote>>

(* The error is caught: the answer is "Task executed successfully" too.    *)
SendTaskFails(e) ==
    /\ Goto(e, "sendTask", "answered")
    /\ tasks' \in {tasks, tasks \cup {TaskOf(e)}}
    /\ UNCHANGED <<result, cid, pinned, vote>>

(* Wallet, encoding and signature come before the try: a bad key, or a     *)
(* taskDefinitionId that is no uint16, answers 500 and nothing was sent.   *)
SendTaskThrows(e) ==
    /\ Goto(e, "sendTask", "failed")
    /\ UNCHANGED <<result, cid, pinned, network>>

Handler(e) ==
    \/ GetBlock(e)
    \/ GetBlockFails(e)
    \/ Publish(e)
    \/ PublishFails(e)
    \/ SendTask(e)
    \/ SendTaskFails(e)
    \/ SendTaskThrows(e)

-----------------------------------------------------------------------------
(* Validation service                                                      *)

MutantGetIPfsTask(proof, content) ==
    /\ content \in pinned
    /\ proof = Address(content)

(* getIPfsTask returns content: it is there and an array.                  *)
GetIPfsTask(proof, content) ==
    /\ content \in pinned
    /\ proof = Address(content)
    /\ content # Null

(* Every error on the way is a false.                                      *)
Approves(task, reached) ==
    /\ reached
    /\ \E content \in pinned :
          /\ GetIPfsTask(task.proof, content)
          /\ Digest(content) = Unhexlify(task.data)

(* The network asks a validation service for a vote; the gateway may not   *)
(* be reached.  The services keep no state, so there is no need to tell    *)
(* them apart.                                                             *)
Validate(task, reached) ==
    /\ vote' = [task |-> task, approve |-> Approves(task, reached)]
    /\ UNCHANGED <<local, pinned, tasks>>

Next ==
    \/ \E e \in Executions : Execute(e) \/ Handler(e)
    \/ \E task \in tasks, reached \in BOOLEAN : Validate(task, reached)

(* A request a handler awaits is answered or fails.                        *)
Fairness == \A e \in Executions : WF_vars(Handler(e))

-----------------------------------------------------------------------------
(* Properties                                                              *)

(* Type invariant: where the handlers are, and what they hold.             *)
TypeOK ==
    /\ phase \in [Executions -> Phases]
    /\ \A e \in Executions :
          cid[e] = NoProof \/ \E c \in pinned : cid[e] = Address(c)
    /\ \A t \in tasks : \E e \in Executions : t = TaskOf(e)
    /\ vote = NoVote \/ vote.task \in tasks

(* Every POST /execute is answered, whatever fails on the way              *)
(* (task.controller.js 13-36), also when the next one has begun.           *)
ExecutionsEnd ==
    \A e \in Executions : phase[e] # "idle" ~> phase[e] \in {"answered", "failed"}
=============================================================================
