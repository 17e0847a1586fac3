----------------------------- MODULE RobotSystem -----------------------------
(***************************************************************************)
(* A program that drives a robot with the function-call API: the stubs of  *)
(* ClientImpl<RobotControl> (RobotControlSupport.cxx) on top of Requester, *)
(* joined to Service.  What one writes arrives at the other.  A second     *)
(* client, in another process, may drive the same robot; nothing of it is  *)
(* modelled but its requests.                                              *)
(***************************************************************************)
EXTENDS Integers, FiniteSets

CONSTANTS
  SyncCallers,        \* threads that call the synchronous stubs
  AsyncCallers,       \* threads that call the asynchronous stubs
  MaxRequests,        \* bound: calls of the program
  MaxReplyThreads,    \* reply threads the system can run at a time
  SnValues,           \* as in Requester
  MaxOthers,          \* bound: requests of the second client
  Ops, Speeds, InitSpeed, MaxSpeed   \* as in Service

(* What Requester and Service ask for; stubs send the four operations.     *)
ASSUME RobotSystemAssumption ==
  /\ \A a, b \in SyncCallers : a = b
  /\ MaxRequests \in Nat /\ MaxReplyThreads \in Nat /\ MaxOthers \in Nat
  /\ SnValues \in Nat \ {0}
  /\ Ops \subseteq {"command", "getSpeed", "setSpeed", "getStatus"}
  /\ InitSpeed \in Int /\ MaxSpeed \in Int /\ Speeds \subseteq Int

VARIABLES
  sn, id2id_map, dict, suppress_invalid, raced, writes, queue, answered,
  pc, op, requestId, identity, kind, thread, status, source,     \* of Requester
  arrived, inbox, replies, turn, server_pc, request_sample, reply,
  speed_, overtaken,                                             \* of Service
  stub,               \* per caller, the operation it is calling and its argument
  call,               \* per request of the program, what it arrives as
  result,             \* per request, what its stub or continuation ended with
  expired             \* history: requests whose stub waited until its timeout

R == INSTANCE Requester WITH
  RawCallers <- {}, Impatient <- SyncCallers, Repliers <- {1}, ReplyValidity <- {TRUE}

S == INSTANCE Service WITH
  NumServices <- 1, MaxRequests <- MaxRequests + MaxOthers, pc <- server_pc

requesterVars == <<sn, id2id_map, dict, suppress_invalid, raced, writes, queue, answered,
                   pc, op, requestId, identity, kind, thread, status, source>>
serviceVars == <<arrived, inbox, replies, turn, server_pc, request_sample, reply,
                 speed_, overtaken>>
programVars == <<stub, call, result, expired>>
vars == <<requesterVars, serviceVars, programVars>>

Stubs == {q \in [op : Ops, speed : Speeds \cup {0}] : (q.op = "setSpeed") = (q.speed # 0)}

Pending == [how |-> "pending", value |-> 0]
Returned(v) == [how |-> "returned", value |-> v]
Threw(ex) == [how |-> ex, value |-> 0]

Init ==
  /\ R!Init
  /\ S!Init
  /\ stub = [c \in R!Callers |-> [op |-> "none", speed |-> 0]]
  /\ call = [k \in R!Requests |-> S!None]
  /\ result = [k \in R!Requests |-> Pending]
  /\ expired = {}

(***************************************************************************)
(* The stubs up to the reply: fill a request, send it, and wait.           *)
(***************************************************************************)
BeginCall(c, o, q) ==
  /\ R!ReadSn(c, o)
  /\ stub' = [stub EXCEPT ![c] = q]
  /\ UNCHANGED <<serviceVars, call, result, expired>>

(* What the requester writes reaches the service, in the order written.    *)
SendCall(c) ==
  /\ R!Write(c)
  /\ LET q == [id |-> Cardinality(arrived) + 1, to |-> 1,
               op |-> stub[c].op, speed |-> stub[c].speed]
     IN  /\ S!Arrive(q)
         /\ call' = [call EXCEPT ![writes + 1] = q]
  /\ UNCHANGED <<stub, result, expired>>

Proceed(c) ==
  /\ \/ R!StampSn(c) \/ R!StoreMapping(c) \/ R!FindMapping(c)
     \/ R!TakeNothing(c) \/ R!RegisterPromise(c) \/ R!SpawnReplyThread(c)
  /\ UNCHANGED <<serviceVars, programVars>>

(* The wait ends with any reply in the reader, or else with the timeout.   *)
Wait(c) ==
  /\ R!WaitForReplies(c)
  /\ expired' = IF queue = {} THEN expired \cup {identity[c]} ELSE expired
  /\ UNCHANGED <<serviceVars, stub, call, result>>

(***************************************************************************)
(* What a stub makes of the reply it took.                                 *)
(***************************************************************************)
ReplyOf(k) == CHOOSE r \in replies : r.id = call[k].id

(* Mutant: setSpeed does not ask how the call ended.                       *)
MutantUnpack(o, r) ==
  IF o = "command" \/ r.op = o THEN {Returned(r.value)} ELSE {Threw("UnknownResponse")}

(* The synchronous stubs look at the discriminator of the operation first. *)
(* command looks at nothing; getStatus looks at the status of getSpeed     *)
(* (486), a member that no reply to getStatus sets.                        *)
Unpack(o, r) ==
  CASE o = "command" -> {Returned(0)}
    [] o # "command" /\ r.op # o -> {Threw("UnknownResponse")}
    [] o = "setSpeed" /\ r.op = o -> {IF r.ex = "TooFast" THEN Threw("TooFast") ELSE Returned(r.value)}
    [] o = "getSpeed" /\ r.op = o -> {Returned(r.value)}
    [] o = "getStatus" /\ r.op = o -> {Returned(0), Threw("UnknownException")}

TakeReply(c) ==
  /\ R!TakeOwn(c)
  /\ LET k == identity[c]
     IN  \E v \in Unpack(call[k].op, ReplyOf(source'[k])) : result' = [result EXCEPT ![k] = v]
  /\ UNCHANGED <<serviceVars, stub, call, expired>>

(* receive_reply returned false, which no stub looks at: reply_sample is   *)
(* as it was created, with the discriminator of no operation.              *)
NoReply(c) ==
  /\ R!GiveUp(c)
  /\ result' = [result EXCEPT ![identity[c]] =
       IF call[identity[c]].op = "command" THEN Returned(0) ELSE Threw("UnknownResponse")]
  /\ UNCHANGED <<serviceVars, stub, call, expired>>

(* The continuations look for TooFast only.                                *)
Get(o, r) == IF o = "setSpeed" /\ r.ex = "TooFast" THEN Threw("TooFast") ELSE Returned(r.value)

(* The reply threads, and the continuation the asynchronous stubs attach.  *)
ReplyThread(k) ==
  /\ R!ThreadStep(k)
  /\ UNCHANGED <<serviceVars, programVars>>

Continue(k) ==
  /\ kind[k] = "async"
  /\ result[k] = Pending
  /\ status[k] \in {"value", "error"}
  /\ result' = [result EXCEPT ![k] =
       IF status[k] = "error" THEN Threw("ReplyUnavailable") ELSE Get(call[k].op, ReplyOf(source[k]))]
  /\ UNCHANGED <<requesterVars, serviceVars, stub, call, expired>>

(***************************************************************************)
(* The service, and the second client.                                     *)
(***************************************************************************)
Work ==
  /\ S!RunBegin \/ S!RunEnd \/ S!Receive(1) \/ S!ReceiveTimeout(1) \/ S!Dispatch
  /\ UNCHANGED <<requesterVars, programVars>>

Fail ==
  /\ S!AllocationFails
  /\ UNCHANGED <<requesterVars, programVars>>

SendReply ==
  /\ S!SendReply
  /\ \/ \E k \in 1..writes : call[k].id = request_sample.id /\ R!Answer(1, k)
     \/ /\ \A k \in 1..writes : call[k].id # request_sample.id
        /\ UNCHANGED requesterVars
  /\ UNCHANGED programVars

OtherClient(q) ==
  /\ Cardinality(arrived) < writes + MaxOthers
  /\ S!Arrive([id |-> Cardinality(arrived) + 1, to |-> 1, op |-> q.op, speed |-> q.speed])
  /\ UNCHANGED <<requesterVars, programVars>>

Next ==
  \/ \E c \in R!Callers :
       \/ \E o \in {"sync", "async"}, q \in Stubs : BeginCall(c, o, q)
       \/ SendCall(c) \/ Proceed(c) \/ Wait(c) \/ TakeReply(c) \/ NoReply(c)
  \/ \E k \in R!Requests : ReplyThread(k) \/ Continue(k)
  \/ Work \/ Fail \/ SendReply
  \/ \E q \in Stubs : OtherClient(q)

Spec == Init /\ [][Next]_vars
-----------------------------------------------------------------------------
(* The stubs read and write one robot in the order the requests reached    *)
(* it: a speed that getSpeed returns, or setSpeed returns as the old one,  *)
(* is the last one accepted before, whichever thread or client set it, and *)
(* even if the stub that set it failed with a timeout.                     *)
SpeedsInOrder ==
  \A k \in 1..writes :
    result[k].how = "returned" /\ call[k].op \in {"getSpeed", "setSpeed"} =>
      result[k].value = S!SpeedBefore(call[k])

(* TooFast reaches the caller of the call that was refused, and no other:  *)
(* a call that ended otherwise with a reply was accepted.                  *)
TooFastReported ==
  \A k \in 1..writes :
    /\ result[k].how = "TooFast" => call[k].op = "setSpeed" /\ call[k].speed > MaxSpeed
    /\ result[k].how = "returned" /\ call[k].op = "setSpeed" => call[k].speed <= MaxSpeed

(* A call that ends without its reply, though its own wait did not run out,*)
(* was disturbed: any reply in the reader ends the wait, and the take that *)
(* follows finds none of its own.  The reply is that to an asynchronous    *)
(* call, or the late one of an earlier call that did time out, however     *)
(* many calls failed between the two.  So in a program of blocking calls a *)
(* stub that throws or claims success without a reply (command) goes back  *)
(* to a timeout.                                                           *)
Disturbed(k) ==
  \E j \in 1..writes \ {k} :
    /\ <<j, 1>> \in answered
    /\ kind[j] = "async" \/ (j < k /\ j \in expired)

FailureExplained ==
  \A k \in 1..writes :
    result[k].how = "UnknownResponse" \/ status[k] = "abandoned" => k \in expired \/ Disturbed(k)
==============================================================================
