------------------------------- MODULE Service -------------------------------
(***************************************************************************)
(* The server side of the function-call API.  ServerImpl                   *)
(* (function_call.cxx) visits its dispatchers in the order they were       *)
(* registered; a visit to Dispatcher<RobotControl>                         *)
(* (RobotControlSupport.cxx) takes at most one request from its replier    *)
(* (ReplierImpl, request_reply.hpp), calls the robot (MyRobot,             *)
(* robot_func.cxx) and sends the reply, or waits out the timeout of run.   *)
(* All of it happens on the one thread of server_func, and an exception    *)
(* that leaves a visit ends that thread.                                   *)
(***************************************************************************)
EXTENDS Integers, Sequences, FiniteSets

CONSTANTS
  NumServices,        \* services registered with the server
  MaxRequests,        \* bound: requests that arrive in a behaviour
  Ops,                \* operations that are requested
  Speeds,             \* arguments of setSpeed
  InitSpeed,          \* MyRobot::speed_ at first
  MaxSpeed            \* MAX_SPEED

ASSUME ServiceAssumption ==
  /\ NumServices \in Nat /\ MaxRequests \in Nat
  /\ Ops \subseteq {"command", "getSpeed", "setSpeed", "getStatus", "unknown", "nodata"}
  /\ InitSpeed \in Int /\ MaxSpeed \in Int /\ Speeds \subseteq Int

Services == 1..NumServices
Ids == 1..MaxRequests

(* "unknown" stands for a request whose discriminator names no operation,  *)
(* "nodata" for a sample without valid data.                               *)
Requests == [id : Ids, to : Services, op : Ops, speed : Speeds \cup {0}]

VARIABLES
  (* Connext *)
  arrived,            \* requests that reached a reader
  inbox,              \* per service, requests in its reader
  replies,            \* replies written
  (* the server thread *)
  turn,               \* the dispatcher visited, 0 outside run
  pc,                 \* "receive", "dispatch", "send" or "stopped"
  request_sample,     \* the request taken in this visit, none at "receive"
  reply,              \* the reply to send, at "send"
  (* the robots *)
  speed_,
  (* history *)
  overtaken           \* [s][t]: requests t took since the head of s came up

serverVars == <<turn, pc, request_sample, reply>>
vars == <<arrived, inbox, replies, serverVars, speed_, overtaken>>

None == [id |-> 0]

Init ==
  /\ arrived = {}
  /\ inbox = [s \in Services |-> <<>>]
  /\ replies = {}
  /\ turn = 0
  /\ pc = "receive"
  /\ request_sample = None
  /\ reply = None
  /\ speed_ = [s \in Services |-> InitSpeed]
  /\ overtaken = [s \in Services |-> [t \in Services |-> 0]]

(* A request of some client reaches the reader of a replier.               *)
Arrive(q) ==
  /\ Cardinality(arrived) < MaxRequests
  /\ q.id = Cardinality(arrived) + 1
  /\ (q.op = "setSpeed") = (q.speed # 0)
  /\ arrived' = arrived \cup {q}
  /\ inbox' = [inbox EXCEPT ![q.to] = Append(@, q)]
  /\ UNCHANGED <<replies, serverVars, speed_, overtaken>>

(***************************************************************************)
(* ServerImpl::run: one visit to each dispatcher, in order.  Next visit:   *)
(***************************************************************************)
MutantDrain(s) == IF inbox[s] # <<>> THEN s ELSE s + 1   \* while it has requests
MutantSkip(s) == s + 2                                   \* i is advanced twice
AfterVisit(s) == s + 1

RunBegin ==
  /\ turn = 0 /\ pc = "receive"
  /\ turn' = 1
  /\ UNCHANGED <<arrived, inbox, replies, pc, request_sample, reply, speed_, overtaken>>

RunEnd ==
  /\ turn = NumServices + 1 /\ pc = "receive"
  /\ turn' = 0
  /\ UNCHANGED <<arrived, inbox, replies, pc, request_sample, reply,
                 speed_, overtaken>>

Visiting(s) == turn = s /\ pc = "receive"

(* replier_.receive_request takes the head; a sample without data is gone, *)
(* and the visit is over.                                                  *)
Receive(s) ==
  /\ Visiting(s)
  /\ inbox[s] # <<>>
  /\ inbox' = [inbox EXCEPT ![s] = Tail(@)]
  /\ \/ /\ Head(inbox[s]).op # "nodata"
        /\ request_sample' = Head(inbox[s])
        /\ pc' = "dispatch"
        /\ UNCHANGED turn
     \/ /\ Head(inbox[s]).op = "nodata"
        /\ turn' = AfterVisit(s)
        /\ UNCHANGED <<request_sample, pc>>
  /\ overtaken' = [t \in Services |->
       IF t = s THEN [u \in Services |-> 0]
       ELSE [overtaken[t] EXCEPT ![s] = IF inbox[t] # <<>> THEN @ + 1 ELSE 0]]
  /\ UNCHANGED <<arrived, replies, reply, speed_>>

ReceiveTimeout(s) ==
  /\ Visiting(s)
  /\ inbox[s] = <<>>
  /\ turn' = AfterVisit(s)
  /\ UNCHANGED <<arrived, inbox, replies, pc, request_sample, reply, speed_, overtaken>>

(***************************************************************************)
(* dispatch: the four operations, each on a reply of its own.              *)
(***************************************************************************)
Dispatching(op) == pc = "dispatch" /\ request_sample.op = op

Prepare(op, ex, value, remoteEx) ==
  /\ reply' = [id |-> request_sample.id, op |-> op, ex |-> ex, value |-> value,
               remoteEx |-> remoteEx]
  /\ pc' = "send"
  /\ UNCHANGED <<arrived, inbox, replies, turn, request_sample, overtaken>>

DoCommand ==
  /\ Dispatching("command")
  /\ Prepare("command", "OK", 0, "OK")
  /\ UNCHANGED speed_

DoGetSpeed ==
  /\ Dispatching("getSpeed")
  /\ Prepare("getSpeed", "OK", speed_[turn], "OK")
  /\ UNCHANGED speed_

(* Mutant: the new speed is returned.                                      *)
MutantOldSpeed == request_sample.speed
OldSpeed == speed_[turn]

DoSetSpeed ==
  /\ Dispatching("setSpeed")
  /\ request_sample.speed <= MaxSpeed
  /\ speed_' = [speed_ EXCEPT ![turn] = request_sample.speed]
  /\ Prepare("setSpeed", "OK", OldSpeed, "OK")

(* Mutant: a refused robot stops.                                          *)
MutantStop ==
  /\ Dispatching("setSpeed")
  /\ request_sample.speed > MaxSpeed
  /\ speed_' = [speed_ EXCEPT ![turn] = 0]
  /\ Prepare("setSpeed", "TooFast", 0, "OK")

(* MyRobot::setSpeed throws TooFast, do_setSpeed puts it in the reply.     *)
DoSetSpeedTooFast ==
  /\ Dispatching("setSpeed")
  /\ request_sample.speed > MaxSpeed
  /\ Prepare("setSpeed", "TooFast", 0, "OK")
  /\ UNCHANGED speed_

DoGetStatus ==
  /\ Dispatching("getStatus")
  /\ Prepare("getStatus", "OK", 0, "OK")
  /\ UNCHANGED speed_

DoUnknown ==
  /\ Dispatching("unknown")
  /\ Prepare("none", "OK", 0, "UNKNOWN_OPERATION")
  /\ UNCHANGED speed_

Dispatch ==
  DoCommand \/ DoGetSpeed \/ DoSetSpeed \/ DoSetSpeedTooFast \/ DoGetStatus \/ DoUnknown

(* replier_.send_reply: ReplierImpl stamps remoteEx before it writes.      *)
SendReply ==
  /\ pc = "send"
  /\ replies' = replies \cup {[reply EXCEPT !.remoteEx = "OK"]}
  /\ pc' = "receive"
  /\ turn' = AfterVisit(turn)
  /\ request_sample' = None
  /\ reply' = None
  /\ UNCHANGED <<arrived, inbox, speed_, overtaken>>

(* unique_data throws when a reply cannot be allocated: before the request *)
(* is taken, or in do_xxx before the robot is called.  Nothing up to       *)
(* server_func catches it, and server_func leaves its loop.  Mutant: run   *)
(* goes on to the next request.                                            *)
MutantFailed == "receive"
Failed == "stopped"

AllocationFails ==
  /\ \/ turn \in Services /\ pc = "receive"
     \/ pc = "dispatch" /\ request_sample.op # "unknown"
  /\ pc' = Failed
  /\ UNCHANGED <<arrived, inbox, replies, turn, request_sample, reply,
                 speed_, overtaken>>

Serve ==
  \/ RunBegin \/ RunEnd
  \/ \E s \in Services : Receive(s) \/ ReceiveTimeout(s)
  \/ Dispatch \/ SendReply

Next == (\E q \in Requests : Arrive(q)) \/ Serve \/ AllocationFails

Spec == Init /\ [][Next]_vars

(* The server thread runs, and its waits end.                              *)
FairSpec == Spec /\ WF_vars(Serve)
-----------------------------------------------------------------------------
(* Types of the variables.                                                 *)
TypeOK ==
  /\ arrived \subseteq Requests
  /\ inbox \in [Services -> Seq(Requests)]
  /\ replies \cup {reply} \subseteq
       {None} \cup [id : Ids, op : Ops \cup {"none"}, ex : {"OK", "TooFast"},
                    value : Speeds \cup {0, InitSpeed}, remoteEx : {"OK", "UNKNOWN_OPERATION"}]
  /\ turn \in 0..(NumServices + 1)
  /\ pc \in {"receive", "dispatch", "send", "stopped"}
  /\ request_sample \in Requests \cup {None}
  /\ speed_ \in [Services -> Speeds \cup {InitSpeed}]
  /\ overtaken \in [Services -> [Services -> Nat]]

Answered == {r.id : r \in replies}
Queued == UNION {{inbox[s][i].id : i \in DOMAIN inbox[s]} : s \in Services}
WithData == {q.id : q \in {p \in arrived : p.op # "nodata"}}

(* No request is dropped on the way from the reader to the reply: each one *)
(* that carries data is waiting, in work or answered, and only the one in  *)
(* work is lost when the server stops.                                     *)
NoRequestDropped == WithData \subseteq Queued \cup Answered \cup {request_sample.id}

(* A busy service cannot hold up another: while a request waits at the     *)
(* head of one reader, every other dispatcher takes at most one request.   *)
BoundedOvertaking == \A s, t \in Services : overtaken[s][t] <= 1

(* The last speed the robot accepted among the requests that reached the   *)
(* reader of its service before q.                                         *)
Accepted(q) == q.op = "setSpeed" /\ q.speed <= MaxSpeed

SpeedBefore(q) ==
  LET before == {p \in arrived : p.to = q.to /\ p.id < q.id /\ Accepted(p)}
  IN  IF before = {} THEN InitSpeed
      ELSE (CHOOSE p \in before : \A o \in before : o.id <= p.id).speed

(* A service serves its requests in the order they reached it, however the *)
(* visits to the services interleave: each reply is for the operation that *)
(* was asked for, refused exactly when it had to be, and the speed in it   *)
(* is the last one accepted from the requests before.                      *)
ServedInOrder ==
  \A q \in arrived, r \in replies :
    r.id = q.id =>
      /\ r.op = IF q.op = "unknown" THEN "none" ELSE q.op
      /\ r.ex = IF q.op = "setSpeed" /\ q.speed > MaxSpeed THEN "TooFast" ELSE "OK"
      /\ q.op = "getSpeed" \/ Accepted(q) => r.value = SpeedBefore(q)

(* The server implements the interface: a request is served at most once,  *)
(* each reply is the one of an indivisible operation on the robot of its   *)
(* service, and a refused speed leaves no trace.                           *)
Result(r) == [id |-> r.id, op |-> r.op, ex |-> r.ex, value |-> r.value]
Results == {Result(r) : r \in replies \cup (IF reply = None THEN {} ELSE {reply})}

Robot == INSTANCE RobotControl WITH requests <- arrived, speed <- speed_, replies <- Results

ImplementsRobotControl == Robot!Spec

(* Every request with data is answered while the server is up, although    *)
(* the one thread waits out the timeouts of the other services first.      *)
EveryRequestAnswered ==
  \A k \in Ids : k \in WithData ~> (k \in Answered \/ pc = "stopped")
==============================================================================
