----------------------------- MODULE ReqRepRobot -----------------------------
(***************************************************************************)
(* robot_reqrep.cxx: the program client_rr, built with PPL tasks and await,*)
(* and the program server_rr.  client_rr drives the robot with blocking    *)
(* calls first, then starts chains of continuations nobody waits for, then *)
(* drives it again with test_await while the chains may still run.         *)
(*                                                                         *)
(* A thread of the client has one call in progress at a time, so a call is *)
(* known by its thread; that it gets its own reply is what Requester shows.*)
(* Requests of one client reach the server in the order written.  No wait  *)
(* runs out: client_rr does not go on without its replies.                 *)
(***************************************************************************)
EXTENDS Naturals, Sequences

CONSTANTS
  Rounds,             \* rounds of a test, 10 in the code
  Queries, Races,     \* chains of the two asynchronous tests, 10 each
  Increment,          \* 10
  SpeedLimit          \* SPEED_LIMIT, 100

ASSUME ReqRepAssumption ==
  /\ Rounds \in Nat \ {0} /\ Queries \in Nat /\ Races \in Nat
  /\ Increment \in Nat \ {0} /\ SpeedLimit \in Nat

Chains == 1..(Queries + Races)
Main == 0                                \* the thread of client_rr
Threads == {Main} \cup Chains
Nobody == Queries + Races + 1            \* a future that is thrown away
BlockingTests == {"synchronous_api", "synchronous_future"}
NoReply == [ex |-> "none", value |-> 0]

VARIABLES
  (* server_rr *)
  speed,              \* of the robot
  inbox,              \* requests in the reader of the replier
  request,            \* the request in work, <<>> if none
  replies,            \* per thread, the reply it has not looked at yet
  (* client_rr *)
  test,               \* the test it is in
  i,                  \* rounds or chains done in it
  at,                 \* "get", "getting", "setting", "assert" or "next"
  wanted,             \* `speed' of the tests
  oldspeed,
  chain               \* per chain, the call it waits for

serverVars == <<speed, inbox, request, replies>>
clientVars == <<test, i, at, wanted, oldspeed, chain>>
vars == <<serverVars, clientVars>>

Init ==
  /\ speed = 0
  /\ inbox = <<>>
  /\ request = <<>>
  /\ replies = [t \in Threads |-> NoReply]
  /\ test = "synchronous_api"
  /\ i = 0
  /\ at = "get"
  /\ wanted = 0
  /\ oldspeed = 0
  /\ chain = [c \in Chains |-> "none"]

GetSpeed(t) == [by |-> t, op |-> "getSpeed", speed |-> 0]
SetSpeed(t, s) == [by |-> t, op |-> "setSpeed", speed |-> s]

Send(q) == inbox' = Append(inbox, q) /\ UNCHANGED <<speed, request>>

Take(t) ==
  /\ replies[t] # NoReply
  /\ replies' = [replies EXCEPT ![t] = NoReply]

(***************************************************************************)
(* The tests that wait for each reply: test_synchronous_api,               *)
(* test_synchronous_future and test_await.                                 *)
(***************************************************************************)
(* Mutant: the loop of test_await goes on at the limit.                   *)
MutantGoOn == test \in BlockingTests \/ (test = "await" /\ wanted <= SpeedLimit)
GoOn == test \in BlockingTests \/ (test = "await" /\ wanted < SpeedLimit)

AskSpeed ==
  /\ at = "get" /\ GoOn
  /\ Send(GetSpeed(Main))
  /\ at' = "getting"
  /\ UNCHANGED <<replies, test, i, wanted, oldspeed, chain>>

(* test_await goes on with the speed it read, the others with the next.    *)
AskForMore ==
  /\ at = "getting"
  /\ Take(Main)
  /\ oldspeed' = replies[Main].value
  /\ wanted' = IF test = "await" THEN oldspeed' ELSE oldspeed' + Increment
  /\ Send(SetSpeed(Main, oldspeed' + Increment))
  /\ at' = "setting"
  /\ UNCHANGED <<test, i, chain>>

(* The union of the reply is asked for TooFast before the result is read.  *)
GotOldSpeed ==
  /\ at = "setting"
  /\ Take(Main)
  /\ \/ /\ test = "await"
        /\ at' = "get"
        /\ UNCHANGED oldspeed
     \/ /\ test \in BlockingTests
        /\ replies[Main].ex = "TooFast"
        /\ at' = "next"
        /\ UNCHANGED oldspeed
     \/ /\ test \in BlockingTests
        /\ replies[Main].ex = "OK"
        /\ oldspeed' = replies[Main].value
        /\ at' = "assert"
  /\ UNCHANGED <<speed, inbox, request, test, i, wanted, chain>>

NextRound ==
  /\ at \in {"assert", "next"}
  /\ at' = "get"
  /\ \/ i + 1 < Rounds /\ i' = i + 1 /\ UNCHANGED test
     \/ /\ i + 1 = Rounds
        /\ i' = 0
        /\ test' = IF test = "synchronous_api" THEN "synchronous_future"
                                               ELSE "asynchronous"
  /\ UNCHANGED <<serverVars, wanted, oldspeed, chain>>

(***************************************************************************)
(* test_asynchronous_getSpeed and test_asynchronous_race start the chains  *)
(* and wait for none; the continuations run on pool threads.               *)
(***************************************************************************)
StartChain ==
  /\ test = "asynchronous" /\ i < Queries + Races
  /\ Send(GetSpeed(i + 1))
  /\ chain' = [chain EXCEPT ![i + 1] = "getSpeed"]
  /\ i' = i + 1
  /\ UNCHANGED <<replies, test, at, wanted, oldspeed>>

Continue(c) ==
  /\ Take(c)
  /\ \/ /\ chain[c] = "getSpeed" /\ c > Queries
        /\ Send(SetSpeed(c, replies[c].value + Increment))
        /\ chain' = [chain EXCEPT ![c] = "setSpeed"]
     \/ /\ chain[c] = "setSpeed" \/ c <= Queries
        /\ chain' = [chain EXCEPT ![c] = "done"]
        /\ UNCHANGED <<speed, inbox, request>>
  /\ UNCHANGED <<test, i, at, wanted, oldspeed>>

(* test_await sets the speed to 0 and throws the future away.              *)
BeginAwait ==
  /\ test = "asynchronous" /\ i = Queries + Races
  /\ Send(SetSpeed(Nobody, 0))
  /\ wanted' = 0
  /\ test' = "await"
  /\ UNCHANGED <<replies, i, at, oldspeed, chain>>

EndAwait ==
  /\ test = "await" /\ at = "get" /\ ~GoOn
  /\ test' = "end"
  /\ UNCHANGED <<serverVars, i, at, wanted, oldspeed, chain>>

(***************************************************************************)
(* server_rr: one request at a time.  A refused robot stops.               *)
(***************************************************************************)
ReceiveRequest ==
  /\ request = <<>>
  /\ inbox # <<>>
  /\ request' = <<Head(inbox)>>
  /\ inbox' = Tail(inbox)
  /\ UNCHANGED <<speed, replies, clientVars>>

(* Mutant: the new speed is returned.                                     *)
MutantOldSpeed == request[1].speed
OldSpeed == speed

(* process_request and send_reply.                                         *)
Reply(ex, value) ==
  /\ replies' = [t \in Threads |-> IF t = request[1].by THEN [ex |-> ex, value |-> value]
                                                        ELSE replies[t]]
  /\ request' = <<>>
  /\ UNCHANGED <<inbox, clientVars>>

(* Mutant: without the check of the limit.                                 *)
MutantTooFast(q) == FALSE
TooFast(q) == q.op = "setSpeed" /\ q.speed > SpeedLimit

ProcessRequest ==
  /\ request # <<>>
  /\ \/ /\ request[1].op = "getSpeed"
        /\ Reply("OK", speed)
        /\ UNCHANGED speed
     \/ /\ TooFast(request[1])
        /\ Reply("TooFast", 0)
        /\ speed' = 0
     \/ /\ request[1].op = "setSpeed" /\ ~TooFast(request[1])
        /\ Reply("OK", OldSpeed)
        /\ speed' = request[1].speed

MainStep ==
  AskSpeed \/ AskForMore \/ GotOldSpeed \/ NextRound \/ StartChain \/ BeginAwait \/ EndAwait
Server == ReceiveRequest \/ ProcessRequest

Next == MainStep \/ Server \/ \E c \in Chains : Continue(c)

Spec == Init /\ [][Next]_vars

(* The threads of both programs run.                                       *)
FairSpec ==
  /\ Spec
  /\ WF_vars(MainStep) /\ WF_vars(Server)
  /\ \A c \in Chains : WF_vars(Continue(c))
-----------------------------------------------------------------------------
(* Types of the variables; what a blocked test wants may be one increment  *)
(* beyond the limit, the speed of the robot never is.                      *)
Requests ==
  [by : Threads \cup {Nobody}, op : {"getSpeed", "setSpeed"}, speed : 0..(SpeedLimit + Increment)]

TypeOK ==
  /\ speed \in 0..SpeedLimit
  /\ inbox \in Seq(Requests)
  /\ request \in {<<>>} \cup {<<q>> : q \in Requests}
  /\ replies \in [Threads -> [ex : {"none", "OK", "TooFast"}, value : 0..SpeedLimit]]
  /\ test \in BlockingTests \cup {"asynchronous", "await", "end"}
  /\ i \in Nat
  /\ at \in {"get", "getting", "setting", "assert", "next"}
  /\ wanted \in 0..(SpeedLimit + Increment)
  /\ oldspeed \in 0..SpeedLimit
  /\ chain \in [Chains -> {"none", "getSpeed", "setSpeed", "done"}]

(* assert(oldspeed == (speed - 10)), robot_reqrep.cxx:62 and 104: what     *)
(* setSpeed returns is what getSpeed returned before, also in the rounds   *)
(* after a refusal.                                                        *)
AssertionsHold == at = "assert" => oldspeed + Increment = wanted

(* test_await comes to the limit in the end, and client_rr with it,        *)
(* although chains that read an old speed may throw the robot back at any  *)
(* time, and a refused one makes it start again from 0.                    *)
ProgramEnds == <>(test = "end" /\ \A c \in Chains : chain[c] = "done")
==============================================================================
