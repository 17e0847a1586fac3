----------------------------- MODULE FuncProgram -----------------------------
(***************************************************************************)
(* robot_func.cxx: the program client_func, built with PPL tasks and       *)
(* await, with the robot of server_func.  The client drives the robot with *)
(* blocking stubs first, then starts chains that double its speed and      *)
(* waits for none of them, and then brings the robot to its highest speed  *)
(* twice, by recursion over continuations and by a loop over await, while  *)
(* chains may still run.                                                   *)
(*                                                                         *)
(* Main is client_func with the continuations it waits for: they run on    *)
(* pool threads, but one at a time.  A stub is a request and the reply to  *)
(* it, as RobotSystem shows.  No wait runs out; but while chains are under *)
(* way the wait of a blocking stub may be ended by a reply to one of them. *)
(***************************************************************************)
EXTENDS Naturals, Sequences

CONSTANTS
  Rounds,             \* of test_synchronous, 10 in the code
  NumChains,          \* of test_asynchronous, 10 in the code
  RecursiveIncrement, \* of speedup_until_maxspeed, 10
  IterativeIncrement, \* of test_iterative_await, 1
  InitSpeed,          \* of MyRobot, 10
  MaxSpeed            \* MAX_SPEED, 100

ASSUME FuncAssumption ==
  /\ Rounds \in Nat \ {0} /\ NumChains \in Nat
  /\ RecursiveIncrement \in Nat \ {0} /\ IterativeIncrement \in Nat \ {0}
  /\ MaxSpeed \in Nat /\ InitSpeed \in 0..MaxSpeed

Chains == 1..NumChains
Main == 0
Threads == {Main} \cup Chains
NoReply == [ex |-> "none", value |-> 0]

VARIABLES
  (* server_func *)
  speed,              \* speed_ of the robot
  inbox,              \* requests not yet dispatched
  replies,            \* per thread, the reply it has not looked at yet
  (* client_func *)
  test,               \* the test it is in, "end", or the exception that ended
                      \* it: "refused" (TooFast) or "unanswered" (runtime_error)
  at,                 \* "reset", "resetting", "set", "setting", "get" or "getting"
  i,                  \* rounds or chains done
  wanted,             \* `speed' of test_synchronous
  chain,              \* per chain, the stub it waits for
  alone               \* history: no chain was under way at the last getSpeed of Main

serverVars == <<speed, inbox, replies>>
clientVars == <<test, at, i, wanted, chain, alone>>
vars == <<serverVars, clientVars>>

Init ==
  /\ speed = InitSpeed
  /\ inbox = <<>>
  /\ replies = [t \in Threads |-> NoReply]
  /\ test = "synchronous"
  /\ at = "set"
  /\ i = 0
  /\ wanted = 1
  /\ chain = [c \in Chains |-> "none"]
  /\ alone = FALSE

GetSpeed(t) == [by |-> t, op |-> "getSpeed", speed |-> 0]
SetSpeed(t, s) == [by |-> t, op |-> "setSpeed", speed |-> s]

Call(q) == inbox' = Append(inbox, q) /\ UNCHANGED <<speed, replies>>

(* The reply is taken, and the thread goes on to call the robot or not.    *)
Take(t) == replies[t] # NoReply /\ replies' = [replies EXCEPT ![t] = NoReply]
TakeThenCall(t, q) == Take(t) /\ inbox' = Append(inbox, q) /\ UNCHANGED speed
TakeOnly(t) == Take(t) /\ UNCHANGED <<speed, inbox>>

(***************************************************************************)
(* test_synchronous: the speed is set, read back and doubled; a refusal    *)
(* starts again from 1.                                                    *)
(***************************************************************************)
SyncSet ==
  /\ test = "synchronous" /\ at = "set" /\ i < Rounds
  /\ Call(SetSpeed(Main, wanted))
  /\ at' = "setting"
  /\ UNCHANGED <<test, i, wanted, chain, alone>>

SyncAccepted ==
  /\ test = "synchronous" /\ at = "setting"
  /\ replies[Main].ex = "OK"
  /\ TakeThenCall(Main, GetSpeed(Main))
  /\ at' = "getting"
  /\ UNCHANGED <<test, i, wanted, chain, alone>>

SyncTooFast ==
  /\ test = "synchronous" /\ at = "setting"
  /\ replies[Main].ex = "TooFast"
  /\ TakeOnly(Main)
  /\ wanted' = 1
  /\ i' = i + 1
  /\ at' = "set"
  /\ UNCHANGED <<test, chain, alone>>

SyncDouble ==
  /\ test = "synchronous" /\ at = "getting"
  /\ TakeOnly(Main)
  /\ wanted' = replies[Main].value * 2
  /\ i' = i + 1
  /\ at' = "set"
  /\ UNCHANGED <<test, chain, alone>>

EndSync ==
  /\ test = "synchronous" /\ at = "set" /\ i = Rounds
  /\ test' = "asynchronous"
  /\ i' = 0
  /\ UNCHANGED <<serverVars, at, wanted, chain, alone>>

(***************************************************************************)
(* test_asynchronous: the continuation of getSpeed_async sets the double,  *)
(* that of setSpeed_async catches TooFast.                                 *)
(***************************************************************************)
StartChain ==
  /\ test = "asynchronous" /\ i < NumChains
  /\ Call(GetSpeed(i + 1))
  /\ chain' = [chain EXCEPT ![i + 1] = "getSpeed"]
  /\ i' = i + 1
  /\ UNCHANGED <<test, at, wanted, alone>>

ContinueGet(c) ==
  /\ chain[c] = "getSpeed"
  /\ TakeThenCall(c, SetSpeed(c, replies[c].value * 2))
  /\ chain' = [chain EXCEPT ![c] = "setSpeed"]
  /\ UNCHANGED <<test, at, i, wanted, alone>>

ContinueSet(c) ==
  /\ chain[c] = "setSpeed"
  /\ TakeOnly(c)
  /\ chain' = [chain EXCEPT ![c] = "done"]
  /\ UNCHANGED <<test, at, i, wanted, alone>>

EndAsync ==
  /\ test = "asynchronous" /\ i = NumChains
  /\ test' = "recursive"
  /\ at' = "reset"
  /\ UNCHANGED <<serverVars, i, wanted, chain, alone>>

(***************************************************************************)
(* test_recursive and test_iterative_await.  Both set the speed to 0 with  *)
(* the blocking stub, then read it and ask for more as long as it leaves   *)
(* room for an increment.                                                  *)
(***************************************************************************)
Increment == IF test = "recursive" THEN RecursiveIncrement ELSE IterativeIncrement

(* Mutant: one increment is kept away from the limit.                      *)
MutantRoomFor(s) == s + Increment < MaxSpeed
(* Mutant: the increment is forgotten.                                     *)
MutantRoom(s) == s <= MaxSpeed
RoomFor(s) == s + Increment <= MaxSpeed

SpeedUp == test \in {"recursive", "iterative"}

EndSpeedUp ==
  \/ test = "recursive" /\ test' = "iterative" /\ at' = "reset"
  \/ test = "iterative" /\ test' = "end" /\ UNCHANGED at

Reset ==
  /\ SpeedUp /\ at = "reset"
  /\ Call(SetSpeed(Main, 0))
  /\ at' = "resetting"
  /\ UNCHANGED <<test, i, wanted, chain, alone>>

(* TooFast would go through every future to the get() in client_func.      *)
Uncaught == replies[Main].ex = "TooFast" /\ test' = "refused" /\ UNCHANGED at

ResetDone ==
  /\ SpeedUp /\ at = "resetting"
  /\ TakeOnly(Main)
  /\ \/ Uncaught
     \/ replies[Main].ex = "OK" /\ at' = "get" /\ UNCHANGED test
  /\ UNCHANGED <<i, wanted, chain, alone>>

(* receive_reply waits for any reply (request_reply.hpp:224): that of a    *)
(* chain ends the wait, nothing is taken, and the stub throws, which no    *)
(* handler inside client_func catches.                                     *)
ResetUnanswered ==
  /\ SpeedUp /\ at = "resetting"
  /\ replies[Main] = NoReply
  /\ \E c \in Chains : replies[c] # NoReply
  /\ test' = "unanswered"
  /\ UNCHANGED <<serverVars, at, i, wanted, chain, alone>>

AskSpeed ==
  /\ SpeedUp /\ at = "get"
  /\ Call(GetSpeed(Main))
  /\ at' = "getting"
  /\ alone' = \A c \in Chains : chain[c] = "done"
  /\ UNCHANGED <<test, i, wanted, chain>>

AskForMore ==
  /\ SpeedUp /\ at = "getting"
  /\ RoomFor(replies[Main].value)
  /\ TakeThenCall(Main, SetSpeed(Main, replies[Main].value + Increment))
  /\ at' = "setting"
  /\ UNCHANGED <<test, i, wanted, chain, alone>>

(* make_ready_future(speed), or the condition of the loop.                 *)
FastEnough ==
  /\ SpeedUp /\ at = "getting"
  /\ ~RoomFor(replies[Main].value)
  /\ TakeOnly(Main)
  /\ EndSpeedUp
  /\ UNCHANGED <<i, wanted, chain, alone>>

(* setSpeed_async returns the speed before it: the recursion looks at that *)
(* one, the loop does not.                                                 *)
GotOldSpeed ==
  /\ SpeedUp /\ at = "setting"
  /\ TakeOnly(Main)
  /\ \/ Uncaught
     \/ /\ replies[Main].ex = "OK"
        /\ test = "iterative" \/ RoomFor(replies[Main].value)
        /\ at' = "get"
        /\ UNCHANGED test
     \/ /\ replies[Main].ex = "OK"
        /\ test = "recursive" /\ ~RoomFor(replies[Main].value)
        /\ EndSpeedUp
  /\ UNCHANGED <<i, wanted, chain, alone>>

(***************************************************************************)
(* server_func: the requests of this client, one after the other.          *)
(***************************************************************************)
(* Mutant: without the check of the limit.                                 *)
MutantTooFast(q) == FALSE
TooFast(q) == q.op = "setSpeed" /\ q.speed > MaxSpeed

(* Mutant: speed_ = s is forgotten.                                        *)
MutantNewSpeed(q) == speed
NewSpeed(q) == IF q.op = "setSpeed" /\ ~TooFast(q) THEN q.speed ELSE speed

Dispatch ==
  /\ inbox # <<>>
  /\ LET q == Head(inbox) IN
       /\ replies' = [replies EXCEPT ![q.by] =
                        [ex |-> IF TooFast(q) THEN "TooFast" ELSE "OK",
                         value |-> IF TooFast(q) THEN 0 ELSE speed]]
       /\ speed' = NewSpeed(q)
  /\ inbox' = Tail(inbox)
  /\ UNCHANGED clientVars

MainStep ==
  \/ SyncSet \/ SyncAccepted \/ SyncTooFast \/ SyncDouble \/ EndSync
  \/ StartChain \/ EndAsync
  \/ Reset \/ ResetDone \/ ResetUnanswered
  \/ AskSpeed \/ AskForMore \/ FastEnough \/ GotOldSpeed
Continue(c) == ContinueGet(c) \/ ContinueSet(c)

Next == MainStep \/ Dispatch \/ \E c \in Chains : Continue(c)

Spec == Init /\ [][Next]_vars

(* The threads of the client and the server thread run.                    *)
FairSpec ==
  /\ Spec
  /\ WF_vars(MainStep) /\ WF_vars(Dispatch)
  /\ \A c \in Chains : WF_vars(Continue(c))
-----------------------------------------------------------------------------
Speeds == 0..(2 * MaxSpeed + 1)
Requests == [by : Threads, op : {"getSpeed", "setSpeed"}, speed : Speeds]
Replies == [ex : {"none", "OK", "TooFast"}, value : 0..MaxSpeed]

(* Types of the variables.  A client may ask for the double of a speed the *)
(* robot had, the robot itself never goes beyond its limit.                *)
TypeOK ==
  /\ speed \in 0..MaxSpeed
  /\ inbox \in Seq(Requests)
  /\ replies \in [Threads -> Replies]
  /\ test \in {"synchronous", "asynchronous", "recursive", "iterative", "end",
              "refused", "unanswered"}
  /\ at \in {"reset", "resetting", "set", "setting", "get", "getting"}
  /\ i \in Nat
  /\ wanted \in Speeds
  /\ chain \in [Chains -> {"none", "getSpeed", "setSpeed", "done"}]
  /\ alone \in BOOLEAN

(* test_synchronous reads back what it set, in every round, after refusals *)
(* too (robot_func.cxx:219-222).                                           *)
ReadsOwnWrite ==
  test = "synchronous" /\ at = "getting" /\ replies[Main] # NoReply
    => replies[Main].value = wanted

(* The speed with which speedup_until_maxspeed and test_iterative_await    *)
(* are content may be one a doubling chain caused, or caused and lost      *)
(* again; but when no chain was under way at their last getSpeed, they     *)
(* leave the robot without room for another increment.                     *)
AtTop ==
  alone =>
    /\ test = "iterative" /\ at = "reset" => speed + RecursiveIncrement > MaxSpeed
    /\ test = "end" => speed + IterativeIncrement > MaxSpeed

(* client_func comes to its end, whatever the chains do to the robot: its  *)
(* own requests are never refused, and it is not thrown back for ever.     *)
(* What may end it before is the exception of a setSpeed(0) whose wait a   *)
(* chain's reply ended; once the chains are done that cannot happen        *)
(* either, and it goes through to the end from wherever it is.             *)
Settled == \A c \in Chains : chain[c] = "done"
ProgramEnds ==
  /\ <>(test \in {"end", "unanswered"} /\ Settled)
  /\ (SpeedUp /\ Settled) ~> test = "end"
==============================================================================
