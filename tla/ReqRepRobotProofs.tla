-------------------------- MODULE ReqRepRobotProofs --------------------------
(***************************************************************************)
(* Proofs about ReqRepRobot: the types, with them the bound on the speed   *)
(* of the robot, and the assertions of the blocking tests.                 *)
(***************************************************************************)
EXTENDS ReqRepRobot, TLAPS

(* What is left of a sequence, and its head, for ReceiveRequest.          *)
LEMMA HeadTail ==
  ASSUME NEW S, NEW q \in Seq(S), q # <<>>
  PROVE  Head(q) \in S /\ Tail(q) \in Seq(S)
  BY SMT

(* What Send appends keeps the type of the reader.                        *)
LEMMA AppendInSeq ==
  ASSUME NEW S, NEW q \in Seq(S), NEW e \in S
  PROVE  Append(q, e) \in Seq(S)
  BY SMT

(* The robot never goes faster than its limit, and every variable keeps    *)
(* its type.                                                               *)
THEOREM TypeCorrect == Spec => []TypeOK
<1>1. Init => TypeOK
  BY ReqRepAssumption, SMT DEF Init, TypeOK, Threads, Chains, NoReply, BlockingTests, Main
<1>2. TypeOK /\ [Next]_vars => TypeOK'
  <2> SUFFICES ASSUME TypeOK, [Next]_vars PROVE TypeOK'
    OBVIOUS
  <2> USE ReqRepAssumption DEF TypeOK, Requests, BlockingTests
  <2>1. CASE AskSpeed
    BY <2>1, SMT DEF AskSpeed, Send, GetSpeed, GoOn, Threads, Main
  <2>2. CASE AskForMore
    <3>1. Main \in Threads
      BY DEF Threads
    <3>2. replies[Main].value \in 0..SpeedLimit
      BY <3>1
    <3>3. /\ oldspeed' = replies[Main].value
          /\ oldspeed' + Increment \in 0..(SpeedLimit + Increment)
      BY <2>2, <3>2, SMT DEF AskForMore
    <3>4. wanted' \in 0..(SpeedLimit + Increment)
      BY <2>2, <3>2, <3>3, SMT DEF AskForMore
    <3>5. inbox' \in Seq(Requests)
      BY <2>2, <3>1, <3>3, SMT DEF AskForMore, Send, SetSpeed
    <3>6. replies' \in [Threads -> [ex : {"none", "OK", "TooFast"}, value : 0..SpeedLimit]]
      BY <2>2, <3>1, SMT DEF AskForMore, Take, NoReply
    <3> QED
      BY <2>2, <3>2, <3>3, <3>4, <3>5, <3>6, SMT DEF AskForMore, Send
  <2>3. CASE GotOldSpeed
    <3>1. Main \in Threads
      BY DEF Threads
    <3>2. replies' \in [Threads -> [ex : {"none", "OK", "TooFast"}, value : 0..SpeedLimit]]
      BY <2>3, <3>1, SMT DEF GotOldSpeed, Take, NoReply
    <3>3. oldspeed' \in 0..SpeedLimit /\ at' \in {"get", "next", "assert"}
      BY <2>3, <3>1, SMT DEF GotOldSpeed
    <3> QED
      BY <2>3, <3>2, <3>3, SMT DEF GotOldSpeed
  <2>4. CASE NextRound
    BY <2>4, SMT DEF NextRound, serverVars
  <2>5. CASE StartChain
    <3>1. i + 1 \in Chains /\ i + 1 \in Threads
      BY <2>5, SMT DEF StartChain, Chains, Threads
    <3>2. inbox' \in Seq(Requests)
      BY <2>5, <3>1, SMT DEF StartChain, Send, GetSpeed
    <3> QED
      BY <2>5, <3>1, <3>2, SMT DEF StartChain, Send
  <2>6. CASE BeginAwait
    BY <2>6, SMT DEF BeginAwait, Send, SetSpeed
  <2>7. CASE EndAwait
    BY <2>7, SMT DEF EndAwait, serverVars
  <2>8. CASE ReceiveRequest
    <3>1. Head(inbox) \in Requests /\ Tail(inbox) \in Seq(Requests)
      BY <2>8, HeadTail DEF ReceiveRequest
    <3> QED
      BY <2>8, <3>1, SMT DEF ReceiveRequest, clientVars
  <2>9. CASE ProcessRequest
    <3>1. request[1] \in Requests
      BY <2>9, SMT DEF ProcessRequest
    <3>2. speed' \in 0..SpeedLimit
      BY <2>9, <3>1, SMT DEF ProcessRequest, TooFast
    <3>3. \A ex \in {"OK", "TooFast"}, v \in 0..SpeedLimit :
            Reply(ex, v) => replies' \in [Threads -> [ex : {"none", "OK", "TooFast"}, value : 0..SpeedLimit]]
      BY SMT DEF Reply
    <3>4. \E ex \in {"OK", "TooFast"}, v \in 0..SpeedLimit : Reply(ex, v)
      BY <2>9, SMT DEF ProcessRequest, OldSpeed
    <3>5. request' = <<>> /\ UNCHANGED <<inbox, clientVars>>
      BY <3>4 DEF Reply
    <3> QED
      BY <3>2, <3>3, <3>4, <3>5, SMT DEF clientVars
  <2>10. CASE \E c \in Chains : Continue(c)
    <3>1. PICK c \in Chains : Continue(c)
      BY <2>10
    <3>2. c \in Threads /\ replies[c].value \in 0..SpeedLimit
      BY DEF Threads
    <3>3. replies' \in [Threads -> [ex : {"none", "OK", "TooFast"}, value : 0..SpeedLimit]]
      BY <3>1, <3>2, SMT DEF Continue, Take, NoReply
    <3>4. inbox' \in Seq(Requests) /\ UNCHANGED <<speed, request>>
      <4>1. SetSpeed(c, replies[c].value + Increment) \in Requests
        BY <3>2, SMT DEF SetSpeed
      <4>2. \/ inbox' = inbox /\ UNCHANGED <<speed, request>>
            \/ Send(SetSpeed(c, replies[c].value + Increment))
        BY <3>1 DEF Continue
      <4>3. CASE Send(SetSpeed(c, replies[c].value + Increment))
        <5>1. inbox \in Seq(Requests)
          OBVIOUS
        <5>2. inbox' = Append(inbox, SetSpeed(c, replies[c].value + Increment))
              /\ UNCHANGED <<speed, request>>
          BY <4>3 DEF Send
        <5> QED
          BY <4>1, <5>1, <5>2, AppendInSeq
      <4> QED
        BY <4>2, <4>3
    <3>5. chain' \in [Chains -> {"none", "getSpeed", "setSpeed", "done"}]
      BY <3>1, SMT DEF Continue
    <3> QED
      BY <3>1, <3>3, <3>4, <3>5, SMT DEF Continue
  <2>11. CASE UNCHANGED vars
    BY <2>11 DEF vars, serverVars, clientVars
  <2> QED
    BY <2>1, <2>2, <2>3, <2>4, <2>5, <2>6, <2>7, <2>8, <2>9, <2>10, <2>11
       DEF Next, MainStep, Server
<1> QED
  BY <1>1, <1>2, PTL DEF Spec
-----------------------------------------------------------------------------
(***************************************************************************)
(* In the blocking tests the client has one call in progress at most, and  *)
(* it is on its way, in work, or answered; nobody else drives the robot.   *)
(***************************************************************************)
Silent == \A t \in Threads : replies[t] = NoReply
OnlyMain == \A c \in Chains : replies[c] = NoReply

InProgress(q) ==
  \/ inbox = <<q>> /\ request = <<>> /\ Silent
  \/ inbox = <<>> /\ request = <<q>> /\ Silent

OneCall ==
  /\ at \in {"get", "assert", "next"} => inbox = <<>> /\ request = <<>> /\ Silent
  /\ at = "getting" =>
       \/ InProgress(GetSpeed(Main))
       \/ /\ inbox = <<>> /\ request = <<>> /\ OnlyMain
          /\ replies[Main] = [ex |-> "OK", value |-> speed]
  /\ at = "setting" =>
       /\ wanted = oldspeed + Increment
       /\ \/ InProgress(SetSpeed(Main, wanted)) /\ speed = oldspeed
          \/ /\ inbox = <<>> /\ request = <<>> /\ OnlyMain
             /\ \/ replies[Main] = [ex |-> "OK", value |-> oldspeed]
                \/ replies[Main].ex = "TooFast"

IInv ==
  /\ test \in BlockingTests => OneCall
  /\ test \notin BlockingTests => at \in {"get", "getting", "setting"}
  /\ test \in {"asynchronous", "end"} => at = "get"
  /\ AssertionsHold

(* The assertions of robot_reqrep.cxx hold for every number of rounds and  *)
(* chains, every limit and every increment.                                *)
THEOREM AssertionsCorrect == Spec => []AssertionsHold
<1>1. Init => IInv
  BY SMT DEF Init, IInv, OneCall, Silent, BlockingTests, AssertionsHold
<1>2. IInv /\ TypeOK /\ [Next]_vars => IInv'
  <2> SUFFICES ASSUME IInv, TypeOK, [Next]_vars PROVE IInv'
    OBVIOUS
  <2> USE DEF IInv, BlockingTests, AssertionsHold
  <2>0. Main \in Threads /\ \A c \in Chains : c \in Threads /\ c # Main
    BY ReqRepAssumption, SMT DEF Threads, Chains, Main
  <2>1. CASE AskSpeed
    <3>1. CASE test \in BlockingTests
      <4>1. inbox = <<>> /\ request = <<>> /\ Silent
        BY <2>1, <3>1 DEF AskSpeed, OneCall
      <4>2. /\ inbox' = <<GetSpeed(Main)>> /\ request' = <<>> /\ Silent'
            /\ at' = "getting" /\ test' = test
        BY <2>1, <4>1, SMT DEF AskSpeed, Send, Silent
      <4> QED
        BY <3>1, <4>2 DEF OneCall, InProgress
    <3>2. CASE test \notin BlockingTests
      BY <2>1, <3>2 DEF AskSpeed, GoOn
    <3> QED
      BY <3>1, <3>2
  <2>2. CASE AskForMore
    <3>1. CASE test \in BlockingTests
      <4>1. /\ inbox = <<>> /\ request = <<>> /\ OnlyMain
            /\ replies[Main] = [ex |-> "OK", value |-> speed]
        BY <2>2, <2>0, <3>1, SMT DEF AskForMore, Take, OneCall, InProgress, Silent
      <4>2. Silent'
        BY <2>2, <2>0, <4>1, SMT DEF AskForMore, Take, Silent, OnlyMain, Threads, TypeOK
      <4>3. /\ oldspeed' = speed /\ wanted' = oldspeed' + Increment /\ speed' = speed
            /\ inbox' = <<SetSpeed(Main, wanted')>> /\ request' = <<>>
            /\ at' = "setting" /\ test' = test
        BY <2>2, <3>1, <4>1, SMT DEF AskForMore, Send
      <4> QED
        BY <3>1, <4>2, <4>3 DEF OneCall, InProgress, SetSpeed
    <3>2. CASE test \notin BlockingTests
      BY <2>2, <3>2 DEF AskForMore
    <3> QED
      BY <3>1, <3>2
  <2>3. CASE GotOldSpeed
    <3>1. CASE test \in BlockingTests
      <4>1. /\ inbox = <<>> /\ request = <<>> /\ OnlyMain
            /\ wanted = oldspeed + Increment
            /\ replies[Main] = [ex |-> "OK", value |-> oldspeed] \/ replies[Main].ex = "TooFast"
        BY <2>3, <2>0, <3>1, SMT DEF GotOldSpeed, Take, OneCall, InProgress, Silent
      <4>2. Silent'
        BY <2>3, <2>0, <4>1, SMT DEF GotOldSpeed, Take, Silent, OnlyMain, Threads, TypeOK
      <4>3. /\ inbox' = <<>> /\ request' = <<>> /\ test' = test /\ at' \in {"assert", "next"}
        BY <2>3, <3>1, <4>1, SMT DEF GotOldSpeed
      <4>4. at' = "assert" => oldspeed' + Increment = wanted'
        BY <2>3, <3>1, <4>1, SMT DEF GotOldSpeed
      <4> QED
        BY <3>1, <4>2, <4>3, <4>4 DEF OneCall
    <3>2. CASE test \notin BlockingTests
      BY <2>3, <3>2 DEF GotOldSpeed
    <3> QED
      BY <3>1, <3>2
  <2>4. CASE NextRound
    BY <2>4, SMT DEF NextRound, serverVars, OneCall, Silent
  <2>5. CASE StartChain
    BY <2>5 DEF StartChain
  <2>6. CASE BeginAwait
    BY <2>6 DEF BeginAwait
  <2>7. CASE EndAwait
    BY <2>7 DEF EndAwait
  <2>8. CASE ReceiveRequest
    <3>1. CASE test \in BlockingTests
      <4>1. \E q : inbox = <<q>>
        BY <2>8, <3>1 DEF ReceiveRequest, OneCall, InProgress, TypeOK
      <4>2. PICK q : inbox = <<q>>
        BY <4>1
      <4>3. request' = <<q>> /\ inbox' = <<>> /\ UNCHANGED <<speed, replies, clientVars>>
        BY <2>8, <4>2, SMT DEF ReceiveRequest
      <4> QED
        BY <2>8, <3>1, <4>2, <4>3, SMT
           DEF ReceiveRequest, clientVars, OneCall, InProgress, Silent, GetSpeed, SetSpeed
    <3>2. CASE test \notin BlockingTests
      BY <2>8, <3>2 DEF ReceiveRequest, clientVars
    <3> QED
      BY <3>1, <3>2
  <2>9. CASE ProcessRequest
    <3>1. CASE test \in BlockingTests
      <4>1. CASE at = "getting"
        <5>1. inbox = <<>> /\ request = <<GetSpeed(Main)>> /\ Silent
          BY <2>9, <3>1, <4>1, SMT DEF ProcessRequest, OneCall, InProgress
        <5>2. Reply("OK", speed) /\ speed' = speed
          BY <2>9, <5>1, SMT DEF ProcessRequest, GetSpeed, TooFast
        <5>3. /\ inbox' = <<>> /\ request' = <<>> /\ UNCHANGED clientVars
              /\ OnlyMain' /\ replies'[Main] = [ex |-> "OK", value |-> speed]
          BY <2>0, <5>1, <5>2, SMT DEF Reply, OnlyMain, Silent, GetSpeed
        <5> QED
          BY <3>1, <4>1, <5>2, <5>3 DEF OneCall, clientVars
      <4>2. CASE at = "setting"
        <5>1. /\ inbox = <<>> /\ request = <<SetSpeed(Main, wanted)>> /\ Silent
              /\ speed = oldspeed /\ wanted = oldspeed + Increment
          BY <2>9, <3>1, <4>2, SMT DEF ProcessRequest, OneCall, InProgress
        <5>2. Reply("TooFast", 0) \/ Reply("OK", oldspeed)
          BY <2>9, <5>1, SMT DEF ProcessRequest, SetSpeed, TooFast, OldSpeed
        <5>3. /\ inbox' = <<>> /\ request' = <<>> /\ UNCHANGED clientVars
              /\ OnlyMain'
              /\ \/ replies'[Main] = [ex |-> "OK", value |-> oldspeed]
                 \/ replies'[Main].ex = "TooFast"
          BY <2>0, <5>1, <5>2, SMT DEF Reply, OnlyMain, Silent, SetSpeed
        <5> QED
          BY <3>1, <4>2, <5>1, <5>3 DEF OneCall, clientVars
      <4>3. CASE at \in {"get", "assert", "next"}
        BY <2>9, <3>1, <4>3 DEF ProcessRequest, OneCall
      <4> QED
        BY <4>1, <4>2, <4>3 DEF TypeOK
    <3>2. CASE test \notin BlockingTests
      <4>1. UNCHANGED clientVars
        BY <2>9 DEF ProcessRequest, Reply
      <4> QED
        BY <3>2, <4>1 DEF clientVars
    <3> QED
      BY <3>1, <3>2
  <2>10. CASE \E c \in Chains : Continue(c)
    <3>1. PICK c \in Chains : Continue(c)
      BY <2>10
    <3>2. replies[c] # NoReply /\ UNCHANGED <<test, i, at, wanted, oldspeed>>
      BY <3>1 DEF Continue, Take
    <3>3. CASE test \in BlockingTests
      BY <2>0, <3>2, <3>3 DEF OneCall, InProgress, Silent, OnlyMain, TypeOK
    <3>4. CASE test \notin BlockingTests
      BY <3>2, <3>4
    <3> QED
      BY <3>3, <3>4
  <2>11. CASE UNCHANGED vars
    BY <2>11, SMT DEF vars, serverVars, clientVars, OneCall, InProgress, Silent, OnlyMain
  <2> QED
    BY <2>1, <2>2, <2>3, <2>4, <2>5, <2>6, <2>7, <2>8, <2>9, <2>10, <2>11
       DEF Next, MainStep, Server
<1>3. IInv => AssertionsHold
  BY DEF IInv
<1> QED
  BY <1>1, <1>2, <1>3, TypeCorrect, PTL DEF Spec
==============================================================================
