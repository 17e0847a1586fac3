-------------------------- MODULE FuncProgramProofs --------------------------
(***************************************************************************)
(* Proofs about FuncProgram, for any number of rounds and chains, any      *)
(* increments and any limit.                                               *)
(***************************************************************************)
EXTENDS FuncProgram, TLAPS

(* The threads that wait for a reply.                                      *)
Waiting ==
  {c \in Chains : chain[c] \in {"getSpeed", "setSpeed"}} \cup
  {t \in {Main} : test \notin {"end", "refused"} /\ at \in {"resetting", "setting", "getting"}}

(* Each thread has one call at most, on its way or answered.               *)
OneCall ==
  /\ \A j \in 1..Len(inbox) : inbox[j].by \in Waiting /\ replies[inbox[j].by] = NoReply
  /\ \A j, k \in 1..Len(inbox) : inbox[j].by = inbox[k].by => j = k
  /\ \A t \in Threads : replies[t] # NoReply => t \in Waiting

(* Where Main may be in each test.                                         *)
Places ==
  /\ test = "synchronous" =>
       at \in {"set", "setting", "getting"} /\ \A c \in Chains : chain[c] = "none"
  /\ test = "asynchronous" => at = "set" /\ \A c \in Chains : c > i => chain[c] = "none"
  /\ SpeedUp => at # "set"
  /\ test # "refused"

(* The blocking test knows the speed of the robot.                         *)
KnowsSpeed ==
  test = "synchronous" =>
    /\ at = "setting" =>
         /\ \A j \in 1..Len(inbox) : inbox[j].op = "setSpeed" /\ inbox[j].speed = wanted
         /\ replies[Main].ex = "OK" => speed = wanted
    /\ at = "getting" =>
         /\ \A j \in 1..Len(inbox) : inbox[j].op = "getSpeed"
         /\ speed = wanted
         /\ replies[Main] # NoReply => replies[Main].value = wanted

(* When it speeds up, Main asks for no speed beyond the limit.             *)
NotTooFast ==
  SpeedUp =>
    /\ \A j \in 1..Len(inbox) : inbox[j].by = Main => inbox[j].speed <= MaxSpeed
    /\ replies[Main].ex # "TooFast"

(* Once no chain is under way, Main knows the speed of the robot, and goes *)
(* on from there.                                                          *)
Quiet == \A c \in Chains : chain[c] = "done"
GoesUp ==
  alone =>
    /\ Quiet
    /\ test \in {"recursive", "iterative", "end"}
    /\ SpeedUp /\ at = "getting" =>
         /\ \A j \in 1..Len(inbox) : inbox[j].op = "getSpeed"
         /\ replies[Main] # NoReply => replies[Main].value = speed
    /\ SpeedUp /\ at = "setting" =>
         /\ \A j \in 1..Len(inbox) :
              inbox[j].op = "setSpeed" /\ RoomFor(speed) /\ inbox[j].speed = speed + Increment
         /\ replies[Main] # NoReply => RoomFor(replies[Main].value)

IInv == TypeOK /\ OneCall /\ Places /\ KnowsSpeed /\ NotTooFast /\ GoesUp /\ AtTop
-----------------------------------------------------------------------------
(* Queues.                                                                 *)
LEMMA AppendFacts ==
  ASSUME NEW S, NEW q \in Seq(S), NEW e \in S
  PROVE  /\ Append(q, e) \in Seq(S)
         /\ Len(Append(q, e)) = Len(q) + 1
         /\ \A j \in 1..(Len(q) + 1) : Append(q, e)[j] = IF j <= Len(q) THEN q[j] ELSE e
BY SMT

LEMMA TailFacts ==
  ASSUME NEW S, NEW q \in Seq(S), q # <<>>
  PROVE  /\ Tail(q) \in Seq(S) /\ Head(q) \in S
         /\ Len(q) \in Nat \ {0} /\ Head(q) = q[1]
         /\ Len(Tail(q)) = Len(q) - 1
         /\ \A j \in 1..(Len(q) - 1) : Tail(q)[j] = q[j + 1]
BY SMT

(* Speeds that are asked for.                                              *)
LEMMA RequestType ==
  ASSUME NEW t \in Threads
  PROVE  /\ GetSpeed(t) \in Requests
         /\ \A s \in Speeds : SetSpeed(t, s) \in Requests
BY FuncAssumption DEF GetSpeed, SetSpeed, Requests, Speeds

LEMMA ThreadTypes == Main \in Threads /\ Chains \subseteq Threads /\ Main \notin Chains
BY DEF Threads, Main, Chains

ServerTypes == speed \in 0..MaxSpeed /\ inbox \in Seq(Requests) /\ replies \in [Threads -> Replies]

LEMMA ServerTypesKept ==
  ASSUME TypeOK, NEW t \in Threads, NEW q \in Requests,
         Call(q) \/ TakeThenCall(t, q) \/ TakeOnly(t) \/ UNCHANGED serverVars
  PROVE  ServerTypes'
<1> USE DEF ServerTypes, TypeOK
<1>1. CASE Call(q)
  BY <1>1, AppendFacts DEF Call
<1>2. ASSUME Take(t) PROVE replies' \in [Threads -> Replies]
  BY <1>2, FuncAssumption DEF Take, NoReply, Replies
<1>3. CASE TakeThenCall(t, q)
  BY <1>2, <1>3, AppendFacts DEF TakeThenCall
<1>4. CASE TakeOnly(t)
  BY <1>2, <1>4 DEF TakeOnly
<1>5. CASE UNCHANGED serverVars
  BY <1>5 DEF serverVars
<1> QED BY <1>1, <1>3, <1>4, <1>5

LEMMA InitType == Init => TypeOK
<1> SUFFICES ASSUME Init PROVE TypeOK
  OBVIOUS
<1>1. speed \in 0..MaxSpeed /\ 1 \in Speeds /\ 0 \in 0..MaxSpeed
  BY FuncAssumption DEF Init, Speeds
<1>2. replies \in [Threads -> Replies]
  BY <1>1 DEF Init, NoReply, Replies
<1>3. inbox \in Seq(Requests)
  BY DEF Init
<1> QED BY <1>1, <1>2, <1>3 DEF Init, TypeOK

LEMMA DispatchType ==
  ASSUME TypeOK, Dispatch
  PROVE  TypeOK'
<1> USE FuncAssumption DEF TypeOK
<1>1. /\ inbox \in Seq(Requests) /\ inbox # <<>>
      /\ Head(inbox) \in Requests /\ Tail(inbox) \in Seq(Requests)
  BY TailFacts DEF Dispatch
<1>2. replies' \in [Threads -> Replies]
  BY <1>1 DEF Dispatch, Replies, Requests
<1>3. speed' \in 0..MaxSpeed
  BY <1>1 DEF Dispatch, NewSpeed, TooFast, Requests, Speeds
<1> QED BY <1>1, <1>2, <1>3 DEF Dispatch, clientVars

LEMMA NextType == TypeOK /\ [Next]_vars => TypeOK'
<1> SUFFICES ASSUME TypeOK, [Next]_vars PROVE TypeOK'
  OBVIOUS
<1> USE FuncAssumption, ThreadTypes
<1>0. /\ \A t \in Threads : replies[t].value \in 0..MaxSpeed /\ replies[t].value * 2 \in Speeds
      /\ 0 \in Speeds /\ 1 \in Speeds /\ wanted \in Speeds /\ i \in Nat
  BY DEF TypeOK, Replies, Speeds
<1>1. CASE SyncSet \/ SyncAccepted \/ SyncTooFast \/ SyncDouble \/ EndSync
  <2>1. ServerTypes'
    BY <1>0, <1>1, ServerTypesKept, RequestType DEF SyncSet, SyncAccepted, SyncTooFast, SyncDouble, EndSync
  <2>2. /\ i' \in Nat /\ wanted' \in Speeds /\ chain' = chain /\ alone' = alone
        /\ test' \in {test, "asynchronous"} /\ at' \in {at, "set", "setting", "getting"}
    BY <1>0, <1>1 DEF SyncSet, SyncAccepted, SyncTooFast, SyncDouble, EndSync
  <2> QED BY <2>1, <2>2 DEF TypeOK, ServerTypes
<1>2. CASE StartChain \/ EndAsync
  <2>1. i < NumChains => i + 1 \in Chains
    BY <1>0 DEF Chains
  <2>2. ServerTypes'
    BY <1>2, <2>1, ServerTypesKept, RequestType DEF StartChain, EndAsync
  <2>3. chain' \in [Chains -> {"none", "getSpeed", "setSpeed", "done"}]
    BY <1>2 DEF TypeOK, StartChain, EndAsync
  <2>4. /\ i' \in Nat /\ wanted' = wanted /\ alone' = alone
        /\ test' \in {test, "recursive"} /\ at' \in {at, "reset"}
    BY <1>0, <1>2 DEF StartChain, EndAsync
  <2> QED BY <2>2, <2>3, <2>4 DEF TypeOK, ServerTypes
<1>3. CASE \/ Reset \/ ResetDone \/ ResetUnanswered
            \/ AskSpeed \/ AskForMore \/ FastEnough \/ GotOldSpeed
  <2>1. AskForMore => replies[Main].value + Increment \in Speeds
    BY <1>0 DEF AskForMore, RoomFor, Increment, Speeds
  <2>2. ServerTypes'
    BY <1>0, <1>3, <2>1, ServerTypesKept, RequestType
       DEF Reset, ResetDone, ResetUnanswered, AskSpeed, AskForMore, FastEnough, GotOldSpeed
  <2>3. /\ i' = i /\ wanted' = wanted /\ chain' = chain /\ alone' \in BOOLEAN
        /\ test' \in {test, "iterative", "end", "refused", "unanswered"}
        /\ at' \in {at, "reset", "resetting", "set", "setting", "get", "getting"}
    BY <1>3 DEF Reset, ResetDone, ResetUnanswered, AskSpeed, AskForMore, FastEnough, GotOldSpeed,
         EndSpeedUp, Uncaught, TypeOK
  <2> QED BY <2>2, <2>3 DEF TypeOK, ServerTypes
<1>4. CASE \E c \in Chains : Continue(c)
  <2>1. PICK c \in Chains : Continue(c)
    BY <1>4
  <2>2. ServerTypes'
    BY <1>0, <2>1, ServerTypesKept, RequestType DEF Continue, ContinueGet, ContinueSet
  <2> QED BY <2>1, <2>2 DEF TypeOK, ServerTypes, Continue, ContinueGet, ContinueSet
<1>5. CASE Dispatch
  BY <1>5, DispatchType
<1>6. CASE UNCHANGED vars
  BY <1>6 DEF vars, serverVars, clientVars, TypeOK
<1> QED BY <1>1, <1>2, <1>3, <1>4, <1>5, <1>6 DEF Next, MainStep

(* client_func, its chains and the robot keep their types: the robot never *)
(* goes beyond its limit, whatever doubles are asked for.                  *)
THEOREM TypeCorrect == Spec => []TypeOK
BY InitType, NextType, PTL DEF Spec
-----------------------------------------------------------------------------
LEMMA InboxType ==
  ASSUME TypeOK
  PROVE  /\ inbox \in Seq(Requests) /\ Len(inbox) \in Nat
         /\ \A j \in 1..Len(inbox) : inbox[j] \in Requests /\ inbox[j].by \in Threads
<1>1. inbox \in Seq(Requests)
  BY DEF TypeOK
<1>2. Len(inbox) \in Nat /\ \A j \in 1..Len(inbox) : inbox[j] \in Requests
  BY <1>1
<1>3. \A q \in Requests : q.by \in Threads
  BY DEF Requests
<1> QED BY <1>1, <1>2, <1>3

(* One call per thread: what the client does.                              *)
LEMMA CallKeeps ==
  ASSUME TypeOK, OneCall, NEW q \in Requests, Call(q), q.by \notin Waiting, q.by \in Waiting',
         \A t \in Threads \ {q.by} : t \in Waiting => t \in Waiting'
  PROVE  OneCall'
<1>0. q.by \in Threads
  BY DEF Requests
<1>1. /\ inbox \in Seq(Requests) /\ inbox' = Append(inbox, q) /\ replies' = replies /\ q.by \in Threads
      /\ \A j \in 1..Len(inbox) : inbox[j].by \in Threads
  BY <1>0, InboxType DEF Call
<1>2. /\ Len(inbox) \in Nat /\ Len(inbox') = Len(inbox) + 1
      /\ \A j \in 1..(Len(inbox) + 1) : inbox'[j] = IF j <= Len(inbox) THEN inbox[j] ELSE q
  BY <1>1, AppendFacts
<1>3. \A j \in 1..Len(inbox) : inbox[j].by # q.by /\ replies[inbox[j].by] = NoReply /\ inbox[j].by \in Waiting'
  BY <1>1 DEF OneCall
<1>4. replies[q.by] = NoReply
  BY <1>1 DEF OneCall
<1>5. \A j \in 1..Len(inbox') : inbox'[j].by \in Waiting' /\ replies'[inbox'[j].by] = NoReply
  BY <1>1, <1>2, <1>3, <1>4
<1>6. \A j, k \in 1..Len(inbox') : inbox'[j].by = inbox'[k].by => j = k
  BY <1>2, <1>3 DEF OneCall
<1>7. \A t \in Threads : replies'[t] # NoReply => t \in Waiting'
  BY <1>1 DEF OneCall
<1> QED BY <1>5, <1>6, <1>7 DEF OneCall

LEMMA TakeKeeps ==
  ASSUME TypeOK, OneCall, NEW t \in Threads, Take(t), inbox' = inbox,
         \A u \in Threads \ {t} : u \in Waiting => u \in Waiting'
  PROVE  /\ OneCall'
         /\ \A j \in 1..Len(inbox) : inbox[j].by # t
<1>1. /\ \A j \in 1..Len(inbox) : inbox[j].by \in Threads
      /\ \A u \in Threads : replies'[u] = IF u = t THEN NoReply ELSE replies[u]
      /\ replies[t] # NoReply
  BY InboxType DEF TypeOK, Take
<1>2. \A j \in 1..Len(inbox) : inbox[j].by # t
  BY <1>1 DEF OneCall
<1> QED BY <1>1, <1>2 DEF OneCall

LEMMA TakeThenCallKeeps ==
  ASSUME TypeOK, OneCall, NEW q \in Requests, TakeThenCall(q.by, q),
         \A u \in Threads : u \in Waiting => u \in Waiting'
  PROVE  OneCall'
<1>0. q.by \in Threads
  BY DEF Requests
<1>1. /\ inbox \in Seq(Requests) /\ inbox' = Append(inbox, q) /\ q.by \in Threads
      /\ \A j \in 1..Len(inbox) : inbox[j].by \in Threads
      /\ \A u \in Threads : replies'[u] = IF u = q.by THEN NoReply ELSE replies[u]
      /\ replies[q.by] # NoReply
  BY <1>0, InboxType DEF TypeOK, TakeThenCall, Take
<1>2. /\ Len(inbox) \in Nat /\ Len(inbox') = Len(inbox) + 1
      /\ \A j \in 1..(Len(inbox) + 1) : inbox'[j] = IF j <= Len(inbox) THEN inbox[j] ELSE q
  BY <1>1, AppendFacts
<1>3. \A j \in 1..Len(inbox) : inbox[j].by # q.by /\ replies[inbox[j].by] = NoReply /\ inbox[j].by \in Waiting'
  BY <1>1 DEF OneCall
<1>4. q.by \in Waiting'
  BY <1>1 DEF OneCall
<1>5. \A j \in 1..Len(inbox') : inbox'[j].by \in Waiting' /\ replies'[inbox'[j].by] = NoReply
  BY <1>1, <1>2, <1>3, <1>4
<1>6. \A j, k \in 1..Len(inbox') : inbox'[j].by = inbox'[k].by => j = k
  BY <1>2, <1>3 DEF OneCall
<1>7. \A u \in Threads : replies'[u] # NoReply => u \in Waiting'
  BY <1>1 DEF OneCall
<1> QED BY <1>5, <1>6, <1>7 DEF OneCall

LEMMA NothingKeeps ==
  ASSUME TypeOK, OneCall, UNCHANGED serverVars, \A t \in Threads : t \in Waiting => t \in Waiting'
  PROVE  OneCall'
<1>1. inbox' = inbox /\ replies' = replies /\ \A j \in 1..Len(inbox) : inbox[j].by \in Threads
  BY InboxType DEF serverVars
<1> QED BY <1>1 DEF OneCall

(* The server takes a request out, and answers it.                         *)
LEMMA DispatchFacts ==
  ASSUME TypeOK, OneCall, Dispatch
  PROVE  /\ inbox[1] \in Requests /\ inbox[1].by \in Waiting
         /\ Len(inbox) \in Nat \ {0} /\ Len(inbox') = Len(inbox) - 1
         /\ \A j \in 1..Len(inbox') : inbox'[j] = inbox[j + 1] /\ inbox'[j].by # inbox[1].by
         /\ replies'[inbox[1].by] = [ex |-> IF TooFast(inbox[1]) THEN "TooFast" ELSE "OK",
                                     value |-> IF TooFast(inbox[1]) THEN 0 ELSE speed]
         /\ \A t \in Threads \ {inbox[1].by} : replies'[t] = replies[t]
         /\ speed' = NewSpeed(inbox[1])
         /\ UNCHANGED clientVars
         /\ OneCall'
<1>1. /\ inbox \in Seq(Requests) /\ Tail(inbox) \in Seq(Requests) /\ inbox' = Tail(inbox)
      /\ Len(inbox) \in Nat \ {0} /\ Len(inbox') = Len(inbox) - 1
      /\ inbox[1] \in Requests /\ Head(inbox) = inbox[1]
      /\ \A j \in 1..Len(inbox') : inbox'[j] = inbox[j + 1]
  BY TailFacts DEF TypeOK, Dispatch
<1>2. UNCHANGED clientVars /\ Waiting' = Waiting
  BY DEF Dispatch, clientVars, Waiting
<1>3. /\ replies'[inbox[1].by] = [ex |-> IF TooFast(inbox[1]) THEN "TooFast" ELSE "OK",
                                  value |-> IF TooFast(inbox[1]) THEN 0 ELSE speed]
      /\ \A t \in Threads \ {inbox[1].by} : replies'[t] = replies[t]
      /\ speed' = NewSpeed(inbox[1])
  BY <1>1, InboxType DEF Dispatch, TypeOK
<1>4. \A j \in 1..Len(inbox') : j + 1 \in 1..Len(inbox) /\ j + 1 # 1 /\ j \in Nat
  BY <1>1
<1>5. 1 \in 1..Len(inbox)
  BY <1>1
<1>6. \A j \in 1..Len(inbox') : inbox'[j].by # inbox[1].by /\ inbox'[j].by \in Threads
  BY <1>1, <1>4, <1>5, InboxType DEF OneCall
<1>7. inbox[1].by \in Waiting
  BY <1>5 DEF OneCall
<1>8. \A j \in 1..Len(inbox') : inbox'[j].by \in Waiting' /\ replies'[inbox'[j].by] = NoReply
  BY <1>1, <1>2, <1>3, <1>4, <1>6 DEF OneCall
<1>9. \A j, k \in 1..Len(inbox') : inbox'[j].by = inbox'[k].by => j = k
  <2> SUFFICES ASSUME NEW j \in 1..Len(inbox'), NEW k \in 1..Len(inbox'), inbox'[j].by = inbox'[k].by
               PROVE  j = k
    OBVIOUS
  <2>1. j + 1 = k + 1
    BY <1>1, <1>4 DEF OneCall
  <2> QED BY <1>4, <2>1
<1>10. \A t \in Threads : replies'[t] # NoReply => t \in Waiting'
  BY <1>2, <1>3, <1>7 DEF OneCall
<1>11. OneCall'
  BY <1>8, <1>9, <1>10 DEF OneCall
<1> QED BY <1>1, <1>2, <1>3, <1>6, <1>7, <1>11

(* When no chain waits, what is in the queue is the one call of Main.      *)
LEMMA OnlyMain ==
  ASSUME TypeOK, OneCall, \A c \in Chains : chain[c] \notin {"getSpeed", "setSpeed"}
  PROVE  /\ \A j \in 1..Len(inbox) : inbox[j].by = Main /\ j = 1
         /\ Len(inbox) \in {0, 1}
         /\ Main \notin Waiting \/ replies[Main] # NoReply => Len(inbox) = 0
<1>1. Len(inbox) \in Nat /\ \A j \in 1..Len(inbox) : inbox[j].by \in Threads
  BY InboxType
<1>2. \A j \in 1..Len(inbox) : inbox[j].by = Main
  BY <1>1 DEF OneCall, Waiting
<1>3. \A j \in 1..Len(inbox) : 1 \in 1..Len(inbox) /\ j = 1
  <2>1. \A j \in 1..Len(inbox) : 1 \in 1..Len(inbox)
    BY <1>1
  <2> QED BY <1>2, <2>1 DEF OneCall
<1>4. Len(inbox) \in {0, 1}
  <2>1. 2 \notin 1..Len(inbox)
    BY <1>3
  <2> QED BY <1>1, <2>1
<1>5. Main \notin Waiting \/ replies[Main] # NoReply => Len(inbox) = 0
  <2>1. Len(inbox) # 0 => 1 \in 1..Len(inbox)
    BY <1>1
  <2> QED BY <1>2, <2>1 DEF OneCall
<1> QED BY <1>2, <1>3, <1>4, <1>5

(* Which chains wait after a step of Main.                                 *)
LEMMA OthersWait ==
  ASSUME chain' = chain
  PROVE  \A t \in Threads \ {Main} : t \in Waiting' <=> t \in Waiting
BY DEF Waiting

LEMMA ClientOneCall ==
  ASSUME TypeOK, OneCall, Places, MainStep \/ \E c \in Chains : Continue(c)
  PROVE  OneCall'
<1> USE ThreadTypes
<1>0. \A t \in Threads : GetSpeed(t) \in Requests /\ GetSpeed(t).by = t
  BY RequestType DEF GetSpeed
<1>1. \A t \in Threads, s \in Speeds : SetSpeed(t, s) \in Requests /\ SetSpeed(t, s).by = t
  BY RequestType DEF SetSpeed
<1>2. /\ \A t \in Threads : replies[t].value \in 0..MaxSpeed /\ replies[t].value * 2 \in Speeds
      /\ 0 \in Speeds /\ wanted \in Speeds /\ i \in Nat
  BY FuncAssumption DEF TypeOK, Replies, Speeds
<1>3. CASE SyncSet
  <2>1. Main \notin Waiting /\ Main \in Waiting'
    BY <1>3 DEF SyncSet, Waiting
  <2> QED BY <1>1, <1>2, <1>3, <2>1, CallKeeps, OthersWait DEF SyncSet
<1>4. CASE SyncAccepted
  <2>1. Main \in Waiting'
    BY <1>4 DEF SyncAccepted, Waiting
  <2> QED BY <1>0, <1>4, <2>1, TakeThenCallKeeps, OthersWait DEF SyncAccepted
<1>5. CASE SyncTooFast \/ SyncDouble
  BY <1>5, TakeKeeps, OthersWait DEF SyncTooFast, SyncDouble, TakeOnly
<1>6. CASE EndSync
  <2>1. Main \in Waiting' <=> Main \in Waiting
    BY <1>6 DEF EndSync, Waiting
  <2> QED BY <1>6, <2>1, NothingKeeps, OthersWait DEF EndSync
<1>7. CASE StartChain
  <2>1. i + 1 \in Chains /\ i + 1 \in Threads
    BY <1>2, <1>7, FuncAssumption DEF StartChain, Chains, Threads
  <2>2. i + 1 # Main /\ i + 1 > i
    BY <1>2 DEF Main
  <2>3. i + 1 \notin Waiting
    BY <1>7, <2>1, <2>2 DEF StartChain, Places, Waiting
  <2>4. i + 1 \in Waiting' /\ \A t \in Threads \ {i + 1} : t \in Waiting => t \in Waiting'
    BY <1>7, <2>1 DEF StartChain, Waiting, TypeOK
  <2> QED BY <1>0, <1>7, <2>1, <2>3, <2>4, CallKeeps DEF StartChain
<1>8. CASE EndAsync
  <2>1. Main \notin Waiting
    BY <1>8 DEF EndAsync, Places, Waiting
  <2> QED BY <1>8, <2>1, NothingKeeps, OthersWait DEF EndAsync
<1>9. CASE Reset
  <2>1. Main \notin Waiting /\ Main \in Waiting'
    BY <1>9 DEF Reset, SpeedUp, Waiting
  <2> QED BY <1>1, <1>2, <1>9, <2>1, CallKeeps, OthersWait DEF Reset
<1>10. CASE ResetDone \/ FastEnough \/ GotOldSpeed
  BY <1>10, TakeKeeps, OthersWait DEF ResetDone, FastEnough, GotOldSpeed, TakeOnly
<1>11. CASE AskSpeed
  <2>1. Main \notin Waiting /\ Main \in Waiting'
    BY <1>11 DEF AskSpeed, SpeedUp, Waiting
  <2> QED BY <1>0, <1>11, <2>1, CallKeeps, OthersWait DEF AskSpeed
<1>12. CASE AskForMore
  <2>1. replies[Main].value + Increment \in Speeds
    BY <1>2, <1>12, FuncAssumption DEF AskForMore, RoomFor, Increment, Speeds
  <2>2. Main \in Waiting'
    BY <1>12 DEF AskForMore, SpeedUp, Waiting
  <2> QED BY <1>1, <1>12, <2>1, <2>2, TakeThenCallKeeps, OthersWait DEF AskForMore
<1>13. ASSUME NEW c \in Chains, ContinueGet(c) PROVE OneCall'
  <2>1. \A t \in Threads : t \in Waiting => t \in Waiting'
    BY <1>13 DEF ContinueGet, Waiting, TypeOK
  <2> QED BY <1>1, <1>2, <1>13, <2>1, TakeThenCallKeeps DEF ContinueGet
<1>14. ASSUME NEW c \in Chains, ContinueSet(c) PROVE OneCall'
  <2>1. \A t \in Threads \ {c} : t \in Waiting => t \in Waiting'
    BY <1>14 DEF ContinueSet, Waiting, TypeOK
  <2> QED BY <1>14, <2>1, TakeKeeps DEF ContinueSet, TakeOnly
<1>15. CASE ResetUnanswered
  <2>1. Main \in Waiting' <=> Main \in Waiting
    BY <1>15 DEF ResetUnanswered, SpeedUp, Waiting
  <2> QED BY <1>15, <2>1, NothingKeeps, OthersWait DEF ResetUnanswered
<1> QED
  BY <1>3, <1>4, <1>5, <1>6, <1>7, <1>8, <1>9, <1>10, <1>11, <1>12, <1>13, <1>14, <1>15
     DEF MainStep, Continue

(* Where Main is, after every step.                                        *)
LEMMA PlacesKept ==
  ASSUME TypeOK, Places, NotTooFast, [Next]_vars
  PROVE  Places'
<1> USE DEF Places, SpeedUp
<1>1. CASE SyncSet \/ SyncAccepted \/ SyncTooFast \/ SyncDouble
  BY <1>1 DEF SyncSet, SyncAccepted, SyncTooFast, SyncDouble
<1>2. CASE EndSync \/ EndAsync
  BY <1>2 DEF EndSync, EndAsync
<1>3. CASE StartChain
  BY <1>3 DEF StartChain, TypeOK, Chains
<1>4. CASE \/ Reset \/ ResetDone \/ ResetUnanswered
            \/ AskSpeed \/ AskForMore \/ FastEnough \/ GotOldSpeed
  BY <1>4 DEF Reset, ResetDone, ResetUnanswered, AskSpeed, AskForMore, FastEnough, GotOldSpeed,
       EndSpeedUp, Uncaught, NotTooFast
<1>5. ASSUME NEW c \in Chains, Continue(c) PROVE Places'
  BY <1>5 DEF Continue, ContinueGet, ContinueSet, TypeOK
<1>6. CASE Dispatch \/ UNCHANGED vars
  BY <1>6 DEF Dispatch, vars, clientVars
<1> QED BY <1>1, <1>2, <1>3, <1>4, <1>5, <1>6 DEF Next, MainStep

(* What a step of Main leaves in an empty queue, or takes out of it.       *)
LEMMA FirstInQueue ==
  ASSUME TypeOK, OneCall, Len(inbox) = 0, NEW q \in Requests, inbox' = Append(inbox, q)
  PROVE  \A j \in 1..Len(inbox') : inbox'[j] = q
BY InboxType, AppendFacts

LEMMA Taken ==
  ASSUME TypeOK, NEW t \in Threads, Take(t)
  PROVE  /\ replies[t] # NoReply
         /\ \A u \in Threads : replies'[u] = IF u = t THEN NoReply ELSE replies[u]
         /\ NoReply.ex = "none"
BY DEF TypeOK, Take, NoReply

(* What KnowsSpeed and NotTooFast have in their places.                    *)
LEMMA KnowsSpeedKept ==
  ASSUME TypeOK, OneCall, Places, KnowsSpeed, [Next]_vars
  PROVE  KnowsSpeed'
<1> USE ThreadTypes
<1>1. CASE test # "synchronous" \/ EndSync
  <2>1. test' # "synchronous"
    BY <1>1 DEF Next, MainStep, SyncSet, SyncAccepted, SyncTooFast, SyncDouble, EndSync,
         StartChain, EndAsync, Reset, ResetDone, ResetUnanswered, AskSpeed, AskForMore, FastEnough,
         GotOldSpeed, EndSpeedUp, Uncaught, Continue, ContinueGet, ContinueSet, Dispatch, clientVars, vars
  <2> QED BY <2>1 DEF KnowsSpeed
<1>2. CASE test = "synchronous" /\ ~EndSync
  <2>0. /\ \A c \in Chains : chain[c] = "none"
        /\ \A j \in 1..Len(inbox) : inbox[j].by = Main /\ j = 1
        /\ Len(inbox) \in {0, 1}
        /\ Main \notin Waiting \/ replies[Main] # NoReply => Len(inbox) = 0
    BY <1>2, OnlyMain DEF Places
  <2>1. CASE SyncSet
    <3>1. Main \notin Waiting
      BY <2>1 DEF SyncSet, Waiting
    <3>2. replies[Main] = NoReply /\ replies' = replies /\ NoReply.ex = "none"
      BY <2>1, <3>1 DEF OneCall, SyncSet, Call, NoReply
    <3>3. \A j \in 1..Len(inbox') : inbox'[j] = SetSpeed(Main, wanted)
      BY <2>0, <2>1, <3>1, RequestType, FirstInQueue DEF SyncSet, Call, TypeOK
    <3> QED BY <2>1, <3>2, <3>3 DEF KnowsSpeed, SyncSet, SetSpeed
  <2>2. CASE SyncAccepted
    <3>1. replies[Main] # NoReply /\ replies'[Main] = NoReply /\ speed' = speed
      BY <2>2, Taken DEF SyncAccepted, TakeThenCall
    <3>2. \A j \in 1..Len(inbox') : inbox'[j] = GetSpeed(Main)
      BY <2>0, <2>2, <3>1, RequestType, FirstInQueue DEF SyncAccepted, TakeThenCall
    <3> QED BY <1>2, <2>2, <3>1, <3>2 DEF KnowsSpeed, SyncAccepted, GetSpeed
  <2>3. CASE SyncTooFast \/ SyncDouble
    BY <2>3 DEF KnowsSpeed, SyncTooFast, SyncDouble
  <2>4. CASE Dispatch
    <3>1. /\ Len(inbox') = 0 /\ 1 \in 1..Len(inbox) /\ inbox[1].by = Main
          /\ replies'[Main] = [ex |-> IF TooFast(inbox[1]) THEN "TooFast" ELSE "OK",
                               value |-> IF TooFast(inbox[1]) THEN 0 ELSE speed]
          /\ speed' = NewSpeed(inbox[1])
          /\ UNCHANGED clientVars
      BY <2>0, <2>4, DispatchFacts
    <3>2. CASE at = "setting"
      <4>1. inbox[1].op = "setSpeed" /\ inbox[1].speed = wanted
        BY <1>2, <3>1, <3>2 DEF KnowsSpeed
      <4> QED BY <3>1, <3>2, <4>1 DEF KnowsSpeed, clientVars, NewSpeed
    <3>3. CASE at = "getting"
      <4>1. inbox[1].op = "getSpeed" /\ speed = wanted
        BY <1>2, <3>1, <3>3 DEF KnowsSpeed
      <4> QED BY <3>1, <3>3, <4>1 DEF KnowsSpeed, clientVars, NewSpeed, TooFast
    <3>4. CASE at \notin {"setting", "getting"}
      BY <3>1, <3>4 DEF KnowsSpeed, clientVars
    <3> QED BY <3>2, <3>3, <3>4
  <2>5. CASE UNCHANGED vars
    BY <2>5 DEF vars, serverVars, clientVars, KnowsSpeed
  <2>6. ~(\/ StartChain \/ EndAsync \/ Reset \/ ResetDone \/ ResetUnanswered
          \/ AskSpeed \/ AskForMore \/ FastEnough \/ GotOldSpeed)
    BY <1>2 DEF StartChain, EndAsync, Reset, ResetDone, ResetUnanswered, AskSpeed, AskForMore, FastEnough,
         GotOldSpeed, SpeedUp
  <2>7. ~ \E c \in Chains : Continue(c)
    BY <2>0 DEF Continue, ContinueGet, ContinueSet
  <2> QED BY <1>2, <2>1, <2>2, <2>3, <2>4, <2>5, <2>6, <2>7 DEF Next, MainStep
<1> QED BY <1>1, <1>2

LEMMA NotTooFastKept ==
  ASSUME TypeOK, OneCall, Places, NotTooFast, [Next]_vars
  PROVE  NotTooFast'
<1> USE ThreadTypes, FuncAssumption
<1>0. NoReply.ex = "none"
  BY DEF NoReply
<1>1. ASSUME NEW q \in Requests, inbox' = Append(inbox, q),
             SpeedUp => q.by # Main \/ q.speed <= MaxSpeed,
             SpeedUp' => SpeedUp,
             replies'[Main] \in {replies[Main], NoReply}
      PROVE  NotTooFast'
  <2>1. /\ Len(inbox) \in Nat /\ Len(inbox') = Len(inbox) + 1
        /\ \A j \in 1..(Len(inbox) + 1) : inbox'[j] = IF j <= Len(inbox) THEN inbox[j] ELSE q
    BY <1>1, InboxType, AppendFacts
  <2> QED BY <1>0, <1>1, <2>1 DEF NotTooFast
<1>2. ASSUME inbox' = inbox, SpeedUp' => SpeedUp, replies'[Main] \in {replies[Main], NoReply}
      PROVE  NotTooFast'
  BY <1>0, <1>2 DEF NotTooFast
<1>3. /\ \A t \in Threads : GetSpeed(t) \in Requests /\ GetSpeed(t).by = t /\ GetSpeed(t).speed = 0
      /\ \A t \in Threads, s \in Speeds :
           SetSpeed(t, s) \in Requests /\ SetSpeed(t, s).by = t /\ SetSpeed(t, s).speed = s
      /\ \A t \in Threads : replies[t].value \in 0..MaxSpeed /\ replies[t].value * 2 \in Speeds
      /\ 0 \in Speeds
  <2>1. \A t \in Threads : replies[t].value \in 0..MaxSpeed
    BY DEF TypeOK, Replies
  <2>2. 0 \in Speeds /\ \A t \in Threads : replies[t].value * 2 \in Speeds
    BY <2>1 DEF Speeds
  <2>3. \A t \in Threads : GetSpeed(t) \in Requests /\ \A s \in Speeds : SetSpeed(t, s) \in Requests
    BY RequestType
  <2> QED BY <2>1, <2>2, <2>3 DEF GetSpeed, SetSpeed
<1>4. CASE SyncSet \/ SyncAccepted \/ SyncTooFast \/ SyncDouble \/ EndSync \/ StartChain
  <2>1. ~SpeedUp'
    BY <1>4 DEF SpeedUp, SyncSet, SyncAccepted, SyncTooFast, SyncDouble, EndSync, StartChain
  <2> QED BY <2>1 DEF NotTooFast
<1>5. CASE EndAsync
  <2>1. Main \notin Waiting /\ inbox' = inbox /\ replies' = replies
    BY <1>5 DEF EndAsync, Places, Waiting, serverVars
  <2>2. replies[Main] = NoReply /\ \A j \in 1..Len(inbox) : inbox[j].by # Main
    BY <2>1 DEF OneCall
  <2> QED BY <1>0, <2>1, <2>2 DEF NotTooFast
<1>6. CASE Reset
  BY <1>1, <1>3, <1>6 DEF Reset, Call, SpeedUp
<1>7. CASE AskSpeed
  BY <1>1, <1>3, <1>7 DEF AskSpeed, Call, SpeedUp
<1>8. CASE AskForMore
  <2>1. replies[Main].value + Increment \in Speeds /\ replies[Main].value + Increment <= MaxSpeed
    BY <1>3, <1>8 DEF AskForMore, RoomFor, Increment, Speeds
  <2>2. SetSpeed(Main, replies[Main].value + Increment) \in Requests
    BY <1>3, <2>1
  <2>3. SetSpeed(Main, replies[Main].value + Increment).speed <= MaxSpeed
    BY <1>3, <2>1
  <2>4. /\ inbox' = Append(inbox, SetSpeed(Main, replies[Main].value + Increment))
        /\ replies'[Main] = NoReply /\ SpeedUp
    BY <1>8, Taken DEF AskForMore, TakeThenCall
  <2> QED BY <1>1, <2>2, <2>3, <2>4
<1>9. CASE ResetDone \/ FastEnough \/ GotOldSpeed
  BY <1>2, <1>9, Taken DEF ResetDone, FastEnough, GotOldSpeed, TakeOnly
<1>10. ASSUME NEW c \in Chains, ContinueGet(c) PROVE NotTooFast'
  <2>1. SetSpeed(c, replies[c].value * 2) \in Requests /\ SetSpeed(c, replies[c].value * 2).by # Main
    BY <1>3
  <2>2. /\ inbox' = Append(inbox, SetSpeed(c, replies[c].value * 2))
        /\ replies'[Main] = replies[Main] /\ SpeedUp' = SpeedUp
    BY <1>10, Taken DEF ContinueGet, TakeThenCall, SpeedUp
  <2> QED BY <1>1, <2>1, <2>2
<1>11. ASSUME NEW c \in Chains, ContinueSet(c) PROVE NotTooFast'
  BY <1>2, <1>11, Taken DEF ContinueSet, TakeOnly, SpeedUp
<1>12. CASE Dispatch
  <2>1. /\ inbox[1] \in Requests /\ Len(inbox) \in Nat \ {0} /\ Len(inbox') = Len(inbox) - 1
        /\ \A j \in 1..Len(inbox') : inbox'[j] = inbox[j + 1]
        /\ replies'[inbox[1].by] = [ex |-> IF TooFast(inbox[1]) THEN "TooFast" ELSE "OK",
                                    value |-> IF TooFast(inbox[1]) THEN 0 ELSE speed]
        /\ \A t \in Threads \ {inbox[1].by} : replies'[t] = replies[t]
        /\ SpeedUp' = SpeedUp
    BY <1>12, DispatchFacts DEF clientVars, SpeedUp
  <2>2. 1 \in 1..Len(inbox) /\ \A j \in 1..Len(inbox') : j + 1 \in 1..Len(inbox)
    BY <2>1
  <2>3. SpeedUp => \A j \in 1..Len(inbox') : inbox'[j].by = Main => inbox'[j].speed <= MaxSpeed
    BY <2>1, <2>2 DEF NotTooFast
  <2>4. SpeedUp /\ inbox[1].by = Main => ~TooFast(inbox[1])
    <3>1. inbox[1].speed \in Nat
      BY <2>1 DEF Requests, Speeds
    <3> QED BY <2>2, <3>1 DEF NotTooFast, TooFast
  <2>5. SpeedUp => replies'[Main].ex # "TooFast"
    <3>1. CASE inbox[1].by = Main
      BY <2>1, <2>4, <3>1
    <3>2. CASE inbox[1].by # Main
      BY <2>1, <3>2 DEF NotTooFast
    <3> QED BY <3>1, <3>2
  <2> QED BY <2>1, <2>3, <2>5 DEF NotTooFast
<1>13. CASE UNCHANGED vars
  BY <1>2, <1>13 DEF vars, serverVars, clientVars, SpeedUp
<1>14. CASE ResetUnanswered
  <2>1. ~SpeedUp'
    BY <1>14 DEF ResetUnanswered, SpeedUp
  <2> QED BY <2>1 DEF NotTooFast
<1> QED
  BY <1>4, <1>5, <1>6, <1>7, <1>8, <1>9, <1>10, <1>11, <1>12, <1>13, <1>14
     DEF Next, MainStep, Continue

LEMMA GoesUpKept ==
  ASSUME IInv, [Next]_vars
  PROVE  GoesUp' /\ AtTop'
<1> USE ThreadTypes, FuncAssumption DEF IInv
<1>0. /\ \A t \in Threads : GetSpeed(t) \in Requests /\ GetSpeed(t).by = t /\ GetSpeed(t).op = "getSpeed"
      /\ \A t \in Threads, s \in Speeds : SetSpeed(t, s) \in Requests
      /\ replies[Main].value \in 0..MaxSpeed /\ speed \in 0..MaxSpeed
  <2>1. replies[Main].value \in 0..MaxSpeed /\ speed \in 0..MaxSpeed
    BY DEF TypeOK, Replies
  <2>2. \A t \in Threads : GetSpeed(t) \in Requests /\ \A s \in Speeds : SetSpeed(t, s) \in Requests
    BY RequestType
  <2> QED BY <2>1, <2>2 DEF GetSpeed
<1>1. CASE ~alone'
  BY <1>1 DEF GoesUp, AtTop
<1>2. CASE alone' /\ AskSpeed
  <2>1. Quiet /\ Quiet' /\ Main \notin Waiting
    BY <1>2 DEF AskSpeed, Quiet, SpeedUp, Waiting
  <2>2. Len(inbox) = 0 /\ replies[Main] = NoReply
    BY <2>1, OnlyMain DEF Quiet, OneCall
  <2>3. inbox' = Append(inbox, GetSpeed(Main)) /\ replies' = replies
    BY <1>2 DEF AskSpeed, Call
  <2>4. \A j \in 1..Len(inbox') : inbox'[j] = GetSpeed(Main)
    BY <1>0, <2>2, <2>3, FirstInQueue
  <2> QED BY <1>0, <1>2, <2>1, <2>2, <2>3, <2>4 DEF AskSpeed, GoesUp, AtTop, SpeedUp
<1>3. CASE alone' /\ ~AskSpeed
  <2>0. /\ alone /\ Quiet /\ test \in {"recursive", "iterative", "end"}
        /\ \A j \in 1..Len(inbox) : inbox[j].by = Main /\ j = 1
        /\ Len(inbox) \in {0, 1}
        /\ Main \notin Waiting \/ replies[Main] # NoReply => Len(inbox) = 0
    <3>1. alone
      BY <1>3 DEF Next, MainStep, SyncSet, SyncAccepted, SyncTooFast, SyncDouble, EndSync,
           StartChain, EndAsync, Reset, ResetDone, ResetUnanswered, AskForMore, FastEnough,
           GotOldSpeed, Continue, ContinueGet, ContinueSet, Dispatch, clientVars, vars
    <3> QED BY <3>1, OnlyMain DEF GoesUp, Quiet
  <2>1. CASE Reset
    BY <2>0, <2>1 DEF Reset, GoesUp, AtTop, Quiet, SpeedUp
  <2>2. CASE ResetDone
    <3>1. at' = "get" /\ test' = test /\ SpeedUp
      BY <2>2 DEF ResetDone, Uncaught, NotTooFast
    <3> QED BY <2>0, <2>2, <3>1 DEF ResetDone, GoesUp, AtTop, Quiet, SpeedUp
  <2>3. CASE AskForMore
    <3>1. /\ replies[Main] # NoReply /\ replies'[Main] = NoReply /\ speed' = speed
          /\ inbox' = Append(inbox, SetSpeed(Main, replies[Main].value + Increment))
          /\ SpeedUp /\ at = "getting" /\ at' = "setting" /\ test' = test /\ chain' = chain
      BY <2>3, Taken DEF AskForMore, TakeThenCall
    <3>2. replies[Main].value = speed /\ RoomFor(speed)
      BY <2>0, <2>3, <3>1 DEF AskForMore, GoesUp
    <3>3. speed + Increment \in Speeds
      BY <1>0, <3>2 DEF RoomFor, Increment, Speeds
    <3>4. \A j \in 1..Len(inbox') : inbox'[j] = SetSpeed(Main, speed + Increment)
      BY <1>0, <2>0, <3>1, <3>2, <3>3, FirstInQueue
    <3>5. RoomFor(speed)' /\ (speed + Increment)' = speed + Increment
      BY <3>1, <3>2 DEF RoomFor, Increment
    <3>6. \A j \in 1..Len(inbox') : inbox'[j].op = "setSpeed" /\ inbox'[j].speed = (speed + Increment)'
      BY <3>4, <3>5 DEF SetSpeed
    <3> QED BY <2>0, <3>1, <3>5, <3>6 DEF GoesUp, AtTop, Quiet, SpeedUp
  <2>4. CASE FastEnough
    <3>1. /\ replies[Main] # NoReply /\ speed' = speed
          /\ SpeedUp /\ at = "getting" /\ ~RoomFor(replies[Main].value) /\ EndSpeedUp /\ chain' = chain
      BY <2>4, Taken DEF FastEnough, TakeOnly
    <3>2. replies[Main].value = speed
      BY <2>0, <3>1 DEF GoesUp
    <3>3. CASE test = "recursive" /\ test' = "iterative" /\ at' = "reset"
      BY <1>0, <2>0, <3>1, <3>2, <3>3 DEF GoesUp, AtTop, Quiet, RoomFor, Increment
    <3>4. CASE test = "iterative" /\ test' = "end"
      BY <1>0, <2>0, <3>1, <3>2, <3>4 DEF GoesUp, AtTop, Quiet, RoomFor, Increment, SpeedUp
    <3> QED BY <3>1, <3>3, <3>4 DEF EndSpeedUp
  <2>5. CASE GotOldSpeed
    <3>1. replies[Main] # NoReply /\ SpeedUp /\ at = "setting" /\ chain' = chain
      BY <2>5, Taken DEF GotOldSpeed, TakeOnly
    <3>2. RoomFor(replies[Main].value) /\ replies[Main].ex # "TooFast"
      BY <2>0, <3>1 DEF GoesUp, NotTooFast
    <3>3. at' = "get" /\ test' = test
      BY <2>5, <3>2 DEF GotOldSpeed, Uncaught
    <3> QED BY <2>0, <3>1, <3>3 DEF GoesUp, AtTop, Quiet, SpeedUp
  <2>6. CASE Dispatch
    <3>1. /\ Len(inbox') = 0 /\ 1 \in 1..Len(inbox) /\ inbox[1].by = Main /\ Main \in Waiting
          /\ inbox[1] \in Requests
          /\ replies'[Main] = [ex |-> IF TooFast(inbox[1]) THEN "TooFast" ELSE "OK",
                               value |-> IF TooFast(inbox[1]) THEN 0 ELSE speed]
          /\ speed' = NewSpeed(inbox[1])
          /\ UNCHANGED clientVars
      BY <2>0, <2>6, DispatchFacts
    <3>2. SpeedUp /\ at \in {"resetting", "setting", "getting"}
      BY <2>0, <3>1 DEF Waiting, SpeedUp
    <3>3. Quiet' /\ test' = test /\ at' = at
      BY <2>0, <3>1 DEF Quiet, clientVars
    <3>4. AtTop'
      BY <3>2, <3>3 DEF AtTop, SpeedUp
    <3>5. CASE at = "getting"
      <4>1. inbox[1].op = "getSpeed"
        BY <2>0, <3>1, <3>2, <3>5 DEF GoesUp
      <4>2. speed' = speed /\ replies'[Main].value = speed
        BY <3>1, <4>1 DEF NewSpeed, TooFast
      <4> QED BY <2>0, <3>1, <3>3, <3>4, <3>5, <4>2 DEF GoesUp
    <3>6. CASE at = "setting"
      <4>1. RoomFor(speed) /\ inbox[1].speed = speed + Increment
        BY <2>0, <3>1, <3>2, <3>6 DEF GoesUp
      <4>2. ~TooFast(inbox[1])
        <5>1. Increment \in Nat
          BY DEF Increment
        <5> QED BY <1>0, <4>1, <5>1 DEF TooFast, RoomFor
      <4>3. replies'[Main].value = speed
        BY <3>1, <4>2
      <4>4. RoomFor(replies[Main].value)'
        BY <3>3, <4>1, <4>3 DEF RoomFor, Increment
      <4> QED BY <2>0, <3>1, <3>3, <3>4, <3>6, <4>4 DEF GoesUp
    <3>7. CASE at = "resetting"
      BY <2>0, <3>3, <3>4, <3>7 DEF GoesUp
    <3> QED BY <3>2, <3>5, <3>6, <3>7
  <2>7. CASE UNCHANGED vars
    BY <2>0, <2>7 DEF vars, serverVars, clientVars, GoesUp, AtTop, Quiet, SpeedUp, RoomFor, Increment
  <2>8. ~(SyncSet \/ SyncAccepted \/ SyncTooFast \/ SyncDouble \/ EndSync \/ StartChain \/ EndAsync)
    BY <2>0 DEF SyncSet, SyncAccepted, SyncTooFast, SyncDouble, EndSync, StartChain, EndAsync
  <2>9. ~ \E c \in Chains : Continue(c)
    BY <2>0 DEF Quiet, Continue, ContinueGet, ContinueSet
  <2>10. ~ResetUnanswered
    <3>1. \A c \in Chains : c \notin Waiting /\ c \in Threads
      BY <2>0 DEF Quiet, Waiting
    <3>2. \A c \in Chains : replies[c] = NoReply
      BY <3>1 DEF OneCall
    <3> QED BY <3>2 DEF ResetUnanswered
  <2> QED BY <1>3, <2>1, <2>2, <2>3, <2>4, <2>5, <2>6, <2>7, <2>8, <2>9, <2>10 DEF Next, MainStep
<1> QED BY <1>1, <1>2, <1>3
-----------------------------------------------------------------------------
LEMMA InitInv == Init => IInv
<1> SUFFICES ASSUME Init PROVE IInv
  OBVIOUS
<1>1. TypeOK
  BY InitType
<1>2. Len(inbox) = 0 /\ \A t \in Threads : replies[t] = NoReply
  BY DEF Init
<1>3. OneCall /\ Places /\ KnowsSpeed /\ NotTooFast /\ GoesUp /\ AtTop
  BY <1>2 DEF Init, OneCall, Places, KnowsSpeed, NotTooFast, GoesUp, AtTop, SpeedUp
<1> QED BY <1>1, <1>3 DEF IInv

LEMMA NextInv == IInv /\ [Next]_vars => IInv'
<1> SUFFICES ASSUME IInv, [Next]_vars PROVE IInv'
  OBVIOUS
<1>1. TypeOK' /\ Places' /\ KnowsSpeed' /\ NotTooFast' /\ GoesUp' /\ AtTop'
  BY NextType, PlacesKept, KnowsSpeedKept, NotTooFastKept, GoesUpKept DEF IInv
<1>2. OneCall'
  <2>1. CASE MainStep \/ \E c \in Chains : Continue(c)
    BY <2>1, ClientOneCall DEF IInv
  <2>2. CASE Dispatch
    BY <2>2, DispatchFacts DEF IInv
  <2>3. CASE UNCHANGED vars
    BY <2>3, NothingKeeps DEF IInv, vars, clientVars, Waiting
  <2> QED BY <2>1, <2>2, <2>3 DEF Next
<1> QED BY <1>1, <1>2 DEF IInv

LEMMA Invariant == Spec => []IInv
BY InitInv, NextInv, PTL DEF Spec

(* test_synchronous reads back what it set (robot_func.cxx:219).           *)
THEOREM ReadsOwnWriteHolds == Spec => []ReadsOwnWrite
<1>1. IInv => ReadsOwnWrite
  BY DEF IInv, KnowsSpeed, ReadsOwnWrite
<1> QED BY <1>1, Invariant, PTL

(* speedup_until_maxspeed and test_iterative_await leave the robot at its  *)
(* limit if no chain was under way when they read its speed last.          *)
THEOREM AtTopHolds == Spec => []AtTop
<1>1. IInv => AtTop
  BY DEF IInv
<1> QED BY <1>1, Invariant, PTL

(* No TooFast reaches the get() of client_func (robot_func.cxx:274, 278):  *)
(* with the stale speeds it goes by, and with chains doubling the speed    *)
(* under it, speedup_until_maxspeed and test_iterative_await never ask for *)
(* more than the limit.  Nothing is said here of the runtime_error of a    *)
(* setSpeed(0) whose wait a chain's reply ends.                            *)
THEOREM NeverRefused == Spec => [](test # "refused")
<1>1. IInv => test # "refused"
  BY DEF IInv, Places
<1> QED BY <1>1, Invariant, PTL
=============================================================================
