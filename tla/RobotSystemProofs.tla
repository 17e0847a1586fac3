-------------------------- MODULE RobotSystemProofs --------------------------
(***************************************************************************)
(* Proofs about RobotSystem, for any callers, bounds, operations and       *)
(* speeds.  RobotSystem owns the variables of Requester and Service; what  *)
(* is proved of these two is carried over and cited as RP! and SP!.        *)
(***************************************************************************)
EXTENDS RobotSystem, TLAPS

RP == INSTANCE RequesterProofs WITH
  RawCallers <- {}, Impatient <- SyncCallers, Repliers <- {1}, ReplyValidity <- {TRUE}

SP == INSTANCE ServiceProofs WITH
  NumServices <- 1, MaxRequests <- MaxRequests + MaxOthers, pc <- server_pc

(* The assumptions of both modules are met.                                *)
LEMMA Assumptions == RP!RequesterAssumption /\ SP!ServiceAssumption
BY RobotSystemAssumption DEF RP!RequesterAssumption, SP!ServiceAssumption

LEMMA Cardinalities ==
  \A X : /\ R!Cardinality(X) = RP!Cardinality(X) /\ S!Cardinality(X) = SP!Cardinality(X)
         /\ S!Cardinality(X) = Cardinality(X)
BY DEF Cardinality, R!Cardinality, RP!Cardinality, S!Cardinality, SP!Cardinality,
       IsFiniteSet, R!IsFiniteSet, RP!IsFiniteSet, S!IsFiniteSet, SP!IsFiniteSet

(* R and RP are the same requester, S and SP the same service.             *)
LEMMA SameRequesterInit == R!Init => RP!Init
BY DEF R!Init, RP!Init, R!Callers, RP!Callers, R!Requests, RP!Requests

LEMMA SameRequesterNext == [R!Next]_(R!vars) => [RP!Next]_(RP!vars)
<1> USE DEF R!Callers, RP!Callers, R!Requests, RP!Requests, R!Goto, RP!Goto,
            R!implVars, RP!implVars, R!ddsVars, RP!ddsVars, R!callerVars, RP!callerVars,
            R!callVars, RP!callVars
<1> SUFFICES ASSUME [R!Next]_(R!vars) PROVE [RP!Next]_(RP!vars)
  OBVIOUS
<1>1. ASSUME NEW c \in R!Callers
      PROVE  /\ \A o : R!ReadSn(c, o) => RP!ReadSn(c, o)
             /\ R!SendRaw(c) => RP!SendRaw(c)
             /\ R!StampSn(c) => RP!StampSn(c)
             /\ R!Write(c) => RP!Write(c)
  BY DEF R!ReadSn, RP!ReadSn, R!Low, RP!Low, R!SendRaw, RP!SendRaw, R!WriteAs, RP!WriteAs,
         R!StampSn, RP!StampSn, R!Write, RP!Write
<1>2. ASSUME NEW c \in R!Callers
      PROVE  /\ R!StoreMapping(c) => RP!StoreMapping(c)
             /\ R!FindMapping(c) => RP!FindMapping(c)
             /\ R!WaitForReplies(c) => RP!WaitForReplies(c)
             /\ R!Retry(c) => RP!Retry(c)
             /\ R!GiveUp(c) => RP!GiveUp(c)
             /\ \A enable : R!ReceiveNondata(c, enable) => RP!ReceiveNondata(c, enable)
  BY DEF R!StoreMapping, RP!StoreMapping, R!MappedIdentity, RP!MappedIdentity, R!FindMapping, RP!FindMapping,
         R!WaitForReplies, RP!WaitForReplies, R!Retry, RP!Retry, R!GiveUp, RP!GiveUp,
         R!ReceiveNondata, RP!ReceiveNondata
<1>3. ASSUME NEW c \in R!Callers
      PROVE  (R!TakeOwn(c) => RP!TakeOwn(c)) /\ (R!TakeNothing(c) => RP!TakeNothing(c))
  BY DEF R!TakeOwn, RP!TakeOwn, R!TakeNothing, RP!TakeNothing, R!Matching, RP!Matching,
         R!Forget, RP!Forget, R!EraseMapping, RP!EraseMapping, R!Restrict, RP!Restrict
<1>4. ASSUME NEW c \in R!Callers
      PROVE  /\ R!RegisterPromise(c) => RP!RegisterPromise(c)
             /\ R!SpawnReplyThread(c) => RP!SpawnReplyThread(c)
  BY Cardinalities
     DEF R!RegisterPromise, RP!RegisterPromise, R!ModifyDict, RP!ModifyDict, R!Racing, RP!Racing,
         R!DictWriters, RP!DictWriters, R!DictReaders, RP!DictReaders,
         R!SpawnReplyThread, RP!SpawnReplyThread, R!LiveThreads, RP!LiveThreads
<1>5. ASSUME NEW k \in R!Requests
      PROVE  R!ThreadStep(k) => RP!ThreadStep(k)
  BY DEF R!ThreadStep, RP!ThreadStep, R!ThreadWait, RP!ThreadWait, R!ThreadTake, RP!ThreadTake,
         R!ThreadComplete, RP!ThreadComplete, R!ThreadErase, RP!ThreadErase, R!Matching, RP!Matching,
         R!ModifyDict, RP!ModifyDict, R!Racing, RP!Racing, R!Without, RP!Without,
         R!DictWriters, RP!DictWriters, R!DictReaders, RP!DictReaders
<1>6. ASSUME NEW k \in R!Requests, NEW r \in {1}
      PROVE  R!Answer(r, k) => RP!Answer(r, k)
  BY DEF R!Answer, RP!Answer
<1>7. ASSUME NEW c \in R!Callers
      PROVE  R!CallerStep(c) => RP!CallerStep(c)
  BY <1>1, <1>2, <1>3, <1>4 DEF R!CallerStep, RP!CallerStep
<1>8. R!Next => RP!Next
  BY <1>1, <1>2, <1>5, <1>6, <1>7 DEF R!Next, RP!Next
<1> QED BY <1>8 DEF R!vars, RP!vars

LEMMA SameServiceInit == S!Init => SP!Init
BY DEF S!Init, SP!Init, S!Services, SP!Services, S!None, SP!None

LEMMA SameServiceNext == [S!Next]_(S!vars) => [SP!Next]_(SP!vars)
<1> USE DEF S!Services, SP!Services, S!serverVars, SP!serverVars, S!None, SP!None
<1> SUFFICES ASSUME [S!Next]_(S!vars) PROVE [SP!Next]_(SP!vars)
  OBVIOUS
<1>1. S!Requests = SP!Requests
  BY DEF S!Requests, SP!Requests, S!Ids, SP!Ids
<1>2. \A q : S!Arrive(q) => SP!Arrive(q)
  BY Cardinalities DEF S!Arrive, SP!Arrive
<1>3. S!RunBegin \/ S!RunEnd => SP!RunBegin \/ SP!RunEnd
  BY DEF S!RunBegin, SP!RunBegin, S!RunEnd, SP!RunEnd
<1>4. \A s \in {1} : S!Receive(s) \/ S!ReceiveTimeout(s) => SP!Receive(s) \/ SP!ReceiveTimeout(s)
  BY DEF S!Receive, SP!Receive, S!ReceiveTimeout, SP!ReceiveTimeout, S!Visiting, SP!Visiting,
         S!AfterVisit, SP!AfterVisit
<1>5. S!Dispatch => SP!Dispatch
  BY DEF S!Dispatch, SP!Dispatch, S!DoCommand, SP!DoCommand, S!DoGetSpeed, SP!DoGetSpeed,
         S!DoSetSpeed, SP!DoSetSpeed, S!DoSetSpeedTooFast, SP!DoSetSpeedTooFast,
         S!DoGetStatus, SP!DoGetStatus, S!DoUnknown, SP!DoUnknown,
         S!Prepare, SP!Prepare, S!Dispatching, SP!Dispatching, S!OldSpeed, SP!OldSpeed
<1>6. S!SendReply => SP!SendReply
  BY DEF S!SendReply, SP!SendReply, S!AfterVisit, SP!AfterVisit
<1>7. S!AllocationFails => SP!AllocationFails
  BY DEF S!AllocationFails, SP!AllocationFails, S!Failed, SP!Failed
<1>8. S!Services = {1} /\ SP!Services = {1}
  OBVIOUS
<1> HIDE DEF S!Services, SP!Services
<1>9. S!Next => SP!Next
  BY <1>1, <1>2, <1>3, <1>4, <1>5, <1>6, <1>7, <1>8 DEF S!Next, SP!Next, S!Serve, SP!Serve
<1> QED BY <1>9 DEF S!vars, SP!vars
-----------------------------------------------------------------------------
(***************************************************************************)
(* What joins the two.  The parts of the inductive invariant, besides      *)
(* those of Requester and Service:                                         *)
(*  - TypeInv: the types of stub, call and result, and that no reply of    *)
(*    this service is without data;                                        *)
(*  - Sent: a request of the program is one that arrived, one for each     *)
(*    write, and none has a result before it is written;                   *)
(*  - Carried: what the requester counts as answered was replied to.       *)
(***************************************************************************)
Filling == {"stamp", "write"}
Endings == {"pending", "returned", "TooFast", "UnknownResponse", "UnknownException", "ReplyUnavailable"}

TypeInv ==
  /\ stub \in [R!Callers -> Stubs \cup {[op |-> "none", speed |-> 0]}]
  /\ call \in [R!Requests -> S!Requests \cup {S!None}]
  /\ result \in [R!Requests -> [how : Endings, value : Int]]
  /\ \A q \in queue : q.valid

Sent ==
  /\ \A c \in R!Callers : pc[c] \in Filling => stub[c] \in Stubs
  /\ \A k \in R!Requests :
       IF k <= writes THEN call[k] \in arrived ELSE call[k] = S!None /\ result[k] = Pending
  /\ \A k, l \in 1..writes : call[k].id = call[l].id => k = l

Carried == \A k \in R!Requests : <<k, 1>> \in answered => \E r \in replies : r.id = call[k].id

Parts == RP!Inv /\ SP!IInv /\ SP!OrderInv
IInv == Parts /\ TypeInv /\ Sent /\ Carried

LEMMA SystemInit == Init => IInv
<1> SUFFICES ASSUME Init PROVE IInv
  OBVIOUS
<1>1. RP!Inv
  BY SameRequesterInit, Assumptions, RP!InvInit DEF Init
<1>2. SP!IInv /\ SP!OrderInv
  BY SameServiceInit, Assumptions, SP!InitInv, SP!OrderInit DEF Init
<1>3. TypeInv
  <2>1. call \in [R!Requests -> S!Requests \cup {S!None}]
    BY DEF Init
  <2>2. Pending \in [how : Endings, value : Int]
    BY DEF Pending, Endings
  <2>3. result \in [R!Requests -> [how : Endings, value : Int]]
    BY <2>2 DEF Init
  <2> QED BY <2>1, <2>3 DEF Init, R!Init, TypeInv
<1>4. Sent /\ Carried
  BY RobotSystemAssumption DEF Init, R!Init, R!Requests, Filling, Sent, Carried
<1> QED BY <1>1, <1>2, <1>3, <1>4 DEF IInv, Parts

(* What is needed of the requester.                                        *)
LEMMA RequesterFacts ==
  ASSUME RP!Inv
  PROVE  /\ writes \in Nat /\ \A k \in R!Requests : k \in Nat /\ (k <= writes => k \in 1..writes)
         /\ \A k \in 1..writes : k \in R!Requests /\ k <= writes
         /\ \A k : <<k, 1>> \in answered => k \in R!Requests /\ k \in 1..writes
         /\ \A q \in queue : q.req \in R!Requests /\ <<q.req, 1>> \in answered
         /\ \A c \in R!Callers : pc[c] \in {"take", "failed"} => identity[c] \in R!Requests /\ identity[c] \in 1..writes
         /\ \A k \in R!Requests : kind[k] = "async" => k \in 1..writes
         /\ \A k \in R!Requests : status[k] # "error"
         /\ \A c \in R!Callers : pc[c] = "take" => id2id_map[requestId[c]] = identity[c]
         /\ \A k \in R!Requests : kind[k] = "async" /\ status[k] = "value" =>
              source[k] = k /\ <<k, 1>> \in answered
         /\ pc \in [R!Callers -> {"idle", "stamp", "write", "map", "sent", "wait", "take",
                                  "failed", "register", "spawn"}]
         /\ source \in [R!Requests -> 0..MaxRequests]
<1> USE DEF RP!Inv, RP!TypeInv, RP!TypeOK, RP!Delivery
<1>0. R!Callers = RP!Callers /\ R!Requests = RP!Requests /\ R!Requests = 1..MaxRequests
  BY DEF R!Callers, RP!Callers, R!Requests, RP!Requests
<1>1. /\ writes \in Nat /\ \A k \in R!Requests : k \in Nat /\ (k <= writes => k \in 1..writes)
      /\ \A k \in 1..writes : k \in R!Requests /\ k <= writes
  BY <1>0, RobotSystemAssumption
<1>2. \A k : <<k, 1>> \in answered => k \in R!Requests /\ k \in 1..writes
  BY <1>0, <1>1 DEF RP!AnswerInv
<1>3. \A q \in queue : q.req \in R!Requests /\ <<q.req, 1>> \in answered
  BY <1>0 DEF RP!AnswerInv, RP!Replies
<1>4. \A c \in R!Callers : pc[c] \in {"take", "failed"} =>
        identity[c] \in R!Requests /\ kind[identity[c]] = "sync"
  BY <1>0 DEF RP!HasWritten, RP!CallerInv, RP!Receiving
<1>8. \A k \in R!Requests : kind[k] # "none" => k \in 1..writes
  BY <1>0, <1>1 DEF RP!IssueInv
<1>5. \A c \in R!Callers : pc[c] = "take" => id2id_map[requestId[c]] = identity[c]
  BY <1>0 DEF RP!MapInv, RP!Receiving
<1>6. \A k \in R!Requests : kind[k] = "async" /\ status[k] = "value" =>
        source[k] = k /\ <<k, 1>> \in answered
  <2> SUFFICES ASSUME NEW k \in RP!Requests, kind[k] = "async", status[k] = "value"
               PROVE  source[k] = k /\ <<k, 1>> \in answered
    BY <1>0
  <2>1. thread[k] \in {"erase", "done"}
    BY DEF RP!ThreadInv
  <2>2. source[k] = k /\ source[k] # 0
    BY <1>0, <2>1, RobotSystemAssumption DEF RP!ThreadInv
  <2> QED BY <2>2 DEF RP!AnswerInv
<1>7. /\ pc \in [R!Callers -> {"idle", "stamp", "write", "map", "sent", "wait", "take",
                               "failed", "register", "spawn"}]
      /\ source \in [R!Requests -> 0..MaxRequests]
  BY <1>0
<1>9. \A k \in R!Requests : status[k] # "error"
  BY <1>0 DEF RP!ThreadInv
<1> QED BY <1>1, <1>2, <1>3, <1>4, <1>5, <1>6, <1>7, <1>8, <1>9

(* What is needed of the service.                                          *)
LEMMA ServiceFacts ==
  ASSUME SP!IInv
  PROVE  /\ \A q \in arrived : q \in S!Requests /\ q.id \in Nat /\ q.op \in Ops /\ q.speed \in Int
         /\ \A q \in arrived : q.id <= Cardinality(arrived)
         /\ Cardinality(arrived) \in Nat
         /\ \A r \in replies : r.value \in Int
<1>1. S!Requests = SP!Requests
  BY DEF S!Requests, SP!Requests, S!Ids, SP!Ids, S!Services, SP!Services
<1>2. \A q \in arrived : q \in SP!Requests /\ q.id \in Nat
  BY Assumptions, SP!Arrivals
<1>3. \A q \in SP!Requests : q.op \in Ops /\ q.speed \in Int
  <2>1. \A q \in SP!Requests : q.op \in Ops /\ q.speed \in Speeds \cup {0}
    BY DEF SP!Requests
  <2>2. Speeds \cup {0} \subseteq Int
    BY RobotSystemAssumption
  <2> QED BY <2>1, <2>2
<1>4. \A q \in arrived : q.id <= Cardinality(arrived)
  BY Cardinalities DEF SP!IInv, SP!Named
<1>5. Cardinality(arrived) \in Nat
  BY Assumptions, SP!Arrivals, Cardinalities
<1>6. \A r \in replies : r.value \in Int
  <2>1. ASSUME NEW r \in replies PROVE r.value \in Int
    <3>1. r.id # 0
      <4>1. \A q \in arrived : q.id # 0
        BY Assumptions, SP!Arrivals
      <4>2. \A p \in replies : \E q \in arrived : p.id = q.id
        BY DEF SP!IInv, SP!OnePlace, SP!Answered
      <4> QED BY <4>1, <4>2
    <3>2. r \in {SP!None} \cup SP!Reply
      BY DEF SP!IInv, SP!TypeOK, SP!Reply
    <3>3. r \in SP!Reply
      BY <3>1, <3>2 DEF SP!None
    <3>4. \A p \in SP!Reply : p.value \in Speeds \cup {0, InitSpeed}
      BY DEF SP!Reply
    <3>5. Speeds \cup {0, InitSpeed} \subseteq Int
      BY RobotSystemAssumption
    <3> QED BY <3>3, <3>4, <3>5
  <2> QED BY <2>1
<1> QED BY <1>1, <1>2, <1>3, <1>4, <1>5, <1>6
(* A step of RobotSystem is a step of each of the two, or leaves it alone. *)
LEMMA RequesterStep == RP!Inv /\ [Next]_vars => [R!Next]_(R!vars)
<1> SUFFICES ASSUME RP!Inv, [Next]_vars PROVE [R!Next]_(R!vars)
  OBVIOUS
<1>1. UNCHANGED requesterVars => UNCHANGED R!vars
  BY DEF requesterVars, R!vars, R!implVars, R!ddsVars, R!callerVars, R!callVars
<1>2. ASSUME NEW c \in R!Callers, SendCall(c) \/ Proceed(c) \/ Wait(c) \/ TakeReply(c) \/ NoReply(c)
      PROVE  R!Next
  BY <1>2 DEF SendCall, Proceed, Wait, TakeReply, NoReply, R!Next, R!CallerStep
<1>3. ASSUME NEW c \in R!Callers, NEW o \in {"sync", "async"}, NEW q, BeginCall(c, o, q)
      PROVE  R!Next
  BY <1>3 DEF BeginCall, R!Next
<1>4. ASSUME NEW k \in R!Requests, ReplyThread(k)
      PROVE  R!Next
  BY <1>4 DEF ReplyThread, R!Next
<1>5. ASSUME SendReply
      PROVE  R!Next \/ UNCHANGED requesterVars
  <2>1. \A k \in 1..writes : k \in R!Requests
    BY RequesterFacts
  <2> QED BY <1>5, <2>1 DEF SendReply, R!Next
<1>6. UNCHANGED vars => UNCHANGED requesterVars
  BY DEF vars
<1>7. \A k : Continue(k) => UNCHANGED requesterVars
  BY DEF Continue
<1>8. Work \/ Fail \/ (\E q \in Stubs : OtherClient(q)) => UNCHANGED requesterVars
  BY DEF Work, Fail, OtherClient
<1> QED BY <1>1, <1>2, <1>3, <1>4, <1>5, <1>6, <1>7, <1>8 DEF Next

LEMMA ServiceStep == IInv /\ [Next]_vars => [S!Next]_(S!vars)
<1> SUFFICES ASSUME IInv, [Next]_vars PROVE [S!Next]_(S!vars)
  OBVIOUS
<1>1. UNCHANGED serviceVars => UNCHANGED S!vars
  BY DEF serviceVars, S!vars, S!serverVars
<1>2. ASSUME NEW q \in Stubs, NEW p, p = [id |-> Cardinality(arrived) + 1, to |-> 1, op |-> q.op, speed |-> q.speed],
             Cardinality(arrived) < MaxRequests + MaxOthers
      PROVE  p \in S!Requests
  <2>1. Cardinality(arrived) + 1 \in S!Ids
    BY <1>2, ServiceFacts, RobotSystemAssumption DEF IInv, Parts, S!Ids
  <2>2. 1 \in S!Services
    BY DEF S!Services
  <2>3. q.op \in Ops /\ q.speed \in Speeds \cup {0}
    BY DEF Stubs
  <2> QED BY <1>2, <2>1, <2>2, <2>3 DEF S!Requests
<1>3. ASSUME NEW p, S!Arrive(p)
      PROVE  Cardinality(arrived) < MaxRequests + MaxOthers
  BY <1>3, Cardinalities DEF S!Arrive
<1>4. ASSUME NEW c \in R!Callers, SendCall(c)
      PROVE  S!Next
  <2>1. stub[c] \in Stubs
    BY <1>4 DEF SendCall, R!Write, IInv, Sent, Filling
  <2> QED BY <1>2, <1>3, <1>4, <2>1 DEF SendCall, S!Next
<1>5. ASSUME NEW q \in Stubs, OtherClient(q)
      PROVE  S!Next
  BY <1>2, <1>3, <1>5 DEF OtherClient, S!Next
<1>6. Work \/ Fail \/ SendReply => S!Next
  BY DEF Work, Fail, SendReply, S!Next, S!Serve, S!Services
<1>7. ASSUME NEW c \in R!Callers, TakeReply(c) \/ NoReply(c) \/ Proceed(c) \/ Wait(c)
      PROVE  UNCHANGED serviceVars
  BY <1>7 DEF TakeReply, NoReply, Proceed, Wait
<1>8. ASSUME NEW c \in R!Callers, NEW o, NEW q, BeginCall(c, o, q)
      PROVE  UNCHANGED serviceVars
  BY <1>8 DEF BeginCall
<1>9. ASSUME NEW k, ReplyThread(k) \/ Continue(k)
      PROVE  UNCHANGED serviceVars
  BY <1>9 DEF ReplyThread, Continue
<1>10. UNCHANGED vars => UNCHANGED serviceVars
  BY DEF vars
<1> QED BY <1>1, <1>4, <1>5, <1>6, <1>7, <1>8, <1>9, <1>10 DEF Next

LEMMA PartsStep == IInv /\ [Next]_vars => Parts'
<1> SUFFICES ASSUME IInv, [Next]_vars PROVE Parts'
  OBVIOUS
<1>1. [RP!Next]_(RP!vars) /\ RP!Inv
  BY RequesterStep, SameRequesterNext DEF IInv, Parts
<1>2. [SP!Next]_(SP!vars) /\ SP!IInv /\ SP!OrderInv
  BY ServiceStep, SameServiceNext DEF IInv, Parts
<1>3. RP!Inv'
  BY <1>1, Assumptions, RP!InvStep
<1>4. SP!IInv'
  BY <1>2, Assumptions, SP!NextInv
<1>5. SP!OrderInv'
  BY <1>2, Assumptions, SP!OrderNext
<1> QED BY <1>3, <1>4, <1>5 DEF Parts
(* Nothing that arrived or was replied is taken back.                      *)
LEMMA Grows == IInv /\ [Next]_vars => arrived \subseteq arrived' /\ replies \subseteq replies'
<1> SUFFICES ASSUME [S!Next]_(S!vars) PROVE arrived \subseteq arrived' /\ replies \subseteq replies'
  BY ServiceStep
<1>1. ASSUME NEW q, S!Arrive(q) PROVE arrived \subseteq arrived' /\ replies \subseteq replies'
  BY <1>1 DEF S!Arrive
<1>2. S!Dispatch \/ S!AllocationFails \/ S!RunBegin \/ S!RunEnd => UNCHANGED <<arrived, replies>>
  BY DEF S!Dispatch, S!DoCommand, S!DoGetSpeed, S!DoSetSpeed, S!DoSetSpeedTooFast, S!DoGetStatus,
         S!DoUnknown, S!Prepare, S!AllocationFails, S!RunBegin, S!RunEnd
<1>3. \A s : S!Receive(s) \/ S!ReceiveTimeout(s) => UNCHANGED <<arrived, replies>>
  BY DEF S!Receive, S!ReceiveTimeout
<1>4. S!SendReply => arrived' = arrived /\ replies \subseteq replies'
  BY DEF S!SendReply
<1>5. UNCHANGED S!vars => UNCHANGED <<arrived, replies>>
  BY DEF S!vars
<1> QED BY <1>1, <1>2, <1>3, <1>4, <1>5 DEF S!Next, S!Serve

(* What the steps of the requester other than a write leave of it.         *)
Quiet ==
  /\ UNCHANGED <<writes, answered>> /\ queue' \subseteq queue
  /\ \A c \in R!Callers : pc'[c] \in Filling => pc[c] \in Filling

LEMMA QuietSteps ==
  ASSUME RP!Inv
  PROVE  /\ \A c \in R!Callers :
              (\/ R!StampSn(c) \/ R!StoreMapping(c) \/ R!FindMapping(c) \/ R!WaitForReplies(c) \/ R!TakeNothing(c)
               \/ R!RegisterPromise(c) \/ R!SpawnReplyThread(c) \/ R!TakeOwn(c) \/ R!GiveUp(c)) => Quiet
         /\ \A k \in R!Requests : R!ThreadStep(k) => Quiet
         /\ UNCHANGED requesterVars => Quiet
<1>1. DOMAIN pc = R!Callers
  BY RequesterFacts
<1> USE DEF Quiet, Filling, R!implVars, R!ddsVars, R!callerVars, R!callVars, R!Goto
<1>2. ASSUME NEW c \in R!Callers, R!StampSn(c) \/ R!StoreMapping(c) \/ R!FindMapping(c)
      PROVE  Quiet
  BY <1>1, <1>2 DEF R!StampSn, R!StoreMapping, R!FindMapping
<1>3. ASSUME NEW c \in R!Callers, R!WaitForReplies(c) \/ R!TakeNothing(c)
      PROVE  Quiet
  BY <1>1, <1>3 DEF R!WaitForReplies, R!TakeNothing
<1>4. ASSUME NEW c \in R!Callers, R!RegisterPromise(c) \/ R!SpawnReplyThread(c)
      PROVE  Quiet
  BY <1>1, <1>4 DEF R!RegisterPromise, R!SpawnReplyThread
<1>5. ASSUME NEW c \in R!Callers, R!TakeOwn(c)
      PROVE  Quiet
  BY <1>1, <1>5 DEF R!TakeOwn
<1>6. ASSUME NEW c \in R!Callers, R!GiveUp(c)
      PROVE  Quiet
  BY <1>1, <1>6 DEF R!GiveUp
<1>7. ASSUME NEW k \in R!Requests, R!ThreadStep(k)
      PROVE  Quiet
  BY <1>7 DEF R!ThreadStep, R!ThreadWait, R!ThreadTake, R!ThreadComplete, R!ThreadErase
<1>8. UNCHANGED requesterVars => Quiet
  BY DEF requesterVars
<1> HIDE DEF Quiet
<1> QED BY <1>2, <1>3, <1>4, <1>5, <1>6, <1>7, <1>8

(* A step that sends nothing and replies nothing.                          *)
LEMMA QuietKept ==
  ASSUME IInv, [Next]_vars, Quiet, UNCHANGED <<stub, call>>,
         result' \in [R!Requests -> [how : Endings, value : Int]],
         \A k \in R!Requests : k > writes => result'[k] = result[k]
  PROVE  TypeInv' /\ Sent' /\ Carried'
<1>1. arrived \subseteq arrived' /\ replies \subseteq replies'
  BY Grows
<1>2. TypeInv'
  BY DEF IInv, TypeInv, Quiet
<1>3. \A k \in R!Requests : k \in Nat /\ writes \in Nat
  BY RequesterFacts DEF IInv, Parts
<1>4. Sent'
  BY <1>1, <1>3 DEF IInv, Sent, Quiet
<1>5. Carried'
  BY <1>1 DEF IInv, Carried, Quiet
<1> QED BY <1>2, <1>4, <1>5
-----------------------------------------------------------------------------
(* What a call may end with, and the replies that make it end so.          *)
EndsWell(q, v) ==
  /\ v.how = "returned" /\ q.op \in {"getSpeed", "setSpeed"} => v.value = S!SpeedBefore(q)
  /\ v.how = "TooFast" => q.op = "setSpeed" /\ q.speed > MaxSpeed
  /\ v.how = "returned" /\ q.op = "setSpeed" => q.speed <= MaxSpeed

LEMMA ReplyFacts ==
  ASSUME IInv, NEW k \in R!Requests, <<k, 1>> \in answered
  PROVE  /\ k \in 1..writes /\ call[k] \in arrived /\ ReplyOf(k) \in replies
         /\ call[k].op \in {"command", "getSpeed", "setSpeed", "getStatus"}
         /\ call[k].speed \in Int /\ MaxSpeed \in Int /\ ReplyOf(k).value \in Int
         /\ ReplyOf(k).op = call[k].op
         /\ ReplyOf(k).ex = IF call[k].op = "setSpeed" /\ call[k].speed > MaxSpeed THEN "TooFast" ELSE "OK"
         /\ call[k].op = "getSpeed" \/ (call[k].op = "setSpeed" /\ call[k].speed <= MaxSpeed) =>
              ReplyOf(k).value = S!SpeedBefore(call[k])
<1>1. k \in 1..writes /\ k <= writes
  BY RequesterFacts DEF IInv, Parts
<1>2. call[k] \in arrived
  BY <1>1 DEF IInv, Sent
<1>3. ReplyOf(k) \in replies /\ ReplyOf(k).id = call[k].id
  BY DEF IInv, Carried, ReplyOf
<1>4. /\ call[k].op \in Ops /\ call[k].speed \in Int /\ ReplyOf(k).value \in Int /\ MaxSpeed \in Int
      /\ call[k].op \in {"command", "getSpeed", "setSpeed", "getStatus"}
  BY <1>2, <1>3, ServiceFacts, RobotSystemAssumption DEF IInv, Parts
<1>5. SP!ServedInOrder
  BY Assumptions, SP!ServedRight DEF IInv, Parts
<1>6. SP!SpeedBefore(call[k]) = S!SpeedBefore(call[k])
  BY DEF SP!SpeedBefore, S!SpeedBefore, SP!Accepted, S!Accepted
<1> HIDE DEF ReplyOf
<1>7. /\ ReplyOf(k).op = IF call[k].op = "unknown" THEN "none" ELSE call[k].op
      /\ ReplyOf(k).ex = IF call[k].op = "setSpeed" /\ call[k].speed > MaxSpeed THEN "TooFast" ELSE "OK"
      /\ call[k].op = "getSpeed" \/ SP!Accepted(call[k]) => ReplyOf(k).value = SP!SpeedBefore(call[k])
  BY <1>2, <1>3, <1>5 DEF SP!ServedInOrder
<1> QED BY <1>1, <1>2, <1>3, <1>4, <1>6, <1>7 DEF SP!Accepted

LEMMA UnpackRight ==
  ASSUME IInv, NEW k \in R!Requests, <<k, 1>> \in answered, NEW v,
         v \in Unpack(call[k].op, ReplyOf(k)) \/ v = Get(call[k].op, ReplyOf(k))
  PROVE  /\ EndsWell(call[k], v) /\ v \in [how : Endings, value : Int]
         /\ v.how \in {"returned", "TooFast", "UnknownException"}
<1> DEFINE q == call[k]
           r == ReplyOf(k)
<1>1. /\ q.op \in {"command", "getSpeed", "setSpeed", "getStatus"}
      /\ q.speed \in Int /\ MaxSpeed \in Int /\ r.value \in Int /\ r.op = q.op
      /\ r.ex = IF q.op = "setSpeed" /\ q.speed > MaxSpeed THEN "TooFast" ELSE "OK"
      /\ q.op = "getSpeed" \/ (q.op = "setSpeed" /\ q.speed <= MaxSpeed) => r.value = S!SpeedBefore(q)
  BY ReplyFacts
<1> HIDE DEF q, r
<1>2. \/ v \in Unpack(q.op, r)
      \/ v = Get(q.op, r)
  BY DEF q, r
<1>3. CASE q.op \in {"command", "getStatus"}
  <2>1. v \in {Returned(0), Returned(r.value), Threw("UnknownException")}
    BY <1>1, <1>2, <1>3 DEF Unpack, Get
  <2>2. v.how \in {"returned", "UnknownException"}
    <3>1. \A n : Returned(n).how = "returned"
      BY DEF Returned
    <3>2. \A ex : Threw(ex).how = ex
      BY DEF Threw
    <3> QED BY <2>1, <3>1, <3>2
  <2>3. \A n \in Int : Returned(n) \in [how : Endings, value : Int]
    BY DEF Returned, Endings
  <2>4. Threw("UnknownException") \in [how : Endings, value : Int]
    BY DEF Threw, Endings
  <2>5. v \in [how : Endings, value : Int]
    <3>1. 0 \in Int /\ r.value \in Int
      BY <1>1
    <3> QED BY <2>1, <2>3, <2>4, <3>1
  <2>6. v.how # "TooFast" /\ q.op # "setSpeed" /\ q.op \notin {"getSpeed", "setSpeed"}
    BY <1>3, <2>2
  <2>7. EndsWell(q, v)
    BY <2>6 DEF EndsWell
  <2> QED BY <2>2, <2>5, <2>7 DEF q
<1>4. CASE q.op = "getSpeed"
  <2>1. v = Returned(r.value)
    BY <1>1, <1>2, <1>4 DEF Unpack, Get
  <2> QED BY <1>1, <1>4, <2>1 DEF EndsWell, Returned, Endings, q
<1>5. CASE q.op = "setSpeed"
  <2>1. v = IF q.speed > MaxSpeed THEN Threw("TooFast") ELSE Returned(r.value)
    BY <1>1, <1>2, <1>5 DEF Unpack, Get
  <2> QED BY <1>1, <1>5, <2>1 DEF EndsWell, Returned, Threw, Endings, q
<1> QED BY <1>1, <1>3, <1>4, <1>5

(* What a call ended with goes on being right.                             *)
LEMMA EndsWellKept ==
  ASSUME IInv, [Next]_vars, NEW q \in arrived, NEW v, EndsWell(q, v)
  PROVE  EndsWell(q, v)'
<1>1. [SP!Next]_(SP!vars) /\ SP!IInv
  BY ServiceStep, SameServiceNext DEF IInv, Parts
<1>2. SP!SpeedBefore(q)' = SP!SpeedBefore(q)
  BY <1>1, Assumptions, SP!SpeedBeforeKept
<1>3. S!SpeedBefore(q) = SP!SpeedBefore(q) /\ S!SpeedBefore(q)' = SP!SpeedBefore(q)'
  BY DEF S!SpeedBefore, SP!SpeedBefore, S!Accepted, SP!Accepted
<1> QED BY <1>2, <1>3 DEF EndsWell
(***************************************************************************)
(* One lemma per kind of step: the parts of IInv, and how calls end.       *)
(***************************************************************************)
Ended == \A k \in 1..writes : EndsWell(call[k], result[k])

Kept == TypeInv' /\ Sent' /\ Carried' /\ Ended'

(* A step that changes no result, or only the one of k.                    *)
LEMMA EndedKept ==
  ASSUME IInv, [Next]_vars, Ended, UNCHANGED <<writes, call>>,
         \A k \in 1..writes : result'[k] = result[k] \/ EndsWell(call[k], result'[k])
  PROVE  Ended'
<1> SUFFICES ASSUME NEW k \in 1..writes PROVE EndsWell(call[k], result[k])'
  BY DEF Ended
<1>1. PICK q, v : q = call[k] /\ v = result'[k]
  OBVIOUS
<1>2. q \in arrived
  BY <1>1, RequesterFacts DEF IInv, Parts, Sent
<1>3. EndsWell(q, v)
  BY <1>1 DEF Ended
<1>4. EndsWell(q, v)'
  BY <1>2, <1>3, EndsWellKept
<1> QED BY <1>1, <1>4 DEF EndsWell
(* The steps that end no call.                                             *)
LEMMA ProgramKept ==
  ASSUME IInv, Ended, [Next]_vars, Quiet, UNCHANGED <<stub, call, result>>
  PROVE  Kept
<1>1. TypeInv' /\ Sent' /\ Carried'
  BY QuietKept DEF IInv, TypeInv
<1>2. Ended'
  BY EndedKept DEF Quiet
<1> QED BY <1>1, <1>2 DEF Kept

LEMMA BeginKept ==
  ASSUME IInv, Ended, [Next]_vars, NEW c \in R!Callers, NEW o, NEW q \in Stubs, BeginCall(c, o, q)
  PROVE  Kept
<1>1. /\ UNCHANGED <<writes, queue, answered, arrived, replies, call, result>>
      /\ stub' = [stub EXCEPT ![c] = q] /\ pc' = [pc EXCEPT ![c] = "stamp"]
  BY DEF BeginCall, R!ReadSn, R!Goto, R!ddsVars, serviceVars
<1>2. DOMAIN pc = R!Callers
  BY RequesterFacts DEF IInv, Parts
<1>3. TypeInv'
  BY <1>1 DEF IInv, TypeInv
<1>4. Sent'
  BY <1>1, <1>2 DEF IInv, TypeInv, Sent
<1>5. Carried'
  BY <1>1 DEF IInv, Carried
<1>6. Ended'
  BY <1>1, EndedKept
<1> QED BY <1>3, <1>4, <1>5, <1>6 DEF Kept

LEMMA SendCallKept ==
  ASSUME IInv, Ended, [Next]_vars, NEW c \in R!Callers, SendCall(c)
  PROVE  Kept
<1> DEFINE q == [id |-> Cardinality(arrived) + 1, to |-> 1, op |-> stub[c].op, speed |-> stub[c].speed]
<1>1. /\ arrived' = arrived \cup {q} /\ call' = [call EXCEPT ![writes + 1] = q]
      /\ UNCHANGED <<stub, result, replies, queue, answered>>
      /\ writes < MaxRequests /\ writes' = writes + 1 /\ pc[c] = "write"
      /\ pc' = [pc EXCEPT ![c] = IF op[c] = "sync" THEN "map" ELSE "register"]
  BY DEF SendCall, S!Arrive, R!Write, R!WriteAs, R!Goto, R!implVars
<1>2. /\ writes \in Nat /\ MaxRequests \in Nat /\ DOMAIN pc = R!Callers
      /\ R!Requests = 1..MaxRequests /\ writes + 1 \in R!Requests
  BY <1>1, RequesterFacts, RobotSystemAssumption DEF IInv, Parts, R!Requests
<1>3. Cardinality(arrived) \in Nat /\ \A p \in arrived : p.id \in Nat /\ p.id <= Cardinality(arrived)
  BY ServiceFacts DEF IInv, Parts
<1>4. q \in arrived' /\ q \in S!Requests /\ q.id = Cardinality(arrived) + 1
  <2>1. SP!IInv'
    BY PartsStep DEF Parts
  <2>2. SP!TypeOK' /\ q \in arrived'
    BY <1>1, <2>1 DEF SP!IInv
  <2> QED BY <2>2 DEF SP!TypeOK, S!Requests, SP!Requests, S!Ids, SP!Ids, S!Services, SP!Services
<1> HIDE DEF q
<1>5. \A k \in R!Requests : call'[k] = IF k = writes + 1 THEN q ELSE call[k]
  BY <1>1, <1>2 DEF IInv, TypeInv
<1>6. TypeInv'
  BY <1>1, <1>4 DEF IInv, TypeInv
<1>7. \A k \in R!Requests : k <= writes <=> k <= writes + 1 /\ k # writes + 1
  BY <1>2
<1>8. \A k \in 1..writes : call[k] \in arrived /\ call[k].id # q.id
  <2>1. \A k \in 1..writes : call[k] \in arrived
    BY RequesterFacts DEF IInv, Parts, Sent
  <2> QED BY <1>3, <1>4, <2>1
<1>9. Sent'
  <2>1. \A d \in R!Callers : pc'[d] \in Filling => stub'[d] \in Stubs
    BY <1>1, <1>2 DEF IInv, Sent, Filling
  <2>2. ASSUME NEW k \in R!Requests
        PROVE  IF k <= writes' THEN call'[k] \in arrived' ELSE call'[k] = S!None /\ result'[k] = Pending
    BY <1>1, <1>2, <1>4, <1>5, <1>7 DEF IInv, Sent
  <2>3. ASSUME NEW k \in 1..writes', NEW l \in 1..writes', call'[k].id = call'[l].id
        PROVE  k = l
    <3>1. /\ k \in R!Requests /\ l \in R!Requests
          /\ k \in 1..writes \/ k = writes + 1
          /\ l \in 1..writes \/ l = writes + 1
      BY <1>1, <1>2
    <3>2. k # writes + 1 /\ l # writes + 1 => k = l
      BY <1>5, <2>3, <3>1 DEF IInv, Sent
    <3>3. k = writes + 1 /\ l # writes + 1 => FALSE
      BY <1>5, <1>8, <2>3, <3>1
    <3>4. l = writes + 1 /\ k # writes + 1 => FALSE
      BY <1>5, <1>8, <2>3, <3>1
    <3> QED BY <3>2, <3>3, <3>4
  <2> QED BY <2>1, <2>2, <2>3 DEF Sent
<1>10. Carried'
  <2>1. \A k \in R!Requests : <<k, 1>> \in answered => k # writes + 1
    BY <1>2, RequesterFacts DEF IInv, Parts
  <2> QED BY <1>1, <1>5, <2>1 DEF IInv, Carried
<1>11. Ended'
  <2> SUFFICES ASSUME NEW k \in 1..writes' PROVE EndsWell(call[k], result[k])'
    BY DEF Ended
  <2>1. k \in R!Requests /\ (k \in 1..writes \/ k = writes + 1)
    BY <1>1, <1>2
  <2>2. CASE k \in 1..writes
    <3>1. PICK p, v : p = call[k] /\ v = result[k]
      OBVIOUS
    <3>2. EndsWell(p, v)'
      BY <1>8, <2>2, <3>1, EndsWellKept DEF Ended
    <3>3. call'[k] = p /\ result'[k] = v
      BY <1>1, <1>2, <1>5, <2>1, <2>2, <3>1
    <3> QED BY <3>2, <3>3 DEF EndsWell
  <2>3. CASE k = writes + 1
    <3>1. result'[k] = Pending
      BY <1>1, <1>2, <2>1, <2>3 DEF IInv, Sent
    <3> QED BY <3>1 DEF EndsWell, Pending
  <2> QED BY <2>1, <2>2, <2>3
<1> QED BY <1>6, <1>9, <1>10, <1>11 DEF Kept
(* The steps that end the call k with v.                                   *)
LEMMA EndKept ==
  ASSUME IInv, Ended, [Next]_vars, Quiet, UNCHANGED <<stub, call>>,
         NEW k \in R!Requests, k \in 1..writes, NEW v \in [how : Endings, value : Int],
         EndsWell(call[k], v), result' = [result EXCEPT ![k] = v]
  PROVE  Kept
<1>1. result' \in [R!Requests -> [how : Endings, value : Int]]
  BY DEF IInv, TypeInv
<1>2. \A l \in R!Requests : result'[l] = IF l = k THEN v ELSE result[l]
  BY DEF IInv, TypeInv
<1>3. /\ writes \in Nat /\ k <= writes /\ \A l \in R!Requests : l \in Nat
      /\ \A l \in 1..writes : l \in R!Requests
  BY RequesterFacts DEF IInv, Parts
<1>4. TypeInv' /\ Sent' /\ Carried'
  BY <1>1, <1>2, <1>3, QuietKept
<1>5. Ended'
  BY <1>2, <1>3, EndedKept DEF Quiet
<1> QED BY <1>4, <1>5 DEF Kept

LEMMA TakeReplyEnds ==
  ASSUME IInv, NEW c \in R!Callers, TakeReply(c)
  PROVE  /\ Quiet /\ UNCHANGED <<stub, call>>
         /\ identity[c] \in R!Requests /\ identity[c] \in 1..writes
         /\ \E v \in [how : Endings, value : Int] :
              /\ EndsWell(call[identity[c]], v) /\ result' = [result EXCEPT ![identity[c]] = v]
              /\ v.how \in {"returned", "TooFast", "UnknownException"}
<1> DEFINE k == identity[c]
<1>1. Quiet /\ UNCHANGED <<stub, call>> /\ pc[c] = "take"
  <2>1. RP!Inv /\ R!TakeOwn(c)
    BY DEF TakeReply, IInv, Parts
  <2> QED BY <2>1, QuietSteps DEF TakeReply, R!TakeOwn
<1>2. k \in R!Requests /\ k \in 1..writes /\ id2id_map[requestId[c]] = k
  BY <1>1, RequesterFacts DEF IInv, Parts
<1>3. PICK q \in queue : q.req = k /\ q.valid /\ source' = [source EXCEPT ![k] = q.req]
  BY <1>2 DEF TakeReply, R!TakeOwn, R!Matching, IInv, TypeInv
<1>4. source'[k] = k /\ <<k, 1>> \in answered
  BY <1>2, <1>3, RequesterFacts DEF IInv, Parts
<1>5. PICK v \in Unpack(call[k].op, ReplyOf(k)) : result' = [result EXCEPT ![k] = v]
  BY <1>4 DEF TakeReply
<1>6. /\ EndsWell(call[k], v) /\ v \in [how : Endings, value : Int]
      /\ v.how \in {"returned", "TooFast", "UnknownException"}
  BY <1>2, <1>4, <1>5, UnpackRight
<1> QED BY <1>1, <1>2, <1>5, <1>6

LEMMA TakeReplyKept ==
  ASSUME IInv, Ended, [Next]_vars, NEW c \in R!Callers, TakeReply(c)
  PROVE  Kept
<1>1. /\ Quiet /\ UNCHANGED <<stub, call>>
      /\ identity[c] \in R!Requests /\ identity[c] \in 1..writes
  BY TakeReplyEnds
<1>2. PICK v \in [how : Endings, value : Int] :
        EndsWell(call[identity[c]], v) /\ result' = [result EXCEPT ![identity[c]] = v]
  BY TakeReplyEnds
<1> QED BY <1>1, <1>2, EndKept

LEMMA NoReplyKept ==
  ASSUME IInv, Ended, [Next]_vars, NEW c \in R!Callers, NoReply(c)
  PROVE  Kept
<1> DEFINE k == identity[c]
<1> DEFINE v == IF call[k].op = "command" THEN Returned(0) ELSE Threw("UnknownResponse")
<1>1. Quiet /\ UNCHANGED <<stub, call>> /\ pc[c] = "failed" /\ result' = [result EXCEPT ![k] = v]
  <2>1. RP!Inv /\ R!GiveUp(c)
    BY DEF NoReply, IInv, Parts
  <2>2. Quiet
    BY <2>1, QuietSteps
  <2>3. pc[c] = "failed"
    BY <2>1 DEF R!GiveUp
  <2> QED BY <2>2, <2>3 DEF NoReply
<1>2. k \in R!Requests /\ k \in 1..writes
  BY <1>1, RequesterFacts DEF IInv, Parts
<1>3. v \in [how : Endings, value : Int]
  BY DEF Returned, Threw, Endings
<1>4. EndsWell(call[k], v)
  <2>1. CASE call[k].op = "command"
    BY <2>1 DEF EndsWell, Returned
  <2>2. CASE call[k].op # "command"
    BY <2>2 DEF EndsWell, Threw
  <2> QED BY <2>1, <2>2
<1> HIDE DEF v
<1> QED BY <1>1, <1>2, <1>3, <1>4, EndKept

LEMMA ContinueEnds ==
  ASSUME IInv, NEW k \in R!Requests, Continue(k)
  PROVE  /\ Quiet /\ UNCHANGED <<stub, call>> /\ k \in 1..writes
         /\ \E v \in [how : Endings, value : Int] :
              /\ EndsWell(call[k], v) /\ result' = [result EXCEPT ![k] = v]
              /\ v.how \in {"returned", "TooFast", "UnknownException"}
<1> DEFINE v == Get(call[k].op, ReplyOf(k))
<1>1. /\ Quiet /\ UNCHANGED <<stub, call>> /\ kind[k] = "async" /\ status[k] \in {"value", "error"}
  BY QuietSteps DEF Continue, IInv, Parts
<1>2. k \in 1..writes /\ status[k] = "value" /\ source[k] = k /\ <<k, 1>> \in answered
  BY <1>1, RequesterFacts DEF IInv, Parts
<1>3. result' = [result EXCEPT ![k] = v]
  BY <1>2 DEF Continue
<1>4. /\ EndsWell(call[k], v) /\ v \in [how : Endings, value : Int]
      /\ v.how \in {"returned", "TooFast", "UnknownException"}
  BY <1>2, UnpackRight
<1> QED BY <1>1, <1>2, <1>3, <1>4

LEMMA ContinueKept ==
  ASSUME IInv, Ended, [Next]_vars, NEW k \in R!Requests, Continue(k)
  PROVE  Kept
<1>1. PICK v \in [how : Endings, value : Int] : EndsWell(call[k], v) /\ result' = [result EXCEPT ![k] = v]
  BY ContinueEnds
<1> QED BY <1>1, ContinueEnds, EndKept

(* The reply to a request of the program is there when it is answered.     *)
LEMMA SendReplyKept ==
  ASSUME IInv, Ended, [Next]_vars, SendReply
  PROVE  Kept
<1>1. UNCHANGED <<stub, call, result, arrived, writes, pc>>
  BY DEF SendReply, programVars, requesterVars, S!SendReply, R!Answer, R!callerVars
<1>2. \A q \in queue' : q.valid
  <2>1. \A q \in queue : q.valid
    BY DEF IInv, TypeInv
  <2>2. queue' = queue \/ \E k : queue' = queue \cup {[req |-> k, from |-> 1, valid |-> TRUE]}
    BY DEF SendReply, requesterVars, R!Answer
  <2>3. \A k : [req |-> k, from |-> 1, valid |-> TRUE].valid
    OBVIOUS
  <2> QED BY <2>1, <2>2, <2>3
<1>3. \A k : <<k, 1>> \in answered' => <<k, 1>> \in answered \/ call[k].id = request_sample.id
  BY DEF SendReply, requesterVars, R!Answer
<1>4. \E r \in replies' : r.id = request_sample.id
  <2>1. server_pc = "send" /\ replies' = replies \cup {[reply EXCEPT !.remoteEx = "OK"]}
    BY DEF SendReply, S!SendReply
  <2>2. reply # SP!None /\ reply.id = request_sample.id /\ reply \in {SP!None} \cup SP!Reply
    BY <2>1 DEF IInv, Parts, SP!IInv, SP!Held, SP!TypeOK, SP!Reply
  <2>3. reply \in SP!Reply
    BY <2>2
  <2>4. [reply EXCEPT !.remoteEx = "OK"].id = request_sample.id
    BY <2>2, <2>3 DEF SP!Reply
  <2> QED BY <2>1, <2>4
<1>5. TypeInv' /\ Sent'
  BY <1>1, <1>2 DEF IInv, TypeInv, Sent
<1>6. Carried'
  BY <1>1, <1>3, <1>4, Grows DEF IInv, Carried
<1>7. Ended'
  BY <1>1, EndedKept
<1> QED BY <1>5, <1>6, <1>7 DEF Kept

LEMMA SystemStep == IInv /\ Ended /\ [Next]_vars => IInv' /\ Ended'
<1> SUFFICES ASSUME IInv, Ended, [Next]_vars PROVE Kept
  BY PartsStep DEF IInv, Kept
<1>1. ASSUME NEW c \in R!Callers, Proceed(c) \/ Wait(c) PROVE Quiet /\ UNCHANGED <<stub, call, result>>
  BY <1>1, QuietSteps DEF Proceed, Wait, programVars, IInv, Parts
<1>2. ASSUME NEW k \in R!Requests, ReplyThread(k) PROVE Quiet /\ UNCHANGED <<stub, call, result>>
  BY <1>2, QuietSteps DEF ReplyThread, programVars, IInv, Parts
<1>3. ASSUME Work \/ Fail \/ \E q \in Stubs : OtherClient(q) PROVE Quiet /\ UNCHANGED <<stub, call, result>>
  BY <1>3, QuietSteps DEF programVars, Work, Fail, OtherClient, IInv, Parts
<1>4. ASSUME UNCHANGED vars PROVE Quiet /\ UNCHANGED <<stub, call, result>>
  BY <1>4, QuietSteps DEF vars, programVars, IInv, Parts
<1>5. CASE UNCHANGED vars
  BY <1>4, <1>5, ProgramKept
<1>6. CASE Next
  <2>1. CASE \E c \in R!Callers : \E o \in {"sync", "async"}, q \in Stubs : BeginCall(c, o, q)
    BY <2>1, BeginKept
  <2>2. CASE \E c \in R!Callers : SendCall(c) \/ Proceed(c) \/ Wait(c) \/ TakeReply(c) \/ NoReply(c)
    BY <1>1, <2>2, SendCallKept, ProgramKept, TakeReplyKept, NoReplyKept
  <2>3. CASE \E k \in R!Requests : ReplyThread(k) \/ Continue(k)
    BY <1>2, <2>3, ProgramKept, ContinueKept
  <2>4. CASE Work \/ Fail \/ \E q \in Stubs : OtherClient(q)
    BY <1>3, <2>4, ProgramKept
  <2>5. CASE SendReply
    BY <2>5, SendReplyKept
  <2> QED BY <1>6, <2>1, <2>2, <2>3, <2>4, <2>5 DEF Next
<1> QED BY <1>5, <1>6

(***************************************************************************)
(* A stub that ends for want of its reply.                                 *)
(***************************************************************************)
Late == \A k \in R!Requests : result[k].how = "UnknownResponse" => status[k] = "abandoned"

LEMMA AbandonedKept ==
  ASSUME RP!Inv, [R!Next]_(R!vars), NEW k \in R!Requests, status[k] = "abandoned"
  PROVE  status'[k] = "abandoned"
<1>0. R!Callers = RP!Callers /\ R!Requests = RP!Requests
  BY DEF R!Callers, RP!Callers, R!Requests, RP!Requests
<1>1. /\ k <= writes /\ status[k] # "unsent" /\ writes \in Nat /\ k \in Nat
      /\ DOMAIN status = R!Requests
  BY <1>0, RequesterFacts DEF RP!Inv, RP!Delivery, RP!IssueInv, RP!TypeInv, RP!TypeOK
<1>2. \A c \in R!Callers : pc[c] \in {"take", "failed"} => status[identity[c]] = "pending"
  BY <1>0 DEF RP!Inv, RP!Delivery, RP!CallerInv, RP!Receiving
<1>3. \A l \in R!Requests : thread[l] = "complete" => status[l] = "pending"
  BY <1>0 DEF RP!Inv, RP!Delivery, RP!ThreadInv
<1>4. ASSUME NEW o, R!WriteAs(o) PROVE status'[k] = "abandoned"
  BY <1>1, <1>4 DEF R!WriteAs
<1>5. ASSUME NEW c \in R!Callers, R!TakeOwn(c) \/ R!GiveUp(c) PROVE status'[k] = "abandoned"
  BY <1>1, <1>2, <1>5 DEF R!TakeOwn, R!GiveUp
<1>6. ASSUME NEW l \in R!Requests, R!ThreadStep(l) PROVE status'[k] = "abandoned"
  BY <1>1, <1>3, <1>6 DEF R!ThreadStep, R!ThreadWait, R!ThreadTake, R!ThreadComplete, R!ThreadErase
<1>7. ASSUME NEW c \in R!Callers,
             R!StampSn(c) \/ R!StoreMapping(c) \/ R!FindMapping(c) \/ R!WaitForReplies(c) \/ R!TakeNothing(c)
      PROVE  status' = status
  BY <1>7 DEF R!StampSn, R!StoreMapping, R!FindMapping, R!WaitForReplies, R!TakeNothing, R!callVars
<1>8. ASSUME NEW c \in R!Callers, R!Retry(c) \/ R!RegisterPromise(c) \/ R!SpawnReplyThread(c)
      PROVE  status' = status
  BY <1>8 DEF R!Retry, R!RegisterPromise, R!SpawnReplyThread, R!callVars
<1>9. ASSUME NEW c \in R!Callers, NEW x, R!ReadSn(c, x) \/ R!ReceiveNondata(c, x)
      PROVE  status' = status
  BY <1>9 DEF R!ReadSn, R!ReceiveNondata, R!callVars
<1>10. ASSUME NEW r, NEW l, R!Answer(r, l)
       PROVE  status' = status
  BY <1>10 DEF R!Answer, R!callVars
<1>11. UNCHANGED R!vars => status' = status
  BY DEF R!vars, R!callVars
<1>12. ASSUME NEW c \in R!Callers, R!CallerStep(c) \/ R!SendRaw(c)
       PROVE  status'[k] = "abandoned"
  BY <1>4, <1>5, <1>7, <1>8, <1>12 DEF R!CallerStep, R!Write, R!SendRaw
<1> QED BY <1>6, <1>9, <1>10, <1>11, <1>12 DEF R!Next

LEMMA LateStep == IInv /\ Late /\ [Next]_vars => Late'
<1> SUFFICES ASSUME IInv, Late, [Next]_vars, NEW k \in R!Requests
             PROVE  result'[k].how = "UnknownResponse" => status'[k] = "abandoned"
  BY DEF Late, R!Requests
<1>1. status[k] = "abandoned" => status'[k] = "abandoned"
  BY RequesterStep, AbandonedKept DEF IInv, Parts
<1>2. DOMAIN result = R!Requests /\ DOMAIN status = R!Requests
  BY DEF IInv, Parts, TypeInv, RP!Inv, RP!TypeInv, RP!TypeOK, R!Requests, RP!Requests
<1>3. ASSUME result' = result PROVE result'[k] = result[k]
  BY <1>3
<1>4. ASSUME NEW c \in R!Callers, TakeReply(c)
      PROVE  result'[k] = result[k] \/ result'[k].how \in {"returned", "TooFast", "UnknownException"}
  <2>1. PICK v : /\ result' = [result EXCEPT ![identity[c]] = v]
                 /\ v.how \in {"returned", "TooFast", "UnknownException"}
    BY <1>4, TakeReplyEnds
  <2> QED BY <1>2, <2>1
<1>5. ASSUME NEW l \in R!Requests, Continue(l)
      PROVE  result'[k] = result[k] \/ result'[k].how \in {"returned", "TooFast", "UnknownException"}
  <2>1. PICK v : /\ result' = [result EXCEPT ![l] = v]
                 /\ v.how \in {"returned", "TooFast", "UnknownException"}
    BY <1>5, ContinueEnds
  <2> QED BY <1>2, <2>1
<1>6. ASSUME NEW c \in R!Callers, NoReply(c)
      PROVE  \/ result'[k] = result[k]
             \/ result'[k].how \in {"returned", "UnknownResponse"} /\ status'[k] = "abandoned"
  <2>1. PICK v : /\ result' = [result EXCEPT ![identity[c]] = v]
                 /\ v.how \in {"returned", "UnknownResponse"}
    <3> DEFINE w == IF call[identity[c]].op = "command" THEN Returned(0) ELSE Threw("UnknownResponse")
    <3>1. w = Returned(0) \/ w = Threw("UnknownResponse")
      OBVIOUS
    <3>2. w.how \in {"returned", "UnknownResponse"}
      BY <3>1 DEF Returned, Threw
    <3>3. result' = [result EXCEPT ![identity[c]] = w]
      BY <1>6 DEF NoReply
    <3> QED BY <3>2, <3>3
  <2>2. status' = [status EXCEPT ![identity[c]] = "abandoned"]
    BY <1>6 DEF NoReply, R!GiveUp
  <2> QED BY <1>2, <2>1, <2>2
<1>7. ASSUME NEW c \in R!Callers,
             \/ SendCall(c) \/ Proceed(c) \/ Wait(c)
             \/ \E o \in {"sync", "async"}, q \in Stubs : BeginCall(c, o, q)
      PROVE  result' = result
  BY <1>7 DEF SendCall, Proceed, Wait, BeginCall, programVars
<1>8. (\E l \in R!Requests : ReplyThread(l)) \/ Work \/ Fail \/ SendReply \/ (\E q \in Stubs : OtherClient(q)) =>
        result' = result
  BY DEF ReplyThread, Work, Fail, SendReply, OtherClient, programVars
<1>9. UNCHANGED vars => result' = result
  BY DEF vars, programVars
<1> DEFINE OK == \/ result'[k] = result[k]
                 \/ result'[k].how \in {"returned", "TooFast", "UnknownException"}
                 \/ result'[k].how \in {"returned", "UnknownResponse"} /\ status'[k] = "abandoned"
<1>10. ASSUME Next PROVE OK
  <2>1. CASE \E c \in R!Callers : \/ SendCall(c) \/ Proceed(c) \/ Wait(c)
                                  \/ \E o \in {"sync", "async"}, q \in Stubs : BeginCall(c, o, q)
    BY <1>3, <1>7, <2>1
  <2>2. CASE \E c \in R!Callers : TakeReply(c) \/ NoReply(c)
    BY <1>4, <1>6, <2>2
  <2>3. CASE \E l \in R!Requests : ReplyThread(l) \/ Continue(l)
    BY <1>3, <1>5, <1>8, <2>3
  <2>4. CASE Work \/ Fail \/ SendReply \/ (\E q \in Stubs : OtherClient(q))
    BY <1>3, <1>8, <2>4
  <2> HIDE DEF OK
  <2> QED BY <1>10, <2>1, <2>2, <2>3, <2>4 DEF Next
<1>11. OK
  BY <1>3, <1>9, <1>10
<1> HIDE DEF OK
<1>12. CASE result'[k] = result[k]
  BY <1>1, <1>12 DEF Late
<1>13. CASE result'[k].how \in {"returned", "TooFast", "UnknownException"}
  BY <1>13
<1>14. CASE result'[k].how \in {"returned", "UnknownResponse"} /\ status'[k] = "abandoned"
  BY <1>14
<1> QED BY <1>11, <1>12, <1>13, <1>14 DEF OK

(***************************************************************************)
(* Why a stub ends for want of its reply.  A blocking call is under way    *)
(* from its write to its delivery, and there is one at a time; so a reply  *)
(* to a blocking call that lies in the reader is its own, or that to an    *)
(* earlier call that was given up and is explained itself.                 *)
(***************************************************************************)
Blocked(c) == pc[c] \in {"map", "sent", "wait", "take", "failed"}
InCall(k) == \E c \in R!Callers : Blocked(c) /\ identity[c] = k
Explained(k) == k \in expired \/ Disturbed(k)

CallExplained(k) ==
  /\ kind[k] \in {"sync", "async"}
  /\ status[k] = "abandoned" => Explained(k)
  /\ kind[k] = "sync" /\ status[k] = "pending" => InCall(k)
  /\ kind[k] = "sync" /\ status[k] = "value" =>
       <<k, 1>> \in answered /\ \A q \in queue : q.req # k

CallerExplained(c) ==
  /\ pc[c] = "failed" => Explained(identity[c])
  /\ pc[c] = "take" => Disturbed(identity[c]) \/ \E q \in queue : q.req = identity[c]
  /\ Blocked(c) => \A j \in 1..writes : kind[j] = "sync" => j <= identity[c]
  /\ pc[c] = "sent" => requestId[c] \in DOMAIN id2id_map

Explanation ==
  /\ \A k \in 1..writes : CallExplained(k)
  /\ \A c \in R!Callers : CallerExplained(c)

LEMMA BlockedFacts ==
  ASSUME RP!Inv, NEW c \in R!Callers, Blocked(c)
  PROVE  /\ identity[c] \in 1..writes /\ identity[c] \in R!Requests
         /\ kind[identity[c]] = "sync" /\ status[identity[c]] = "pending" /\ op[c] = "sync"
         /\ \A d \in R!Callers : Blocked(d) \/ op[d] = "sync" => d = c
         /\ pc[c] \in {"wait", "take"} => requestId[c] \in DOMAIN id2id_map
<1> USE DEF RP!Inv, RP!Delivery
<1>0. R!Callers = RP!Callers /\ R!Requests = RP!Requests
  BY DEF R!Callers, RP!Callers, R!Requests, RP!Requests
<1>1. \A d \in R!Callers : Blocked(d) =>
        op[d] = "sync" /\ kind[identity[d]] = "sync" /\ status[identity[d]] = "pending"
  BY <1>0 DEF Blocked, RP!CallerInv, RP!Receiving
<1>2. \A d \in R!Callers : op[d] = "sync" => d \in SyncCallers
  BY <1>0 DEF RP!CallerInv
<1>3. identity[c] \in R!Requests
  BY <1>0 DEF Blocked, RP!TypeInv, RP!HasWritten
<1>4. identity[c] \in 1..writes
  <2>1. ~(identity[c] > writes)
    BY <1>0, <1>1, <1>3 DEF RP!IssueInv
  <2> QED BY <1>3, <2>1, RequesterFacts
<1>5. \A d \in R!Callers : Blocked(d) \/ op[d] = "sync" => d = c
  BY <1>1, <1>2, RobotSystemAssumption
<1>6. pc[c] \in {"wait", "take"} => requestId[c] \in DOMAIN id2id_map
  BY <1>0 DEF RP!MapInv
<1> QED BY <1>1, <1>3, <1>4, <1>5, <1>6

(* What is written, answered or expired stays so.                          *)
LEMMA HistoryKept ==
  ASSUME IInv, [Next]_vars
  PROVE  /\ writes \in Nat /\ writes' \in {writes, writes + 1}
         /\ answered \subseteq answered' /\ expired \subseteq expired'
         /\ \A j \in 1..writes : j \in 1..writes' /\ kind'[j] = kind[j]
<1>1. [R!Next]_(R!vars) /\ RP!Inv
  BY RequesterStep DEF IInv, Parts
<1>2. /\ writes \in Nat /\ DOMAIN kind = R!Requests
      /\ \A j \in 1..writes : j # writes + 1
  BY <1>1, RequesterFacts DEF RP!Inv, RP!TypeInv, RP!TypeOK, R!Requests, RP!Requests
<1> DEFINE OK == writes' \in {writes, writes + 1} /\ answered \subseteq answered'
                 /\ \A j \in 1..writes : kind'[j] = kind[j]
<1>3. ASSUME NEW o, R!WriteAs(o), UNCHANGED answered PROVE OK
  BY <1>2, <1>3 DEF R!WriteAs
<1>4. ASSUME NEW c \in R!Callers, R!Write(c) \/ R!SendRaw(c) PROVE OK
  BY <1>3, <1>4 DEF R!Write, R!SendRaw, R!WriteAs
<1>5. ASSUME NEW c \in R!Callers,
             R!StampSn(c) \/ R!StoreMapping(c) \/ R!FindMapping(c) \/ R!WaitForReplies(c) \/ R!TakeNothing(c)
      PROVE  UNCHANGED <<writes, answered, kind>>
  BY <1>5 DEF R!StampSn, R!StoreMapping, R!FindMapping, R!WaitForReplies, R!TakeNothing, R!callVars, R!ddsVars
<1>6. ASSUME NEW c \in R!Callers,
             \/ R!Retry(c) \/ R!RegisterPromise(c) \/ R!SpawnReplyThread(c) \/ R!TakeOwn(c) \/ R!GiveUp(c)
             \/ \E x : R!ReadSn(c, x) \/ R!ReceiveNondata(c, x)
      PROVE  UNCHANGED <<writes, answered, kind>>
  BY <1>6 DEF R!Retry, R!RegisterPromise, R!SpawnReplyThread, R!TakeOwn, R!GiveUp, R!ReadSn, R!ReceiveNondata,
       R!callVars, R!ddsVars
<1>7. ASSUME NEW l \in R!Requests, R!ThreadStep(l)
      PROVE  UNCHANGED <<writes, answered, kind>>
  BY <1>7 DEF R!ThreadStep, R!ThreadWait, R!ThreadTake, R!ThreadComplete, R!ThreadErase, R!ddsVars
<1>8. ASSUME NEW p, NEW l, R!Answer(p, l) PROVE OK
  BY <1>8 DEF R!Answer, R!callVars
<1>9. UNCHANGED R!vars => OK
  BY DEF R!vars, R!callVars, R!ddsVars
<1>10. UNCHANGED <<writes, answered, kind>> => OK
  OBVIOUS
<1> HIDE DEF OK
<1>11. OK
  BY <1>1, <1>4, <1>5, <1>6, <1>7, <1>8, <1>9, <1>10 DEF R!Next, R!CallerStep
<1>12. expired \subseteq expired'
  BY DEF Next, BeginCall, SendCall, Proceed, Wait, TakeReply, NoReply, ReplyThread, Continue, Work, Fail,
         SendReply, OtherClient, vars, programVars
<1> QED BY <1>2, <1>11, <1>12 DEF OK

LEMMA ExplainedKept ==
  ASSUME IInv, [Next]_vars, NEW k
  PROVE  (Disturbed(k) => Disturbed(k)') /\ (Explained(k) => Explained(k)')
<1>1. Disturbed(k) => Disturbed(k)'
  BY HistoryKept DEF Disturbed
<1> QED BY <1>1, HistoryKept DEF Explained

(* A call whose status stays, and a caller that stays where it is.         *)
LEMMA CallKept ==
  ASSUME IInv, [Next]_vars, NEW k \in 1..writes, CallExplained(k), status'[k] = status[k],
         kind[k] = "sync" /\ InCall(k) => InCall(k)',
         \A q \in queue' : q \in queue \/ <<q.req, 1>> \notin answered
  PROVE  CallExplained(k)'
<1>1. kind'[k] = kind[k] /\ (<<k, 1>> \in answered => <<k, 1>> \in answered')
  BY HistoryKept
<1>2. status'[k] = "abandoned" => Explained(k)'
  BY ExplainedKept DEF CallExplained
<1>3. kind[k] = "sync" /\ status[k] = "value" => <<k, 1>> \in answered /\ \A q \in queue' : q.req # k
  BY DEF CallExplained
<1> QED BY <1>1, <1>2, <1>3 DEF CallExplained

LEMMA CallerKept ==
  ASSUME IInv, [Next]_vars, NEW c \in R!Callers, CallerExplained(c),
         pc'[c] = pc[c], identity'[c] = identity[c], requestId'[c] = requestId[c],
         Blocked(c) => /\ \A j \in 1..writes' : kind'[j] = "sync" => j \in 1..writes
                       /\ \A q \in queue : q.req = identity[c] => q \in queue'
                       /\ DOMAIN id2id_map \subseteq DOMAIN id2id_map'
  PROVE  CallerExplained(c)'
<1>1. Blocked(c)' <=> Blocked(c)
  BY DEF Blocked
<1>2. pc'[c] = "failed" => Explained(identity[c])'
  BY ExplainedKept DEF CallerExplained, Explained, Disturbed
<1>3. pc'[c] = "take" => Disturbed(identity[c])' \/ \E q \in queue' : q.req = identity'[c]
  BY ExplainedKept DEF CallerExplained, Disturbed, Blocked
<1>4. Blocked(c) => \A j \in 1..writes' : kind'[j] = "sync" => j <= identity'[c]
  BY HistoryKept DEF CallerExplained
<1>5. pc'[c] = "sent" => requestId'[c] \in DOMAIN id2id_map'
  BY DEF CallerExplained, Blocked
<1> QED BY <1>1, <1>2, <1>3, <1>4, <1>5 DEF CallerExplained

(* Steps of the service, of a continuation, of a call not yet written or   *)
(* of an asynchronous one: no blocking call moves.                         *)
LEMMA ElsewhereExplained ==
  ASSUME IInv, Explanation, [Next]_vars, UNCHANGED <<writes, kind, status, queue, id2id_map>>,
         \A d \in R!Callers :
           \/ pc'[d] = pc[d] /\ identity'[d] = identity[d] /\ requestId'[d] = requestId[d]
           \/ ~Blocked(d) /\ ~Blocked(d)'
  PROVE  Explanation'
<1>1. ASSUME NEW k \in 1..writes PROVE CallExplained(k)'
  <2>1. InCall(k) => InCall(k)'
    BY DEF InCall, Blocked
  <2> QED BY <2>1, CallKept DEF Explanation
<1>2. ASSUME NEW d \in R!Callers PROVE CallerExplained(d)'
  <2>1. CASE ~Blocked(d) /\ ~Blocked(d)'
    BY <2>1 DEF CallerExplained, Blocked
  <2>2. CASE pc'[d] = pc[d] /\ identity'[d] = identity[d] /\ requestId'[d] = requestId[d]
    BY <2>2, CallerKept DEF Explanation
  <2> QED BY <2>1, <2>2
<1> QED BY <1>1, <1>2 DEF Explanation

(* The steps of a blocking call, from its write to its end.                *)
LEMMA BlockedExplained ==
  ASSUME IInv, Explanation, [Next]_vars, NEW c \in R!Callers, Blocked(c), NEW l, pc' = [pc EXCEPT ![c] = l],
         UNCHANGED <<writes, kind, identity, requestId>>, queue' \subseteq queue,
         \A k \in 1..writes : k # identity[c] => status'[k] = status[k],
         CallerExplained(c)', CallExplained(identity[c])'
  PROVE  Explanation'
<1>0. RP!Inv /\ DOMAIN pc = R!Callers
  BY RequesterFacts DEF IInv, Parts
<1>1. \A d \in R!Callers : d # c => ~Blocked(d) /\ pc'[d] = pc[d]
  BY <1>0, BlockedFacts
<1>2. ASSUME NEW k \in 1..writes, k # identity[c] PROVE CallExplained(k)'
  <2>1. ~InCall(k)
    BY <1>1, <1>2 DEF InCall
  <2> QED BY <1>2, <2>1, CallKept DEF Explanation
<1>3. ASSUME NEW d \in R!Callers, d # c PROVE CallerExplained(d)'
  BY <1>1, <1>3, CallerKept DEF Explanation
<1>4. CallExplained(identity[c])' => \A k \in 1..writes : k = identity[c] => CallExplained(k)'
  BY DEF CallExplained, Explained, Disturbed, InCall, Blocked
<1> QED BY <1>2, <1>3, <1>4 DEF Explanation

(* While the call goes on, its status stays.                               *)
LEMMA OngoingExplained ==
  ASSUME IInv, Explanation, [Next]_vars, NEW c \in R!Callers, Blocked(c),
         NEW l \in {"sent", "wait", "take", "failed"}, pc' = [pc EXCEPT ![c] = l],
         UNCHANGED <<writes, kind, identity, requestId, status>>, queue' \subseteq queue,
         l = "sent" => requestId[c] \in DOMAIN id2id_map',
         l = "take" => Disturbed(identity[c])' \/ \E q \in queue' : q.req = identity[c],
         l = "failed" => Explained(identity[c])'
  PROVE  Explanation'
<1>0. RP!Inv /\ DOMAIN pc = R!Callers /\ identity[c] \in 1..writes
  BY RequesterFacts, BlockedFacts DEF IInv, Parts
<1>1. pc'[c] = l /\ Blocked(c)'
  BY <1>0 DEF Blocked
<1>2. PICK k \in 1..writes : k = identity[c]
  BY <1>0
<1>3. CallExplained(k)'
  <2>1. InCall(k)'
    BY <1>1, <1>2 DEF InCall
  <2> QED BY <2>1, CallKept DEF Explanation
<1>4. CallExplained(identity[c])'
  BY <1>2, <1>3 DEF CallExplained, Explained, Disturbed, InCall, Blocked
<1>5. CallerExplained(c)'
  <2>1. \A j \in 1..writes' : kind'[j] = "sync" => j <= identity'[c]
    BY DEF Explanation, CallerExplained
  <2> QED BY <1>1, <2>1 DEF CallerExplained, Explained, Disturbed
<1> QED BY <1>4, <1>5, BlockedExplained

LEMMA SendExplained ==
  ASSUME IInv, Explanation, [Next]_vars, NEW c \in R!Callers, SendCall(c)
  PROVE  Explanation'
<1>0. /\ RP!Inv /\ DOMAIN pc = R!Callers /\ DOMAIN identity = R!Callers
      /\ writes \in Nat /\ writes + 1 \in R!Requests
      /\ DOMAIN kind = R!Requests /\ DOMAIN status = R!Requests
  <2>1. writes < MaxRequests /\ R!Requests = 1..MaxRequests
    BY DEF SendCall, R!Write, R!WriteAs, R!Requests
  <2> QED BY <2>1, RequesterFacts, RobotSystemAssumption
          DEF IInv, Parts, RP!Inv, RP!TypeInv, RP!TypeOK, R!Callers, RP!Callers, R!Requests, RP!Requests
<1>1. /\ pc[c] = "write" /\ writes' = writes + 1
      /\ kind' = [kind EXCEPT ![writes + 1] = op[c]]
      /\ status' = [status EXCEPT ![writes + 1] = "pending"]
      /\ identity' = [identity EXCEPT ![c] = writes + 1]
      /\ pc' = [pc EXCEPT ![c] = IF op[c] = "sync" THEN "map" ELSE "register"]
      /\ UNCHANGED <<queue, answered, requestId, id2id_map>>
  BY DEF SendCall, R!Write, R!WriteAs, R!Goto, R!implVars
<1>2. op[c] \in {"sync", "async"} /\ (op[c] = "sync" => \A d \in R!Callers : ~Blocked(d))
  <2>1. op[c] \in {"sync", "async"}
    BY <1>0, <1>1 DEF RP!Inv, RP!Delivery, RP!CallerInv, R!Callers, RP!Callers
  <2>2. ASSUME op[c] = "sync", NEW d \in R!Callers, Blocked(d) PROVE FALSE
    BY <1>0, <1>1, <2>2, BlockedFacts DEF Blocked
  <2> QED BY <2>1, <2>2
<1>3. ~Blocked(c)
  BY <1>1 DEF Blocked
<1>4. ASSUME NEW k \in 1..writes PROVE CallExplained(k)'
  <2>1. status'[k] = status[k]
    BY <1>0, <1>1
  <2>2. InCall(k) => InCall(k)'
    BY <1>0, <1>1, <1>3 DEF InCall, Blocked
  <2> QED BY <1>1, <2>1, <2>2, CallKept DEF Explanation
<1>5. ASSUME NEW k, k = writes + 1 PROVE CallExplained(k)'
  <2>1. kind'[k] = op[c] /\ status'[k] = "pending"
    BY <1>0, <1>1, <1>5
  <2>2. op[c] = "sync" => InCall(k)'
    BY <1>0, <1>1, <1>5 DEF InCall, Blocked
  <2> QED BY <1>2, <2>1, <2>2 DEF CallExplained
<1>6. ASSUME NEW d \in R!Callers, d # c PROVE CallerExplained(d)'
  <2>1. pc'[d] = pc[d] /\ identity'[d] = identity[d] /\ requestId'[d] = requestId[d]
    BY <1>0, <1>1, <1>6
  <2>2. ASSUME Blocked(d), NEW j \in 1..writes', kind'[j] = "sync" PROVE j \in 1..writes
    <3>1. kind'[writes + 1] # "sync"
      BY <1>0, <1>1, <1>2, <2>2
    <3> QED BY <1>0, <1>1, <2>2, <3>1
  <2> QED BY <1>1, <2>1, <2>2, CallerKept DEF Explanation
<1>7. CallerExplained(c)'
  <2>1. pc'[c] \in {"map", "register"} /\ identity'[c] = writes + 1
    BY <1>0, <1>1
  <2>2. \A j \in 1..writes' : j <= writes + 1
    BY <1>0, <1>1
  <2> QED BY <2>1, <2>2 DEF CallerExplained
<1>8. \A k \in 1..writes' : k \in 1..writes \/ k = writes + 1
  BY <1>0, <1>1
<1> QED BY <1>4, <1>5, <1>6, <1>7, <1>8 DEF Explanation

LEMMA WaitExplained ==
  ASSUME IInv, Explanation, [Next]_vars, NEW c \in R!Callers, Wait(c)
  PROVE  Explanation'
<1>0. RP!Inv
  BY DEF IInv, Parts
<1>1. /\ pc[c] = "wait" /\ Blocked(c)
      /\ pc' = [pc EXCEPT ![c] = IF queue # {} THEN "take" ELSE "failed"]
      /\ UNCHANGED <<writes, kind, identity, requestId, status, queue, answered, id2id_map>>
      /\ expired' = IF queue = {} THEN expired \cup {identity[c]} ELSE expired
  BY DEF Wait, R!WaitForReplies, R!Goto, R!ddsVars, R!callVars, R!implVars, Blocked
<1>2. PICK k \in 1..writes : k = identity[c] /\ kind[k] = "sync"
  BY <1>0, <1>1, BlockedFacts
<1>3. CASE queue = {}
  <2>1. pc' = [pc EXCEPT ![c] = "failed"] /\ Explained(identity[c])'
    BY <1>1, <1>3 DEF Explained
  <2> QED BY <1>1, <2>1, OngoingExplained
<1>4. ASSUME NEW q \in queue, q.req # k PROVE Disturbed(k)
  <2>1. PICK j \in 1..writes : j = q.req /\ j # k /\ <<j, 1>> \in answered
    BY <1>0, <1>4, RequesterFacts
  <2>2. CASE kind[j] = "async"
    BY <2>1, <2>2 DEF Disturbed
  <2>3. CASE kind[j] = "sync"
    <3>1. ~InCall(j)
      BY <1>0, <1>1, <1>2, <2>1, BlockedFacts DEF InCall
    <3>2. status[j] = "abandoned"
      <4>1. j \in R!Requests /\ j <= writes /\ writes \in Nat /\ j \in Nat
        BY <1>0, RequesterFacts
      <4>2. status[j] \in {"unsent", "pending", "value", "error", "abandoned"}
        BY <1>0, <4>1 DEF RP!Inv, RP!TypeInv, RP!TypeOK, R!Requests, RP!Requests
      <4>3. status[j] \notin {"unsent", "error"}
        BY <1>0, <4>1, RequesterFacts DEF RP!Inv, RP!Delivery, RP!IssueInv, R!Requests, RP!Requests
      <4>4. status[j] # "pending" /\ status[j] # "value"
        BY <1>4, <2>1, <2>3, <3>1 DEF Explanation, CallExplained
      <4> QED BY <4>2, <4>3, <4>4
    <3>3. Explained(j)
      BY <3>2 DEF Explanation, CallExplained
    <3>4. j < k
      <4>1. j <= k
        BY <1>1, <1>2, <2>3 DEF Explanation, CallerExplained
      <4> QED BY <1>0, <2>1, <4>1, RequesterFacts
    <3>5. CASE j \in expired
      BY <2>1, <3>4, <3>5 DEF Disturbed
    <3>6. CASE Disturbed(j)
      <4>1. PICK i \in 1..writes \ {j} : <<i, 1>> \in answered /\ (kind[i] = "async" \/ (i < j /\ i \in expired))
        BY <3>6 DEF Disturbed
      <4>2. i # k
        <5>1. i \in Nat /\ j \in Nat /\ k \in Nat
          BY <1>0, RequesterFacts
        <5> QED BY <1>2, <3>4, <4>1, <5>1
      <4>3. i < j => i < k
        <5>1. i \in Nat /\ j \in Nat /\ k \in Nat
          BY <1>0, RequesterFacts
        <5> QED BY <3>4, <5>1
      <4> QED BY <4>1, <4>2, <4>3 DEF Disturbed
    <3> QED BY <3>3, <3>5, <3>6 DEF Explained
  <2> QED BY <2>2, <2>3 DEF Explanation, CallExplained
<1>5. CASE queue # {}
  <2>1. pc' = [pc EXCEPT ![c] = "take"]
    BY <1>1, <1>5
  <2>2. Disturbed(k) \/ \E q \in queue : q.req = k
    BY <1>4, <1>5
  <2>3. Disturbed(identity[c])' \/ \E q \in queue' : q.req = identity[c]
    BY <1>1, <1>2, <2>2 DEF Disturbed
  <2> QED BY <1>1, <2>1, <2>3, OngoingExplained
<1> QED BY <1>3, <1>5

LEMMA ProceedExplained ==
  ASSUME IInv, Explanation, [Next]_vars, NEW c \in R!Callers, Proceed(c)
  PROVE  Explanation'
<1>0. RP!Inv /\ DOMAIN pc = R!Callers /\ DOMAIN identity = R!Callers /\ DOMAIN requestId = R!Callers
  BY RequesterFacts DEF IInv, Parts, RP!Inv, RP!TypeInv, RP!TypeOK, R!Callers, RP!Callers
<1> USE DEF Blocked, R!Goto, R!ddsVars, R!callVars, R!implVars
<1>1. CASE R!StampSn(c) \/ R!RegisterPromise(c) \/ R!SpawnReplyThread(c)
  <2>1. UNCHANGED <<writes, kind, status, queue, id2id_map, identity, requestId>>
    BY <1>1 DEF R!StampSn, R!RegisterPromise, R!SpawnReplyThread
  <2>2. PICK l \in {"write", "spawn", "idle"} :
          pc[c] \in {"stamp", "register", "spawn"} /\ pc' = [pc EXCEPT ![c] = l]
    BY <1>1 DEF R!StampSn, R!RegisterPromise, R!SpawnReplyThread
  <2>3. \A d \in R!Callers : pc'[d] = pc[d] \/ (~Blocked(d) /\ ~Blocked(d)')
    BY <1>0, <2>2
  <2> QED BY <2>1, <2>3, ElsewhereExplained
<1>2. CASE R!StoreMapping(c)
  <2>1. /\ Blocked(c) /\ pc' = [pc EXCEPT ![c] = "sent"] /\ requestId[c] \in DOMAIN id2id_map'
        /\ UNCHANGED <<writes, kind, identity, requestId, status, queue>>
    BY <1>2 DEF R!StoreMapping
  <2> QED BY <2>1, OngoingExplained
<1>3. CASE R!FindMapping(c)
  <2>1. Blocked(c) /\ requestId[c] \in DOMAIN id2id_map
    BY <1>3 DEF R!FindMapping, Explanation, CallerExplained
  <2>2. /\ pc' = [pc EXCEPT ![c] = "wait"]
        /\ UNCHANGED <<writes, kind, identity, requestId, status, queue>>
    BY <1>3, <2>1 DEF R!FindMapping
  <2> QED BY <2>1, <2>2, OngoingExplained
<1>4. CASE R!TakeNothing(c)
  <2>1. /\ pc[c] = "take" /\ pc' = [pc EXCEPT ![c] = "failed"]
        /\ UNCHANGED <<writes, kind, identity, requestId, status, queue>>
        /\ \A q \in queue : q.req # id2id_map[requestId[c]]
    BY <1>4 DEF R!TakeNothing, R!Matching
  <2>2. Disturbed(identity[c])
    BY <1>0, <2>1, RequesterFacts DEF Explanation, CallerExplained
  <2>3. Explained(identity[c])'
    BY <2>1, <2>2, ExplainedKept DEF Explained, Disturbed
  <2> QED BY <2>1, <2>3, OngoingExplained
<1> QED BY <1>1, <1>2, <1>3, <1>4 DEF Proceed

LEMMA TakeExplained ==
  ASSUME IInv, Explanation, [Next]_vars, NEW c \in R!Callers, TakeReply(c)
  PROVE  Explanation'
<1>0. RP!Inv /\ DOMAIN pc = R!Callers
  BY RequesterFacts DEF IInv, Parts
<1>1. /\ pc[c] = "take" /\ Blocked(c) /\ UNCHANGED <<writes, kind, identity, requestId, answered>>
  BY DEF TakeReply, R!TakeOwn, Blocked
<1>2. PICK k \in 1..writes : k = identity[c] /\ kind[k] = "sync" /\ id2id_map[requestId[c]] = k
  BY <1>0, <1>1, BlockedFacts, RequesterFacts
<1>3. PICK q \in queue : /\ q.req = k /\ queue' = queue \ {q}
                         /\ status' = [status EXCEPT ![k] = "value"]
                         /\ pc' = [pc EXCEPT ![c] = "idle"]
  BY <1>2 DEF TakeReply, R!TakeOwn, R!Matching, R!Goto, IInv, TypeInv
<1>4. \A p \in queue' : p.req # k
  <2>1. \A p \in queue : p \in [req : RP!Requests, from : {1}, valid : BOOLEAN] /\ p.valid = TRUE
    BY <1>0 DEF RP!Inv, RP!TypeInv, RP!TypeOK, RP!Replies, IInv, TypeInv
  <2>2. \A p \in queue : p.req = k => p = q
    BY <1>3, <2>1
  <2> QED BY <1>3, <2>2
<1>5. <<k, 1>> \in answered
  BY <1>0, <1>3, RequesterFacts
<1>6. status'[k] = "value" /\ \A j \in 1..writes : j # k => status'[j] = status[j]
  <2>1. DOMAIN status = R!Requests /\ k \in R!Requests
    BY <1>0, RequesterFacts DEF RP!Inv, RP!TypeInv, RP!TypeOK, R!Requests, RP!Requests
  <2> QED BY <1>3, <2>1
<1>7. CallExplained(identity[c])'
  BY <1>1, <1>2, <1>4, <1>5, <1>6 DEF CallExplained
<1>8. CallerExplained(c)'
  <2>1. pc'[c] = "idle"
    BY <1>0, <1>3
  <2> QED BY <2>1 DEF CallerExplained, Blocked
<1> QED BY <1>1, <1>2, <1>3, <1>6, <1>7, <1>8, BlockedExplained

LEMMA NoReplyExplained ==
  ASSUME IInv, Explanation, [Next]_vars, NEW c \in R!Callers, NoReply(c)
  PROVE  Explanation'
<1>0. RP!Inv /\ DOMAIN pc = R!Callers /\ DOMAIN status = R!Requests
  BY RequesterFacts DEF IInv, Parts, RP!Inv, RP!TypeInv, RP!TypeOK, R!Requests, RP!Requests
<1>1. /\ pc[c] = "failed" /\ Blocked(c) /\ pc' = [pc EXCEPT ![c] = "idle"]
      /\ status' = [status EXCEPT ![identity[c]] = "abandoned"]
      /\ UNCHANGED <<writes, kind, identity, requestId, answered, queue>>
  BY DEF NoReply, R!GiveUp, R!Goto, R!ddsVars, R!implVars, Blocked
<1>2. PICK k \in 1..writes : k = identity[c] /\ k \in R!Requests /\ kind[k] = "sync"
  BY <1>0, <1>1, BlockedFacts
<1>3. status'[k] = "abandoned" /\ \A j \in 1..writes : j # k => status'[j] = status[j]
  BY <1>0, <1>1, <1>2
<1>4. Explained(k)'
  <2>1. Explained(k)
    BY <1>1, <1>2 DEF Explanation, CallerExplained
  <2> QED BY <2>1, ExplainedKept
<1>5. CallExplained(k)'
  BY <1>1, <1>2, <1>3, <1>4 DEF CallExplained
<1>6. CallExplained(identity[c])'
  BY <1>1, <1>2, <1>5 DEF CallExplained, Explained, Disturbed, InCall, Blocked
<1>7. CallerExplained(c)'
  <2>1. pc'[c] = "idle"
    BY <1>0, <1>1
  <2> QED BY <2>1 DEF CallerExplained, Blocked
<1> QED BY <1>1, <1>2, <1>3, <1>6, <1>7, BlockedExplained

LEMMA ThreadExplained ==
  ASSUME IInv, Explanation, [Next]_vars, NEW l \in R!Requests, ReplyThread(l)
  PROVE  Explanation'
<1>0. /\ RP!Inv /\ DOMAIN status = R!Requests
      /\ thread[l] # "none" => kind[l] = "async"
  BY DEF IInv, Parts, RP!Inv, RP!TypeInv, RP!TypeOK, RP!Delivery, RP!ThreadInv, R!Requests, RP!Requests
<1>1. /\ UNCHANGED <<writes, kind, answered, id2id_map, pc, identity, requestId>>
      /\ kind[l] = "async"
      /\ queue' \subseteq queue /\ \A q \in queue : q.req # l => q \in queue'
      /\ \A k \in R!Requests : k # l => status'[k] = status[k]
      /\ status'[l] \in {status[l], "value", "error"}
  <2>1. CASE R!ThreadWait(l)
    BY <1>0, <2>1 DEF R!ThreadWait, R!implVars, R!ddsVars, R!callerVars
  <2>2. CASE R!ThreadTake(l)
    BY <1>0, <2>2 DEF R!ThreadTake, R!Matching, R!implVars, R!callerVars
  <2>3. CASE R!ThreadComplete(l)
    BY <1>0, <2>3 DEF R!ThreadComplete, R!ddsVars, R!callerVars
  <2>4. CASE R!ThreadErase(l)
    BY <1>0, <2>4 DEF R!ThreadErase, R!ddsVars, R!callerVars
  <2> QED BY <2>1, <2>2, <2>3, <2>4 DEF ReplyThread, R!ThreadStep
<1>2. ASSUME NEW k \in 1..writes, k # l PROVE CallExplained(k)'
  <2>1. k \in R!Requests
    BY <1>0, RequesterFacts
  <2>2. InCall(k) => InCall(k)'
    BY <1>1 DEF InCall, Blocked
  <2> QED BY <1>1, <1>2, <2>1, <2>2, CallKept DEF Explanation
<1>3. ASSUME l \in 1..writes PROVE CallExplained(l)'
  <2>1. status'[l] = "abandoned" => Explained(l)'
    BY <1>1, <1>3, ExplainedKept DEF Explanation, CallExplained
  <2> QED BY <1>1, <2>1 DEF CallExplained
<1>4. ASSUME NEW d \in R!Callers PROVE CallerExplained(d)'
  <2>1. ASSUME Blocked(d), NEW q \in queue, q.req = identity[d] PROVE q \in queue'
    BY <1>0, <1>1, <2>1, BlockedFacts
  <2> QED BY <1>1, <2>1, CallerKept DEF Explanation
<1> QED BY <1>1, <1>2, <1>3, <1>4 DEF Explanation

LEMMA AnswerExplained ==
  ASSUME IInv, Explanation, [Next]_vars, NEW k \in 1..writes, R!Answer(1, k)
  PROVE  Explanation'
<1>1. /\ <<k, 1>> \notin answered
      /\ queue' = queue \cup {[req |-> k, from |-> 1, valid |-> TRUE]}
      /\ UNCHANGED <<writes, kind, status, id2id_map, pc, identity, requestId>>
  BY DEF R!Answer, R!implVars, R!callerVars, R!callVars
<1>2. \A q \in queue' : q \in queue \/ <<q.req, 1>> \notin answered
  BY <1>1
<1>3. ASSUME NEW j \in 1..writes PROVE CallExplained(j)'
  <2>1. InCall(j) => InCall(j)'
    BY <1>1 DEF InCall, Blocked
  <2> QED BY <1>1, <1>2, <2>1, CallKept DEF Explanation
<1>4. ASSUME NEW d \in R!Callers PROVE CallerExplained(d)'
  <2>1. queue \subseteq queue'
    BY <1>1
  <2> QED BY <1>1, <2>1, CallerKept DEF Explanation
<1> QED BY <1>1, <1>3, <1>4 DEF Explanation

LEMMA ExplanationStep == IInv /\ Explanation /\ [Next]_vars => Explanation'
<1> SUFFICES ASSUME IInv, Explanation, [Next]_vars PROVE Explanation'
  OBVIOUS
<1>1. ASSUME UNCHANGED requesterVars PROVE Explanation'
  BY <1>1, ElsewhereExplained DEF requesterVars
<1>2. ASSUME NEW c \in R!Callers, NEW o, NEW q, BeginCall(c, o, q) PROVE Explanation'
  <2>1. /\ UNCHANGED <<writes, kind, status, queue, id2id_map, identity>>
        /\ pc[c] = "idle" /\ pc' = [pc EXCEPT ![c] = "stamp"]
        /\ \E n : requestId' = [requestId EXCEPT ![c] = n]
    BY <1>2 DEF BeginCall, R!ReadSn, R!Goto, R!implVars, R!ddsVars, R!callVars
  <2>2. DOMAIN pc = R!Callers /\ DOMAIN requestId = R!Callers
    BY RequesterFacts DEF IInv, Parts, RP!Inv, RP!TypeInv, RP!TypeOK, R!Callers, RP!Callers
  <2>3. \A d \in R!Callers : \/ pc'[d] = pc[d] /\ requestId'[d] = requestId[d]
                             \/ ~Blocked(d) /\ ~Blocked(d)'
    BY <2>1, <2>2 DEF Blocked
  <2> QED BY <2>1, <2>3, ElsewhereExplained
<1>3. ASSUME SendReply PROVE Explanation'
  BY <1>1, <1>3, AnswerExplained DEF SendReply
<1>4. ASSUME Work \/ Fail \/ (\E q \in Stubs : OtherClient(q)) \/ (\E k \in R!Requests : Continue(k))
      PROVE  UNCHANGED requesterVars
  BY <1>4 DEF Work, Fail, OtherClient, Continue
<1>5. UNCHANGED vars => UNCHANGED requesterVars
  BY DEF vars
<1>6. CASE \E c \in R!Callers :
             \/ \E o \in {"sync", "async"}, q \in Stubs : BeginCall(c, o, q)
             \/ SendCall(c) \/ Proceed(c) \/ Wait(c) \/ TakeReply(c) \/ NoReply(c)
  BY <1>2, <1>6, SendExplained, ProceedExplained, WaitExplained, TakeExplained, NoReplyExplained
<1>7. CASE \E k \in R!Requests : ReplyThread(k)
  BY <1>7, ThreadExplained
<1> QED BY <1>1, <1>3, <1>4, <1>5, <1>6, <1>7 DEF Next

LEMMA SystemInvariant == Spec => [](IInv /\ Ended /\ Late /\ Explanation)
<1>1. Init => Late
  BY DEF Init, Late, Pending
<1>2. Init => Ended /\ Explanation
  <2>1. Init => writes = 0 /\ \A c \in R!Callers : pc[c] = "idle"
    BY DEF Init, R!Init
  <2> QED BY <2>1 DEF Ended, Explanation, CallerExplained, Blocked
<1> QED BY <1>1, <1>2, SystemInit, SystemStep, LateStep, ExplanationStep, PTL DEF Spec
-----------------------------------------------------------------------------
(* A speed a stub returns is the last one the robot accepted before the    *)
(* request reached it (ClientImpl<RobotControl>, MyRobot).                 *)
THEOREM SpeedsInOrderHolds == Spec => []SpeedsInOrder
<1>1. Ended => SpeedsInOrder
  BY DEF Ended, EndsWell, SpeedsInOrder
<1> QED BY <1>1, SystemInvariant, PTL

(* TooFast reaches the caller of the call that was refused, and no other   *)
(* (do_setSpeed, ClientImpl::setSpeed, setSpeed_async).                    *)
THEOREM TooFastReportedHolds == Spec => []TooFastReported
<1>1. Ended => TooFastReported
  BY DEF Ended, EndsWell, TooFastReported
<1> QED BY <1>1, SystemInvariant, PTL

(* In a program of blocking calls a stub that throws for an unknown        *)
(* response, or claims success without a reply, goes back to a timeout:    *)
(* its own or that of an earlier call, whose late reply ended its wait     *)
(* (receive_reply, request_reply.hpp:224-230).  Otherwise a reply to an    *)
(* asynchronous call was there.                                            *)
THEOREM FailureExplainedHolds == Spec => []FailureExplained
<1>1. IInv /\ Late /\ Explanation => FailureExplained
  <2>1. IInv => \A k \in 1..writes : k \in R!Requests
    BY RequesterFacts DEF IInv, Parts
  <2> QED BY <2>1 DEF Late, Explanation, CallExplained, Explained, FailureExplained
<1> QED BY <1>1, SystemInvariant, PTL

(* Joined, the two ends still do what each does alone: the program takes   *)
(* the steps of a requester, and the service those of a service whose      *)
(* requests come from anywhere.                                            *)
THEOREM RequesterWithin == Spec => R!Spec
<1>1. Init => R!Init
  BY DEF Init
<1>2. IInv /\ [Next]_vars => [R!Next]_(R!vars)
  BY RequesterStep DEF IInv, Parts
<1> QED BY <1>1, <1>2, SystemInvariant, PTL DEF Spec, R!Spec

THEOREM ServiceWithin == Spec => S!Spec
<1>1. Init => S!Init
  BY DEF Init
<1> QED BY <1>1, ServiceStep, SystemInvariant, PTL DEF Spec, S!Spec
(* Seen from the stubs, the robot is the sequential one of RobotControl    *)
(* (ServiceImplementsRobotControl, for the requests of this program).      *)
THEOREM SystemImplementsRobotControl == Spec => SP!ImplementsRobotControl
<1>1. Init => SP!Init
  BY SameServiceInit DEF Init
<1>2. IInv /\ [Next]_vars => [SP!Next]_(SP!vars)
  BY ServiceStep, SameServiceNext
<1>3. Spec => SP!Spec
  BY <1>1, <1>2, SystemInvariant, PTL DEF Spec, SP!Spec
<1> QED BY <1>3, Assumptions, SP!ServiceImplementsRobotControl
=============================================================================
