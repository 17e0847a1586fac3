---------------------------- MODULE ServiceProofs ----------------------------
(***************************************************************************)
(* Proofs about Service, for any number of services and requests, any      *)
(* operations and any speeds.                                              *)
(***************************************************************************)
EXTENDS Service, FiniteSetTheorems, TLAPS

(* Requests that may be in the reader of a service.                        *)
For(s) == {q \in Requests : q.to = s /\ (q.op = "setSpeed") = (q.speed # 0)}

(* What the thread holds at each point.                                    *)
Held ==
  /\ \A s \in Services : inbox[s] \in Seq(For(s))
  /\ pc \in {"dispatch", "send"} => turn \in Services /\ request_sample \in For(turn)
  /\ pc = "receive" => request_sample = None
  /\ pc # "send" => reply = None
  /\ pc = "send" => reply # None /\ reply.id = request_sample.id

(* Requests have names of their own.                                       *)
Named ==
  /\ IsFiniteSet(arrived)
  /\ \A q \in arrived : q.id <= Cardinality(arrived)
  /\ \A p, q \in arrived : p.id = q.id => p = q

(* A request is in one place: in one reader, once, in work, or answered.   *)
OnePlace ==
  /\ \A s \in Services : \A i \in 1..Len(inbox[s]) :
       inbox[s][i] \in arrived /\ inbox[s][i].id \notin Answered \cup {request_sample.id}
  /\ \A s \in Services : \A i, j \in 1..Len(inbox[s]) : inbox[s][i].id = inbox[s][j].id => i = j
  /\ request_sample # None => request_sample \in arrived /\ request_sample.id \notin Answered
  /\ Answered \subseteq {q.id : q \in arrived}

(* The last dispatcher that had its visit.  One that overtook s had it     *)
(* after s last had, and s will have one before it has another.            *)
last == IF pc = "receive" THEN turn - 1 ELSE turn
InTurn ==
  \A s, t \in Services : overtaken[s][t] # 0 =>
    /\ overtaken[s][t] = 1 /\ inbox[s] # <<>> /\ s # t
    /\ pc # "stopped" => \/ t < s /\ t <= last /\ last < s
                         \/ s < t /\ (t <= last \/ last < s)

IInv == TypeOK /\ Held /\ Named /\ OnePlace /\ NoRequestDropped /\ InTurn
-----------------------------------------------------------------------------
LEMMA AppendFacts ==
  ASSUME NEW S, NEW q \in Seq(S), NEW e \in S
  PROVE  /\ Append(q, e) \in Seq(S)
         /\ Len(q) \in Nat /\ Len(Append(q, e)) = Len(q) + 1
         /\ \A i \in 1..(Len(q) + 1) : Append(q, e)[i] = IF i <= Len(q) THEN q[i] ELSE e
BY SMT

LEMMA TailFacts ==
  ASSUME NEW S, NEW q \in Seq(S), q # <<>>
  PROVE  /\ Tail(q) \in Seq(S) /\ Head(q) \in S
         /\ Len(q) \in Nat \ {0} /\ Head(q) = q[1]
         /\ Len(Tail(q)) = Len(q) - 1
         /\ \A i \in 1..(Len(q) - 1) : Tail(q)[i] = q[i + 1]
BY SMT

LEMMA RequestTypes ==
  /\ \A q \in Requests : q.id \in Ids /\ q.id # 0 /\ q.to \in Services /\ q.op \in Ops /\ q # None
  /\ \A s \in Services : For(s) \subseteq Requests
  /\ \A s \in Services : \A q \in For(s) : q.to = s /\ (q.op = "setSpeed" => q.speed \in Speeds)
<1>1. \A q \in Requests : q.id \in Ids /\ q.id # 0 /\ q.to \in Services /\ q.op \in Ops /\ q # None
  BY ServiceAssumption DEF Requests, Ids, None
<1>2. \A s \in Services : \A q \in For(s) : q.to = s /\ (q.op = "setSpeed" => q.speed \in Speeds)
  BY DEF For, Requests
<1> QED BY <1>1, <1>2 DEF For

(* The reply records.                                                      *)
Reply == [id : Ids, op : Ops \cup {"none"}, ex : {"OK", "TooFast"},
          value : Speeds \cup {0, InitSpeed}, remoteEx : {"OK", "UNKNOWN_OPERATION"}]

LEMMA SeqMono ==
  ASSUME NEW S, NEW T, S \subseteq T, NEW q \in Seq(S)
  PROVE  q \in Seq(T)
<1>1. q = [i \in 1..Len(q) |-> q[i]] /\ Len(q) \in Nat /\ \A i \in 1..Len(q) : q[i] \in S
  OBVIOUS
<1> QED BY <1>1

LEMMA InitInv == Init => IInv
<1> SUFFICES ASSUME Init PROVE IInv
  OBVIOUS
<1> USE ServiceAssumption DEF Init
<1>1. TypeOK
  <2>1. inbox \in [Services -> Seq(Requests)]
    OBVIOUS
  <2>2. replies \cup {reply} \subseteq {None} \cup Reply
    OBVIOUS
  <2>3. overtaken \in [Services -> [Services -> Nat]]
    OBVIOUS
  <2> QED BY <2>1, <2>2, <2>3 DEF TypeOK, Reply
<1>2. Held
  BY DEF Held
<1>3. Named
  BY FS_EmptySet DEF Named
<1>4. OnePlace /\ NoRequestDropped /\ InTurn
  BY DEF OnePlace, NoRequestDropped, WithData, InTurn, Answered
<1> QED BY <1>1, <1>2, <1>3, <1>4 DEF IInv
-----------------------------------------------------------------------------
(* Types.                                                                  *)
LEMMA ArriveType ==
  ASSUME TypeOK, Held, NEW q \in Requests, Arrive(q)
  PROVE  TypeOK' /\ Held'
<1>1. q.to \in Services /\ q \in For(q.to)
  BY RequestTypes DEF For, Arrive
<1>2. \A s \in Services : inbox'[s] = IF s = q.to THEN Append(inbox[s], q) ELSE inbox[s]
  BY DEF Arrive, TypeOK
<1>3. ASSUME NEW s \in Services PROVE inbox'[s] \in Seq(For(s))
  <2>1. inbox[s] \in Seq(For(s))
    BY DEF Held
  <2>2. CASE s = q.to
    <3>1. q \in For(s) /\ inbox'[s] = Append(inbox[s], q)
      BY <1>1, <1>2, <2>2
    <3>2. Append(inbox[s], q) \in Seq(For(s))
      BY <2>1, <3>1, AppendFacts
    <3> QED BY <3>1, <3>2
  <2>3. CASE s # q.to
    BY <1>2, <2>1, <2>3
  <2> QED BY <2>2, <2>3
<1>4. inbox' \in [Services -> Seq(Requests)]
  <2>1. \A s \in Services : inbox'[s] \in Seq(Requests)
    BY <1>3, RequestTypes, SeqMono
  <2>2. inbox' = [s \in Services |-> inbox'[s]]
    BY DEF Arrive, TypeOK
  <2> QED BY <2>1, <2>2
<1>5. TypeOK'
  BY <1>4 DEF Arrive, TypeOK, serverVars
<1> QED BY <1>3, <1>5 DEF Held, Arrive, serverVars

LEMMA ReceiveFacts ==
  ASSUME TypeOK, Held, NEW s \in Services, Receive(s)
  PROVE  /\ Head(inbox[s]) \in For(s)
         /\ Len(inbox[s]) \in Nat \ {0} /\ Head(inbox[s]) = inbox[s][1]
         /\ Len(inbox'[s]) = Len(inbox[s]) - 1
         /\ \A i \in 1..(Len(inbox[s]) - 1) : inbox'[s][i] = inbox[s][i + 1]
         /\ \A t \in Services \ {s} : inbox'[t] = inbox[t]
         /\ inbox'[s] \in Seq(For(s))
BY TailFacts DEF Receive, TypeOK, Held

LEMMA ReceiveType ==
  ASSUME TypeOK, Held, NEW s \in Services, Receive(s)
  PROVE  TypeOK' /\ Held'
<1>1. /\ Head(inbox[s]) \in For(s) /\ Head(inbox[s]) \in Requests
      /\ \A t \in Services : inbox'[t] \in Seq(For(t))
  BY ReceiveFacts, RequestTypes DEF Held
<1>2. inbox' \in [Services -> Seq(Requests)]
  <2>1. \A t \in Services : inbox'[t] \in Seq(Requests)
    BY <1>1, RequestTypes, SeqMono
  <2>2. inbox' = [t \in Services |-> inbox'[t]]
    BY DEF Receive, TypeOK
  <2> QED BY <2>1, <2>2
<1>3. overtaken' \in [Services -> [Services -> Nat]]
  BY DEF Receive, TypeOK
<1>4. /\ turn' \in 0..(NumServices + 1) /\ pc' \in {"receive", "dispatch"}
      /\ request_sample' \in Requests \cup {None}
      /\ pc' = "receive" => request_sample' = None
      /\ pc' = "dispatch" => turn' = s /\ request_sample' = Head(inbox[s])
  <2>1. pc = "receive" /\ turn = s /\ request_sample = None
    BY DEF Receive, Visiting, Held
  <2>2. s \in 0..(NumServices + 1) /\ s + 1 \in 0..(NumServices + 1)
    BY ServiceAssumption DEF Services
  <2>3. \/ request_sample' = Head(inbox[s]) /\ pc' = "dispatch" /\ UNCHANGED turn
        \/ turn' = s + 1 /\ UNCHANGED <<request_sample, pc>>
    BY DEF Receive, AfterVisit
  <2> QED BY <1>1, <2>1, <2>2, <2>3
<1>5. reply' = None /\ UNCHANGED <<arrived, replies, speed_>>
  BY DEF Receive, Visiting, Held
<1>6. TypeOK'
  BY <1>2, <1>3, <1>4, <1>5 DEF TypeOK
<1> QED BY <1>1, <1>4, <1>5, <1>6 DEF Held

LEMMA RunType ==
  ASSUME TypeOK, Held, RunBegin \/ RunEnd \/ \E s \in Services : ReceiveTimeout(s)
  PROVE  TypeOK' /\ Held'
<1>1. /\ turn' \in 0..(NumServices + 1) /\ pc = "receive"
      /\ UNCHANGED <<arrived, inbox, replies, pc, request_sample, reply, speed_, overtaken>>
  BY ServiceAssumption DEF RunBegin, RunEnd, ReceiveTimeout, Visiting, AfterVisit, Services
<1> QED BY <1>1 DEF TypeOK, Held

LEMMA DispatchFacts ==
  ASSUME TypeOK, Held, Dispatch
  PROVE  /\ pc = "dispatch" /\ pc' = "send"
         /\ turn \in Services /\ request_sample \in For(turn) /\ request_sample \in Requests
         /\ UNCHANGED <<arrived, inbox, replies, turn, request_sample, overtaken>>
         /\ reply' \in Reply /\ reply'.id = request_sample.id
         /\ speed_' \in [Services -> Speeds \cup {InitSpeed}]
<1>1. /\ pc = "dispatch" /\ pc' = "send"
      /\ UNCHANGED <<arrived, inbox, replies, turn, request_sample, overtaken>>
  BY DEF Dispatch, DoCommand, DoGetSpeed, DoSetSpeed, DoSetSpeedTooFast, DoGetStatus, DoUnknown,
         Dispatching, Prepare
<1>2. /\ turn \in Services /\ request_sample \in For(turn) /\ request_sample \in Requests
      /\ request_sample.id \in Ids /\ request_sample.op \in Ops
      /\ request_sample.op = "setSpeed" => request_sample.speed \in Speeds
      /\ speed_[turn] \in Speeds \cup {InitSpeed}
  BY <1>1, RequestTypes DEF Held, TypeOK
<1>3. CASE DoSetSpeed
  BY <1>2, <1>3 DEF DoSetSpeed, Dispatching, Prepare, OldSpeed, Reply, TypeOK
<1>4. CASE DoGetSpeed
  BY <1>2, <1>4 DEF DoGetSpeed, Dispatching, Prepare, Reply, TypeOK
<1>5. CASE DoCommand \/ DoSetSpeedTooFast \/ DoGetStatus \/ DoUnknown
  BY <1>2, <1>5 DEF DoCommand, DoSetSpeedTooFast, DoGetStatus, DoUnknown, Dispatching, Prepare, Reply, TypeOK
<1>6. reply' \in Reply /\ reply'.id = request_sample.id /\ speed_' \in [Services -> Speeds \cup {InitSpeed}]
  BY <1>3, <1>4, <1>5 DEF Dispatch
<1> QED BY <1>1, <1>2, <1>6

LEMMA DispatchType ==
  ASSUME TypeOK, Held, Dispatch
  PROVE  TypeOK' /\ Held'
<1>1. reply' # None
  BY DispatchFacts, RequestTypes DEF None
<1> QED BY <1>1, DispatchFacts DEF TypeOK, Held, Reply

LEMMA SendReplyType ==
  ASSUME TypeOK, Held, SendReply
  PROVE  TypeOK' /\ Held'
<1>1. pc = "send" /\ turn \in Services /\ reply # None /\ reply \in Reply
  BY DEF SendReply, Held, TypeOK, Reply
<1>2. [reply EXCEPT !.remoteEx = "OK"] \in Reply
  BY <1>1 DEF Reply
<1>3. replies' \cup {reply'} \subseteq {None} \cup Reply
  BY <1>2 DEF SendReply, TypeOK, Reply
<1>4. turn' \in 0..(NumServices + 1)
  BY <1>1, ServiceAssumption DEF SendReply, AfterVisit, Services
<1> QED BY <1>3, <1>4 DEF SendReply, TypeOK, Held, Reply

LEMMA TypeKept == TypeOK /\ Held /\ [Next]_vars => TypeOK' /\ Held'
<1> SUFFICES ASSUME TypeOK, Held, [Next]_vars PROVE TypeOK' /\ Held'
  OBVIOUS
<1>1. CASE AllocationFails
  BY <1>1 DEF AllocationFails, Failed, TypeOK, Held
<1>2. CASE UNCHANGED vars
  BY <1>2 DEF vars, serverVars, TypeOK, Held
<1> QED BY <1>1, <1>2, ArriveType, ReceiveType, RunType, DispatchType, SendReplyType DEF Next, Serve
-----------------------------------------------------------------------------
(* Names.                                                                  *)
LEMMA NamedKept == TypeOK /\ Named /\ [Next]_vars => Named'
<1> SUFFICES ASSUME TypeOK, Named, [Next]_vars PROVE Named'
  OBVIOUS
<1>1. ASSUME NEW q \in Requests, Arrive(q) PROVE Named'
  <2>1. IsFiniteSet(arrived) /\ Cardinality(arrived) \in Nat /\ q.id = Cardinality(arrived) + 1
    BY <1>1, FS_CardinalityType DEF Named, Arrive
  <2>2. \A p \in arrived : p.id \in Nat /\ p.id <= Cardinality(arrived)
    BY RequestTypes DEF Named, TypeOK, Ids
  <2>3. q \notin arrived
    BY <2>1, <2>2
  <2>4. IsFiniteSet(arrived') /\ Cardinality(arrived') = Cardinality(arrived) + 1 /\ arrived' = arrived \cup {q}
    BY <1>1, <2>1, <2>3, FS_AddElement DEF Arrive
  <2>5. \A p \in arrived' : p.id <= Cardinality(arrived')
    BY <2>1, <2>2, <2>4
  <2>6. \A p, r \in arrived' : p.id = r.id => p = r
    BY <2>1, <2>2, <2>4 DEF Named
  <2> QED BY <2>4, <2>5, <2>6 DEF Named
<1>2. CASE arrived' = arrived
  BY <1>2 DEF Named
<1>3. CASE Serve \/ AllocationFails \/ UNCHANGED vars
  BY <1>2, <1>3 DEF Serve, RunBegin, RunEnd, Receive, ReceiveTimeout, Dispatch, DoCommand, DoGetSpeed,
       DoSetSpeed, DoSetSpeedTooFast, DoGetStatus, DoUnknown, Prepare, SendReply, AllocationFails, vars
<1> QED BY <1>1, <1>3 DEF Next

(* A request that arrives is nowhere yet.                                  *)
LEMMA NewName ==
  ASSUME IInv, NEW q \in Requests, Arrive(q)
  PROVE  /\ \A p \in arrived : p.id # q.id
         /\ q.id \notin Answered \cup {request_sample.id}
<1>1. Cardinality(arrived) \in Nat /\ q.id = Cardinality(arrived) + 1
  BY FS_CardinalityType DEF IInv, Named, Arrive
<1>2. \A p \in arrived : p.id # q.id
  BY <1>1, RequestTypes DEF IInv, Named, TypeOK, Ids
<1>3. q.id \notin Answered
  BY <1>2 DEF IInv, OnePlace
<1>4. q.id # request_sample.id
  <2>1. CASE request_sample = None
    BY <2>1, RequestTypes DEF None
  <2>2. CASE request_sample # None
    BY <1>2, <2>2 DEF IInv, OnePlace
  <2> QED BY <2>1, <2>2
<1> QED BY <1>2, <1>3, <1>4

(* Where the requests are.                                                 *)
LEMMA QueuedIs ==
  ASSUME TypeOK
  PROVE  \A k : k \in Queued <=> \E s \in Services : \E i \in 1..Len(inbox[s]) : inbox[s][i].id = k
<1>1. \A s \in Services : DOMAIN inbox[s] = 1..Len(inbox[s])
  BY DEF TypeOK
<1> QED BY <1>1 DEF Queued

LEMMA QueuedIsNext ==
  ASSUME TypeOK'
  PROVE  \A k : k \in Queued' <=> \E s \in Services : \E i \in 1..Len(inbox'[s]) : inbox'[s][i].id = k
<1>1. \A s \in Services : DOMAIN inbox'[s] = 1..Len(inbox'[s])
  BY DEF TypeOK
<1> QED BY <1>1 DEF Queued

(* The part of the invariant about two places in one reader.               *)
LEMMA OnceQueued ==
  ASSUME IInv
  PROVE  \A s \in Services : \A i, j \in 1..Len(inbox[s]) : inbox[s][i].id = inbox[s][j].id => i = j
BY DEF IInv, OnePlace

LEMMA ArrivePlace ==
  ASSUME IInv, NEW q \in Requests, Arrive(q)
  PROVE  OnePlace' /\ NoRequestDropped'
<1>0. TypeOK /\ TypeOK' /\ Held
  BY ArriveType DEF IInv
<1>1. /\ q.to \in Services /\ q.id \notin Answered \cup {request_sample.id}
      /\ \A p \in arrived : p.id # q.id
      /\ arrived' = arrived \cup {q} /\ UNCHANGED <<replies, request_sample>>
  BY NewName, RequestTypes DEF Arrive, serverVars
<1>2. ASSUME NEW s \in Services
      PROVE  IF s = q.to
             THEN /\ Len(inbox[s]) \in Nat /\ Len(inbox'[s]) = Len(inbox[s]) + 1
                  /\ \A i \in 1..(Len(inbox[s]) + 1) :
                       inbox'[s][i] = IF i <= Len(inbox[s]) THEN inbox[s][i] ELSE q
             ELSE inbox'[s] = inbox[s]
  <2>1. inbox[s] \in Seq(Requests) /\ inbox'[s] = IF s = q.to THEN Append(inbox[s], q) ELSE inbox[s]
    BY <1>0 DEF TypeOK, Arrive
  <2> QED BY <2>1, AppendFacts
<1>3. Answered' = Answered
  BY <1>1 DEF Answered
<1>4. OnePlace'
  <2>1. ASSUME NEW s \in Services, NEW i \in 1..Len(inbox'[s])
        PROVE  inbox'[s][i] \in arrived' /\ inbox'[s][i].id \notin Answered' \cup {request_sample'.id}
    BY <1>1, <1>2, <1>3 DEF IInv, OnePlace
  <2>2. ASSUME NEW s \in Services, NEW i \in 1..Len(inbox'[s]), NEW j \in 1..Len(inbox'[s]),
               inbox'[s][i].id = inbox'[s][j].id
        PROVE  i = j
    <3>1. CASE s # q.to
      BY <1>2, <2>2, <3>1, OnceQueued
    <3>2. CASE s = q.to
      <4>1. \A k \in 1..Len(inbox[s]) : inbox[s][k].id # q.id
        BY <1>1 DEF IInv, OnePlace
      <4>2. /\ i \in 1..(Len(inbox[s]) + 1) /\ inbox'[s][i] = IF i <= Len(inbox[s]) THEN inbox[s][i] ELSE q
            /\ j \in 1..(Len(inbox[s]) + 1) /\ inbox'[s][j] = IF j <= Len(inbox[s]) THEN inbox[s][j] ELSE q
            /\ Len(inbox[s]) \in Nat
        BY <1>2, <3>2
      <4>3. CASE i <= Len(inbox[s]) /\ j <= Len(inbox[s])
        <5>1. i \in 1..Len(inbox[s]) /\ j \in 1..Len(inbox[s]) /\ inbox[s][i].id = inbox[s][j].id
          BY <2>2, <4>2, <4>3
        <5> QED BY <5>1, OnceQueued
      <4>4. CASE i > Len(inbox[s]) \/ j > Len(inbox[s])
        BY <2>2, <4>1, <4>2, <4>4
      <4> QED BY <4>2, <4>3, <4>4
    <3> QED BY <3>1, <3>2
  <2> QED BY <1>1, <1>3, <2>1, <2>2 DEF IInv, OnePlace
<1>5. NoRequestDropped'
  <2>1. WithData' \subseteq WithData \cup {q.id}
    BY <1>1 DEF WithData
  <2>2. q.id \in Queued'
    <3>1. Len(inbox[q.to]) + 1 \in 1..Len(inbox'[q.to]) /\ inbox'[q.to][Len(inbox[q.to]) + 1] = q
      BY <1>1, <1>2
    <3> QED BY <1>0, <1>1, <3>1, QueuedIsNext
  <2>3. Queued \subseteq Queued'
    <3>1. ASSUME NEW s \in Services, NEW i \in 1..Len(inbox[s])
          PROVE  i \in 1..Len(inbox'[s]) /\ inbox'[s][i] = inbox[s][i]
      BY <1>2
    <3> QED BY <1>0, <3>1, QueuedIs, QueuedIsNext
  <2> QED BY <1>1, <1>3, <2>1, <2>2, <2>3 DEF IInv, NoRequestDropped
<1> QED BY <1>4, <1>5

LEMMA ReceivePlace ==
  ASSUME IInv, NEW s \in Services, Receive(s)
  PROVE  OnePlace' /\ NoRequestDropped'
<1>0. TypeOK /\ TypeOK' /\ Held
  BY ReceiveType DEF IInv
<1> DEFINE h == inbox[s][1]
<1>1. /\ h \in For(s) /\ h \in Requests /\ 1 \in 1..Len(inbox[s])
      /\ Len(inbox[s]) \in Nat \ {0} /\ Len(inbox'[s]) = Len(inbox[s]) - 1
      /\ \A i \in 1..(Len(inbox[s]) - 1) : inbox'[s][i] = inbox[s][i + 1]
      /\ \A t \in Services \ {s} : inbox'[t] = inbox[t]
  BY <1>0, ReceiveFacts, RequestTypes
<1>2. /\ request_sample' = IF h.op = "nodata" THEN None ELSE h
      /\ request_sample = None /\ arrived' = arrived /\ replies' = replies /\ Answered' = Answered
  BY <1>0, ReceiveFacts DEF Receive, Visiting, Held, Answered
<1>3. /\ h \in arrived /\ h.id \notin Answered /\ h.id # 0
      /\ \A i \in 1..Len(inbox[s]) : i # 1 => inbox[s][i].id # h.id
  BY <1>1, RequestTypes DEF IInv, OnePlace
<1>4. ASSUME NEW t \in Services \ {s}, NEW i \in 1..Len(inbox[t]) PROVE inbox[t][i].id # h.id
  <2>1. inbox[t][i] \in For(t) /\ inbox[t][i] \in arrived
    BY <1>0 DEF Held, IInv, OnePlace
  <2>2. inbox[t][i] # h
    BY <1>1, <2>1, RequestTypes
  <2> QED BY <1>3, <2>1, <2>2 DEF IInv, Named
<1>5. \A i \in 1..Len(inbox'[s]) :
        i + 1 \in 1..Len(inbox[s]) /\ i + 1 # 1 /\ i \in Nat /\ inbox'[s][i] = inbox[s][i + 1]
  BY <1>1
<1>6. \A t \in Services : \A i \in 1..Len(inbox[t]) :
        inbox[t][i] \in arrived /\ inbox[t][i].id \notin Answered \cup {0}
  BY <1>2 DEF IInv, OnePlace, None
<1> HIDE DEF h
<1>7. ASSUME NEW t \in Services, NEW i \in 1..Len(inbox'[t])
      PROVE  inbox'[t][i] \in arrived /\ inbox'[t][i].id \notin Answered \cup {0, h.id}
  <2>1. CASE t = s
    BY <1>3, <1>5, <1>6, <1>7, <2>1
  <2>2. CASE t # s
    BY <1>1, <1>4, <1>6, <1>7, <2>2
  <2> QED BY <2>1, <2>2
<1>8. ASSUME NEW t \in Services, NEW i \in 1..Len(inbox'[t]), NEW j \in 1..Len(inbox'[t]),
             inbox'[t][i].id = inbox'[t][j].id
      PROVE  i = j
  <2>1. CASE t = s
    <3>1. inbox[s][i + 1].id = inbox[s][j + 1].id /\ i + 1 \in 1..Len(inbox[s]) /\ j + 1 \in 1..Len(inbox[s])
      BY <1>5, <1>8, <2>1
    <3>2. i + 1 = j + 1
      BY <3>1, OnceQueued
    <3> QED BY <1>5, <2>1, <3>2
  <2>2. CASE t # s
    BY <1>1, <1>8, <2>2, OnceQueued
  <2> QED BY <2>1, <2>2
<1>9. OnePlace'
  <2>1. request_sample' \in {None, h} /\ request_sample'.id \in {0, h.id}
    BY <1>2 DEF None
  <2>2. request_sample' # None => request_sample' \in arrived' /\ request_sample'.id \notin Answered'
    BY <1>2, <1>3, <2>1
  <2> QED BY <1>2, <1>7, <1>8, <2>1, <2>2 DEF IInv, OnePlace
<1>10. NoRequestDropped'
  <2> SUFFICES ASSUME NEW p \in arrived, p.op # "nodata", p.id \notin Answered
               PROVE  p.id \in Queued' \cup {request_sample'.id}
    BY <1>2 DEF NoRequestDropped, WithData
  <2>1. p.id \in Queued
    <3>1. p.id # 0
      BY <1>0, RequestTypes DEF TypeOK
    <3> QED BY <1>2, <3>1 DEF IInv, NoRequestDropped, WithData, None
  <2>a. PICK t \in Services : \E i \in 1..Len(inbox[t]) : inbox[t][i].id = p.id
    BY <1>0, <2>1, QueuedIs
  <2>2. PICK i \in 1..Len(inbox[t]) : inbox[t][i].id = p.id
    BY <2>a
  <2>3. CASE t # s
    <3>1. \E u \in Services : \E j \in 1..Len(inbox'[u]) : inbox'[u][j].id = p.id
      BY <1>1, <2>2, <2>3
    <3> QED BY <1>0, <3>1, QueuedIs, QueuedIsNext
  <2>4. CASE t = s /\ i # 1
    <3>1. i - 1 \in 1..Len(inbox'[s]) /\ inbox'[s][i - 1] = inbox[s][i]
      BY <1>1, <2>4
    <3>2. \E u \in Services : \E j \in 1..Len(inbox'[u]) : inbox'[u][j].id = p.id
      BY <2>2, <2>4, <3>1
    <3> QED BY <1>0, <3>2, QueuedIsNext
  <2>5. CASE t = s /\ i = 1
    <3>1. p.id = h.id
      BY <2>2, <2>5 DEF h
    <3>2. p = h
      BY <1>3, <3>1 DEF IInv, Named
    <3> QED BY <1>2, <3>2
  <2> QED BY <2>3, <2>4, <2>5
<1> QED BY <1>9, <1>10

LEMMA SendReplyPlace ==
  ASSUME IInv, SendReply
  PROVE  OnePlace' /\ NoRequestDropped'
<1>1. /\ pc = "send" /\ reply \in Reply /\ reply.id = request_sample.id
      /\ request_sample \in Requests /\ request_sample.id # 0 /\ request_sample # None
  <2>1. pc = "send" /\ turn \in Services /\ request_sample \in For(turn)
    BY DEF SendReply, IInv, Held
  <2>2. reply \in Reply /\ reply.id = request_sample.id
    BY <2>1 DEF IInv, Held, TypeOK, Reply
  <2> QED BY <2>1, <2>2, RequestTypes
<1>2. Answered' = Answered \cup {request_sample.id}
  <2>1. replies' = replies \cup {[reply EXCEPT !.remoteEx = "OK"]}
    BY DEF SendReply
  <2>2. [reply EXCEPT !.remoteEx = "OK"].id = request_sample.id
    BY <1>1 DEF Reply
  <2> QED BY <2>1, <2>2 DEF Answered
<1>3. request_sample' = None /\ None.id = 0 /\ UNCHANGED <<arrived, inbox>>
  BY DEF SendReply, None
<1>4. \A s \in Services : \A i \in 1..Len(inbox[s]) : inbox[s][i].id # 0
  <2>1. \A q \in arrived : q.id # 0
    BY RequestTypes DEF IInv, TypeOK
  <2> QED BY <2>1 DEF IInv, OnePlace
<1>5. OnePlace'
  BY <1>1, <1>2, <1>3, <1>4 DEF IInv, OnePlace
<1>6. NoRequestDropped'
  <2>1. WithData' = WithData /\ Queued' = Queued
    BY <1>3 DEF WithData, Queued
  <2> QED BY <1>2, <2>1 DEF IInv, NoRequestDropped
<1> QED BY <1>5, <1>6

LEMMA OtherPlace ==
  ASSUME IInv, UNCHANGED <<arrived, inbox, replies, request_sample>>
  PROVE  OnePlace' /\ NoRequestDropped'
<1>1. Answered' = Answered /\ WithData' = WithData /\ Queued' = Queued
  BY DEF Answered, WithData, Queued
<1>2. OnePlace'
  BY <1>1 DEF IInv, OnePlace
<1>3. NoRequestDropped'
  BY <1>1 DEF IInv, NoRequestDropped
<1> QED BY <1>2, <1>3
-----------------------------------------------------------------------------
(* Turns.  A visit of u, by which the next visit is that of u + 1.         *)
LEMMA VisitTurn ==
  ASSUME IInv, NEW u \in Services, pc = "receive", turn = u, last' = u,
         \A s \in Services \ {u} : inbox'[s] = inbox[s],
         NEW taken \in BOOLEAN,
         \A s, t \in Services :
           overtaken'[s][t] = IF ~taken THEN overtaken[s][t]
                              ELSE IF s = u THEN 0
                              ELSE IF t = u THEN IF inbox[s] # <<>> THEN overtaken[s][t] + 1 ELSE 0
                              ELSE overtaken[s][t],
         ~taken => inbox[u] = <<>>
  PROVE  InTurn'
<1> USE DEF Services
<1>0. last = u - 1 /\ NumServices \in Nat
  BY ServiceAssumption DEF last
<1>1. SUFFICES ASSUME NEW s \in Services, NEW t \in Services, overtaken'[s][t] # 0
               PROVE  /\ overtaken'[s][t] = 1 /\ inbox'[s] # <<>> /\ s # t
                      /\ \/ t < s /\ t <= u /\ u < s
                         \/ s < t /\ (t <= u \/ u < s)
  BY DEF InTurn
<1>2. s # u
  BY <1>1 DEF IInv, InTurn
<1>3. overtaken[s][t] # 0 =>
        /\ overtaken[s][t] = 1 /\ inbox[s] # <<>> /\ s # t
        /\ \/ t < s /\ t <= u - 1 /\ u - 1 < s
           \/ s < t /\ (t <= u - 1 \/ u - 1 < s)
  BY <1>0 DEF IInv, InTurn
<1>4. CASE t # u
  <2>1. overtaken'[s][t] = overtaken[s][t]
    BY <1>2, <1>4
  <2> QED BY <1>1, <1>2, <1>3, <1>4, <2>1
<1>5. CASE t = u
  <2>1. overtaken[s][t] = 0
    BY <1>2, <1>3, <1>5
  <2>2. overtaken'[s][t] = 1 /\ inbox[s] # <<>>
    BY <1>1, <1>2, <1>5, <2>1
  <2> QED BY <1>2, <1>5, <2>2
<1> QED BY <1>4, <1>5

LEMMA ArriveTurn ==
  ASSUME IInv, NEW q \in Requests, Arrive(q)
  PROVE  InTurn'
<1>1. UNCHANGED <<turn, pc, overtaken>> /\ last' = last
  BY DEF Arrive, serverVars, last
<1>2. ASSUME NEW s \in Services, inbox[s] # <<>> PROVE inbox'[s] # <<>>
  <2>1. inbox[s] \in Seq(Requests) /\ inbox'[s] \in {inbox[s], Append(inbox[s], q)}
    BY DEF IInv, TypeOK, Arrive
  <2> QED BY <1>2, <2>1
<1> QED BY <1>1, <1>2 DEF IInv, InTurn

LEMMA SameTurn ==
  ASSUME IInv, UNCHANGED <<inbox, overtaken>>, pc' # "stopped" => pc # "stopped" /\ last' = last
  PROVE  InTurn'
BY DEF IInv, InTurn

LEMMA TurnKept == IInv /\ [Next]_vars => InTurn'
<1> SUFFICES ASSUME IInv, [Next]_vars PROVE InTurn'
  OBVIOUS
<1>1. ASSUME NEW s \in Services, Receive(s) PROVE InTurn'
  <2>1. pc = "receive" /\ turn = s /\ last' = s
    BY <1>1, ServiceAssumption DEF Receive, Visiting, AfterVisit, last, Services
  <2>2. \A t \in Services \ {s} : inbox'[t] = inbox[t]
    BY <1>1, ReceiveFacts DEF IInv
  <2>3. \A t, u \in Services :
          overtaken'[t][u] = IF t = s THEN 0
                             ELSE IF u = s THEN IF inbox[t] # <<>> THEN overtaken[t][u] + 1 ELSE 0
                             ELSE overtaken[t][u]
    BY <1>1 DEF Receive, IInv, TypeOK
  <2>4. \A t, u \in Services :
          overtaken'[t][u] = IF ~TRUE THEN overtaken[t][u]
                             ELSE IF t = s THEN 0
                             ELSE IF u = s THEN IF inbox[t] # <<>> THEN overtaken[t][u] + 1 ELSE 0
                             ELSE overtaken[t][u]
    BY <2>3
  <2> HIDE <2>3
  <2> QED BY <2>1, <2>2, <2>4, VisitTurn
<1>2. ASSUME NEW s \in Services, ReceiveTimeout(s) PROVE InTurn'
  <2>1. /\ pc = "receive" /\ turn = s /\ last' = s /\ inbox[s] = <<>>
        /\ UNCHANGED <<inbox, overtaken>>
    BY <1>2, ServiceAssumption DEF ReceiveTimeout, Visiting, AfterVisit, last, Services
  <2> QED BY <2>1, VisitTurn
<1>3. CASE RunBegin \/ RunEnd
  <2>1. /\ UNCHANGED <<inbox, overtaken>> /\ pc = "receive" /\ pc' = "receive" /\ NumServices \in Nat
        /\ \/ turn = 0 /\ turn' = 1
           \/ turn = NumServices + 1 /\ turn' = 0
    BY <1>3, ServiceAssumption DEF RunBegin, RunEnd
  <2>2. \/ last = -1 /\ last' = 0
        \/ last = NumServices /\ last' = -1
    BY <2>1 DEF last
  <2>3. SUFFICES ASSUME NEW s \in Services, NEW t \in Services, overtaken[s][t] # 0
                 PROVE  \/ t < s /\ t <= last' /\ last' < s
                        \/ s < t /\ (t <= last' \/ last' < s)
    BY <2>1 DEF IInv, InTurn
  <2>4. \/ t < s /\ t <= last /\ last < s
        \/ s < t /\ (t <= last \/ last < s)
    BY <2>1, <2>3 DEF IInv, InTurn
  <2> QED BY <2>1, <2>2, <2>4 DEF Services
<1>4. CASE Dispatch
  BY <1>4, DispatchFacts, SameTurn DEF IInv, last
<1>5. CASE SendReply
  <2>1. pc = "send" /\ turn \in Int
    BY <1>5 DEF SendReply, IInv, TypeOK
  <2> QED BY <1>5, <2>1, SameTurn DEF SendReply, AfterVisit, last
<1>6. CASE AllocationFails
  BY <1>6, SameTurn DEF AllocationFails, Failed
<1>7. CASE UNCHANGED vars
  BY <1>7, SameTurn DEF vars, serverVars, last
<1> QED BY <1>1, <1>2, <1>3, <1>4, <1>5, <1>6, <1>7, ArriveTurn DEF Next, Serve
-----------------------------------------------------------------------------
LEMMA NextInv == IInv /\ [Next]_vars => IInv'
<1> SUFFICES ASSUME IInv, [Next]_vars PROVE IInv'
  OBVIOUS
<1>1. TypeOK' /\ Held' /\ Named' /\ InTurn'
  BY TypeKept, NamedKept, TurnKept DEF IInv
<1>2. OnePlace' /\ NoRequestDropped'
  <2>1. CASE RunBegin \/ RunEnd \/ \E s \in Services : ReceiveTimeout(s)
    BY <2>1, OtherPlace DEF RunBegin, RunEnd, ReceiveTimeout
  <2>2. CASE Dispatch
    BY <2>2, OtherPlace, DispatchFacts DEF IInv
  <2>3. CASE AllocationFails \/ UNCHANGED vars
    BY <2>3, OtherPlace DEF AllocationFails, vars, serverVars
  <2> QED BY <2>1, <2>2, <2>3, ArrivePlace, ReceivePlace, SendReplyPlace DEF Next, Serve
<1> QED BY <1>1, <1>2 DEF IInv

LEMMA Invariant == Spec => []IInv
BY InitInv, NextInv, PTL DEF Spec

(* The variables of the server thread have their types, among them that a  *)
(* robot only has speeds that were asked for.                              *)
THEOREM TypeCorrect == Spec => []TypeOK
<1>1. IInv => TypeOK
  BY DEF IInv
<1> QED BY <1>1, Invariant, PTL

(* From the reader to the reply no request with data is dropped            *)
(* (receive_request, dispatch and send_reply).                             *)
THEOREM NoRequestDroppedHolds == Spec => []NoRequestDropped
<1>1. IInv => NoRequestDropped
  BY DEF IInv
<1> QED BY <1>1, Invariant, PTL

(* While a request waits, every other dispatcher takes one at most (the    *)
(* loop of ServerImpl::run).                                               *)
THEOREM BoundedOvertakingHolds == Spec => []BoundedOvertaking
<1>1. IInv => BoundedOvertaking
  <2> SUFFICES ASSUME IInv, NEW s \in Services, NEW t \in Services PROVE overtaken[s][t] <= 1
    BY DEF BoundedOvertaking
  <2>1. overtaken[s][t] = 0 \/ overtaken[s][t] = 1
    BY DEF IInv, InTurn
  <2> QED BY <2>1
<1> QED BY <1>1, Invariant, PTL
-----------------------------------------------------------------------------
(***************************************************************************)
(* Order.  The parts of the inductive invariant:                           *)
(*  - Line: a reader holds its requests in the order they arrived, and     *)
(*    whatever left it arrived before them, the request in work last;      *)
(*  - SpeedRight: a robot has the speed accepted last of what was served;  *)
(*  - RepliesRight: a reply is right for what had arrived before.          *)
(***************************************************************************)
Waiting(s) == {inbox[s][i] : i \in 1..Len(inbox[s])}

Line ==
  /\ \A s \in Services : \A i, j \in 1..Len(inbox[s]) :
       i < j => inbox[s][i].id < inbox[s][j].id
  /\ \A q \in arrived :
       q \in Waiting(q.to) \/ \A i \in 1..Len(inbox[q.to]) : q.id < inbox[q.to][i].id
  /\ request_sample # None =>
       \A q \in arrived : q.to = request_sample.to /\ q \notin Waiting(q.to) => q.id <= request_sample.id

(* Requests that had their effect on the robot of s, and those that        *)
(* reached its reader before q.                                            *)
Done(s) == {q \in arrived : q.to = s /\ q \notin Waiting(s) /\ (q = request_sample => pc = "send")}
Before(q) == {p \in arrived : p.to = q.to /\ p.id < q.id}

LastOf(v, S) ==
  \/ v = InitSpeed /\ \A q \in S : ~Accepted(q)
  \/ \E q \in S : Accepted(q) /\ v = q.speed /\ \A p \in S : Accepted(p) => p.id <= q.id

SpeedRight == \A s \in Services : LastOf(speed_[s], Done(s))

Right(q, r) ==
  /\ r.op = IF q.op = "unknown" THEN "none" ELSE q.op
  /\ r.ex = IF q.op = "setSpeed" /\ q.speed > MaxSpeed THEN "TooFast" ELSE "OK"
  /\ q.op = "getSpeed" \/ Accepted(q) => LastOf(r.value, Before(q))

RepliesRight ==
  \A q \in arrived :
    /\ \A r \in replies : r.id = q.id => Right(q, r)
    /\ pc = "send" /\ q = request_sample => Right(q, reply)

OrderInv == Line /\ SpeedRight /\ RepliesRight

(* The typed facts the steps below need.                                   *)
LEMMA Arrivals ==
  ASSUME IInv
  PROVE  /\ \A q \in arrived : q \in Requests /\ q.id \in Nat /\ q.id # 0 /\ q.to \in Services /\ q # None
         /\ \A p, q \in arrived : p.id = q.id => p = q
         /\ \A s \in Services : Waiting(s) \subseteq arrived
         /\ \A s \in Services : \A i \in 1..Len(inbox[s]) :
              inbox[s][i] \in Waiting(s) /\ inbox[s][i] # request_sample /\ inbox[s][i].to = s
         /\ \A s \in Services : Len(inbox[s]) \in Nat
         /\ request_sample # None => request_sample \in arrived
         /\ Cardinality(arrived) \in Nat
<1>1. \A q \in arrived : q \in Requests /\ q.id \in Nat /\ q.id # 0 /\ q.to \in Services /\ q # None
  BY RequestTypes DEF IInv, TypeOK, Ids
<1>2. \A s \in Services : \A i \in 1..Len(inbox[s]) :
        inbox[s][i] \in arrived /\ inbox[s][i].id # request_sample.id
  BY DEF IInv, OnePlace
<1>3. \A s \in Services : \A i \in 1..Len(inbox[s]) : inbox[s][i].to = s
  BY RequestTypes DEF IInv, Held
<1>4. \A s \in Services : Len(inbox[s]) \in Nat
  BY DEF IInv, TypeOK
<1>5. Cardinality(arrived) \in Nat
  BY FS_CardinalityType DEF IInv, Named
<1> QED BY <1>1, <1>2, <1>3, <1>4, <1>5 DEF IInv, Named, OnePlace, Waiting

LEMMA OrderInit == Init => OrderInv
BY ServiceAssumption DEF Init, OrderInv, Line, SpeedRight, RepliesRight, LastOf, Done

(* The last accepted speed does not depend on requests that are not.       *)
LEMMA LastOfMore ==
  ASSUME NEW v, NEW S, NEW x, LastOf(v, S), ~Accepted(x)
  PROVE  LastOf(v, S \cup {x})
BY DEF LastOf

LEMMA LastOfNext ==
  ASSUME NEW S, NEW x, Accepted(x), \A p \in S : p.id <= x.id, x.id \in Nat
  PROVE  LastOf(x.speed, S \cup {x})
BY DEF LastOf

LEMMA ArriveOrder ==
  ASSUME IInv, OrderInv, NEW q \in Requests, Arrive(q)
  PROVE  OrderInv'
<1>1. /\ q.to \in Services /\ q.id \in Nat /\ arrived' = arrived \cup {q} /\ q \notin arrived
      /\ UNCHANGED <<replies, speed_, request_sample, pc, reply>>
      /\ \A p \in arrived : p.id < q.id
  <2>1. q.id \in Nat /\ q.to \in Services
    BY RequestTypes DEF Ids
  <2>2. \A p \in arrived : p.id # q.id /\ p.id <= Cardinality(arrived) /\ q.id = Cardinality(arrived) + 1
    BY NewName DEF IInv, Named, Arrive
  <2> QED BY <2>1, <2>2, Arrivals DEF Arrive, serverVars
<1>2. ASSUME NEW s \in Services
      PROVE  IF s = q.to
             THEN /\ Len(inbox'[s]) = Len(inbox[s]) + 1
                  /\ \A i \in 1..(Len(inbox[s]) + 1) :
                       inbox'[s][i] = IF i <= Len(inbox[s]) THEN inbox[s][i] ELSE q
             ELSE inbox'[s] = inbox[s]
  <2>1. inbox[s] \in Seq(Requests) /\ inbox'[s] = IF s = q.to THEN Append(inbox[s], q) ELSE inbox[s]
    BY DEF IInv, TypeOK, Arrive
  <2> QED BY <2>1, AppendFacts
<1>3. \A s \in Services : Waiting(s)' = IF s = q.to THEN Waiting(s) \cup {q} ELSE Waiting(s)
  <2> SUFFICES ASSUME NEW s \in Services
               PROVE  Waiting(s)' = IF s = q.to THEN Waiting(s) \cup {q} ELSE Waiting(s)
    OBVIOUS
  <2>1. CASE s # q.to
    BY <1>2, <2>1 DEF Waiting
  <2>2. CASE s = q.to
    <3>1. Len(inbox[s]) \in Nat
      BY Arrivals
    <3> QED BY <1>2, <2>2, <3>1 DEF Waiting
  <2> QED BY <2>1, <2>2
<1>4. Line'
  <2>1. ASSUME NEW s \in Services, NEW i \in 1..Len(inbox'[s]), NEW j \in 1..Len(inbox'[s]), i < j
        PROVE  inbox'[s][i].id < inbox'[s][j].id
    <3>1. CASE s # q.to
      BY <1>2, <2>1, <3>1 DEF OrderInv, Line
    <3>2. CASE s = q.to
      <4>1. Len(inbox[s]) \in Nat /\ i \in 1..(Len(inbox[s]) + 1) /\ j \in 1..(Len(inbox[s]) + 1)
        BY <1>2, <3>2, Arrivals
      <4>2. CASE j <= Len(inbox[s])
        <5>1. /\ i \in 1..Len(inbox[s]) /\ inbox'[s][i] = inbox[s][i]
              /\ j \in 1..Len(inbox[s]) /\ inbox'[s][j] = inbox[s][j]
          BY <1>2, <2>1, <3>2, <4>1, <4>2
        <5> QED BY <2>1, <5>1 DEF OrderInv, Line
      <4>3. CASE j = Len(inbox[s]) + 1
        <5>1. i \in 1..Len(inbox[s]) /\ inbox'[s][i] = inbox[s][i] /\ inbox'[s][j] = q
          BY <1>2, <2>1, <3>2, <4>1, <4>3
        <5> QED BY <1>1, <5>1, Arrivals
      <4> QED BY <4>1, <4>2, <4>3
    <3> QED BY <3>1, <3>2
  <2>2. ASSUME NEW p \in arrived', p \notin Waiting(p.to)', NEW i \in 1..Len(inbox'[p.to])
        PROVE  p.id < inbox'[p.to][i].id
    <3>1. p \in arrived /\ p.to \in Services /\ p \notin Waiting(p.to)
      BY <1>1, <1>3, <2>2, Arrivals
    <3>2. \A k \in 1..Len(inbox[p.to]) : p.id < inbox[p.to][k].id
      BY <3>1 DEF OrderInv, Line
    <3>3. CASE p.to # q.to
      BY <1>2, <2>2, <3>1, <3>2, <3>3
    <3>4. CASE p.to = q.to
      <4>1. Len(inbox[q.to]) \in Nat
        BY <1>1, Arrivals
      <4>2. \/ i \in 1..Len(inbox[p.to]) /\ inbox'[p.to][i] = inbox[p.to][i]
            \/ inbox'[p.to][i] = q
        BY <1>1, <1>2, <2>2, <3>1, <3>4, <4>1
      <4> QED BY <1>1, <3>1, <3>2, <4>2
    <3> QED BY <3>3, <3>4
  <2>3. ASSUME request_sample # None, NEW p \in arrived', p.to = request_sample.to, p \notin Waiting(p.to)'
        PROVE  p.id <= request_sample.id
    <3>1. p \in arrived /\ p.to \in Services /\ p \notin Waiting(p.to)
      BY <1>1, <1>3, <2>3, Arrivals
    <3> QED BY <2>3, <3>1 DEF OrderInv, Line
  <2> QED BY <1>1, <2>1, <2>2, <2>3 DEF Line
<1>5. \A s \in Services : Done(s)' = Done(s)
  <2> SUFFICES ASSUME NEW s \in Services PROVE Done(s)' = Done(s)
    OBVIOUS
  <2>1. Waiting(s)' = IF s = q.to THEN Waiting(s) \cup {q} ELSE Waiting(s)
    BY <1>3
  <2> QED BY <1>1, <2>1 DEF Done
<1>6. SpeedRight'
  BY <1>1, <1>5 DEF OrderInv, SpeedRight, LastOf, Accepted
<1>7. RepliesRight'
  <2>1. ASSUME NEW p \in arrived PROVE Before(p)' = Before(p)
    BY <1>1, Arrivals DEF Before
  <2>2. ASSUME NEW p \in arrived, NEW r PROVE Right(p, r)' <=> Right(p, r)
    BY <2>1 DEF Right, LastOf, Accepted
  <2>3. \A r \in replies : r.id # q.id
    BY NewName DEF Answered
  <2>4. q # request_sample
    BY NewName
  <2> QED BY <1>1, <2>2, <2>3, <2>4 DEF OrderInv, RepliesRight
<1> QED BY <1>4, <1>6, <1>7 DEF OrderInv

(* A step that moves no request and answers none.                          *)
LEMMA SameOrder ==
  ASSUME OrderInv, UNCHANGED <<arrived, inbox, replies, request_sample, speed_>>,
         pc' # "send", pc # "send"
  PROVE  OrderInv'
<1>1. \A s : Waiting(s)' = Waiting(s) /\ Done(s)' = Done(s)
  BY DEF Waiting, Done
<1>2. Line'
  BY <1>1 DEF OrderInv, Line
<1>3. SpeedRight'
  BY <1>1 DEF OrderInv, SpeedRight, LastOf, Accepted
<1>4. RepliesRight'
  <2>1. \A q, r : Right(q, r)' <=> Right(q, r)
    BY DEF Right, LastOf, Accepted, Before
  <2> QED BY <2>1 DEF OrderInv, RepliesRight
<1> QED BY <1>2, <1>3, <1>4 DEF OrderInv

LEMMA ReceiveOrder ==
  ASSUME IInv, OrderInv, NEW s \in Services, Receive(s)
  PROVE  OrderInv'
<1> DEFINE h == inbox[s][1]
<1>1. /\ h \in For(s) /\ 1 \in 1..Len(inbox[s]) /\ Len(inbox[s]) \in Nat \ {0}
      /\ Len(inbox'[s]) = Len(inbox[s]) - 1
      /\ \A i \in 1..(Len(inbox[s]) - 1) : inbox'[s][i] = inbox[s][i + 1]
      /\ \A t \in Services \ {s} : inbox'[t] = inbox[t]
  BY ReceiveFacts DEF IInv
<1>2. /\ request_sample = None /\ pc = "receive"
      /\ \/ h.op # "nodata" /\ request_sample' = h /\ pc' = "dispatch"
         \/ h.op = "nodata" /\ request_sample' = None /\ pc' = "receive"
      /\ UNCHANGED <<arrived, replies, speed_>>
  BY ReceiveFacts DEF Receive, Visiting, IInv, Held
<1>3. h \in arrived /\ h \in Waiting(s) /\ h.to = s /\ h # None
  BY <1>1, Arrivals
<1>4. \A i \in 1..Len(inbox'[s]) : i + 1 \in 1..Len(inbox[s]) /\ 1 < i + 1 /\ inbox'[s][i] = inbox[s][i + 1]
  BY <1>1
<1>5. \A i \in 1..Len(inbox'[s]) : h.id < inbox'[s][i].id
  BY <1>1, <1>4 DEF OrderInv, Line
<1> HIDE DEF h
<1>6. \A t \in Services : Waiting(t)' = IF t = s THEN Waiting(s) \ {h} ELSE Waiting(t)
  <2>1. \A t \in Services \ {s} : Waiting(t)' = Waiting(t)
    BY <1>1 DEF Waiting
  <2>2. ASSUME NEW q \in Waiting(s)' PROVE q \in Waiting(s) /\ q # h
    <3>1. PICK i \in 1..Len(inbox'[s]) : q = inbox'[s][i]
      BY <2>2 DEF Waiting
    <3>2. h.id < q.id /\ q = inbox[s][i + 1] /\ i + 1 \in 1..Len(inbox[s])
      BY <1>4, <1>5, <3>1
    <3>3. h.id \in Nat
      BY <1>3, Arrivals
    <3> QED BY <3>2, <3>3 DEF Waiting
  <2>3. ASSUME NEW q \in Waiting(s), q # h PROVE q \in Waiting(s)'
    <3>1. PICK i \in 1..Len(inbox[s]) : q = inbox[s][i]
      BY DEF Waiting
    <3>2. i # 1
      BY <2>3, <3>1 DEF h
    <3>3. i - 1 \in 1..Len(inbox'[s]) /\ inbox'[s][i - 1] = q
      BY <1>1, <3>1, <3>2
    <3> QED BY <3>3 DEF Waiting
  <2> QED BY <2>1, <2>2, <2>3
<1>7. Line'
  <2>1. ASSUME NEW t \in Services, NEW i \in 1..Len(inbox'[t]), NEW j \in 1..Len(inbox'[t]), i < j
        PROVE  inbox'[t][i].id < inbox'[t][j].id
    <3>1. CASE t # s
      BY <1>1, <2>1, <3>1 DEF OrderInv, Line
    <3>2. CASE t = s
      <4>1. i + 1 \in 1..Len(inbox[s]) /\ j + 1 \in 1..Len(inbox[s]) /\ i + 1 < j + 1
        BY <1>4, <2>1, <3>2
      <4>2. inbox[s][i + 1].id < inbox[s][j + 1].id
        BY <4>1 DEF OrderInv, Line
      <4> QED BY <1>4, <3>2, <4>2
    <3> QED BY <3>1, <3>2
  <2>2. ASSUME NEW p \in arrived, p \notin Waiting(p.to)', NEW i \in 1..Len(inbox'[p.to])
        PROVE  p.id < inbox'[p.to][i].id
    <3>1. p.to \in Services
      BY Arrivals
    <3>2. p \notin Waiting(p.to) => \A k \in 1..Len(inbox[p.to]) : p.id < inbox[p.to][k].id
      BY DEF OrderInv, Line
    <3>3. CASE p.to # s
      BY <1>1, <1>6, <2>2, <3>1, <3>2, <3>3
    <3>4. CASE p.to = s /\ p # h
      BY <1>4, <1>6, <2>2, <3>2, <3>4
    <3>5. CASE p = h
      BY <1>3, <1>5, <2>2, <3>5
    <3> QED BY <3>3, <3>4, <3>5
  <2>3. ASSUME request_sample' # None, NEW p \in arrived, p.to = request_sample'.to, p \notin Waiting(p.to)'
        PROVE  p.id <= request_sample'.id
    <3>1. request_sample' = h /\ p.to = s /\ p.id \in Nat /\ h.id \in Nat
      BY <1>2, <1>3, <2>3, Arrivals
    <3>2. CASE p = h
      BY <3>1, <3>2
    <3>3. CASE p # h
      <4>1. p \notin Waiting(s)
        BY <1>6, <2>3, <3>1, <3>3
      <4>2. p.id < inbox[s][1].id
        BY <1>1, <3>1, <4>1 DEF OrderInv, Line
      <4> QED BY <3>1, <4>2 DEF h
    <3> QED BY <3>2, <3>3
  <2> QED BY <1>2, <2>1, <2>2, <2>3 DEF Line
<1>8. SpeedRight'
  <2> SUFFICES ASSUME NEW t \in Services PROVE LastOf(speed_[t], Done(t)')
    BY <1>2 DEF SpeedRight, LastOf, Accepted
  <2>1. LastOf(speed_[t], Done(t))
    BY DEF OrderInv, SpeedRight
  <2>2. CASE t # s \/ h.op # "nodata"
    <3>1. Waiting(t)' = IF t = s THEN Waiting(s) \ {h} ELSE Waiting(t)
      BY <1>6
    <3>2. \A q \in arrived : q # None
      BY Arrivals
    <3>3. Done(t)' = Done(t)
      BY <1>2, <1>3, <2>2, <3>1, <3>2 DEF Done
    <3> QED BY <2>1, <3>3
  <2>3. CASE t = s /\ h.op = "nodata"
    <3>1. Waiting(t)' = Waiting(t) \ {h}
      BY <1>6, <2>3
    <3>2. \A q \in arrived : q # None
      BY Arrivals
    <3>3. Done(t)' = Done(t) \cup {h}
      BY <1>2, <1>3, <2>3, <3>1, <3>2 DEF Done
    <3>4. ~Accepted(h)
      BY <2>3 DEF Accepted
    <3> QED BY <2>1, <3>3, <3>4, LastOfMore
  <2> QED BY <2>2, <2>3
<1>9. RepliesRight'
  <2>1. \A q, r : Right(q, r)' <=> Right(q, r)
    BY <1>2 DEF Right, LastOf, Accepted, Before
  <2> QED BY <1>2, <2>1 DEF OrderInv, RepliesRight
<1> QED BY <1>7, <1>8, <1>9 DEF OrderInv

LEMMA DispatchOrder ==
  ASSUME IInv, OrderInv, Dispatch
  PROVE  OrderInv'
<1> DEFINE q == request_sample
<1>1. /\ pc = "dispatch" /\ pc' = "send" /\ turn \in Services
      /\ UNCHANGED <<arrived, inbox, replies, request_sample>>
  BY DispatchFacts DEF IInv
<1>2. q \in arrived /\ q.to = turn /\ q.id \in Nat /\ q # None /\ (q.op = "setSpeed" => q.speed \in Speeds)
  <2>1. q \in For(turn) /\ q # None
    BY DispatchFacts, RequestTypes DEF IInv
  <2> QED BY <1>1, <2>1, RequestTypes, Arrivals
<1>3. q \notin Waiting(turn) /\ \A i \in 1..Len(inbox[turn]) : q.id < inbox[turn][i].id
  <2>1. q \notin Waiting(turn)
    BY <1>1, Arrivals DEF Waiting
  <2> QED BY <1>2, <2>1 DEF OrderInv, Line
<1>4. Before(q) = Done(turn)
  <2>1. ASSUME NEW p \in arrived, p.to = turn, p.id < q.id PROVE p \in Done(turn)
    <3>1. p.id \in Nat /\ p # q
      BY <1>2, <2>1, Arrivals
    <3>2. p \notin Waiting(turn)
      BY <1>2, <1>3, <2>1, <3>1 DEF Waiting
    <3> QED BY <2>1, <3>1, <3>2 DEF Done
  <2>2. ASSUME NEW p \in Done(turn) PROVE p \in arrived /\ p.to = turn /\ p.id < q.id
    <3>1. p \in arrived /\ p.to = turn /\ p \notin Waiting(turn) /\ p # q
      BY <1>1 DEF Done
    <3>2. p.id <= q.id /\ p.id # q.id /\ p.id \in Nat
      BY <1>2, <3>1, Arrivals DEF OrderInv, Line
    <3> QED BY <1>2, <3>1, <3>2
  <2> QED BY <1>2, <2>1, <2>2 DEF Before
<1>5. \A s \in Services : Done(s)' = IF s = turn THEN Done(s) \cup {q} ELSE Done(s)
  <2>1. \A s : Waiting(s)' = Waiting(s)
    BY <1>1 DEF Waiting
  <2> QED BY <1>1, <1>2, <1>3, <2>1 DEF Done
<1>6. LastOf(speed_[turn], Done(turn))
  BY <1>1 DEF OrderInv, SpeedRight
<1>7. /\ reply'.op = IF q.op = "unknown" THEN "none" ELSE q.op
      /\ reply'.ex = IF q.op = "setSpeed" /\ q.speed > MaxSpeed THEN "TooFast" ELSE "OK"
      /\ q.op = "getSpeed" \/ Accepted(q) => reply'.value = speed_[turn]
      /\ speed_' = IF Accepted(q) THEN [speed_ EXCEPT ![turn] = q.speed] ELSE speed_
  <2> USE DEF Prepare, Dispatching, Accepted
  <2>1. CASE DoSetSpeed \/ DoSetSpeedTooFast
    <3>1. q.speed \in Int /\ MaxSpeed \in Int
      BY <1>2, <2>1, ServiceAssumption DEF DoSetSpeed, DoSetSpeedTooFast
    <3> QED BY <2>1, <3>1 DEF DoSetSpeed, DoSetSpeedTooFast, OldSpeed
  <2>2. CASE DoGetSpeed
    BY <2>2 DEF DoGetSpeed
  <2>3. CASE DoCommand \/ DoGetStatus \/ DoUnknown
    BY <2>3 DEF DoCommand, DoGetStatus, DoUnknown
  <2> QED BY <2>1, <2>2, <2>3 DEF Dispatch
<1> HIDE DEF q
<1>8. Line'
  <2>1. \A s : Waiting(s)' = Waiting(s)
    BY <1>1 DEF Waiting
  <2> QED BY <1>1, <2>1 DEF OrderInv, Line
<1>9. SpeedRight'
  <2> SUFFICES ASSUME NEW s \in Services PROVE LastOf(speed_'[s], Done(s)')
    BY DEF SpeedRight, LastOf, Accepted
  <2>0. speed_ \in [Services -> Speeds \cup {InitSpeed}] /\ LastOf(speed_[s], Done(s))
    BY DEF IInv, TypeOK, OrderInv, SpeedRight
  <2>1. CASE s # turn
    BY <1>5, <1>7, <2>0, <2>1
  <2>2. CASE s = turn /\ Accepted(q)
    <3>1. speed_'[s] = q.speed /\ Done(s)' = Before(q) \cup {q}
      BY <1>4, <1>5, <1>7, <2>0, <2>2
    <3>2. \A p \in Before(q) : p.id <= q.id
      BY <1>2, Arrivals DEF Before
    <3> QED BY <1>2, <2>2, <3>1, <3>2, LastOfNext
  <2>3. CASE s = turn /\ ~Accepted(q)
    BY <1>5, <1>7, <2>0, <2>3, LastOfMore
  <2> QED BY <2>1, <2>2, <2>3
<1>10. RepliesRight'
  <2>1. \A p, r : Right(p, r)' <=> Right(p, r)
    BY <1>1 DEF Right, LastOf, Accepted, Before
  <2>2. Right(q, reply)'
    BY <1>1, <1>4, <1>6, <1>7 DEF Right, LastOf, Accepted, Before, q
  <2>3. ASSUME NEW p \in arrived PROVE \A r \in replies : r.id = p.id => Right(p, r)'
    BY <2>1 DEF OrderInv, RepliesRight
  <2>4. \A p \in arrived : p = request_sample' => Right(p, reply)'
    BY <1>1, <2>2 DEF q
  <2> QED BY <1>1, <2>3, <2>4 DEF RepliesRight
<1> QED BY <1>8, <1>9, <1>10 DEF OrderInv

LEMMA SendReplyOrder ==
  ASSUME IInv, OrderInv, SendReply
  PROVE  OrderInv'
<1> DEFINE sent == [reply EXCEPT !.remoteEx = "OK"]
<1>1. /\ pc = "send" /\ pc' = "receive" /\ request_sample' = None
      /\ request_sample \in arrived /\ reply.id = request_sample.id
      /\ replies' = replies \cup {sent} /\ UNCHANGED <<arrived, inbox, speed_>>
  <2>1. pc = "send" /\ request_sample \in For(turn) /\ turn \in Services /\ reply.id = request_sample.id
    BY DEF SendReply, IInv, Held
  <2>2. request_sample # None
    BY <2>1, RequestTypes
  <2> QED BY <2>1, <2>2, Arrivals DEF SendReply
<1>2. sent.id = reply.id /\ sent.op = reply.op /\ sent.ex = reply.ex /\ sent.value = reply.value
  BY <1>1 DEF IInv, Held, TypeOK
<1>3. \A s : Waiting(s)' = Waiting(s)
  BY <1>1 DEF Waiting
<1>4. \A s : Done(s)' = Done(s)
  <2>1. \A q \in arrived : q # None
    BY Arrivals
  <2> QED BY <1>1, <1>3, <2>1 DEF Done
<1>5. Line'
  BY <1>1, <1>3 DEF OrderInv, Line
<1>6. SpeedRight'
  BY <1>1, <1>4 DEF OrderInv, SpeedRight, LastOf, Accepted
<1>7. RepliesRight'
  <2>1. \A q, r : Right(q, r)' <=> Right(q, r)
    BY <1>1 DEF Right, LastOf, Accepted, Before
  <2>2. ASSUME NEW q \in arrived, sent.id = q.id PROVE Right(q, sent)
    <3>1. q = request_sample
      BY <1>1, <1>2, <2>2, Arrivals
    <3>2. Right(q, reply)
      BY <1>1, <3>1 DEF OrderInv, RepliesRight
    <3> QED BY <1>2, <3>2 DEF Right
  <2> QED BY <1>1, <2>1, <2>2 DEF OrderInv, RepliesRight
<1> QED BY <1>5, <1>6, <1>7 DEF OrderInv

LEMMA OrderNext == IInv /\ OrderInv /\ [Next]_vars => OrderInv'
<1> SUFFICES ASSUME IInv, OrderInv, [Next]_vars PROVE OrderInv'
  OBVIOUS
<1>1. CASE RunBegin \/ RunEnd \/ \E s \in Services : ReceiveTimeout(s)
  BY <1>1, SameOrder DEF RunBegin, RunEnd, ReceiveTimeout, Visiting
<1>2. CASE AllocationFails
  BY <1>2, SameOrder DEF AllocationFails, Failed
<1>3. CASE UNCHANGED vars
  <2>1. UNCHANGED <<arrived, inbox, replies, request_sample, speed_, pc, reply>>
    BY <1>3 DEF vars, serverVars
  <2>2. /\ \A s : Waiting(s)' = Waiting(s) /\ Done(s)' = Done(s)
        /\ \A q, r : Right(q, r)' <=> Right(q, r)
    BY <2>1 DEF Waiting, Done, Right, LastOf, Accepted, Before
  <2>3. Line' /\ SpeedRight'
    BY <2>1, <2>2 DEF OrderInv, Line, SpeedRight, LastOf, Accepted
  <2> QED BY <2>1, <2>2, <2>3 DEF OrderInv, RepliesRight
<1> QED BY <1>1, <1>2, <1>3, ArriveOrder, ReceiveOrder, DispatchOrder, SendReplyOrder DEF Next, Serve

(* What LastOf describes is what SpeedBefore chooses.                      *)
LEMMA LastIsSpeedBefore ==
  ASSUME IInv, NEW q \in arrived, NEW v, LastOf(v, Before(q))
  PROVE  v = SpeedBefore(q)
<1> DEFINE before == {p \in arrived : p.to = q.to /\ p.id < q.id /\ Accepted(p)}
<1> DEFINE latest == CHOOSE p \in before : \A o \in before : o.id <= p.id
<1>1. before = {p \in Before(q) : Accepted(p)}
  BY DEF Before
<1>2. SpeedBefore(q) = IF before = {} THEN InitSpeed ELSE latest.speed
  BY DEF SpeedBefore
<1>3. CASE before = {}
  <2>1. v = InitSpeed
    BY <1>1, <1>3 DEF LastOf
  <2> QED BY <1>2, <1>3, <2>1
<1>4. CASE before # {}
  <2>1. PICK p \in before : v = p.speed /\ \A o \in before : o.id <= p.id
    BY <1>1, <1>4 DEF LastOf
  <2>2. latest \in before /\ \A o \in before : o.id <= latest.id
    BY <2>1
  <2>3. \A o \in before : o \in arrived /\ o.id \in Nat
    BY Arrivals
  <2> HIDE DEF before, latest
  <2>4. latest.id = p.id
    BY <2>1, <2>2, <2>3
  <2>5. latest = p
    BY <2>1, <2>2, <2>3, <2>4, Arrivals
  <2> QED BY <1>2, <1>4, <2>1, <2>5
<1> QED BY <1>3, <1>4

LEMMA ServedRight == IInv /\ OrderInv => ServedInOrder
<1> SUFFICES ASSUME IInv, OrderInv, NEW q \in arrived, NEW r \in replies, r.id = q.id
             PROVE  /\ r.op = IF q.op = "unknown" THEN "none" ELSE q.op
                    /\ r.ex = IF q.op = "setSpeed" /\ q.speed > MaxSpeed THEN "TooFast" ELSE "OK"
                    /\ q.op = "getSpeed" \/ Accepted(q) => r.value = SpeedBefore(q)
  BY DEF ServedInOrder
<1>1. Right(q, r)
  BY DEF OrderInv, RepliesRight
<1> QED BY <1>1, LastIsSpeedBefore DEF Right

(* Every reply is the right one for the requests that reached its service  *)
(* before (receive_request takes the oldest, dispatch and MyRobot act on   *)
(* it before the next is taken).                                           *)
THEOREM ServedInOrderHolds == Spec => []ServedInOrder
BY ServedRight, InitInv, NextInv, OrderInit, OrderNext, PTL DEF Spec

(* Nothing that happens later changes what a request should have found.    *)
SpeedIn(B) == IF B = {} THEN InitSpeed ELSE (CHOOSE p \in B : \A o \in B : o.id <= p.id).speed

LEMMA SpeedBeforeKept ==
  ASSUME IInv, [Next]_vars, NEW q \in arrived
  PROVE  q \in arrived' /\ SpeedBefore(q)' = SpeedBefore(q)
<1> DEFINE before == {p \in arrived : p.to = q.to /\ p.id < q.id /\ Accepted(p)}
<1>1. ASSUME arrived' = arrived PROVE q \in arrived' /\ before' = before
  BY <1>1 DEF Accepted
<1>2. ASSUME NEW a \in Requests, Arrive(a) PROVE q \in arrived' /\ before' = before
  <2>1. arrived' = arrived \cup {a} /\ q.id <= Cardinality(arrived) /\ a.id = Cardinality(arrived) + 1
    BY <1>2 DEF Arrive, IInv, Named
  <2>2. Cardinality(arrived) \in Nat /\ q.id \in Nat
    BY Arrivals
  <2>3. ~(a.id < q.id)
    BY <2>1, <2>2
  <2> QED BY <2>1, <2>3 DEF Accepted
<1>3. SpeedBefore(q) = SpeedIn(before) /\ SpeedBefore(q)' = SpeedIn(before')
  BY DEF SpeedBefore, SpeedIn, Accepted
<1>4. arrived' = arrived \/ \E a \in Requests : Arrive(a)
  BY DEF Next, Serve, RunBegin, RunEnd, Receive, ReceiveTimeout, Dispatch, DoCommand, DoGetSpeed,
         DoSetSpeed, DoSetSpeedTooFast, DoGetStatus, DoUnknown, Prepare, SendReply, AllocationFails, vars
<1> HIDE DEF before
<1>5. q \in arrived' /\ before' = before
  BY <1>1, <1>2, <1>4
<1> QED BY <1>3, <1>5
-----------------------------------------------------------------------------
(* Refinement of RobotControl.                                             *)
LEMMA RefineInit == Init => Robot!Init
BY DEF Init, Robot!Init, Results

LEMMA RefineStutter ==
  ASSUME UNCHANGED <<arrived, speed_, replies, reply>>
  PROVE  UNCHANGED Robot!vars
BY DEF Robot!vars, Results

LEMMA RefineArrive ==
  ASSUME IInv, NEW q \in Requests, Arrive(q)
  PROVE  Robot!Submit
<1>1. q \in arrived' /\ arrived' = arrived \cup {q} /\ \A p \in arrived : p.id # q.id
  BY NewName DEF Arrive
<1>2. speed_' = speed_ /\ Results' = Results
  BY DEF Arrive, serverVars, Results
<1> QED BY <1>1, <1>2 DEF Robot!Submit

LEMMA RefineDispatch ==
  ASSUME IInv, Dispatch
  PROVE  Robot!Next
<1> DEFINE q == request_sample
<1>1. /\ pc = "dispatch" /\ turn \in Services /\ q \in For(turn) /\ q \in Requests
      /\ UNCHANGED <<arrived, replies>> /\ reply' \in Reply /\ reply'.id = q.id
  BY DispatchFacts DEF IInv
<1>2. q \in arrived /\ q.id \notin Answered /\ q.to = turn /\ reply = None /\ reply' # None
  BY <1>1, RequestTypes DEF IInv, OnePlace, Held, None
<1>3. Results' = Results \cup {Result(reply')}
  BY <1>1, <1>2 DEF Results
<1>4. \A p \in Results : p.id # q.id
  BY <1>2 DEF Results, Result, Answered
<1>5. /\ Result(reply') = Robot!Result(q)
      /\ speed_' = IF Robot!Accepted(q) THEN [speed_ EXCEPT ![q.to] = q.speed] ELSE speed_
  <2> USE <1>2 DEF Prepare, Dispatching, Result, Robot!Result, Robot!Accepted, Robot!Refused
  <2>1. CASE DoSetSpeed \/ DoSetSpeedTooFast
    <3>1. q.speed \in Int /\ MaxSpeed \in Int
      BY <1>1, <2>1, RequestTypes, ServiceAssumption DEF DoSetSpeed, DoSetSpeedTooFast
    <3> QED BY <2>1, <3>1 DEF DoSetSpeed, DoSetSpeedTooFast, OldSpeed
  <2>2. CASE DoGetSpeed
    BY <2>2 DEF DoGetSpeed
  <2>3. CASE DoCommand \/ DoGetStatus \/ DoUnknown
    BY <2>3 DEF DoCommand, DoGetStatus, DoUnknown
  <2> QED BY <2>1, <2>2, <2>3 DEF Dispatch
<1>6. Robot!Serve(q)
  BY <1>1, <1>3, <1>4, <1>5 DEF Robot!Serve
<1> QED BY <1>2, <1>6 DEF Robot!Next

LEMMA RefineSend ==
  ASSUME IInv, SendReply
  PROVE  UNCHANGED Robot!vars
<1> DEFINE sent == [reply EXCEPT !.remoteEx = "OK"]
<1>1. reply # None /\ reply \in Reply /\ reply' = None /\ replies' = replies \cup {sent}
  BY DEF SendReply, IInv, Held, TypeOK, Reply
<1>2. Result(sent) = Result(reply)
  BY <1>1 DEF Result, Reply
<1>3. Results = {Result(r) : r \in replies} \cup {Result(reply)}
  BY <1>1 DEF Results
<1>4. Results' = {Result(r) : r \in replies} \cup {Result(sent)}
  BY <1>1 DEF Results
<1> QED BY <1>2, <1>3, <1>4 DEF SendReply, Robot!vars

LEMMA RefineStep == IInv /\ [Next]_vars => [Robot!Next]_Robot!vars
<1> SUFFICES ASSUME IInv, [Next]_vars PROVE [Robot!Next]_Robot!vars
  OBVIOUS
<1>1. CASE \E q \in Requests : Arrive(q)
  BY <1>1, RefineArrive DEF Robot!Next
<1>2. CASE RunBegin \/ RunEnd \/ (\E s \in Services : Receive(s) \/ ReceiveTimeout(s)) \/ AllocationFails
  BY <1>2, RefineStutter DEF RunBegin, RunEnd, Receive, ReceiveTimeout, AllocationFails
<1>3. CASE UNCHANGED vars
  BY <1>3, RefineStutter DEF vars, serverVars
<1> QED BY <1>1, <1>2, <1>3, RefineDispatch, RefineSend DEF Next, Serve

(* Whatever arrives in whatever order, each request is served at most      *)
(* once, by an indivisible operation on the robot of its service           *)
(* (Dispatcher<RobotControl>::dispatch and MyRobot).                       *)
THEOREM ServiceImplementsRobotControl == Spec => ImplementsRobotControl
BY Invariant, RefineInit, RefineStep, PTL DEF Spec, ImplementsRobotControl, Robot!Spec
=============================================================================
