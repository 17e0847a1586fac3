------------------------------ MODULE Requester ------------------------------
(***************************************************************************)
(* details::RequesterImpl of request_reply.hpp: the client side of         *)
(* request/reply.  Several threads of one client share one RequesterImpl:  *)
(* the callers (main, and the pool threads that run continuations) and one *)
(* reply thread per asynchronous request.  They share sn, id2id_map and    *)
(* dict without a lock; only the writer and the reader queue, which belong *)
(* to Connext, are thread safe.                                            *)
(*                                                                         *)
(* A request is named by the identity the writer gives it, 1, 2, ...; a    *)
(* header.requestId is the value of sn stamped on it.  Payloads are left   *)
(* out: a reply is known by the request it answers and by the replier that *)
(* sent it.                                                                *)
(***************************************************************************)
EXTENDS Naturals, FiniteSets, Functions

CONSTANTS
  SyncCallers,        \* threads that call send_request / receive_reply
  AsyncCallers,       \* threads that call send_request_async
  RawCallers,         \* threads that call send_request(WriteSampleRef)
  Impatient,          \* sync callers that call receive_reply once, and not in a loop
  Repliers,           \* repliers matched with the requester
  MaxRequests,        \* bound: requests written in a behaviour
  MaxReplyThreads,    \* reply threads the system can run at a time
  SnValues,           \* values of sequence_number.low, 2^32 in the code
  ReplyValidity       \* values info().valid_data takes

Callers == SyncCallers \cup AsyncCallers \cup RawCallers
Requests == 1..MaxRequests
RequestIds == 0..(SnValues - 1)
Replies == [req : Requests, from : Repliers, valid : BOOLEAN]

(* Blocking calls are made by the main thread of a client only.            *)
ASSUME RequesterAssumption ==
  /\ \A a, b \in SyncCallers : a = b
  /\ MaxRequests \in Nat
  /\ MaxReplyThreads \in Nat
  /\ SnValues \in Nat \ {0}
  /\ ReplyValidity \subseteq BOOLEAN

VARIABLES
  (* members of RequesterImpl *)
  sn,                 \* last sequence number stamped, its low part
  id2id_map,          \* requestId |-> identity, for receive_reply
  dict,               \* identities whose promise is stored
  suppress_invalid,
  raced,              \* history: two threads were inside dict, one modifying it
  (* Connext *)
  writes,             \* requests written; the identity of the last one
  queue,              \* replies in the reader, not yet taken
  answered,           \* <<request, replier>> pairs
  (* callers *)
  pc, op, requestId, identity,
  (* per request *)
  kind,               \* "none" before the write, then "sync", "async" or "raw"
  thread,             \* where its reply thread is
  status,             \* "unsent", "pending", "value", "error" or "abandoned"
  source              \* the request answered by the reply taken for it, 0 if none

implVars == <<sn, id2id_map, dict, suppress_invalid, raced>>
ddsVars == <<writes, queue, answered>>
callerVars == <<pc, op, requestId, identity>>
callVars == <<kind, thread, status, source>>
vars == <<implVars, ddsVars, callerVars, callVars>>

Goto(c, l) == pc' = [pc EXCEPT ![c] = l]

Init ==
  /\ sn = 0
  /\ id2id_map = [r \in {} |-> 0]
  /\ dict = {}
  /\ suppress_invalid = TRUE
  /\ raced = FALSE
  /\ writes = 0
  /\ queue = {}
  /\ answered = {}
  /\ pc = [c \in Callers |-> "idle"]
  /\ op = [c \in Callers |-> "none"]
  /\ requestId = [c \in Callers |-> 0]
  /\ identity = [c \in Callers |-> 0]
  /\ kind = [k \in Requests |-> "none"]
  /\ thread = [k \in Requests |-> "none"]
  /\ status = [k \in Requests |-> "unsent"]
  /\ source = [k \in Requests |-> 0]

(***************************************************************************)
(* Sending.  ++sn is a load and a store, and other threads may come        *)
(* between them.  Requests are told apart by the low part of it alone.     *)
(***************************************************************************)
Low(i) == i % SnValues

ReadSn(c, o) ==
  /\ pc[c] = "idle"
  /\ \/ o = "sync" /\ c \in SyncCallers
     \/ o = "async" /\ c \in AsyncCallers
  /\ writes < MaxRequests
  /\ op' = [op EXCEPT ![c] = o]
  /\ requestId' = [requestId EXCEPT ![c] = Low(sn + 1)]
  /\ Goto(c, "stamp")
  /\ UNCHANGED <<implVars, ddsVars, identity, callVars>>

StampSn(c) ==
  /\ pc[c] = "stamp"
  /\ sn' = requestId[c]
  /\ Goto(c, "write")
  /\ UNCHANGED <<id2id_map, dict, suppress_invalid, raced, ddsVars,
                 op, requestId, identity, callVars>>

(* super::send_request: the writer takes the next identity.                *)
WriteAs(o) ==
  /\ writes < MaxRequests
  /\ writes' = writes + 1
  /\ kind' = [kind EXCEPT ![writes + 1] = o]
  /\ status' = [status EXCEPT ![writes + 1] = "pending"]
  /\ UNCHANGED <<implVars, queue, answered, thread, source>>

Write(c) ==
  /\ pc[c] = "write"
  /\ WriteAs(op[c])
  /\ identity' = [identity EXCEPT ![c] = writes + 1]
  /\ Goto(c, IF op[c] = "sync" THEN "map" ELSE "register")
  /\ UNCHANGED <<op, requestId>>

(* send_request(WriteSampleRef): neither sn nor a map sees the request.    *)
SendRaw(c) ==
  /\ pc[c] = "idle"
  /\ c \in RawCallers
  /\ WriteAs("raw")
  /\ UNCHANGED callerVars

(* id2id_map[req.header.requestId] = wsref.identity()                      *)
MutantStampMapped(c) == requestId[c]      \* the stamp, not the writer's identity
MutantInserted(c) ==                      \* insert, which keeps an old entry
  IF requestId[c] \in DOMAIN id2id_map THEN id2id_map[requestId[c]] ELSE identity[c]
MappedIdentity(c) == identity[c]

StoreMapping(c) ==
  /\ pc[c] = "map"
  /\ id2id_map' = [r \in DOMAIN id2id_map \cup {requestId[c]} |->
                     IF r = requestId[c] THEN MappedIdentity(c) ELSE id2id_map[r]]
  /\ Goto(c, "sent")
  /\ UNCHANGED <<sn, dict, suppress_invalid, raced, ddsVars,
                 op, requestId, identity, callVars>>

(***************************************************************************)
(* receive_reply(reply, relatedRequestId, timeout).  The wait is for any   *)
(* reply in the reader; only the take is for the caller's own.             *)
(***************************************************************************)
FindMapping(c) ==
  /\ pc[c] = "sent"
  /\ Goto(c, IF requestId[c] \in DOMAIN id2id_map THEN "wait" ELSE "failed")
  /\ UNCHANGED <<implVars, ddsVars, op, requestId, identity, callVars>>

EraseMapping(c) == id2id_map' = Restrict(id2id_map, DOMAIN id2id_map \ {requestId[c]})

(* Mutant: a timeout forgets the request.                                  *)
MutantWaitForReplies(c) ==
  /\ pc[c] = "wait"
  /\ Goto(c, IF queue # {} THEN "take" ELSE "failed")
  /\ IF queue = {} THEN EraseMapping(c) ELSE UNCHANGED id2id_map
  /\ UNCHANGED <<sn, dict, suppress_invalid, raced, ddsVars,
                 op, requestId, identity, callVars>>

WaitForReplies(c) ==
  /\ pc[c] = "wait"
  /\ Goto(c, IF queue # {} THEN "take" ELSE "failed")
  /\ UNCHANGED <<implVars, ddsVars, op, requestId, identity, callVars>>

MutantMatching(k) == queue                \* an uncorrelated take_reply
Matching(k) == {q \in queue : q.req = k}

(* The mapping ends with the delivery.  Mutant: it is kept.                *)
MutantForget(c) == UNCHANGED id2id_map
Forget(c) == EraseMapping(c)

(* A reply was taken: delivered, or dropped because it carries no data;    *)
(* what is dropped keeps its mapping.                                      *)
TakeOwn(c) ==
  /\ pc[c] = "take"
  /\ \E q \in Matching(id2id_map[requestId[c]]) :
       /\ queue' = queue \ {q}
       /\ \/ /\ suppress_invalid /\ ~q.valid
             /\ Goto(c, "failed")
             /\ UNCHANGED <<id2id_map, status, source>>
          \/ /\ ~suppress_invalid \/ q.valid
             /\ Forget(c)
             /\ status' = [status EXCEPT ![identity[c]] = "value"]
             /\ source' = [source EXCEPT ![identity[c]] = q.req]
             /\ Goto(c, "idle")
  /\ UNCHANGED <<sn, dict, suppress_invalid, raced, writes, answered,
                 op, requestId, identity, kind, thread>>

(* Nothing to take.  valid_data is what the caller's sample last held      *)
(* (anything, in a fresh one), and the mapping may be erased all the same. *)
TakeNothing(c) ==
  /\ pc[c] = "take"
  /\ Matching(id2id_map[requestId[c]]) = {}
  /\ Goto(c, "failed")
  /\ \E valid_data \in BOOLEAN :
       \/ suppress_invalid /\ ~valid_data /\ UNCHANGED id2id_map
       \/ (~suppress_invalid \/ valid_data) /\ EraseMapping(c)
  /\ UNCHANGED <<sn, dict, suppress_invalid, raced, ddsVars,
                 op, requestId, identity, callVars>>

(* while (!requester.receive_reply(...)) in robot_reqrep.cxx.              *)
Retry(c) ==
  /\ pc[c] = "failed"
  /\ c \notin Impatient
  /\ Goto(c, "sent")
  /\ UNCHANGED <<implVars, ddsVars, op, requestId, identity, callVars>>

(* One call of receive_reply, its result ignored, in the Support client.   *)
GiveUp(c) ==
  /\ pc[c] = "failed"
  /\ c \in Impatient
  /\ status' = [status EXCEPT ![identity[c]] = "abandoned"]
  /\ Goto(c, "idle")
  /\ UNCHANGED <<implVars, ddsVars, op, requestId, identity, kind, thread, source>>

ReceiveNondata(c, enable) ==
  /\ pc[c] = "idle"
  /\ suppress_invalid' = enable
  /\ UNCHANGED <<sn, id2id_map, dict, raced, ddsVars, callerVars, callVars>>

(***************************************************************************)
(* dict.  A thread is inside dict while it is at one of these points.  An  *)
(* access that overlaps a modification is undefined: a modification may    *)
(* leave any part of the entries, a lookup may miss its own.               *)
(***************************************************************************)
DictWriters == {identity[c] : c \in {d \in Callers : pc[d] = "register"}}
                 \cup {k \in Requests : thread[k] = "erase"}
DictReaders == {k \in Requests : thread[k] = "complete"}

Racing(k) == \/ DictWriters \ {k} # {}
             \/ k \in DictWriters /\ DictReaders # {}

ModifyDict(k, after) ==
  /\ \/ dict' = after
     \/ Racing(k) /\ dict' \in SUBSET (dict \cup {k})
  /\ raced' = (raced \/ Racing(k))

(* dict[wsref.identity()] = std::move(p)                                   *)
RegisterPromise(c) ==
  /\ pc[c] = "register"
  /\ ModifyDict(identity[c], dict \cup {identity[c]})
  /\ Goto(c, "spawn")
  /\ UNCHANGED <<sn, id2id_map, suppress_invalid, ddsVars,
                 op, requestId, identity, callVars>>

LiveThreads == {k \in Requests : thread[k] \in {"wait", "take", "complete", "erase"}}

(* RTIOsapiThread_new, whose result is not looked at.                      *)
SpawnReplyThread(c) ==
  /\ pc[c] = "spawn"
  /\ thread' = IF Cardinality(LiveThreads) < MaxReplyThreads
                 THEN [thread EXCEPT ![identity[c]] = "wait"] ELSE thread
  /\ Goto(c, "idle")
  /\ UNCHANGED <<implVars, ddsVars, op, requestId, identity, kind, status, source>>

(***************************************************************************)
(* execute(), the reply thread of request k.  The wait is for k's reply.   *)
(***************************************************************************)
ThreadWait(k) ==
  /\ thread[k] = "wait"
  /\ thread' = [thread EXCEPT ![k] = IF Matching(k) # {} THEN "take" ELSE "timedout"]
  /\ UNCHANGED <<implVars, ddsVars, callerVars, kind, status, source>>

(* take_reply; a source of 0 becomes set_exception("Reply unavailable!").  *)
ThreadTake(k) ==
  /\ thread[k] = "take"
  /\ \/ \E q \in Matching(k) :
          /\ queue' = queue \ {q}
          /\ source' = [source EXCEPT ![k] = q.req]
     \/ Matching(k) = {} /\ UNCHANGED <<queue, source>>
  /\ thread' = [thread EXCEPT ![k] = "complete"]
  /\ UNCHANGED <<implVars, writes, answered, callerVars, kind, status>>

(* dict[identity].set_value / set_exception: dict[] makes a promise nobody *)
(* holds the future of when it does not find one.                          *)
ThreadComplete(k) ==
  /\ thread[k] = "complete"
  /\ \/ /\ k \in dict
        /\ status' = [status EXCEPT ![k] = IF source[k] = 0 THEN "error" ELSE "value"]
        /\ UNCHANGED dict
     \/ /\ k \notin dict \/ Racing(k)
        /\ dict' = dict \cup {k}
        /\ UNCHANGED status
  /\ raced' = (raced \/ Racing(k))
  /\ thread' = [thread EXCEPT ![k] = "erase"]
  /\ UNCHANGED <<sn, id2id_map, suppress_invalid, ddsVars, callerVars, kind, source>>

(* dict.erase(identity).  Mutant: the entry outlives the thread.           *)
MutantWithout(k) == dict
Without(k) == dict \ {k}

ThreadErase(k) ==
  /\ thread[k] = "erase"
  /\ ModifyDict(k, Without(k))
  /\ thread' = [thread EXCEPT ![k] = "done"]
  /\ UNCHANGED <<sn, id2id_map, suppress_invalid, ddsVars, callerVars,
                 kind, status, source>>

(***************************************************************************)
(* A replier answers a request it was sent, once, at any time: before a    *)
(* wait ends, after it, or never.                                          *)
(***************************************************************************)
Answer(r, k) ==
  /\ k \in 1..writes
  /\ <<k, r>> \notin answered
  /\ \E valid \in ReplyValidity : queue' = queue \cup {[req |-> k, from |-> r, valid |-> valid]}
  /\ answered' = answered \cup {<<k, r>>}
  /\ UNCHANGED <<implVars, writes, callerVars, callVars>>

(* What a caller does once it has begun a call.                            *)
CallerStep(c) ==
  \/ StampSn(c) \/ Write(c) \/ StoreMapping(c)
  \/ FindMapping(c) \/ WaitForReplies(c) \/ TakeOwn(c) \/ TakeNothing(c)
  \/ Retry(c) \/ GiveUp(c)
  \/ RegisterPromise(c) \/ SpawnReplyThread(c)

ThreadStep(k) == ThreadWait(k) \/ ThreadTake(k) \/ ThreadComplete(k) \/ ThreadErase(k)

Next ==
  \/ \E c \in Callers :
       \/ \E o \in {"sync", "async"} : ReadSn(c, o)
       \/ SendRaw(c)
       \/ CallerStep(c)
       \/ \E enable \in BOOLEAN : ReceiveNondata(c, enable)
  \/ \E k \in Requests : ThreadStep(k)
  \/ \E r \in Repliers, k \in Requests : Answer(r, k)

Spec == Init /\ [][Next]_vars

(* Threads are scheduled, waits end (they have a timeout), and a replier   *)
(* that is up answers in the end.                                          *)
Fairness ==
  /\ \A c \in Callers : WF_vars(CallerStep(c))
  /\ \A k \in Requests : WF_vars(ThreadStep(k))
  /\ \A r \in Repliers, k \in Requests : WF_vars(Answer(r, k))

FairSpec == Spec /\ Fairness
-----------------------------------------------------------------------------
(* Types of the variables.                                                 *)
TypeOK ==
  /\ sn \in RequestIds
  /\ DOMAIN id2id_map \subseteq RequestIds
  /\ id2id_map \in [DOMAIN id2id_map -> Requests]
  /\ dict \subseteq Requests
  /\ suppress_invalid \in BOOLEAN
  /\ raced \in BOOLEAN
  /\ writes \in 0..MaxRequests
  /\ queue \subseteq Replies
  /\ answered \subseteq Requests \X Repliers
  /\ pc \in [Callers -> {"idle", "stamp", "write", "map", "sent", "wait", "take",
                         "failed", "register", "spawn"}]
  /\ op \in [Callers -> {"none", "sync", "async"}]
  /\ requestId \in [Callers -> RequestIds]
  /\ identity \in [Callers -> 0..MaxRequests]
  /\ kind \in [Requests -> {"none", "sync", "async", "raw"}]
  /\ thread \in [Requests -> {"none", "wait", "take", "complete", "erase",
                              "done", "timedout"}]
  /\ status \in [Requests -> {"unsent", "pending", "value", "error", "abandoned"}]
  /\ source \in [Requests -> 0..MaxRequests]

(* However the unlocked ++sn of several threads interleave, even when two  *)
(* requests carry one requestId, a caller or a future is only ever given   *)
(* the reply to its own request.                                           *)
Correlated == \A k \in Requests : source[k] \in {0, k}

(* Between the correlated wait and the take of a reply thread nobody else  *)
(* takes the reply: "Reply unavailable!" never reaches a future.           *)
ReplyNeverStolen == \A k \in Requests : status[k] # "error"

(* A mapping left in id2id_map is the mapping of a request that was not    *)
(* delivered: asking again for a delivered reply is refused at once and    *)
(* cannot wait for a reply that will not come again.                       *)
MappingLive ==
  \A r \in DOMAIN id2id_map : status[id2id_map[r]] \in {"pending", "abandoned"}

(* As long as no two threads were inside dict at once, dict holds exactly  *)
(* the promises stored and not yet erased; the promise of every waiting    *)
(* reply thread is there when its reply arrives.                           *)
DictAccurate ==
  ~raced => dict = {k \in Requests :
                      /\ kind[k] = "async"
                      /\ thread[k] # "done"
                      /\ \A c \in Callers : ~(pc[c] = "register" /\ identity[c] = k)}

(* A client that only makes blocking calls, and loops, to one replier is   *)
(* not refused: however many waits time out and whatever reply ends them,  *)
(* its mapping is there until its reply is delivered.                      *)
NeverRefused ==
  \A c \in Callers :
    pc[c] \in {"sent", "wait", "take", "failed"} => requestId[c] \in DOMAIN id2id_map

(* No thread is inside dict while another one modifies it: what an         *)
(* unlocked std::map asks of its users.                                    *)
NoDataRace == ~raced

(* The requester implements the abstract call: each request is issued      *)
(* once, ends at most once, and with the answer to that request if with    *)
(* one at all.                                                             *)
Outcome(k) == CASE status[k] = "value" -> "value"
                [] status[k] \in {"error", "abandoned"} -> "failed"
                [] OTHER -> "open"

Call == INSTANCE RpcCall WITH
  Calls <- Requests,
  issued <- 1..writes,
  answered <- {k \in Requests : \E r \in Repliers : <<k, r>> \in answered},
  outcome <- [k \in Requests |-> Outcome(k)],
  value <- [k \in Requests |-> IF status[k] = "value" THEN source[k] ELSE 0]

ImplementsCall == Call!Spec

(* The future of a request whose reply thread was started completes with   *)
(* its reply, unless the thread's wait ran out or dict was raced on: an    *)
(* invalid sample, other replies and other takers do not keep it.          *)
FutureCompletes ==
  \A k \in Requests :
    thread[k] = "wait" ~> (status[k] = "value" \/ thread[k] = "timedout" \/ raced)

(* The loop while (!receive_reply(...)) ends with the reply.               *)
LoopEnds ==
  \A k \in Requests : (kind[k] = "sync" /\ status[k] = "pending") ~> status[k] = "value"

(* future.get() returns: a future of an answered request becomes ready,    *)
(* with the reply or with an exception.                                    *)
FutureReady ==
  \A k \in Requests : thread[k] = "wait" ~> status[k] \in {"value", "error"}
==============================================================================
