------------------------------ MODULE Lifetime ------------------------------
(***************************************************************************)
(* Who keeps a RequesterImpl alive.  The program (client_rr, client_func)  *)
(* holds a handle, and so does each closure that captured one by value;    *)
(* the implementation goes with the last of them, and the promises in its  *)
(* dict with it.  Its reply threads only have a raw pointer.  A promise in *)
(* dict keeps the continuations of its future, with what they captured.    *)
(*                                                                         *)
(* A chain is send_request_async().then(link).then(last).  In a race chain *)
(* link captures a handle, sends a second request and returns its future   *)
(* (robot_reqrep.cxx:169, robot_func.cxx:179, 122); in a query chain link  *)
(* unpacks the reply (robot_reqrep.cxx:145).  last catches everything.     *)
(***************************************************************************)
EXTENDS Naturals, FiniteSets

CONSTANTS
  NumChains,          \* chains the program starts, one after the other
  Races,              \* those that capture a handle
  Awaited             \* those the program waits for with get()

Chains == 1..NumChains

ASSUME LifetimeAssumption ==
  NumChains \in Nat /\ Races \subseteq Chains /\ Awaited \subseteq Chains

Main == 0                                \* holder of the handle of the program
Requests == Chains \X {"first", "second"}
Steps == Chains \X {"first", "link", "second", "last"}
None == <<0, "none">>

VARIABLES
  event, task, source, antecedent, inner, \* of Futures
  handles,            \* holders of a handle: Main, chains whose closure has one
  dict,               \* promises in the dict of the implementation
  thread,             \* per request, where its reply thread is
  n, at               \* the chain the program is at, and what it does next

INSTANCE Futures WITH
  Promises <- Requests, Tasks <- Steps, NoTask <- None, NoPromise <- None

cellVars == <<event, task, source, antecedent, inner>>
implVars == <<handles, dict, thread>>
mainVars == <<n, at>>
vars == <<cellVars, implVars, mainVars>>

Init ==
  /\ FuturesInit
  /\ handles = {Main}
  /\ dict = {}
  /\ thread = [p \in Requests |-> "none"]
  /\ n = 1
  /\ at = "send"

Alive == handles # {}

First(c) == <<c, "first">>
Link(c) == <<c, "link">>
Second(c) == <<c, "second">>
Last(c) == <<c, "last">>

(* send_request_async: the promise goes into dict, and a reply thread gets *)
(* a pointer to the implementation.                                        *)
SendAsync(p) ==
  /\ GetFuture(p, p)
  /\ dict' = dict \cup {p}
  /\ thread' = [thread EXCEPT ![p] = "waiting"]
  /\ UNCHANGED handles

(* A handle goes; with the last one, the implementation and its promises.  *)
Release(h) ==
  /\ h \in handles
  /\ handles' = handles \ {h}
  /\ IF handles' = {} THEN Resolve(dict, "cancelled") /\ dict' = {}
                      ELSE UNCHANGED <<cellVars, dict>>
  /\ UNCHANGED thread

(***************************************************************************)
(* The program.                                                            *)
(***************************************************************************)
Send ==
  /\ at = "send" /\ n \in Chains
  /\ SendAsync(First(n))
  /\ at' = "link" /\ UNCHANGED n

(* Mutant: the closure captures a reference.                               *)
MutantCapture(c) == UNCHANGED handles
Capture(c) == handles' = IF c \in Races THEN handles \cup {c} ELSE handles

ThenLink ==
  /\ at = "link"
  /\ Then(First(n), Link(n))
  /\ Capture(n)
  /\ at' = "last"
  /\ UNCHANGED <<n, dict, thread>>

ThenLast ==
  /\ at = "last"
  /\ Then(Link(n), Last(n))
  /\ at' = "get"
  /\ UNCHANGED <<n, implVars>>

Get ==
  /\ at = "get"
  /\ n \in Awaited => IsReady(Last(n))
  /\ n' = n + 1 /\ at' = "send"
  /\ UNCHANGED <<cellVars, implVars>>

(* The handle of the program goes out of scope.                            *)
Leave ==
  /\ at = "send" /\ n = NumChains + 1
  /\ Release(Main)
  /\ at' = "left" /\ UNCHANGED n

(***************************************************************************)
(* Continuations, on threads of the pool.                                  *)
(***************************************************************************)
InvokeClosure(c) ==
  /\ \E t \in {Link(c), Last(c)} : Invoke(t)
  /\ UNCHANGED <<implVars, mainVars>>

(* The get() of the closure rethrows what is not a value.                  *)
LinkUnpacks(c) ==
  /\ c \in Races => task[First(c)] # "value"
  /\ Return(Link(c), task[First(c)])
  /\ UNCHANGED <<implVars, mainVars>>

LinkSends(c) ==
  /\ c \in Races
  /\ task[Link(c)] = "running" /\ task[First(c)] = "value"
  /\ SendAsync(Second(c))
  /\ UNCHANGED mainVars

LinkReturns(c) ==
  /\ task[Second(c)] # "none"
  /\ ReturnFuture(Link(c), Second(c))
  /\ UNCHANGED <<implVars, mainVars>>

(* The task library destroys a closure it has called.                      *)
DestroyClosure(c) ==
  /\ task[Link(c)] \in {"inner"} \cup Done
  /\ Release(c)
  /\ UNCHANGED mainVars

UnwrapLink(c) ==
  /\ Unwrap(Link(c))
  /\ UNCHANGED <<implVars, mainVars>>

LastCatches(c) ==
  /\ Return(Last(c), "value")
  /\ UNCHANGED <<implVars, mainVars>>

(***************************************************************************)
(* execute.  A thread that uses the pointer after the implementation is    *)
(* gone is lost: what it does is undefined.                                *)
(***************************************************************************)
Enter(p, from, to) ==
  /\ thread[p] = from
  /\ thread' = [thread EXCEPT ![p] = IF Alive THEN to ELSE "lost"]
  /\ UNCHANGED <<handles, mainVars>>

(* wait_for_replies and take_reply.                                        *)
ThreadTakes(p) == Enter(p, "waiting", "taken") /\ UNCHANGED <<cellVars, dict>>
ThreadTimesOut(p) == Alive /\ Enter(p, "waiting", "timedout") /\ UNCHANGED <<cellVars, dict>>

ThreadSets(p) ==
  /\ Enter(p, "taken", "set")
  /\ IF Alive THEN Resolve({p}, "value") ELSE UNCHANGED cellVars
  /\ UNCHANGED dict

(* An exception of take_reply, or of set_value before or after it took     *)
(* effect.                                                                 *)
ThreadThrows(p) ==
  /\ Alive /\ Enter(p, "taken", "catch")
  /\ Resolve({p}, "value") \/ UNCHANGED cellVars
  /\ UNCHANGED dict

SetException(p) == Resolve({p}, "error")

(* Mutant: the handler returns, and nothing is set or erased.              *)
MutantThreadCatches(p) == Enter(p, "catch", "end") /\ UNCHANGED <<cellVars, dict>>
ThreadCatches(p) ==
  /\ Enter(p, "catch", "set")
  /\ IF Alive THEN SetException(p) ELSE UNCHANGED cellVars
  /\ UNCHANGED dict

(* A promise that was never set is destroyed unset.                        *)
ThreadErases(p) ==
  /\ Enter(p, "set", "end")
  /\ IF Alive THEN Resolve({p}, "cancelled") /\ dict' = dict \ {p}
              ELSE UNCHANGED <<cellVars, dict>>

Program == Send \/ ThenLink \/ ThenLast \/ Get \/ Leave
Pool(c) ==
  InvokeClosure(c) \/ LinkUnpacks(c) \/ LinkSends(c) \/ LinkReturns(c)
    \/ DestroyClosure(c) \/ UnwrapLink(c) \/ LastCatches(c)
Thread(p) ==
  ThreadTakes(p) \/ ThreadTimesOut(p) \/ ThreadSets(p) \/ ThreadThrows(p)
    \/ ThreadCatches(p) \/ ThreadErases(p)

Next == Program \/ (\E c \in Chains : Pool(c)) \/ (\E p \in Requests : Thread(p))

Spec == Init /\ [][Next]_vars

(* The program, the pool and the reply threads run; a thread that waits    *)
(* for a reply has it or times out.                                        *)
FairSpec ==
  /\ Spec
  /\ WF_vars(Program)
  /\ \A c \in Chains : WF_vars(Pool(c))
  /\ \A p \in Requests : WF_vars(Thread(p))
-----------------------------------------------------------------------------
(* Types of the variables.                                                 *)
TypeOK ==
  /\ FuturesTypeOK
  /\ handles \subseteq {Main} \cup Races
  /\ dict \subseteq Requests
  /\ thread \in [Requests -> {"none", "waiting", "taken", "catch", "set", "end", "timedout", "lost"}]
  /\ n \in 1..(NumChains + 1)
  /\ at \in {"send", "link", "last", "get", "left"}

(* A closure that sends from a pool thread finds its requester, also when  *)
(* the program has dropped its handle and nobody waits for the chain: this *)
(* is what `[requester]' in the capture list is for (robot_reqrep.cxx:169).*)
ContinuationFindsRequester ==
  \A c \in Races : task[Link(c)] = "running" => Alive

(* The raw pointer of a reply thread is good as long as the future it is   *)
(* to complete is open and a handle hangs on that future.                  *)
PointerGood ==
  \A c \in Races : thread[First(c)] \in {"waiting", "taken"} => Alive

(* A future of a chain stays open for ever only when its reply thread      *)
(* timed out; not when the program leaves and the implementation goes.     *)
TimedOut(c) == \E p \in {First(c), Second(c)} : thread[p] = "timedout"
ChainEnds ==
  \A c \in Chains : task[Last(c)] = "waiting" ~> (IsReady(Last(c)) \/ TimedOut(c))

(* The ring of implementation, promise, closure and handle is broken when  *)
(* the closure has run, so that the implementation goes in the end, unless *)
(* a reply thread timed out.                                               *)
Reclaimed == at = "left" ~> (~Alive \/ \E c \in Races : TimedOut(c))
==============================================================================
