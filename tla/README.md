# RPC over DDS: a TLA+ model

This directory holds a verification development of the C++ reference
implementation of RPC over DDS in `src/`: TLA+ modules translated from the
source, TLC configurations that check them on small instances, and TLAPS proofs
of what matters most for every instance.

    tlc -config MCRequester_threads.cfg MCRequester      # a run
    tlapm RequesterProofs.tla                            # the proofs

`PROJECT.json` lists the components, the runs, the source lines every definition
stands for, the hazards of the code and the disagreements found between the code
and what its comments and tests say.

## 1. The system

A *client* process calls a *service* in another process over DDS. There are two
APIs, and the second is built on the first.

    robot_func.cxx / robot_reqrep.cxx            example programs
      ClientImpl<RobotControl>     Dispatcher<RobotControl>   (RobotControlSupport.cxx)
             |                        ^          ^
             |                        |          | dispatch(timeout), one after the other
             |                        |       ServerImpl       (function_call.cxx)
             v                        v
      RequesterImpl              ReplierImpl                   (request_reply.hpp)
             |    request topic       ^
             +------- Connext --------+                        (not in src/)
             <----- reply topic ------+

| component | state it keeps | operations | interacts with |
|---|---|---|---|
| `RequesterImpl` | `sn`, `id2id_map` (requestId to written identity), `dict` (identity to promise), `suppress_invalid` | `send_request` (three forms), `send_request_async`, `receive_reply`, `receive_nondata_samples`, `execute` (the thread of one asynchronous request) | Connext writer and reader; the futures; all callers' threads |
| `ReplierImpl` | `suppress_invalid` | `receive_request`, `send_reply` | Connext; the dispatcher |
| `ServerImpl` | list of dispatchers | `register_service`, `run()`, `run(timeout)`, `close` | calls `dispatch` of each dispatcher in turn |
| `Dispatcher<RobotControl>` | its replier, the robot | `dispatch`, `do_command`, `do_getSpeed`, `do_setSpeed`, `do_getStatus` | replier, robot, `unique_data` |
| `MyRobot` | `speed_` | `command`, `getSpeed`, `setSpeed` (throws `TooFast`), `getStatus` | called by the dispatcher |
| `server_func` | the loop around `run` | - | server |
| `ClientImpl<RobotControl>` | its requester | four synchronous stubs, four asynchronous ones, whose `then` continuations unpack replies | requester, futures |
| `future` / `promise` | PPL task and event | `set_value`, `set_exception`, `get`, `then`, unwrapping, `await` | reply threads, continuations |
| entities and parameters | shared implementation pointers, parameter blocks | copy, bind, close, wait_for_service (mostly empty bodies) | all of the above |
| `DefaultDomainParticipant` | one lazily created participant | `singleton`, `set_domainid` | parameters |
| example clients, `server_rr` | robot speed, local variables | retry loops, `speedup_until_maxspeed`, assertions | requester / client stubs |

### What is hard

*The client side is multithreaded and unlocked.* `send_request_async` starts one
thread per request; continuations of futures run on pool threads and send the
next request from there. `++sn`, `id2id_map` and `dict` are shared by all of
them without a lock. Only the Connext writer and reader are thread safe.

*A wait and the take that follows it are two calls.* `receive_reply` waits for
**any** reply and then takes **its own**; `execute` waits for its own and takes
its own.

*Timeouts race late answers.* A reply may arrive before a wait, during it,
after it timed out, or never. The synchronous request keeps a mapping so that a
retry finds the late reply; the asynchronous one gives up after 60 seconds.

*There may be several repliers*: nothing binds a requester to one of them, so
one request may have several replies.

*One server thread serves every service*, waiting out a timeout at each idle
one, and any exception ends it.

*Failure in the middle*: a reply without data, a reply that cannot be allocated,
a refused speed, a thread that cannot be created.

### What makes the components correct

- Requester: whatever the threads do, a caller or future gets the reply to its
  own request only (`Correlated`); a reply a thread waited for is not taken by
  another (`ReplyNeverStolen`); a mapping does not outlive the delivery and does
  not end before it (`MappingLive`, `NeverRefused`, `LoopEnds`); the promise of a pending reply
  thread is in `dict` (`DictAccurate`); futures complete (`FutureCompletes`,
  `FutureReady`).
- Server, dispatcher, replier, robot: each request is served at most once and
  indivisibly (`ImplementsRobotControl`), none is lost on the way
  (`NoRequestDropped`), each reply is right for the requests that reached the same
  service before (`ServedInOrder`), no service starves another (`BoundedOvertaking`,
  `EveryRequestAnswered`).
- Function-call client: speeds are read and set in the order the requests
  reached the robot (`SpeedsInOrder`), a refusal reaches the call that was refused
  (`TooFastReported`), and a stub that ends without its reply goes back to a
  timeout, not necessarily its own, or to an asynchronous call on the same
  requester (`FailureExplained`).
- Programs: the blocking tests see the robot they expect (`AssertionsHold`,
  `ReadsOwnWrite`), speeding up ends at the top whatever unawaited chains do
  (`ProgramEnds`, `AtTop`).
- Futures: an outcome is given once, after that of the antecedent, and is the
  one of the inner future if there is one (`ImplementsCells`); chains end
  (`ChainEnds`).
- Lifetime: an implementation is there while a thread needs it
  (`ContinuationFindsRequester`, `PointerGood`) and goes in the end (`Reclaimed`).
- Entities: parameter objects are values (`ImplementsValues`), a client tells its
  parameters truly (`ClientParamsTrue`), entities without a participant meet in
  one (`DefaultShared`), a server keeps its services (`RegisteredServed`).

## 2. The modules

| module | what it is |
|---|---|
| `RpcCall` | abstract: issue, answer, and end of a call, at most once each |
| `Requester` | `RequesterImpl`, its callers, its reply threads, and the Connext writer and reader they share |
| `MCRequester` + five `.cfg` | instances of `Requester` |
| `RequesterProofs` | theorems about `Requester`, for all constants |
| `RobotControl` | abstract: the robot service with atomic operations |
| `Service` | `ServerImpl`, `Dispatcher`, `ReplierImpl`, `MyRobot` and `server_func` on one thread |
| `MCService` + `MCService_robots.cfg` | an instance of `Service` |
| `ServiceProofs` | theorems about `Service`, for all constants |
| `RobotSystem` | `ClientImpl<RobotControl>`: `Requester` and `Service` joined by the stubs |
| `MCRobotSystem` + `MCRobotSystem_stubs.cfg` | an instance of `RobotSystem` |
| `RobotSystemProofs` | theorems about `RobotSystem`, for all constants, from those about its two halves |
| `ReqRepRobot` | the programs `client_rr` and `server_rr` |
| `MCReqRepRobot` + `MCReqRepRobot_program.cfg` | an instance of `ReqRepRobot` |
| `ReqRepRobotProofs` | theorems about `ReqRepRobot`, for all constants |
| `FuncProgram` | the program `client_func` and the robot of `server_func` |
| `MCFuncProgram` + `MCFuncProgram_doubling.cfg` | an instance of `FuncProgram` |
| `FuncProgramProofs` | theorems about `FuncProgram`, for all constants |
| `SingleAssignment` | abstract: futures that are given an outcome once |
| `Futures` | `promise`, `future` and `then` of future_adapter.hpp; no program of its own |
| `Lifetime` | chains of continuations over `Futures`, reply threads, and the handles that keep their `RequesterImpl` |
| `MCLifetime` + `MCLifetime_chains.cfg` | an instance of `Lifetime` |
| `LifetimeProofs` | theorems about `Lifetime` and `Futures`, for all constants |
| `ParamValues` | abstract: parameter objects as values |
| `Params` | the parameter classes, with a block of parameters behind each `impl_` |
| `Entities` | `Client`, `Server` and `Service` handles, what they share, `DefaultDomainParticipant` |
| `MCEntities` + `MCEntities_handles.cfg` | an instance of `Entities` |
| `EntitiesProofs` | theorems about `Entities` and `Params`, for all constants |

### Requester

A request is named by the identity the writer hands out (1, 2, ...). What the
header carries is the value of `sn` stamped on it, and the two differ as soon as
two threads interleave in `++sn`, or a request is sent around it, or the low part
of `sn`, which is all that `operator <` of common.cxx compares, has wrapped around
(`Low`, with `SnValues` values, 2^32 in the code). Every access
to shared memory that another thread can come between is a step of its own:

| code | actions |
|---|---|
| `send_request(Sample)` | `ReadSn`, `StampSn`, `Write`, `StoreMapping` |
| `send_request(WriteSampleRef)` | `SendRaw` |
| `receive_reply(reply, requestId, timeout)` | `FindMapping`, `WaitForReplies`, `TakeOwn` or `TakeNothing` |
| retry loops of robot_reqrep.cxx; one call in the stubs | `Retry`; `GiveUp` |
| `send_request_async` | `ReadSn`, `StampSn`, `Write`, `RegisterPromise`, `SpawnReplyThread` |
| `execute` | `ThreadWait`, `ThreadTake`, `ThreadComplete`, `ThreadErase` |
| Connext and a replier | `Answer` |

A wait that ends without what it waits for is a timeout; it may happen at any
time. `SpawnReplyThread` fails silently when the limit of threads is reached,
as the code ignores the result of `RTIOsapiThread_new`. `TakeNothing` chooses
`valid_data` freely: the code reads the flag of the caller's sample although
nothing was written to it.

*Unlocked `dict`.* A thread is inside `dict` while it is at the program point of
an access. An access that overlaps a modification is undefined: the model then
lets a modification leave any part of the entries and a lookup miss its own, and
records it in `raced`. Not modelled is that undefined behaviour may also crash
the process. `NoDataRace` shows that the overlap is reachable;
`DictAccurate` and `FutureCompletes` say what holds up to the first one, and
`Correlated` and `ImplementsCall` hold even after it.

`id2id_map` is also unlocked; it is used by blocking calls only, which in this
repository are made by the main thread. This is the assumption
`\A a, b \in SyncCallers : a = b`.

### Service

One thread visits service 1, 2, ... in order. A visit takes the head of the
reader (`Receive`), runs one branch of `dispatch` (`DoCommand` ...
`DoUnknown`) and sends (`SendReply`), or waits out the timeout
(`ReceiveTimeout`). `RunBegin` and `RunEnd` are the loop of `server_func`
around `run`. `AllocationFails` is an exception of `unique_data`, which nothing
below `server_func` catches. Requests arrive at any time, in any order, for any
service. `command` and `getStatus` have no effect but their reply.

### RobotSystem

`RobotSystem` instantiates `Requester` and `Service` and owns the variables of
both. A `Write` of the requester is at once an `Arrive` of the service
(`SendCall`), and a `SendReply` of the service an `Answer` to the requester:
requests reach the service in the order written, as they do from one reliable
DDS writer. All other steps of either side leave the other alone. What is added
is the code above them: which operation a stub sends (`BeginCall`), what it
makes of the reply (`Unpack` for the synchronous ones, `Get` for the
continuations of the asynchronous ones), and what it does when `receive_reply`
returned false, which no stub looks at (`NoReply`). `Wait` is the wait for replies
of a stub; the history variable `expired` records the calls for which it ended with
the timeout rather than with some reply. `getStatus` reads a member
its reply does not set; both outcomes are allowed. `OtherClient` stands for a
second process: only its requests are there. Programs call stubs in any order,
so every program of `robot_func.cxx` is among the behaviours. The argument of
`command` is left out (`command_async` does not send it).

### ReqRepRobot

`client_rr` (built with PPL tasks and await) is the thread `Main`, in `test`
after `test`, and one thread per chain of continuations. `AskSpeed`,
`AskForMore`, `GotOldSpeed` and `NextRound` are a round of the blocking tests
and of `test_await`; `StartChain` and `Continue` are the chains of the two
asynchronous tests, which nobody waits for; `BeginAwait` sends the `setSpeed(0)`
whose future is thrown away. `ReceiveRequest` and `ProcessRequest` are the loop
of `server_rr`, whose Robot, unlike the one of robot_func.cxx, falls to 0 when
it refuses. The module stands on what is shown of `Requester`: a thread gets the
reply to its own call. It assumes that no reply takes longer than its wait;
otherwise the client stands still in `get()` (run requester_late) or, in
`test_synchronous_api`, only tries again.

### FuncProgram

`Main` is `client_func` with the continuations it waits for, in `test` after
`test`: `SyncSet` to `EndSync` are `test_synchronous`; `StartChain`,
`ContinueGet` and `ContinueSet` the chains of `test_asynchronous`, which nobody
waits for; `Reset` to `GotOldSpeed` are both `test_recursive` with
`speedup_until_maxspeed` and `test_iterative_await`, which differ in their
increment and in what they make of the old speed that `setSpeed_async` yields:
the recursion decides on it, the loop does not look at it. `Uncaught` is a
`TooFast` that would pass all continuations and end `client_func`. `Dispatch` is
the server. Like `ReqRepRobot` the module stands on what is shown of the layers
below and assumes that replies come in time. That does not make a blocking stub
safe: both ways to speed up begin with a blocking `setSpeed(0)` on the requester
that the chains are using, and any reply ends its wait. In `ResetUnanswered` that
is the reply to a chain: the stub takes nothing and throws `runtime_error`, and
`client_func` is over (`test` is "unanswered") while its request is still on its
way and the chains go on. `test_synchronous` is blocking too, but comes before the
chains. `alone` is a history variable.

### Futures and Lifetime

`Futures` has one operator per operation of future_adapter.hpp, in its PPL branch:

| code | operator |
|---|---|
| `promise::get_future` | `GetFuture` |
| `set_value`, `set_exception`; a promise destroyed unset | `Resolve`, for one promise or for all of `dict` |
| `future::then` | `Then` |
| the closure of `then`, called by the task library | `Invoke`, `Return` |
| `task_extractor`, for a closure that returns a future | `ReturnFuture`, `Unwrap` |
| `is_ready`, `get` | `IsReady` |

An outcome is a value, an exception or a cancellation; `Open` is the rule that
an event is set once, so that a `set_exception` after a `set_value` that threw
changes nothing.

`Lifetime` calls them. The program sends a request, chains a *link* and a *last*
continuation to it (`Send`, `ThenLink`, `ThenLast`), waits or not (`Get`) and at
last drops its handle (`Leave`). In a race chain the link has captured a handle by
value (`Capture`), sends a second request from its pool thread (`LinkSends`) and
returns its future. `DestroyClosure` is where the captured handle goes: the
task library destroys a closure after it has called it, which may be any time
later. When the last handle goes so does the `RequesterImpl` (`Release`), and
with it `dict` and the promises in it, whose futures end cancelled. The reply
threads (`ThreadTakes` to `ThreadErases`) have a raw pointer only; one that uses
it afterwards is put at `lost` and does nothing any more, the mildest outcome of
undefined behaviour. That point is reached: a reply thread still has to erase
its promise when `set_value` has let the last handle go, and nobody holds a
handle for a chain that has captured none. `PointerGood` says where the pointer
is safe: before the promise of a race chain's first request is set.

### Params and Entities

`Params`: each object has an `impl_`, here a block on a small heap. The default
constructors and assignments make a new block (`New`, `Copy`), the setters write
through the pointer (`Set`). `ParamValues` knows no blocks; the refinement says
that the code cannot make an operation on one object show in another.

`Entities` lets a program do anything in any order: set, reset and assign parameters
(`SetParams`, `ResetParams`, `AssignParams`), `set_domainid`, ask for the default
participant as `robot_test` does (`AskDefault`), make a client, a server and
a service from parameters or without (`ClientWith`, `ClientDefault`,
`ServerDefault`, `ServerWith`, `ServiceWith`), copy and drop handles (`CopyHandle`,
`DropHandle`). Each constructor may fail: `create_participant` returns NULL,
or Connext throws. A client keeps its own copy of the parameters; a server
shares its services, and they go with it (`Lost`).

## 3. What is checked

Passing runs:

| run | instance | shows |
|---|---|---|
| requester_threads | main makes both kinds of calls and may give up, a pool thread makes asynchronous ones, 3 requests, 2 reply threads, `sn` wraps | `Correlated`, `ReplyNeverStolen`, `DictAccurate` over 3 million states |
| requester_replies | 2 repliers, replies with and without data, an impatient caller, an uncorrelated sender, 1 reply thread | `TypeOK`, `MappingLive`, `ImplementsCall` (refinement of `RpcCall`), `FutureCompletes` |
| requester_loop | one caller, one replier, 5 requests, any number of timeouts | `NeverRefused`, `LoopEnds` |
| service_robots | 3 services, 3 requests, every operation | `TypeOK`, `NoRequestDropped`, `BoundedOvertaking`, `ServedInOrder`, `ImplementsRobotControl` (refinement), `EveryRequestAnswered` |
| system_stubs | every stub, sync and async, 2 calls, 1 request of a second client | `SpeedsInOrder`, `TooFastReported`, `FailureExplained` over 1.7 million states |
| reqrep_program | 3 rounds a test, 1 getSpeed chain, 3 race chains, a limit of 3 increments | `TypeOK`, `AssertionsHold`, `ProgramEnds` |
| func_program | 5 rounds, 4 doubling chains, increments of 3 and 1, a limit of 10 | `TypeOK`, `ReadsOwnWrite`, `AtTop`, `ProgramEnds` |
| lifetime_chains | a race chain that is waited for, one that is not | `TypeOK`, `ContinuationFindsRequester`, `PointerGood`, `ImplementsCells` (refinement of `SingleAssignment`), `ChainEnds`, `Reclaimed` |
| entities | a client, a server, a service, a parameter object of each class, 2 domains | `TypeOK`, `ClientParamsTrue`, `DefaultShared`, `RegisteredServed`, `ImplementsValues` (refinement of `ParamValues`) |

Runs that find a disagreement of the code with its comments or tests (the quotes
are in `PROJECT.json`, "findings"):

| run | property refuted | what happens |
|---|---|---|
| requester_late | `FutureReady` | after 60 seconds the reply thread leaves the future open for ever, also when the reply comes |
| requester_foreign | `LoopEnds` | a second replier's answer to an earlier request ends the wait for the next; nothing is taken, the mapping is erased, and the loop repeats a call that is refused each time (the trace may begin with `receive_nondata_samples`, which client_rr does not call; the `valid_data` left in the loop's sample, robot_reqrep.cxx:20, leads to the same end) |
| requester_race | `NoDataRace` | the reply thread of a request looks up its promise in `dict` while the caller, which waits for nothing, inserts that of its next request |
### Bounds

- `MaxRequests`: 3 are needed for a caller that has delivered a request and
  reuses its requestId while two reply threads run; 2 for a late reply to an
  earlier request and for a replier's duplicate. 5 in requester_loop let a
  retry follow several deliveries.
- `SnValues`: 2, so that the third request takes the `requestId` of the first
  while that one's mapping may still be there.
- `MaxReplyThreads`: 2 for two threads in `dict`; 1 makes thread creation fail.
- Repliers: 2 give a request two replies; a third adds nothing a second does
  not, since all but the first are never taken.
- `NumServices`: 2 for requests crossing between services, 3 to tell "at most
  once each" from "at most once in all".
- In `RobotSystem` 2 calls are the least for a setSpeed that times out and a
  getSpeed after it; `MaxOthers` = 1 is one foreign request before, between or
  after them.
- In `ReqRepRobot` the first blocking test reaches the limit and the second is
  refused in its first round and goes on from 0; three race chains let one that
  read an old speed follow the refusal of another while `test_await` runs.
- In `FuncProgram` the fifth round of the blocking test is the first that is
  refused (1, 2, 4, 8, 16), and leaves the chains a small speed to double; four
  chains let several set the double of one speed, one after the other, at any
  moment of either way to speed up.
- In `Lifetime` a second chain is needed for the program to leave while one
  chain is anywhere in its work and another is through with it.
- In `Entities` one object of each class meets every other; `MaxHandles` 2 tells
  the last handle from the one before; `MaxCreated` 3 and 2 domains let a failing
  creation and a `set_domainid` come before and after the default is made.
- Speeds 20 and 110 are on either side of `MAX_SPEED` = 100; robots start at 10.

### Observations no run is spent on

The models show these as well.

- `run()` returns after one visit to each service, where normative/function_call.h:196
  says it blocks; `server_func` calls it in a loop. `run(max_wait)` gives the
  whole of `max_wait` to each service in turn.
- `send_reply` overwrites the `remoteEx` the dispatcher has set: an unknown operation
  is answered with `REMOTE_EX_OK`. No client of the repository sends one.
- The stub `command` announces its reply also after a timeout
  (RobotControlSupport.cxx:381).
- `Server(params)` keeps the participant of its parameters, also if that is NULL,
  where `Server()` asks for the default one or throws; the server never uses it.
- The assertions of robot_reqrep.cxx:62 and robot_func.cxx:257 (the old speed
  setSpeed returns is the speed read before) hold for a program alone with its
  robot (`SpeedsInOrder`, `AssertionsHold`), and fail as soon as a second client
  drives it in between.
- A reply thread may use its `RequesterImpl` after it is gone (thread state `lost`
  of `Lifetime`): it has still to erase its promise when `set_value` has made the
  last handle go, and second requests and query chains keep no handle. And a
  reply thread that times out leaves a ring of implementation, promise, closure
  and handle that nobody breaks (the exception in `Reclaimed`).
- Any reply ends the wait of a blocking stub, whose take then finds nothing: a
  reply to an asynchronous call of the same requester, and also the late reply to
  an earlier stub, which nobody takes any more and which therefore ends the wait of
  every later stub at once. So one timeout makes all later blocking calls of a
  `Client` fail unless their own reply is there when they look; `FailureExplained`
  traces each such failure back. `ResetUnanswered` of `FuncProgram` is the same
  with the chains of `test_asynchronous`.
- The race of requester_race has a second form: a reply thread erases its entry
  (272) after it has woken the caller, who may send the next request, and insert
  into `dict`, at once. TLC reports the lookup because it is reached sooner.

Every run but entities says `CHECK_DEADLOCK FALSE`: once the bounded number of
requests is used up and served there is nothing left to do, and a server stopped by
an exception stays stopped. The programs of `Entities` can always go on.

Every property of a passing run has a mutant, a plausible slip in the code that
makes TLC find it violated (`PROJECT.json`, "mutants"). The operators are named
`Mutant...` and stand before the definition they replace.

### Fairness

`Requester!Fairness`: a thread that can take a step does so in the end (the
operating system schedules it, and each wait has a timeout), and a replier that
is up answers. No fairness is assumed of starting new calls, and none of a wait
ending with a reply rather than with its timeout. `Service!FairSpec`: the one
server thread runs; arrivals and allocation failures are never required.
`ReqRepRobot!FairSpec` and `FuncProgram!FairSpec`: the main thread, each chain
and the server run; with replies in time each of their waits ends.
`Lifetime!FairSpec`: the program, the closures of each chain on the pool and each
reply thread run; a reply thread that waits has a reply or times out, and which of
the two is open. `Entities` has no liveness property and no fairness.

## 4. What is proved

`RequesterProofs` proves, for any sets of callers and repliers, any number of
requests and threads and under `RequesterAssumption` alone (the last one also under
`Alone`, below):

| theorem | statement |
|---|---|
| `TypeCorrect` | `Spec => []TypeOK` |
| `CorrelatedHolds` | `Spec => []Correlated` |
| `ReplyNeverStolenHolds` | `Spec => []ReplyNeverStolen` |
| `MappingLiveHolds` | `Spec => []MappingLive` |
| `DictAccurateHolds` | `Spec => []DictAccurate` |
| `RequesterImplementsCall` | `Spec => Call!Spec` |
| `NeverRefusedHolds` | `Alone`, then `Spec => []NeverRefused` |

`TypeOK` is not inductive: `StoreMapping` stores `identity[c]`, which is 0 until
the caller's write. `TypeInv` adds that a caller past its write has an identity
(`HasWritten`).

`Inv` is `TypeInv` with six parts. `IssueInv`: exactly the identities up to
`writes` are issued. `CallerInv`: the request a caller holds is pending, and of
the kind the caller is sending. `UniqueInv`: no two callers hold the same
request on its way into `dict`. `MapInv`: the mapping under a receiving caller's
`requestId` is that caller's request, and no other requestId maps to it; this
is where one blocking caller is needed, because two could stamp the same
`requestId`. `ThreadInv`: a reply thread serves an asynchronous request and,
past its wait, finds its reply; a blocking caller cannot have taken it, since by
`MapInv` it only takes replies to synchronous requests. `AnswerInv`: every reply
in the reader answers an issued request. `dict` does not occur in any part:
the results hold even if races leave `dict` in any state. Nor does the order of the
`requestId`s: they hold whichever values `++sn` yields and however soon it wraps.

`DictAccurate` is inductive together with `Inv`: by `UniqueInv` no two callers
store a promise under one identity, and by `ThreadInv` only the thread of a request
erases it.

The refinement is shown step by step: an action that writes is an `Issue`, a
delivery is a `Deliver`, giving up is a `Fail`, a first answer is an `Answer`,
and everything else is a stutter of `RpcCall`.

`NeverRefused` is the safety half of `LoopEnds`: the retry loop of client_rr never
meets "Unknown dds::SampleIdentity". It needs what `Alone` says of the client
and its surroundings (blocking calls only, no caller that gives up, one replier at most),
as client_rr's test_synchronous_api has it; without it a reply nobody asks for may
end a wait, and the take after it erases the mapping (finding of
requester_foreign). `LoopInv` adds to it that a reply in the reader is one the
caller asks for, that there is at most one per request, and that a request nobody
asks for any more has had its reply (`Asked`); so a take always finds a reply, and
the branch that erases without a delivery is not reached.

`ReqRepRobotProofs` proves, for any numbers of rounds and chains, any limit and
any increment (`ReqRepAssumption`):

| theorem | statement |
|---|---|
| `TypeCorrect` | `Spec => []TypeOK`, with it that the robot stays within its limit |
| `AssertionsCorrect` | `Spec => []AssertionsHold` |

`TypeOK` is inductive: a refusal is what keeps a stale `speed + 10` out of
`speed`. `AssertionsHold` is not: `IInv` adds that in the blocking tests there
is one call at most (`OneCall`), which is in the reader, in work or answered,
and that while a setSpeed is on its way the robot still has the speed that was
read. It rests on the order of the tests: no chain is started before both
blocking tests have ended.

`ServiceProofs` proves, for any services, operations and initial speeds
(`ServiceAssumption`):

| theorem | statement |
|---|---|
| `TypeCorrect` | `Spec => []TypeOK` |
| `NoRequestDroppedHolds` | `Spec => []NoRequestDropped` |
| `BoundedOvertakingHolds` | `Spec => []BoundedOvertaking` |
| `ServedInOrderHolds` | `Spec => []ServedInOrder` |
| `ServiceImplementsRobotControl` | `Spec => ImplementsRobotControl` |

`IInv` adds to them: `Held`, what the thread has in its hands at each program
point; `Named`, requests have ids of their own; `OnePlace`, a request is in
one reader, once, or in work, or answered: without it the refinement could
serve a request twice; `InTurn`, a dispatcher that overtook *s* had its visit after *s*
had one and will not have another before: without it the count in
`BoundedOvertaking` is not inductive.

`ServedInOrder` rests on `OrderInv`, inductive together with `IInv`. `Line`: a
reader holds its requests in the order they arrived, and whatever has left it
arrived before them, so that the requests before the one in work are exactly
those that had their effect (`Done`). `SpeedRight`: a robot has the speed accepted
last among these. `RepliesRight`: a reply, sent or about to be, is right for what had
arrived before its request; what arrives later does not change that
(`SpeedBeforeKept`).

`RobotSystemProofs` proves, for any callers, bounds, operations and speeds
(`RobotSystemAssumption`: what `Requester` and `Service` assume, and that stubs
send the four operations of the interface):

| theorem | statement |
|---|---|
| `RequesterWithin`, `ServiceWithin` | `Spec => R!Spec`, `Spec => S!Spec` |
| `SpeedsInOrderHolds` | `Spec => []SpeedsInOrder` |
| `TooFastReportedHolds` | `Spec => []TooFastReported` |
| `FailureExplainedHolds` | `Spec => []FailureExplained` |
| `SystemImplementsRobotControl` | `Spec => SP!ImplementsRobotControl` |

The argument is compositional. `RP` and `SP` are the proof modules of the two
halves over the variables of `RobotSystem`; a step of the system is a step of each
half or leaves it alone, so `RP!Inv`, `SP!IInv` and `SP!OrderInv` hold without being
proved again. That `ServiceWithin` needs the invariant, and not only the shape of
`Next`, is because a request is filled some steps before it is written: `Sent` says
that it is a proper one by then. What joins the halves is `Sent` (each write of the program
is a request of its own that arrived, and nothing has a result before it is
written) and `Carried` (what the requester counts as answered was replied to).
By `RP!Inv` a stub takes the reply to its own request, by `Carried` that reply is the
one of the service, and by `SP!OrderInv` it is right; `Ended` says so of every
call that has ended, and stays true because later arrivals come after it in the
line.

`FailureExplained` needs `Explanation` besides. A blocking call is under way
(`Blocked`) from its write until it is delivered or given up, there is one at a
time, and all earlier ones have smaller identities. A reply in the reader that ends
its wait is its own, and then the take finds it; or that to an asynchronous call; or
that to an earlier blocking call, which cannot have been delivered, since a delivery
takes its only reply away, so it was given up. That one is explained in its turn: it
ran out of time, or was disturbed by a call that did before it, or by an
asynchronous one, and either of these was answered and explains this call too. `Late`
adds that a stub throws for an unknown response only when it has given up.

`FuncProgramProofs` proves, for any rounds, chains, increments and limit
(`FuncAssumption`):

| theorem | statement |
|---|---|
| `TypeCorrect` | `Spec => []TypeOK`, with it that the robot stays within its limit |
| `ReadsOwnWriteHolds` | `Spec => []ReadsOwnWrite` |
| `AtTopHolds` | `Spec => []AtTop` |
| `NeverRefused` | `Spec => [](test # "refused")`: no request of the program itself is refused while it speeds up |

`IInv` adds: `OneCall`, a thread has one call, on its way or answered;
`Places`, where the program may be in each test, and that there are no chains
in the first; `KnowsSpeed`, what the blocking test knows of the robot; `NotTooFast`,
no request of the program beyond the limit is on its way; `GoesUp`, once the chains
are done the reply the program waits for is the speed of the robot, which
only it changes. `NeverRefused` says nothing of the other exception,
`ResetUnanswered`, which does happen.

`LifetimeProofs` proves, for any number of chains, any of them racing and any
awaited (`LifetimeAssumption`):

| theorem | statement |
|---|---|
| `TypeCorrect` | `Spec => []TypeOK` |
| `ContinuationFindsRequesterHolds` | `Spec => []ContinuationFindsRequester` |
| `PointerGoodHolds` | `Spec => []PointerGood` |
| `LifetimeImplementsCells` | `Spec => ImplementsCells` |

One lemma per operation of `Futures` says what it does to every task as
`SingleAssignment` sees it (`Cell`) and that it keeps `TaskInv`: a task made from
a promise is as its event is, and a continuation that has begun comes after one
that is done. `PointerGood` rests on `SomebodyHolds`: the reply thread of a first
request has its promise unset, so the future is open, so the link, if there is
one, has not begun (`Wiring`, `TaskInv`) and has its handle (`Captured`); and if there
is none yet, the program is between the two calls and has its own
(`Progress`). No handle that goes is one of these.

`EntitiesProofs` proves, for any programs, entities, domains and bounds
(`EntitiesAssumption`):

| theorem | statement |
|---|---|
| `TypeCorrect` | `Spec => []TypeOK`, with it that an entity is gone exactly when it has no references |
| `ClientParamsHold` | `Spec => []ClientParamsTrue` |
| `DefaultSharedHolds` | `Spec => []DefaultShared` |
| `RegisteredServedHolds` | `Spec => []RegisteredServed` |
| `EntitiesImplementValues` | `Spec => ImplementsValues` |

`IInv` adds: `MemoryInv`, no two objects have one block, the objects of the
program exist, and those of clients as long as the client does; `CountInv`, use
counts are the handles and one for the server, of which a service has one at
most, so that a registered service is never counted down to nothing; `Connected`,
what Connext was given is a participant, so that `default` is one by the time
anything uses it and then stays.

Every invariant and every refinement the runs check is proved, for all values of the
constants. Only model-checked are the liveness properties (`LoopEnds`,
`FutureCompletes`, `EveryRequestAnswered`, `ProgramEnds` of both programs, `ChainEnds`
and `Reclaimed`): fairness is beyond the proof system. The three properties
that are refuted need no proof.

## 5. What is left out, and why

- `receive_reply` without a request (uncorrelated): the wrapper is hidden by an
  overload and nothing calls it. `receive_nondata_samples` of the replier:
  nothing calls it.
- `bind`, `unbind`, `wait_for_service`, `close` and the discovery functions: empty
  bodies, no state.
- The Boost branch of future_adapter.hpp, which is not what the programs are
  built with; `shared_future`, whose `share` does not compile; `swap`;
  `has_value` and `has_exception`, which have no body.
- `Service()` and `Service(impl)` of RobotControlSupport.h:84, 87 ("Uses default
  Server"): they have no definition that compiles.
- Parameters other than the participant and the service name: they are set and
  copied in the same way and nothing reads them. The QoS getters return pointers
  into the block of the object, and the setters read through theirs; no program of
  the repository calls them.
- The overflow of `sn` itself, a `long`: where that has 32 bits it is taken to
  wrap, as the builds do.
- Loss below Connext: the QoS is reliable; a reply that never comes is an
  `Answer` that is not taken.
- Command line, QoS file, project files, wire encoding: no behaviour. The headers
  in `normative/` declare what the sources above define.

## 6. Plan

The modules planned at the outset are written, and their safety properties
proved. What remains, in order of what it would add:

1. `ReqRepRobot` and `FuncProgram` over an abstract call rather than a mailbox,
   so that `RpcCall` is what they stand on by a refinement and not by argument.
2. The steps of the liveness arguments that are safety: that what is enabled stays
   enabled until it is taken, and the measures that go down.
