------------------------------- MODULE Futures -------------------------------
(***************************************************************************)
(* future_adapter.hpp, built with PPL tasks: promise is a task completion  *)
(* event, future a task, then() hands an adapted closure to the task       *)
(* library.  A task is made from an event, or is the continuation of       *)
(* another task; a continuation is task based, so it runs whatever the     *)
(* outcome of its antecedent.  Values are left out: an outcome is a value, *)
(* an exception or a cancellation.                                         *)
(*                                                                         *)
(* Each operator is one operation on futures, for the program that uses    *)
(* them to call.                                                           *)
(***************************************************************************)
CONSTANTS Promises, Tasks, NoTask, NoPromise

VARIABLES
  event,              \* per promise, "unset" or its outcome
  task,               \* "none", "waiting", "running", "inner" or its outcome
  source,             \* the promise a task was made from, if any
  antecedent,         \* the task then() was called on, if any
  inner               \* the task a continuation returned, if any

futureVars == <<event, task, source, antecedent, inner>>

Done == {"value", "error", "cancelled"}

FuturesInit ==
  /\ event = [p \in Promises |-> "unset"]
  /\ task = [t \in Tasks |-> "none"]
  /\ source = [t \in Tasks |-> NoPromise]
  /\ antecedent = [t \in Tasks |-> NoTask]
  /\ inner = [t \in Tasks |-> NoTask]

(* Mutant: the task has the state of the event.                            *)
MutantGetFuture(p, t) ==
  /\ task[t] = "none"
  /\ task' = [task EXCEPT ![t] = event[p]]
  /\ source' = [source EXCEPT ![t] = p]
  /\ UNCHANGED <<event, antecedent, inner>>
(* promise::get_future: a task that is complete as soon as the event is.   *)
GetFuture(p, t) ==
  /\ task[t] = "none"
  /\ task' = [task EXCEPT ![t] = IF event[p] = "unset" THEN "waiting" ELSE event[p]]
  /\ source' = [source EXCEPT ![t] = p]
  /\ UNCHANGED <<event, antecedent, inner>>

(* An event is set once; what comes later has no effect.                   *)
Open(ps) == {p \in ps : event[p] = "unset"}

(* set_value and set_exception, and the destruction of promises that were  *)
(* never set, which cancels their tasks.                                   *)
Resolve(ps, outcome) ==
  /\ event' = [p \in Promises |-> IF p \in Open(ps) THEN outcome ELSE event[p]]
  /\ task' = [t \in Tasks |-> IF source[t] \in Open(ps) THEN outcome ELSE task[t]]
  /\ UNCHANGED <<source, antecedent, inner>>

(* future::then.                                                           *)
Then(t, u) ==
  /\ task[t] # "none" /\ task[u] = "none"
  /\ task' = [task EXCEPT ![u] = "waiting"]
  /\ antecedent' = [antecedent EXCEPT ![u] = t]
  /\ UNCHANGED <<event, source, inner>>

Runnable(u) == antecedent[u] # NoTask /\ task[antecedent[u]] \in Done

(* The task library calls the closure on a thread of its pool.             *)
Invoke(u) ==
  /\ task[u] = "waiting" /\ Runnable(u)
  /\ task' = [task EXCEPT ![u] = "running"]
  /\ UNCHANGED <<event, source, antecedent, inner>>

(* The closure returns a plain value, or an exception leaves it.           *)
Return(u, outcome) ==
  /\ task[u] = "running"
  /\ task' = [task EXCEPT ![u] = outcome]
  /\ UNCHANGED <<event, source, antecedent, inner>>

(* Mutant: the future is wrapped and not extracted, so nothing waits.      *)
MutantReturnFuture(u, v) ==
  /\ task[u] = "running"
  /\ task' = [task EXCEPT ![u] = "value"]
  /\ inner' = [inner EXCEPT ![u] = v]
  /\ UNCHANGED <<event, source, antecedent>>
(* The closure returns a future: task_extractor moves its task out, and    *)
(* the task library waits for it.                                          *)
ReturnFuture(u, v) ==
  /\ task[u] = "running"
  /\ task' = [task EXCEPT ![u] = "inner"]
  /\ inner' = [inner EXCEPT ![u] = v]
  /\ UNCHANGED <<event, source, antecedent>>

(* It ends as the inner task ended.                                        *)
Unwrap(u) ==
  /\ task[u] = "inner" /\ task[inner[u]] \in Done
  /\ task' = [task EXCEPT ![u] = task[inner[u]]]
  /\ UNCHANGED <<event, source, antecedent, inner>>

(* future::is_ready; get() and wait() return when it is true.              *)
IsReady(t) == task[t] \in Done
-----------------------------------------------------------------------------
(* Types of the variables.                                                 *)
FuturesTypeOK ==
  /\ event \in [Promises -> {"unset"} \cup Done]
  /\ task \in [Tasks -> {"none", "waiting", "running", "inner"} \cup Done]
  /\ source \in [Tasks -> Promises \cup {NoPromise}]
  /\ antecedent \in [Tasks -> Tasks \cup {NoTask}]
  /\ inner \in [Tasks -> Tasks \cup {NoTask}]

Outcome == [t \in Tasks |-> IF task[t] \in {"waiting", "running", "inner"} THEN "pending" ELSE task[t]]

Cells == INSTANCE SingleAssignment WITH
  Futures <- Tasks, NoFuture <- NoTask, outcome <- Outcome, after <- antecedent, bound <- inner

(* Futures are single assignment, in the order in which they were chained. *)
ImplementsCells == Cells!Spec
==============================================================================
