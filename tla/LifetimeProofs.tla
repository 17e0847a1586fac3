--------------------------- MODULE LifetimeProofs ---------------------------
(***************************************************************************)
(* Proofs about Lifetime and, in it, Futures: for any number of chains,    *)
(* whichever of them capture a handle and whichever are waited for.        *)
(***************************************************************************)
EXTENDS Lifetime, TLAPS

(* What a task is made of.                                                 *)
TaskInv(t) ==
  /\ task[t] = "none" => source[t] = None /\ antecedent[t] = None
  /\ source[t] # None =>
       /\ antecedent[t] = None
       /\ task[t] = IF event[source[t]] = "unset" THEN "waiting" ELSE event[source[t]]
  /\ source[t] = None /\ task[t] \notin {"none", "waiting"} =>
       antecedent[t] # None /\ task[antecedent[t]] \in Done
  /\ task[t] \in {"none", "waiting", "running"} => inner[t] = None
  /\ source[t] # None => inner[t] = None
  /\ task[t] = "inner" => inner[t] # None

TasksInv == \A t \in Steps : TaskInv(t)

(* Requests have tasks of their own, continuations have not.               *)
Wiring ==
  /\ \A p \in Requests : task[p] # "none" => source[p] = p
  /\ \A c \in Chains :
       /\ source[Link(c)] = None /\ source[Last(c)] = None
       /\ antecedent[Link(c)] \in {None, First(c)}

(* Where the program is in its chains.                                     *)
Begun(c) == c < n \/ (c = n /\ at \in {"link", "last", "get"})
Linked(c) == c < n \/ (c = n /\ at \in {"last", "get"})
Progress ==
  /\ \A c \in Chains :
       /\ thread[First(c)] # "none" => Begun(c)
       /\ task[Link(c)] # "none" <=> Linked(c)
  /\ at \in {"link", "last", "get"} => n \in Chains
  /\ at # "left" => Main \in handles

(* Handles of closures, and the futures reply threads have to complete.    *)
Captured == \A c \in Races : task[Link(c)] \in {"waiting", "running"} => c \in handles
Unset ==
  /\ \A p \in Requests : thread[p] \in {"none", "waiting", "taken"} /\ Alive => event[p] = "unset"
  /\ \A p \in Requests : thread[p] # "none" => task[p] # "none"

IInv == TypeOK /\ TasksInv /\ Wiring /\ Progress /\ Captured /\ Unset /\ PointerGood
-----------------------------------------------------------------------------
LEMMA Names ==
  /\ None \notin Steps /\ Requests \subseteq Steps /\ None \notin Requests
  /\ \A c \in Chains :
       /\ First(c) \in Requests /\ Second(c) \in Requests
       /\ Link(c) \in Steps \ Requests /\ Last(c) \in Steps \ Requests
       /\ Link(c) # Last(c) /\ First(c) # Second(c)
  /\ \A c, d \in Chains :
       /\ First(c) # Second(d) /\ Link(c) # Last(d)
       /\ c # d => First(c) # First(d) /\ Link(c) # Link(d) /\ Last(c) # Last(d)
  /\ Main \notin Chains
BY LifetimeAssumption DEF Steps, Requests, None, First, Second, Link, Last, Chains, Main

FutureTypes == FuturesTypeOK /\ TasksInv

(***************************************************************************)
(* What each operation on futures keeps, and how it looks to SingleAssign- *)
(* ment.                                                                   *)
(***************************************************************************)
Cell(t) == Cells!Stay(t) \/ Cells!Make(t) \/ Cells!Bind(t) \/ Cells!Settle(t)
EachCell == \A t \in Steps : Cell(t)

LEMMA OutcomeIs ==
  \A t \in Steps : Outcome[t] = IF task[t] \in {"waiting", "running", "inner"} THEN "pending" ELSE task[t]
BY DEF Outcome

LEMMA SameCells ==
  ASSUME FutureTypes, UNCHANGED cellVars
  PROVE  FutureTypes' /\ EachCell
<1>1. FutureTypes'
  BY DEF FutureTypes, FuturesTypeOK, TasksInv, TaskInv, cellVars
<1>2. Outcome' = Outcome
  BY DEF Outcome, cellVars
<1> QED BY <1>1, <1>2 DEF EachCell, Cell, Cells!Stay, cellVars

LEMMA GetFutureCells ==
  ASSUME FutureTypes, NEW p \in Requests, NEW t \in Steps, GetFuture(p, t)
  PROVE  FutureTypes' /\ EachCell
<1> USE Names
<1>1. /\ FuturesTypeOK'
      /\ \A u \in Steps : u # t => task'[u] = task[u] /\ source'[u] = source[u]
      /\ task'[t] = IF event[p] = "unset" THEN "waiting" ELSE event[p]
      /\ source'[t] = p /\ task[t] = "none"
      /\ UNCHANGED <<event, antecedent, inner>>
  BY DEF GetFuture, FutureTypes, FuturesTypeOK, Done
<1>2. ASSUME NEW u \in Steps PROVE TaskInv(u)'
  <2>0. TaskInv(u) /\ TaskInv(t)
    BY DEF FutureTypes, TasksInv
  <2>1. CASE u = t
    BY <1>1, <2>0, <2>1 DEF TaskInv, FutureTypes, FuturesTypeOK, Done
  <2>2. CASE u # t
    <3>1. antecedent[u] # None => antecedent[u] \in Steps
      BY DEF FutureTypes, FuturesTypeOK
    <3> QED BY <1>1, <2>0, <2>2, <3>1 DEF TaskInv, Done
  <2> QED BY <2>1, <2>2
<1>3. ASSUME NEW u \in Steps PROVE Cell(u)
  <2>1. CASE u = t
    <3>1. Outcome[u] = "none" /\ Outcome'[u] \in {"pending"} \cup Done
      BY <1>1, <2>1 DEF Outcome, FutureTypes, FuturesTypeOK, Done
    <3> QED BY <1>1, <3>1 DEF Cell, Cells!Make, Cells!Settled, Done
  <2>2. CASE u # t
    BY <1>1, <2>2 DEF Cell, Cells!Stay, Outcome
  <2> QED BY <2>1, <2>2
<1> QED BY <1>1, <1>2, <1>3 DEF FutureTypes, TasksInv, EachCell

LEMMA ResolveCells ==
  ASSUME FutureTypes, NEW ps \in SUBSET Requests, NEW outcome \in Done, Resolve(ps, outcome)
  PROVE  FutureTypes' /\ EachCell
<1> USE Names
<1>1. /\ FuturesTypeOK'
      /\ \A p \in Requests : event'[p] = IF p \in ps /\ event[p] = "unset" THEN outcome ELSE event[p]
      /\ \A t \in Steps : task'[t] = IF source[t] \in ps /\ event[source[t]] = "unset" THEN outcome ELSE task[t]
      /\ UNCHANGED <<source, antecedent, inner>>
  BY DEF Resolve, Open, FutureTypes, FuturesTypeOK
<1>2. ASSUME NEW t \in Steps
      PROVE  /\ TaskInv(t)
             /\ source[t] # None => source[t] \in Requests
             /\ antecedent[t] # None => antecedent[t] \in Steps
             /\ source[t] \in ps /\ event[source[t]] = "unset" => task[t] = "waiting"
             /\ outcome # "unset" /\ outcome \notin {"none", "waiting", "running", "inner"}
  BY DEF FutureTypes, TasksInv, FuturesTypeOK, TaskInv, Done
<1>3. ASSUME NEW t \in Steps, task[t] \in Done PROVE task'[t] = task[t]
  BY <1>1, <1>2, <1>3 DEF Done
<1>4. ASSUME NEW t \in Steps PROVE TaskInv(t)'
  <2>1. CASE source[t] \in ps /\ event[source[t]] = "unset"
    BY <1>1, <1>2, <2>1 DEF TaskInv
  <2>2. CASE ~(source[t] \in ps /\ event[source[t]] = "unset")
    BY <1>1, <1>2, <1>3, <2>2 DEF TaskInv
  <2> QED BY <2>1, <2>2
<1>5. ASSUME NEW t \in Steps PROVE Cell(t)
  <2>1. CASE source[t] \in ps /\ event[source[t]] = "unset"
    <3>1. Outcome[t] = "pending" /\ Outcome'[t] = outcome /\ antecedent[t] = None /\ inner[t] = None
      BY <1>1, <1>2, <2>1 DEF Outcome, TaskInv
    <3> QED BY <1>1, <3>1 DEF Cell, Cells!Settle, Cells!Settled, Done
  <2>2. CASE ~(source[t] \in ps /\ event[source[t]] = "unset")
    BY <1>1, <2>2 DEF Cell, Cells!Stay, Outcome
  <2> QED BY <2>1, <2>2
<1> QED BY <1>1, <1>4, <1>5 DEF FutureTypes, TasksInv, EachCell

LEMMA ThenCells ==
  ASSUME FutureTypes, NEW t \in Steps, NEW u \in Steps, Then(t, u)
  PROVE  FutureTypes' /\ EachCell
<1> USE Names
<1>1. /\ FuturesTypeOK'
      /\ \A v \in Steps : v # u => task'[v] = task[v] /\ antecedent'[v] = antecedent[v]
      /\ task'[u] = "waiting" /\ antecedent'[u] = t /\ task[u] = "none"
      /\ UNCHANGED <<event, source, inner>>
  BY DEF Then, FutureTypes, FuturesTypeOK, Done
<1>2. ASSUME NEW v \in Steps PROVE TaskInv(v)'
  <2>0. TaskInv(v) /\ TaskInv(u) /\ (antecedent[v] # None => antecedent[v] \in Steps)
    BY DEF FutureTypes, TasksInv, FuturesTypeOK
  <2>1. CASE v = u
    BY <1>1, <2>0, <2>1 DEF TaskInv
  <2>2. CASE v # u
    BY <1>1, <2>0, <2>2 DEF TaskInv, Done
  <2> QED BY <2>1, <2>2
<1>3. ASSUME NEW v \in Steps PROVE Cell(v)
  <2>1. CASE v = u
    <3>1. Outcome[v] = "none" /\ Outcome'[v] = "pending"
      BY <1>1, <2>1 DEF Outcome
    <3> QED BY <1>1, <3>1 DEF Cell, Cells!Make
  <2>2. CASE v # u
    BY <1>1, <2>2 DEF Cell, Cells!Stay, Outcome
  <2> QED BY <2>1, <2>2
<1> QED BY <1>1, <1>2, <1>3 DEF FutureTypes, TasksInv, EachCell

(* A continuation that goes on: nothing but its own state changes.         *)
LEMMA GoesOn ==
  ASSUME FutureTypes, NEW u \in Steps, task[u] \in {"waiting", "running", "inner"},
         NEW new \in {"running", "inner"} \cup Done, task' = [task EXCEPT ![u] = new],
         source[u] = None,
         inner' = [inner EXCEPT ![u] = inner'[u]],
         inner'[u] \in Steps \cup {None},
         new = "inner" => inner'[u] # None,
         new = "running" => inner'[u] = None,
         antecedent[u] # None, task[antecedent[u]] \in Done,
         UNCHANGED <<event, source, antecedent>>
  PROVE  FutureTypes'
<1> USE Names
<1>1. /\ FuturesTypeOK'
      /\ \A v \in Steps : v # u => task'[v] = task[v] /\ inner'[v] = inner[v]
      /\ task'[u] = new
  BY DEF FutureTypes, FuturesTypeOK, Done
<1>2. ASSUME NEW v \in Steps PROVE TaskInv(v)'
  <2>0. TaskInv(v) /\ TaskInv(u) /\ (antecedent[v] # None => antecedent[v] \in Steps)
    BY DEF FutureTypes, TasksInv, FuturesTypeOK
  <2>1. antecedent[v] # None /\ task[antecedent[v]] \in Done => task'[antecedent[v]] \in Done
    BY <1>1, <2>0 DEF Done
  <2>2. CASE v = u
    BY <1>1, <2>0, <2>1, <2>2 DEF TaskInv, Done
  <2>3. CASE v # u
    BY <1>1, <2>0, <2>1, <2>3 DEF TaskInv
  <2> QED BY <2>2, <2>3
<1> QED BY <1>1, <1>2 DEF FutureTypes, TasksInv

LEMMA RunsAfter ==
  ASSUME FutureTypes, NEW u \in Steps, source[u] = None, task[u] \in {"running", "inner"}
  PROVE  /\ antecedent[u] \in Steps /\ task[antecedent[u]] \in Done
         /\ task[u] = "running" => inner[u] = None
         /\ task[u] = "inner" => inner[u] \in Steps
BY Names DEF FutureTypes, TasksInv, TaskInv, FuturesTypeOK

LEMMA InvokeCells ==
  ASSUME FutureTypes, NEW u \in Steps, source[u] = None, Invoke(u)
  PROVE  FutureTypes' /\ EachCell
<1>1. /\ task[u] = "waiting" /\ task' = [task EXCEPT ![u] = "running"]
      /\ antecedent[u] # None /\ task[antecedent[u]] \in Done
      /\ UNCHANGED <<event, source, antecedent, inner>>
  BY DEF Invoke, Runnable
<1>2. inner[u] = None /\ inner' = [inner EXCEPT ![u] = inner'[u]]
  BY <1>1 DEF FutureTypes, TasksInv, TaskInv, FuturesTypeOK
<1>3. FutureTypes'
  BY <1>1, <1>2, GoesOn
<1>4. Outcome' = Outcome
  BY <1>1 DEF Outcome, FutureTypes, FuturesTypeOK
<1> QED BY <1>1, <1>3, <1>4 DEF EachCell, Cell, Cells!Stay

(* A continuation settles, with the outcome of its inner task if it has one. *)
LEMMA SettleCells ==
  ASSUME FutureTypes, NEW u \in Steps, source[u] = None, task[u] \in {"running", "inner"},
         NEW outcome \in Done, task' = [task EXCEPT ![u] = outcome],
         inner[u] # None => task[inner[u]] = outcome,
         UNCHANGED <<event, source, antecedent, inner>>
  PROVE  FutureTypes' /\ EachCell
<1> USE Names
<1>1. /\ antecedent[u] \in Steps /\ task[antecedent[u]] \in Done
      /\ inner[u] # None => inner[u] \in Steps
  BY RunsAfter DEF FutureTypes, FuturesTypeOK
<1>2. inner[u] \in Steps \cup {None} /\ inner' = [inner EXCEPT ![u] = inner'[u]] /\ inner'[u] = inner[u]
  BY DEF FutureTypes, FuturesTypeOK
<1>3. outcome # "inner" /\ outcome # "running"
  BY DEF Done
<1>4. FutureTypes'
  BY <1>1, <1>2, <1>3, GoesOn
<1>5. \A v \in Steps : task'[v] = IF v = u THEN outcome ELSE task[v]
  BY DEF FutureTypes, FuturesTypeOK
<1>6. ASSUME NEW v \in Steps PROVE Cell(v)
  <2>1. CASE v # u
    BY <1>5, <2>1 DEF Cell, Cells!Stay, Outcome
  <2>2. CASE v = u
    <3>1. Outcome[u] = "pending" /\ Outcome'[u] = outcome
      BY <1>5 DEF Outcome, Done
    <3>2. Outcome[antecedent[u]] \in Done
      BY <1>1 DEF Outcome, Done
    <3>3. inner[u] # None => Outcome[inner[u]] = outcome
      BY <1>1, <1>3 DEF Outcome, Done
    <3> QED BY <2>2, <3>1, <3>2, <3>3, <1>1 DEF Cell, Cells!Settle, Cells!Has, Cells!Settled, Done
  <2> QED BY <2>1, <2>2
<1> QED BY <1>4, <1>6 DEF EachCell

LEMMA ReturnCells ==
  ASSUME FutureTypes, NEW u \in Steps, source[u] = None, NEW outcome \in Done, Return(u, outcome)
  PROVE  FutureTypes' /\ EachCell
<1>1. inner[u] = None
  BY RunsAfter DEF Return
<1> QED BY <1>1, SettleCells DEF Return

LEMMA UnwrapCells ==
  ASSUME FutureTypes, NEW u \in Steps, source[u] = None, Unwrap(u)
  PROVE  FutureTypes' /\ EachCell
BY SettleCells DEF Unwrap

LEMMA ReturnFutureCells ==
  ASSUME FutureTypes, NEW u \in Steps, source[u] = None, NEW v \in Steps, ReturnFuture(u, v)
  PROVE  FutureTypes' /\ EachCell
<1> USE Names
<1>1. /\ task[u] = "running" /\ task' = [task EXCEPT ![u] = "inner"]
      /\ inner' = [inner EXCEPT ![u] = v]
      /\ UNCHANGED <<event, source, antecedent>>
  BY DEF ReturnFuture
<1>2. antecedent[u] \in Steps /\ task[antecedent[u]] \in Done /\ inner[u] = None
  BY <1>1, RunsAfter
<1>3. inner'[u] = v /\ v # None /\ \A w \in Steps : w # u => inner'[w] = inner[w]
  BY <1>1 DEF FutureTypes, FuturesTypeOK
<1>4. FutureTypes'
  BY <1>1, <1>2, <1>3, GoesOn
<1>5. Outcome' = Outcome /\ Outcome[u] = "pending" /\ Outcome[antecedent[u]] \in Done
  BY <1>1, <1>2 DEF Outcome, FutureTypes, FuturesTypeOK, Done
<1>6. ASSUME NEW w \in Steps PROVE Cell(w)
  <2>1. CASE w = u
    BY <1>1, <1>2, <1>5, <2>1 DEF Cell, Cells!Bind, Cells!Has, Cells!Settled, Done
  <2>2. CASE w # u
    BY <1>1, <1>3, <1>5, <2>2 DEF Cell, Cells!Stay
  <2> QED BY <2>1, <2>2
<1> QED BY <1>4, <1>6 DEF EachCell
-----------------------------------------------------------------------------
(***************************************************************************)
(* The actions.                                                            *)
(***************************************************************************)
LEMMA InitHolds == Init => IInv
<1> SUFFICES ASSUME Init PROVE IInv
  OBVIOUS
<1> USE Names, LifetimeAssumption DEF Init, FuturesInit
<1>1. TypeOK
  BY DEF TypeOK, FuturesTypeOK, Done, Chains
<1>2. TasksInv /\ Wiring
  BY DEF TasksInv, TaskInv, Wiring, Done
<1>3. Progress
  BY DEF Progress, Begun, Linked, Chains, Main
<1>4. Captured /\ Unset /\ PointerGood
  BY DEF Captured, Unset, PointerGood, Alive, Chains
<1> QED BY <1>1, <1>2, <1>3, <1>4 DEF IInv

LEMMA Types ==
  ASSUME IInv
  PROVE  /\ FutureTypes
         /\ \A c \in Races : c \in Chains
         /\ \A c \in Chains : source[Link(c)] = None /\ source[Last(c)] = None
BY LifetimeAssumption DEF IInv, TypeOK, FutureTypes, Wiring

(* A step that makes no task and starts no thread.                         *)
LEMMA Frame ==
  ASSUME IInv, UNCHANGED <<source, antecedent, mainVars>>,
         \A t \in Steps : task'[t] = "none" <=> task[t] = "none",
         \A p \in Requests : thread'[p] = "none" <=> thread[p] = "none",
         Main \in handles => Main \in handles'
  PROVE  Wiring' /\ Progress'
<1>1. Wiring'
  BY Names DEF IInv, Wiring
<1>2. Progress'
  BY Names DEF IInv, Progress, Begun, Linked, mainVars
<1> QED BY <1>1, <1>2

(* A continuation goes on, and nothing else changes.                       *)
LEMMA PoolStep ==
  ASSUME IInv, FutureTypes', NEW u \in Steps, source[u] = None,
         task[u] \in {"waiting", "running", "inner"},
         NEW new \in {"running", "inner"} \cup Done, task' = [task EXCEPT ![u] = new],
         new = "running" => task[u] = "waiting",
         UNCHANGED <<event, source, antecedent, implVars, mainVars>>
  PROVE  IInv'
<1> USE Names, Types
<1>1. \A v \in Steps : task'[v] = IF v = u THEN new ELSE task[v]
  BY DEF FutureTypes, FuturesTypeOK
<1>2. new \notin {"none", "waiting"}
  BY DEF Done
<1>3. TypeOK' /\ TasksInv'
  BY DEF IInv, TypeOK, FutureTypes, implVars, mainVars
<1>4. Wiring' /\ Progress'
  BY <1>1, <1>2, Frame DEF implVars
<1>5. Captured'
  BY <1>1, <1>2 DEF IInv, Captured, implVars
<1>6. Unset' /\ PointerGood'
  BY <1>1, <1>2 DEF IInv, Unset, PointerGood, Alive, implVars
<1> QED BY <1>3, <1>4, <1>5, <1>6 DEF IInv

LEMMA PoolActions ==
  ASSUME IInv, NEW c \in Chains,
         \/ InvokeClosure(c) \/ LinkUnpacks(c) \/ LinkReturns(c) \/ UnwrapLink(c) \/ LastCatches(c)
  PROVE  IInv' /\ EachCell
<1> USE Names, Types
<1>0. Done = {"value", "error", "cancelled"}
  BY DEF Done
<1>1. CASE InvokeClosure(c)
  <2>1. PICK t \in {Link(c), Last(c)} : Invoke(t)
    BY <1>1 DEF InvokeClosure
  <2>2. t \in Steps /\ source[t] = None
    OBVIOUS
  <2>3. FutureTypes' /\ EachCell
    BY <2>1, <2>2, InvokeCells
  <2>4. /\ task[t] = "waiting" /\ task' = [task EXCEPT ![t] = "running"]
        /\ UNCHANGED <<event, source, antecedent, implVars, mainVars>>
    BY <1>1, <2>1 DEF InvokeClosure, Invoke
  <2> QED BY <2>2, <2>3, <2>4, PoolStep
<1>2. CASE LinkUnpacks(c)
  <2>1. /\ task[Link(c)] = "running" /\ task' = [task EXCEPT ![Link(c)] = task[First(c)]]
        /\ UNCHANGED <<event, source, antecedent, implVars, mainVars>>
    BY <1>2 DEF LinkUnpacks, Return
  <2>2. task[First(c)] \in Done
    BY <2>1, RunsAfter DEF IInv, Wiring
  <2>3. FutureTypes' /\ EachCell
    BY <1>2, <2>2, ReturnCells DEF LinkUnpacks
  <2> QED BY <2>1, <2>2, <2>3, <1>0, PoolStep
<1>3. CASE LinkReturns(c)
  <2>1. /\ task[Link(c)] = "running" /\ task' = [task EXCEPT ![Link(c)] = "inner"]
        /\ UNCHANGED <<event, source, antecedent, implVars, mainVars>>
    BY <1>3 DEF LinkReturns, ReturnFuture
  <2>2. FutureTypes' /\ EachCell
    BY <1>3, ReturnFutureCells DEF LinkReturns
  <2> QED BY <2>1, <2>2, PoolStep
<1>4. CASE UnwrapLink(c)
  <2>1. /\ task[Link(c)] = "inner" /\ task[inner[Link(c)]] \in Done
        /\ task' = [task EXCEPT ![Link(c)] = task[inner[Link(c)]]]
        /\ UNCHANGED <<event, source, antecedent, implVars, mainVars>>
    BY <1>4 DEF UnwrapLink, Unwrap
  <2>2. FutureTypes' /\ EachCell
    BY <1>4, UnwrapCells DEF UnwrapLink
  <2> QED BY <2>1, <2>2, <1>0, PoolStep
<1>5. CASE LastCatches(c)
  <2>1. /\ task[Last(c)] = "running" /\ task' = [task EXCEPT ![Last(c)] = "value"]
        /\ UNCHANGED <<event, source, antecedent, implVars, mainVars>>
    BY <1>5 DEF LastCatches, Return
  <2>2. FutureTypes' /\ EachCell
    BY <1>5, <1>0, ReturnCells DEF LastCatches
  <2> QED BY <2>1, <2>2, <1>0, PoolStep
<1> QED BY <1>1, <1>2, <1>3, <1>4, <1>5

(* A reply thread moves on, and may complete its own promise.              *)
LEMMA ThreadStep ==
  ASSUME IInv, NEW p \in Requests, NEW from \in {"waiting", "taken", "catch", "set"},
         NEW to \in {"taken", "timedout", "catch", "set", "end"}, Enter(p, from, to),
         to = "taken" => from = "waiting",
         \/ UNCHANGED cellVars
         \/ to # "taken" /\ Alive /\ \E outcome \in Done : Resolve({p}, outcome),
         dict' \subseteq dict
  PROVE  IInv' /\ EachCell
<1> USE Names, Types
<1>1. /\ thread[p] = from /\ thread' = [thread EXCEPT ![p] = IF Alive THEN to ELSE "lost"]
      /\ UNCHANGED <<handles, mainVars>>
  BY DEF Enter
<1>2. FutureTypes' /\ EachCell
  BY SameCells, ResolveCells
<1>3. \A q \in Requests : thread'[q] = IF q # p THEN thread[q] ELSE IF Alive THEN to ELSE "lost"
  BY <1>1 DEF IInv, TypeOK
<1>4. /\ UNCHANGED <<source, antecedent>>
      /\ \A q \in Requests : q # p \/ to = "taken" => event'[q] = event[q]
  BY DEF cellVars, Resolve, Open, FutureTypes, FuturesTypeOK
<1>5. \A t \in Steps : \/ task'[t] = task[t]
                       \/ source[t] # None /\ task[t] = "waiting" /\ task'[t] \in Done
  <2>1. CASE UNCHANGED cellVars
    BY <2>1 DEF cellVars
  <2>2. ASSUME NEW outcome \in Done, Resolve({p}, outcome), NEW t \in Steps, task'[t] # task[t]
        PROVE  source[t] # None /\ task[t] = "waiting" /\ task'[t] \in Done
    <3>1. source[t] = p /\ event[p] = "unset" /\ task'[t] = outcome
      BY <2>2 DEF Resolve, Open
    <3> QED BY <3>1 DEF FutureTypes, TasksInv, TaskInv
  <2> QED BY <2>1, <2>2
<1>6. \A t \in Steps : task'[t] = "none" <=> task[t] = "none"
  BY <1>5 DEF Done
<1>7. TypeOK' /\ TasksInv'
  BY <1>1, <1>2 DEF IInv, TypeOK, FutureTypes, mainVars
<1>8. Wiring' /\ Progress'
  BY <1>1, <1>3, <1>4, <1>6, Frame
<1>9. Captured'
  BY <1>1, <1>5 DEF IInv, Captured
<1>10. Unset'
  BY <1>1, <1>3, <1>4, <1>6 DEF IInv, Unset, Alive
<1>11. PointerGood'
  BY <1>1, <1>3 DEF IInv, PointerGood, Alive
<1> QED BY <1>2, <1>7, <1>8, <1>9, <1>10, <1>11 DEF IInv

LEMMA ThreadActions ==
  ASSUME IInv, NEW p \in Requests, Thread(p)
  PROVE  IInv' /\ EachCell
<1>0. "value" \in Done /\ "error" \in Done /\ "cancelled" \in Done
  BY DEF Done
<1>1. CASE ThreadTakes(p)
  BY <1>1, ThreadStep DEF ThreadTakes
<1>2. CASE ThreadTimesOut(p)
  BY <1>2, ThreadStep DEF ThreadTimesOut
<1>3. CASE ThreadSets(p)
  BY <1>0, <1>3, ThreadStep DEF ThreadSets
<1>4. CASE ThreadThrows(p)
  BY <1>0, <1>4, ThreadStep DEF ThreadThrows
<1>5. CASE ThreadCatches(p)
  BY <1>0, <1>5, ThreadStep DEF ThreadCatches, SetException
<1>6. CASE ThreadErases(p)
  BY <1>0, <1>6, ThreadStep DEF ThreadErases
<1> QED BY <1>1, <1>2, <1>3, <1>4, <1>5, <1>6 DEF Thread

(* While the reply thread of a race chain has its promise, the program or  *)
(* the closure that waits for the reply has a handle.                      *)
LEMMA SomebodyHolds ==
  ASSUME IInv, NEW c \in Races, thread[First(c)] \in {"waiting", "taken"}
  PROVE  \/ c \in handles /\ task[Link(c)] = "waiting"
         \/ Main \in handles /\ at = "link"
<1> USE Names, Types
<1>1. event[First(c)] = "unset" /\ task[First(c)] # "none"
  BY DEF IInv, Unset, PointerGood
<1>2. task[First(c)] = "waiting"
  BY <1>1 DEF IInv, Wiring, TasksInv, TaskInv
<1>3. Begun(c)
  BY DEF IInv, Progress
<1>4. CASE Linked(c)
  <2>1. task[Link(c)] # "none"
    BY <1>4 DEF IInv, Progress
  <2>2. antecedent[Link(c)] # None => task[antecedent[Link(c)]] = "waiting"
    BY <1>2 DEF IInv, Wiring
  <2>3. task[Link(c)] = "waiting"
    BY <2>1, <2>2 DEF IInv, TasksInv, TaskInv, Done
  <2> QED BY <2>3 DEF IInv, Captured
<1>5. CASE ~Linked(c)
  BY <1>3, <1>5 DEF Begun, Linked, IInv, Progress
<1> QED BY <1>4, <1>5

(* A handle goes that nobody needs.                                        *)
LEMMA ReleaseStep ==
  ASSUME IInv, NEW h, Release(h), UNCHANGED n,
         \/ UNCHANGED at /\ h # Main
         \/ at = "send" /\ at' = "left",
         \A c \in Chains : h = c => task[Link(c)] \in {"inner"} \cup Done
  PROVE  IInv' /\ EachCell
<1> USE Names, Types
<1>1. /\ h \in handles /\ handles' = handles \ {h} /\ UNCHANGED thread
      /\ \/ handles' = {} /\ Resolve(dict, "cancelled") /\ dict' = {}
         \/ handles' # {} /\ UNCHANGED <<cellVars, dict>>
  BY DEF Release
<1>2. FutureTypes' /\ EachCell
  BY <1>1, SameCells, ResolveCells DEF Done, IInv, TypeOK
<1>3. UNCHANGED <<source, antecedent>> /\ (handles' # {} => UNCHANGED event)
  BY <1>1 DEF cellVars, Resolve
<1>4. \A t \in Steps : \/ task'[t] = task[t]
                       \/ source[t] # None /\ task[t] = "waiting" /\ task'[t] \in Done
  <2>1. CASE UNCHANGED cellVars
    BY <2>1 DEF cellVars
  <2>2. ASSUME Resolve(dict, "cancelled"), NEW t \in Steps, task'[t] # task[t]
        PROVE  source[t] # None /\ task[t] = "waiting" /\ task'[t] \in Done
    <3>1. source[t] \in dict /\ event[source[t]] = "unset" /\ task'[t] = "cancelled"
      BY <2>2 DEF Resolve, Open
    <3> QED BY <3>1 DEF FutureTypes, TasksInv, TaskInv, IInv, TypeOK, Done
  <2> QED BY <1>1, <2>1, <2>2
<1>5. \A t \in Steps : task'[t] = "none" <=> task[t] = "none"
  BY <1>4 DEF Done
<1>6. TypeOK' /\ TasksInv'
  <2>1. at' \in {"send", "link", "last", "get", "left"}
    BY DEF IInv, TypeOK
  <2> QED BY <1>1, <1>2, <2>1 DEF IInv, TypeOK, FutureTypes
<1>7. Wiring'
  BY <1>3, <1>5 DEF IInv, Wiring
<1>8. Progress'
  <2>1. ASSUME NEW c \in Chains PROVE (Begun(c) => Begun(c)') /\ (Linked(c)' <=> Linked(c))
    BY LifetimeAssumption DEF Begun, Linked, Chains
  <2> QED BY <1>1, <1>5, <2>1 DEF IInv, Progress
<1>9. Captured'
  BY <1>1, <1>4 DEF IInv, Captured, Done
<1>10. Unset'
  BY <1>1, <1>3, <1>5 DEF IInv, Unset, Alive
<1>11. PointerGood'
  <2>1. SUFFICES ASSUME NEW c \in Races, thread[First(c)] \in {"waiting", "taken"} PROVE handles' # {}
    BY <1>1 DEF PointerGood, Alive
  <2>2. CASE c \in handles /\ task[Link(c)] = "waiting"
    BY <1>1, <2>2 DEF Done
  <2>3. CASE Main \in handles /\ at = "link"
    BY <1>1, <2>3
  <2> QED BY <2>1, <2>2, <2>3, SomebodyHolds
<1> QED BY <1>2, <1>6, <1>7, <1>8, <1>9, <1>10, <1>11 DEF IInv

(* A request is sent, by the program or by a closure.                      *)
LEMMA SendStep ==
  ASSUME IInv, NEW p \in Requests, SendAsync(p), UNCHANGED n,
         \/ UNCHANGED at /\ \A c \in Chains : p # First(c)
         \/ at = "send" /\ at' = "link" /\ n \in Chains /\ p = First(n)
  PROVE  IInv' /\ EachCell
<1> USE Names, Types
<1>1. /\ GetFuture(p, p)
      /\ dict' = dict \cup {p} /\ thread' = [thread EXCEPT ![p] = "waiting"] /\ UNCHANGED handles
  BY DEF SendAsync
<1>2. FutureTypes' /\ EachCell
  BY <1>1, GetFutureCells
<1>3. /\ task[p] = "none" /\ thread[p] = "none" /\ task'[p] # "none" /\ source'[p] = p
      /\ \A t \in Steps : t # p => task'[t] = task[t] /\ source'[t] = source[t]
      /\ UNCHANGED <<event, antecedent>>
  BY <1>1 DEF GetFuture, IInv, Unset, FutureTypes, FuturesTypeOK, Done
<1>4. \A q \in Requests : thread'[q] = IF q = p THEN "waiting" ELSE thread[q]
  BY <1>1 DEF IInv, TypeOK
<1>5. TypeOK' /\ TasksInv'
  <2>1. at' \in {"send", "link", "last", "get", "left"}
    BY DEF IInv, TypeOK
  <2> QED BY <1>1, <1>2, <2>1 DEF IInv, TypeOK, FutureTypes
<1>6. Wiring'
  BY <1>3 DEF IInv, Wiring
<1>7. Progress'
  <2>1. ASSUME NEW c \in Chains
        PROVE  (Begun(c) => Begun(c)') /\ (Linked(c)' <=> Linked(c)) /\ (p = First(c) => Begun(c)')
    BY LifetimeAssumption DEF Begun, Linked, Chains
  <2> QED BY <1>1, <1>3, <1>4, <2>1 DEF IInv, Progress
<1>8. Captured'
  BY <1>1, <1>3 DEF IInv, Captured
<1>9. Unset'
  BY <1>1, <1>3, <1>4 DEF IInv, Unset, Alive
<1>10. PointerGood'
  BY <1>1, <1>4 DEF IInv, PointerGood, Progress, Alive
<1> QED BY <1>2, <1>5, <1>6, <1>7, <1>8, <1>9, <1>10 DEF IInv

LEMMA ThenLinkStep == IInv /\ ThenLink => IInv' /\ EachCell
<1> SUFFICES ASSUME IInv, ThenLink PROVE IInv' /\ EachCell
  OBVIOUS
<1> USE Names, Types
<1>1. /\ at = "link" /\ at' = "last" /\ Then(First(n), Link(n)) /\ UNCHANGED <<n, dict, thread>>
      /\ handles' = IF n \in Races THEN handles \cup {n} ELSE handles
  BY DEF ThenLink, Capture
<1>2. n \in Chains /\ Main \in handles
  BY <1>1 DEF IInv, Progress
<1>3. FutureTypes' /\ EachCell
  BY <1>1, <1>2, ThenCells
<1>4. /\ task[Link(n)] = "none" /\ task'[Link(n)] = "waiting" /\ antecedent'[Link(n)] = First(n)
      /\ \A t \in Steps : t # Link(n) => task'[t] = task[t] /\ antecedent'[t] = antecedent[t]
      /\ UNCHANGED <<event, source>>
  BY <1>1, <1>2 DEF Then, FutureTypes, FuturesTypeOK
<1>5. TypeOK' /\ TasksInv'
  BY <1>1, <1>3 DEF IInv, TypeOK, FutureTypes
<1>6. Wiring'
  BY <1>2, <1>4 DEF IInv, Wiring
<1>7. Progress'
  <2>1. ASSUME NEW c \in Chains
        PROVE  (Begun(c) => Begun(c)') /\ (Linked(c)' <=> Linked(c) \/ c = n)
    BY <1>1 DEF Begun, Linked
  <2> QED BY <1>1, <1>2, <1>4, <2>1 DEF IInv, Progress
<1>8. Captured'
  BY <1>1, <1>2, <1>4 DEF IInv, Captured
<1>9. Unset' /\ PointerGood'
  BY <1>1, <1>2, <1>4 DEF IInv, Unset, PointerGood, Alive
<1> QED BY <1>3, <1>5, <1>6, <1>7, <1>8, <1>9 DEF IInv

LEMMA ThenLastStep == IInv /\ ThenLast => IInv' /\ EachCell
<1> SUFFICES ASSUME IInv, ThenLast PROVE IInv' /\ EachCell
  OBVIOUS
<1> USE Names, Types
<1>1. at = "last" /\ at' = "get" /\ Then(Link(n), Last(n)) /\ UNCHANGED <<n, implVars>>
  BY DEF ThenLast
<1>2. n \in Chains
  BY <1>1 DEF IInv, Progress
<1>3. FutureTypes' /\ EachCell
  BY <1>1, <1>2, ThenCells
<1>4. /\ task[Last(n)] = "none" /\ task'[Last(n)] = "waiting"
      /\ \A t \in Steps : t # Last(n) => task'[t] = task[t] /\ antecedent'[t] = antecedent[t]
      /\ UNCHANGED <<event, source>>
  BY <1>1, <1>2 DEF Then, FutureTypes, FuturesTypeOK
<1>5. TypeOK' /\ TasksInv'
  BY <1>1, <1>3 DEF IInv, TypeOK, FutureTypes, implVars
<1>6. Wiring'
  BY <1>2, <1>4 DEF IInv, Wiring
<1>7. Progress'
  <2>1. ASSUME NEW c \in Chains PROVE (Begun(c) => Begun(c)') /\ (Linked(c)' <=> Linked(c))
    BY <1>1 DEF Begun, Linked
  <2> QED BY <1>1, <1>2, <1>4, <2>1 DEF IInv, Progress, implVars
<1>8. Captured' /\ Unset' /\ PointerGood'
  BY <1>1, <1>2, <1>4 DEF IInv, Captured, Unset, PointerGood, Alive, implVars
<1> QED BY <1>3, <1>5, <1>6, <1>7, <1>8 DEF IInv

LEMMA GetStep == IInv /\ Get => IInv' /\ EachCell
<1> SUFFICES ASSUME IInv, Get PROVE IInv' /\ EachCell
  OBVIOUS
<1> USE Names, Types
<1>1. at = "get" /\ at' = "send" /\ n' = n + 1 /\ UNCHANGED <<cellVars, implVars>>
  BY DEF Get
<1>2. FutureTypes' /\ EachCell
  BY <1>1, SameCells
<1>3. n \in 1..NumChains
  BY <1>1 DEF IInv, Progress, Chains
<1>4. TypeOK' /\ TasksInv'
  BY <1>1, <1>2, <1>3, LifetimeAssumption DEF IInv, TypeOK, FutureTypes, implVars
<1>5. Progress'
  <2>1. ASSUME NEW c \in Chains PROVE (Begun(c)' <=> Begun(c)) /\ (Linked(c)' <=> Linked(c))
    BY <1>1, <1>3, LifetimeAssumption DEF Begun, Linked, Chains
  <2> QED BY <1>1, <2>1 DEF IInv, Progress, cellVars, implVars
<1>6. Wiring' /\ Captured' /\ Unset' /\ PointerGood'
  BY <1>1 DEF IInv, Wiring, Captured, Unset, PointerGood, Alive, cellVars, implVars
<1> QED BY <1>2, <1>4, <1>5, <1>6 DEF IInv

LEMMA NextStep == IInv /\ [Next]_vars => IInv' /\ EachCell
<1> SUFFICES ASSUME IInv, [Next]_vars PROVE IInv' /\ EachCell
  OBVIOUS
<1> USE Names, Types
<1>1. CASE Send
  BY <1>1, SendStep DEF Send
<1>2. CASE ThenLink \/ ThenLast \/ Get
  BY <1>2, ThenLinkStep, ThenLastStep, GetStep
<1>3. CASE Leave
  BY <1>3, ReleaseStep DEF Leave
<1>4. ASSUME NEW c \in Chains, Pool(c) PROVE IInv' /\ EachCell
  <2>1. CASE LinkSends(c)
    BY <2>1, SendStep DEF LinkSends, mainVars
  <2>2. CASE DestroyClosure(c)
    BY <2>2, ReleaseStep DEF DestroyClosure, mainVars
  <2> QED BY <1>4, <2>1, <2>2, PoolActions DEF Pool
<1>5. ASSUME NEW p \in Requests, Thread(p) PROVE IInv' /\ EachCell
  BY <1>5, ThreadActions
<1>6. CASE UNCHANGED vars
  <2>1. FutureTypes' /\ EachCell
    BY <1>6, SameCells DEF vars
  <2> QED BY <1>6, <2>1 DEF vars, IInv, TypeOK, FutureTypes, TasksInv, TaskInv, Wiring, Progress,
             Begun, Linked, Captured, Unset, PointerGood, Alive, cellVars, implVars, mainVars
<1> QED BY <1>1, <1>2, <1>3, <1>4, <1>5, <1>6 DEF Next, Program

THEOREM Invariance == Spec => []IInv
<1>1. IInv /\ [Next]_vars => IInv'
  BY NextStep
<1> QED BY <1>1, InitHolds, PTL DEF Spec
-----------------------------------------------------------------------------
(* The variables keep their types, for any number of chains.               *)
THEOREM TypeCorrect == Spec => []TypeOK
<1>1. IInv => TypeOK
  BY DEF IInv
<1> QED BY <1>1, Invariance, PTL

(* A closure that sends a second request from a pool thread finds its      *)
(* requester, whenever the program leaves: it is among the holders from    *)
(* the moment then() took it until after it has run.                       *)
THEOREM ContinuationFindsRequesterHolds == Spec => []ContinuationFindsRequester
<1>1. IInv => ContinuationFindsRequester
  BY DEF IInv, Captured, ContinuationFindsRequester, Alive
<1> QED BY <1>1, Invariance, PTL

(* The pointer of the reply thread of a first request is good until the    *)
(* thread has completed the promise: the closure that has a handle cannot  *)
(* go before it has run, and it cannot run before that.                    *)
THEOREM PointerGoodHolds == Spec => []PointerGood
<1>1. IInv => PointerGood
  BY DEF IInv
<1> QED BY <1>1, Invariance, PTL

(* Promises, tasks and continuations implement single assignment, with any *)
(* number of futures completed by reply threads, by the pool, and by the   *)
(* end of the implementation.                                              *)
THEOREM LifetimeImplementsCells == Spec => ImplementsCells
<1>1. Init => Cells!Init
  BY DEF Init, FuturesInit, Cells!Init, Outcome
<1>2. ASSUME IInv, [Next]_vars PROVE [Cells!Next]_<<Outcome, antecedent, inner>>
  <2>1. IInv' /\ EachCell
    BY <1>2, NextStep
  <2>2. DOMAIN Outcome' = Steps /\ DOMAIN antecedent' = Steps /\ DOMAIN inner' = Steps
    BY <2>1 DEF IInv, TypeOK, FuturesTypeOK, Outcome
  <2> QED BY <2>1, <2>2 DEF Cells!Next, EachCell, Cell
<1> QED BY <1>1, <1>2, Invariance, PTL DEF Spec, ImplementsCells, Cells!Spec
=============================================================================
