-------------------------- MODULE SingleAssignment --------------------------
(***************************************************************************)
(* What a program may rely on of its futures, whoever completes them and   *)
(* in which order: a future gets an outcome once and keeps it; one that    *)
(* was made by then() gets it only after the future it was made from; and  *)
(* one whose continuation returned a future gets the outcome of that       *)
(* future.                                                                 *)
(***************************************************************************)
CONSTANTS Futures, NoFuture

VARIABLES
  outcome,            \* "none" before the future is made, "pending", or settled
  after,              \* the future then() was called on
  bound               \* the future the continuation returned

Settled == {"value", "error", "cancelled"}

Init ==
  /\ outcome = [f \in Futures |-> "none"]
  /\ after = [f \in Futures |-> NoFuture]
  /\ bound = [f \in Futures |-> NoFuture]

Has(f, status) == f # NoFuture /\ outcome[f] \in status

Make(f) ==
  /\ outcome[f] = "none" /\ outcome'[f] \in {"pending"} \cup Settled
  /\ bound'[f] = bound[f]

Bind(f) ==
  /\ outcome[f] = "pending" /\ outcome'[f] = "pending"
  /\ bound[f] = NoFuture
  /\ Has(after[f], Settled)
  /\ after'[f] = after[f]

Settle(f) ==
  /\ outcome[f] = "pending" /\ outcome'[f] \in Settled
  /\ after[f] # NoFuture => Has(after[f], Settled)
  /\ bound[f] # NoFuture => Has(bound[f], {outcome'[f]})
  /\ after'[f] = after[f] /\ bound'[f] = bound[f]

Stay(f) == outcome'[f] = outcome[f] /\ after'[f] = after[f] /\ bound'[f] = bound[f]

(* One promise may settle several futures at once.                         *)
Next ==
  /\ DOMAIN outcome' = Futures /\ DOMAIN after' = Futures /\ DOMAIN bound' = Futures
  /\ \A f \in Futures : Stay(f) \/ Make(f) \/ Bind(f) \/ Settle(f)

Spec == Init /\ [][Next]_<<outcome, after, bound>>
==============================================================================
