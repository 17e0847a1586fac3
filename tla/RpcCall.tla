------------------------------- MODULE RpcCall -------------------------------
(***************************************************************************)
(* What a request/reply layer promises its callers, whatever threads, maps *)
(* and queues it is built from: a call is issued once, it can only be      *)
(* answered after it was issued, and it ends at most once, either with the *)
(* answer to that very call or without one.                                *)
(***************************************************************************)
EXTENDS Naturals

CONSTANT Calls        \* identities of calls, positive numbers

VARIABLES
  issued,             \* calls handed to the transport
  answered,           \* calls some replier has answered
  outcome,            \* how a call ended: "open", "value" or "failed"
  value               \* the call whose answer the caller was given, 0 if none

vars == <<issued, answered, outcome, value>>

Init ==
  /\ issued = {}
  /\ answered = {}
  /\ outcome = [k \in Calls |-> "open"]
  /\ value = [k \in Calls |-> 0]

Issue(k) ==
  /\ k \notin issued
  /\ issued' = issued \cup {k}
  /\ UNCHANGED <<answered, outcome, value>>

Answer(k) ==
  /\ k \in issued
  /\ answered' = answered \cup {k}
  /\ UNCHANGED <<issued, outcome, value>>

Deliver(k) ==
  /\ k \in answered
  /\ outcome[k] = "open"
  /\ outcome' = [outcome EXCEPT ![k] = "value"]
  /\ value' = [value EXCEPT ![k] = k]
  /\ UNCHANGED <<issued, answered>>

Fail(k) ==
  /\ k \in issued
  /\ outcome[k] = "open"
  /\ outcome' = [outcome EXCEPT ![k] = "failed"]
  /\ UNCHANGED <<issued, answered, value>>

Next == \E k \in Calls : Issue(k) \/ Answer(k) \/ Deliver(k) \/ Fail(k)

Spec == Init /\ [][Next]_vars
==============================================================================
