----------------------------- MODULE RobotControl -----------------------------
(***************************************************************************)
(* The RobotControl interface as a client may rely on it: every service    *)
(* owns one robot and serves each request at most once, in one indivisible *)
(* step that reads and writes the speed of that robot and fixes the reply. *)
(***************************************************************************)
EXTENDS Integers

CONSTANTS
  InitSpeed,          \* speed of a robot nobody has driven
  MaxSpeed            \* speeds above it are refused with TooFast

VARIABLES
  requests,           \* requests submitted, [id, to, op, speed]
  speed,              \* per service
  replies             \* replies given, [id, op, ex, value]

vars == <<requests, speed, replies>>

Init ==
  /\ requests = {}
  /\ \A s \in DOMAIN speed : speed[s] = InitSpeed
  /\ replies = {}

Submit ==
  /\ \E q \in requests' :
       /\ requests' = requests \cup {q}
       /\ \A p \in requests : p.id # q.id
  /\ UNCHANGED <<speed, replies>>

Accepted(q) == q.op = "setSpeed" /\ q.speed <= MaxSpeed
Refused(q) == q.op = "setSpeed" /\ q.speed > MaxSpeed

Result(q) ==
  [id |-> q.id,
   op |-> IF q.op = "unknown" THEN "none" ELSE q.op,
   ex |-> IF Refused(q) THEN "TooFast" ELSE "OK",
   value |-> IF Accepted(q) \/ q.op = "getSpeed" THEN speed[q.to] ELSE 0]

Serve(q) ==
  /\ \A p \in replies : p.id # q.id
  /\ replies' = replies \cup {Result(q)}
  /\ speed' = IF Accepted(q) THEN [speed EXCEPT ![q.to] = q.speed] ELSE speed
  /\ UNCHANGED requests

Next == Submit \/ \E q \in requests : Serve(q)

Spec == Init /\ [][Next]_vars
==============================================================================
