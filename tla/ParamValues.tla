---------------------------- MODULE ParamValues ----------------------------
(***************************************************************************)
(* What a program may rely on of its parameter objects (ServiceParams,     *)
(* ClientParams, ServerParams): they are values.  One object changes at a  *)
(* time, by an operation on itself: it is made, one parameter of it is     *)
(* set, it becomes a copy of another object, or it goes.                   *)
(***************************************************************************)
CONSTANTS Objects, Contents, Default, Absent

VARIABLE value          \* per object, its parameters, or Absent

Make(o) == value[o] = Absent /\ value'[o] \in Contents
Reset(o) == value[o] # Absent /\ value'[o] = Default
SetOne(o) ==
  /\ value[o] # Absent
  /\ \E field \in DOMAIN Default, content \in Contents :
       value'[o] = [value[o] EXCEPT ![field] = content[field]]
Copy(o) == value[o] # Absent /\ \E p \in Objects : value[p] # Absent /\ value'[o] = value[p]
Drop(o) == value[o] # Absent /\ value'[o] = Absent

Init == value \in [Objects -> {Default, Absent}]

Next ==
  /\ DOMAIN value' = Objects
  /\ \E o \in Objects :
       /\ Make(o) \/ Reset(o) \/ SetOne(o) \/ Copy(o) \/ Drop(o)
       /\ \A p \in Objects \ {o} : value'[p] = value[p]

Spec == Init /\ [][Next]_value
=============================================================================
