------------------------------- MODULE Params -------------------------------
(***************************************************************************)
(* The parameter classes of function_call.cxx and request_reply.cxx.  Each *)
(* object has an impl_, a pointer to a block that holds its parameters.    *)
(* Copying and assigning make a new block, setting writes through the      *)
(* pointer.  Of the parameters only the participant and the service name   *)
(* are kept: the others (instance name, publisher, subscriber, QoS) are    *)
(* set and copied in the same way, and nothing ever reads them.            *)
(*                                                                         *)
(* A ServerParams object has a block whose only member is a ServiceParams  *)
(* object: the two blocks are one here.                                    *)
(***************************************************************************)
CONSTANTS
  Objects,            \* the objects there may be
  Participants,       \* participants a program makes itself
  Names,              \* service names
  NullParticipant, NoName, NoBlock

VARIABLES
  impl,               \* per object, its block, NoBlock when it does not exist
  heap                \* per block, the parameters in it

paramVars == <<impl, heap>>

Blocks == Objects     \* a block is called after the object it was made for
Contents == [participant : Participants \cup {NullParticipant}, name : Names \cup {NoName}]

(* The default constructors.                                               *)
Default == [participant |-> NullParticipant, name |-> NoName]

ParamsInit(made) ==
  /\ impl = [o \in Objects |-> IF o \in made THEN o ELSE NoBlock]
  /\ heap = [b \in Blocks |-> Default]

Exists(o) == impl[o] # NoBlock
Content(o) == heap[impl[o]]

(* make_shared: a block no other object has; the object's own may be       *)
(* reused, as nobody has it any more.                                      *)
Free(o) == {b \in Blocks : \A p \in Objects \ {o} : impl[p] # b}
Fresh(o) == IF o \in Free(o) THEN o ELSE CHOOSE b \in Free(o) : TRUE

(* A new block with these parameters becomes the block of o.               *)
New(o, content) ==
  /\ impl' = [impl EXCEPT ![o] = Fresh(o)]
  /\ heap' = [heap EXCEPT ![Fresh(o)] = content]

(* Mutant: copies share the block.                                         *)
MutantCopy(o, p) == impl' = [impl EXCEPT ![o] = impl[p]] /\ UNCHANGED heap
(* The copy constructors and assignments; default_service_params, both to  *)
(* set and to get.                                                         *)
Copy(o, p) == New(o, Content(p))

(* The setters.                                                            *)
Set(o, field, x) ==
  /\ heap' = [heap EXCEPT ![impl[o]][field] = x]
  /\ UNCHANGED impl

(* The object goes.                                                        *)
Delete(o) ==
  /\ impl' = [impl EXCEPT ![o] = NoBlock]
  /\ heap' = [heap EXCEPT ![impl[o]] = Default]
-----------------------------------------------------------------------------
(* Types of the variables.                                                 *)
ParamsTypeOK ==
  /\ impl \in [Objects -> Blocks \cup {NoBlock}]
  /\ heap \in [Blocks -> Contents]

(* No two objects have one block.                                          *)
Separate == \A o, p \in Objects : Exists(o) /\ impl[o] = impl[p] => o = p

(* What the objects hold, whatever block it is in.                         *)
Held == [o \in Objects |-> IF Exists(o) THEN Content(o) ELSE NoBlock]

Values == INSTANCE ParamValues WITH Absent <- NoBlock, value <- Held
=============================================================================
