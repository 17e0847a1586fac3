------------------------------ MODULE Entities ------------------------------
(***************************************************************************)
(* The entities a program makes, and from what: Client, Server and Service *)
(* handles (RobotControlSupport), the implementations they share, and the  *)
(* domain participant the implementations use.  An implementation given no *)
(* participant asks DefaultDomainParticipant for one, which makes it at    *)
(* the first request, in the domain id it has then.                        *)
(*                                                                         *)
(* A Client's implementation holds a Requester, a Service's a Replier: the *)
(* two are one entity here.                                                *)
(***************************************************************************)
EXTENDS Naturals, FiniteSets

CONSTANTS
  ServiceVars, ClientVars, ServerVars, \* parameter objects of the program
  Clients, Services, Servers,          \* entities it may make, once each
  MaxHandles,         \* bound on the handles of one entity
  Participants, Names, NullParticipant, NoName, NoBlock, None,
  RobotControl,       \* the service name a Client() uses
  Domains,
  MaxCreated          \* bound on create_participant

Vars == ServiceVars \cup ClientVars \cup ServerVars
Entities == Clients \cup Services \cup Servers
Objects == Vars \cup Clients             \* a client has its params_

VARIABLES
  impl, heap,         \* of Params
  domainid, default, created, \* DefaultDomainParticipant; participants it made
  entity,             \* per entity, None or what it was given and what it uses
  handles,            \* per entity, the handles the program has
  refs,               \* per entity, the use count of its shared_ptr
  dispatchers         \* per server, the services registered

INSTANCE Params

Created == (1..MaxCreated) \X Domains
AnyParticipant == Participants \cup Created \cup {NullParticipant}

Records == [given : Participants \cup {NullParticipant}, participant : AnyParticipant,
            name : Names \cup {NoName}]

ASSUME EntitiesAssumption ==
  /\ MaxHandles \in Nat \ {0} /\ MaxCreated \in Nat
  /\ 0 \in Domains /\ RobotControl \in Names
  /\ NullParticipant \notin Participants \cup Created
  /\ NoBlock \notin Objects \cup Contents /\ None \notin Records
  /\ Vars \cap Clients = {} /\ ClientVars \cap (ServiceVars \cup ServerVars) = {}
  /\ Clients \cap Services = {} /\ Services \cap Servers = {} /\ Servers \cap Clients = {}

memoryVars == <<impl, heap>>             \* paramVars of Params
defaultVars == <<domainid, default, created>>
entityVars == <<entity, handles, refs, dispatchers>>
vars == <<memoryVars, defaultVars, entityVars>>

Init ==
  /\ ParamsInit(Vars)
  /\ domainid = 0 /\ default = NullParticipant /\ created = 0
  /\ entity = [e \in Entities |-> None]
  /\ handles = [e \in Entities |-> 0] /\ refs = handles
  /\ dispatchers = [s \in Servers |-> {}]

(***************************************************************************)
(* Parameter objects.                                                      *)
(***************************************************************************)
SetParam(v, field, x) ==
  /\ v \in ServiceVars \cup ClientVars
  /\ Set(v, field, x)
  /\ UNCHANGED <<defaultVars, entityVars>>

SetParams(v) ==
  \/ \E p \in Participants \cup {NullParticipant} : SetParam(v, "participant", p)
  \/ \E name \in Names : SetParam(v, "name", name)

ResetParams(v) ==
  /\ New(v, Default)
  /\ UNCHANGED <<defaultVars, entityVars>>

(* An assignment between objects of one class; the default_service_params  *)
(* of a ServerParams object, set and got.                                  *)
Assignable(v) ==
  CASE v \in ServiceVars -> ServiceVars \cup ServerVars
    [] v \in ServerVars -> ServiceVars \cup ServerVars
    [] v \in ClientVars -> ClientVars \cup {c \in Clients : entity[c] # None}

AssignParams(v) ==
  /\ \E w \in Assignable(v) : Copy(v, w)
  /\ UNCHANGED <<defaultVars, entityVars>>

(***************************************************************************)
(* DefaultDomainParticipant.                                               *)
(***************************************************************************)
SetDomainId(d) ==
  /\ domainid' = d
  /\ UNCHANGED <<memoryVars, default, created, entityVars>>

(* create_participant gives a new participant or fails.                    *)
CreateParticipant(p) ==
  \/ p = NullParticipant /\ UNCHANGED created
  \/ /\ created < MaxCreated /\ created' = created + 1
     /\ p = <<created', domainid>>

(* Mutant: the participant is not kept.                                    *)
MutantDefaultGet(p) == CreateParticipant(p) /\ default' = p /\ UNCHANGED domainid
(* DefaultDomainParticipant::get.                                          *)
DefaultGet(p) ==
  /\ \/ default # NullParticipant /\ p = default /\ UNCHANGED <<default, created>>
     \/ default = NullParticipant /\ CreateParticipant(p) /\ default' = p
  /\ UNCHANGED domainid

(* robot_test's main asks for it before it does anything else.             *)
AskDefault ==
  /\ \E p \in Created \cup {NullParticipant} : DefaultGet(p)
  /\ UNCHANGED <<memoryVars, entityVars>>

(***************************************************************************)
(* Implementations and who owns them.                                      *)
(***************************************************************************)
(* What RequesterParams and ReplierParams, which the parameters are        *)
(* converted to, hold.                                                     *)
Converted(params) == [given |-> params.participant, name |-> params.name]

(* The Requester or Replier made from them, in participant p.              *)
Entity(params, p) ==
  [given |-> Converted(params).given, participant |-> p, name |-> Converted(params).name]

(* to_connext_requester_params and to_connext_replier_params.              *)
Connect(params, p) ==
  LET given == Converted(params).given
  IN  \/ given # NullParticipant /\ p = given /\ UNCHANGED defaultVars
      \/ given = NullParticipant /\ DefaultGet(p)

FirstHandle(e) == handles' = [handles EXCEPT ![e] = 1]

(* ClientImpl copies the parameters and makes its Requester from the copy. *)
(* Connext throws without a participant, and may throw for reasons of its  *)
(* own: then there is no client.                                           *)
MakeClient(c, params) ==
  /\ entity[c] = None
  /\ \E p \in AnyParticipant :
       /\ Connect(params, p)
       /\ \/ /\ p # NullParticipant
             /\ New(c, params)
             /\ entity' = [entity EXCEPT ![c] = Entity(params, p)]
             /\ FirstHandle(c) /\ refs' = [refs EXCEPT ![c] = 1]
          \/ UNCHANGED <<memoryVars, entity, handles, refs>>
  /\ UNCHANGED dispatchers

ClientWith(c) == \E v \in ClientVars : MakeClient(c, Content(v))
ClientDefault(c) == MakeClient(c, [participant |-> NullParticipant, name |-> RobotControl])

(* Server(): the participant is the default one, or the constructor throws.*)
ServerDefault(s) ==
  /\ entity[s] = None
  /\ \E p \in AnyParticipant :
       /\ DefaultGet(p)
       /\ IF p = NullParticipant THEN UNCHANGED <<entity, handles, refs>>
          ELSE /\ entity' = [entity EXCEPT ![s] = Entity(Default, p)]
               /\ FirstHandle(s) /\ refs' = [refs EXCEPT ![s] = 1]
  /\ UNCHANGED <<memoryVars, dispatchers>>

(* Server(params): the participant of the default_service_params, even if  *)
(* there is none.                                                          *)
ServerWith(s) ==
  /\ entity[s] = None
  /\ \E v \in ServerVars :
       entity' = [entity EXCEPT ![s] =
         Entity([Default EXCEPT !.participant = Content(v).participant], Content(v).participant)]
  /\ FirstHandle(s) /\ refs' = [refs EXCEPT ![s] = 1]
  /\ UNCHANGED <<memoryVars, defaultVars, dispatchers>>

(* Mutant: the server does not share the service.                          *)
MutantRegister(s, e) ==
  /\ dispatchers' = [dispatchers EXCEPT ![s] = @ \cup {e}]
  /\ refs' = [refs EXCEPT ![e] = 1]
(* register_service, for a service that has just got its first handle.     *)
Register(s, e) ==
  /\ dispatchers' = [dispatchers EXCEPT ![s] = @ \cup {e}]
  /\ refs' = [refs EXCEPT ![e] = 2]

(* Service(robot, server, params): a Replier for its Dispatcher, or an     *)
(* exception; only then is it registered.                                  *)
ServiceWith(e) ==
  /\ entity[e] = None
  /\ \E s \in Servers, v \in ServiceVars, p \in AnyParticipant :
       /\ handles[s] > 0
       /\ Connect(Content(v), p)
       /\ \/ /\ p # NullParticipant
             /\ entity' = [entity EXCEPT ![e] = Entity(Content(v), p)]
             /\ FirstHandle(e) /\ Register(s, e)
          \/ UNCHANGED entityVars
  /\ UNCHANGED memoryVars

CopyHandle(e) ==
  /\ handles[e] \in 1..(MaxHandles - 1)
  /\ handles' = [handles EXCEPT ![e] = @ + 1]
  /\ refs' = [refs EXCEPT ![e] = @ + 1]
  /\ UNCHANGED <<memoryVars, defaultVars, entity, dispatchers>>

(* Mutant: the services go with any handle of the server.                  *)
MutantLost(e) == {e} \cup IF e \in Servers THEN dispatchers[e] ELSE {}
(* What loses a reference when a handle of e goes: e, and when e is a      *)
(* server and goes, the services registered with it.                       *)
Lost(e) == {e} \cup IF e \in Servers /\ refs[e] = 1 THEN dispatchers[e] ELSE {}

(* With its last reference an entity goes, and the params_ of a client.    *)
DropHandle(e) ==
  /\ handles[e] > 0
  /\ handles' = [handles EXCEPT ![e] = @ - 1]
  /\ refs' = [f \in Entities |-> IF f \in Lost(e) THEN refs[f] - 1 ELSE refs[f]]
  /\ entity' = [f \in Entities |-> IF refs'[f] = 0 THEN None ELSE entity[f]]
  /\ dispatchers' = [s \in Servers |-> IF refs'[s] = 0 THEN {} ELSE dispatchers[s]]
  /\ IF e \in Clients /\ refs[e] = 1 THEN Delete(e) ELSE UNCHANGED memoryVars
  /\ UNCHANGED defaultVars

Next ==
  \/ \E v \in Vars : SetParams(v) \/ ResetParams(v) \/ AssignParams(v)
  \/ \E d \in Domains : SetDomainId(d)
  \/ AskDefault
  \/ \E c \in Clients : ClientWith(c) \/ ClientDefault(c)
  \/ \E s \in Servers : ServerDefault(s) \/ ServerWith(s)
  \/ \E e \in Services : ServiceWith(e)
  \/ \E e \in Entities : CopyHandle(e) \/ DropHandle(e)

Spec == Init /\ [][Next]_vars
-----------------------------------------------------------------------------
(* Types of the variables; an entity that is gone has no references.       *)
TypeOK ==
  /\ ParamsTypeOK
  /\ domainid \in Domains
  /\ default \in Created \cup {NullParticipant}
  /\ created \in 0..MaxCreated
  /\ entity \in [Entities -> Records \cup {None}]
  /\ handles \in [Entities -> 0..MaxHandles]
  /\ refs \in [Entities -> Nat]
  /\ \A e \in Entities : refs[e] = 0 <=> entity[e] = None
  /\ dispatchers \in [Servers -> SUBSET Services]

(* A client's get_client_params tells what its requester was made with,    *)
(* whatever became of the object the client was made from.                 *)
ClientParamsTrue ==
  \A c \in Clients : entity[c] # None =>
    Exists(c) /\ Content(c) = [participant |-> entity[c].given, name |-> entity[c].name]

(* Entities given no participant are in one participant, so they can meet, *)
(* whatever set_domainid calls and failures came between them; those given *)
(* one are in it.                                                          *)
DefaultShared ==
  \A e \in Clients \cup Services : entity[e] # None =>
    entity[e].participant = IF entity[e].given = NullParticipant THEN default ELSE entity[e].given

(* A server that the program may run has its services, also when the       *)
(* program has dropped its handles of them.                                *)
RegisteredServed ==
  \A s \in Servers : handles[s] > 0 => \A e \in dispatchers[s] : entity[e] # None

(* Parameter objects are values.                                           *)
ImplementsValues == Values!Spec
=============================================================================
