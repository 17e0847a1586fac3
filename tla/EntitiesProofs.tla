--------------------------- MODULE EntitiesProofs ---------------------------
(***************************************************************************)
(* Proofs about Entities, for any parameter objects, entities,             *)
(* participants, names and domains.                                        *)
(***************************************************************************)
EXTENDS Entities, TLAPS

(* An object has a block of its own; the objects of the program exist, and *)
(* the params_ of the clients there are.                                   *)
MemoryInv ==
  /\ \A o \in Objects : impl[o] \in {o, NoBlock}
  /\ \A v \in Vars : Exists(v)
  /\ \A c \in Clients : Exists(c) <=> entity[c] # None

(* Use counts are exact, and a service has one server at most.             *)
CountInv ==
  /\ \A e \in Clients \cup Servers : refs[e] = handles[e]
  /\ \A e \in Services :
       /\ refs[e] = handles[e] \/ refs[e] = handles[e] + 1
       /\ refs[e] = handles[e] <=> \A s \in Servers : e \notin dispatchers[s]
       /\ \A s, t \in Servers : e \in dispatchers[s] \cap dispatchers[t] => s = t
  /\ \A s \in Servers : refs[s] = 0 => dispatchers[s] = {}

(* What Connext was given is a participant.                                *)
Connected == \A e \in Clients \cup Services : entity[e] # None => entity[e].participant # NullParticipant

(* Inductive; ClientParamsTrue adds to it.                                 *)
IInv == TypeOK /\ MemoryInv /\ CountInv /\ Connected /\ DefaultShared
-----------------------------------------------------------------------------
(* New gives an object its own block again.                                *)
LEMMA NewBlock ==
  ASSUME ParamsTypeOK, \A p \in Objects : impl[p] \in {p, NoBlock}, NEW o \in Objects
  PROVE  Fresh(o) = o
<1>1. o \in Free(o)
  BY EntitiesAssumption DEF Free, Blocks, ParamsTypeOK
<1> QED BY <1>1 DEF Fresh

(* The parameters are well typed.                                          *)
LEMMA ContentType ==
  ASSUME ParamsTypeOK, MemoryInv, NEW o \in Objects, Exists(o)
  PROVE  Content(o) \in Contents
BY EntitiesAssumption DEF ParamsTypeOK, MemoryInv, Exists, Content, Blocks

LEMMA DefaultType == Default \in Contents
BY DEF Default, Contents

(* What New does, in full.                                                 *)
LEMMA NewType ==
  ASSUME ParamsTypeOK, MemoryInv, NEW o \in Objects, NEW content \in Contents, New(o, content)
  PROVE  /\ impl' = [impl EXCEPT ![o] = o]
         /\ heap' = [heap EXCEPT ![o] = content]
         /\ ParamsTypeOK'
<1>1. Fresh(o) = o
  BY NewBlock DEF MemoryInv
<1> QED BY <1>1 DEF New, ParamsTypeOK, Blocks

(* DefaultGet keeps a participant there is, and else gives what it keeps.  *)
LEMMA DefaultGetType ==
  ASSUME TypeOK, NEW p \in AnyParticipant, DefaultGet(p)
  PROVE  /\ domainid' \in Domains
         /\ default' \in Created \cup {NullParticipant}
         /\ created' \in 0..MaxCreated
         /\ p = default'
         /\ default # NullParticipant => default' = default
<1> USE EntitiesAssumption DEF TypeOK
<1>1. CASE default # NullParticipant /\ p = default /\ UNCHANGED <<default, created>>
  BY <1>1 DEF DefaultGet
<1>2. CASE default = NullParticipant /\ CreateParticipant(p) /\ default' = p
  <2>1. CASE p = NullParticipant /\ UNCHANGED created
    BY <1>2, <2>1 DEF DefaultGet
  <2>2. CASE created < MaxCreated /\ created' = created + 1 /\ p = <<created', domainid>>
    <3>1. created' \in 1..MaxCreated
      BY <2>2
    <3>2. p \in Created
      BY <2>2, <3>1 DEF Created
    <3> QED BY <1>2, <2>2, <3>1, <3>2 DEF DefaultGet
  <2> QED BY <1>2, <2>1, <2>2 DEF CreateParticipant
<1> QED BY <1>1, <1>2 DEF DefaultGet

LEMMA ConnectType ==
  ASSUME TypeOK, NEW params \in Contents, NEW p \in AnyParticipant, Connect(params, p)
  PROVE  /\ domainid' \in Domains
         /\ default' \in Created \cup {NullParticipant}
         /\ created' \in 0..MaxCreated
         /\ p = IF params.participant = NullParticipant THEN default' ELSE params.participant
         /\ default # NullParticipant => default' = default
<1>1. CASE params.participant # NullParticipant /\ p = params.participant /\ UNCHANGED defaultVars
  BY <1>1 DEF defaultVars, TypeOK
<1>2. CASE params.participant = NullParticipant /\ DefaultGet(p)
  BY <1>2, DefaultGetType
<1> QED BY <1>1, <1>2 DEF Connect, Converted

LEMMA EntityType ==
  ASSUME NEW params \in Contents, NEW p \in AnyParticipant
  PROVE  /\ Entity(params, p) \in Records
         /\ Entity(params, p).given = params.participant
         /\ Entity(params, p).participant = p
         /\ Entity(params, p).name = params.name
BY DEF Entity, Converted, Records, Contents

LEMMA InitInv == Init => IInv /\ ClientParamsTrue
<1> SUFFICES ASSUME Init PROVE IInv /\ ClientParamsTrue
  OBVIOUS
<1> USE EntitiesAssumption
<1>1. ParamsTypeOK /\ MemoryInv
  BY DefaultType DEF Init, ParamsInit, ParamsTypeOK, MemoryInv, Exists, Blocks, Objects, Entities
<1>2. TypeOK
  BY <1>1 DEF Init, TypeOK
<1>3. CountInv /\ Connected /\ DefaultShared /\ ClientParamsTrue
  BY DEF Init, CountInv, Connected, DefaultShared, ClientParamsTrue, Entities
<1> QED BY <1>1, <1>2, <1>3 DEF IInv

(* The parameter objects of the program.                                   *)
LEMMA ProgramObject ==
  ASSUME IInv, ClientParamsTrue, NEW v \in Vars,
         NEW content \in Contents,
         impl' = [impl EXCEPT ![v] = v], heap' = [heap EXCEPT ![v] = content],
         UNCHANGED <<defaultVars, entityVars>>
  PROVE  IInv' /\ ClientParamsTrue'
<1> USE EntitiesAssumption
<1>1. ParamsTypeOK' /\ MemoryInv'
  BY DEF IInv, TypeOK, ParamsTypeOK, MemoryInv, Exists, Blocks, Objects, entityVars
<1>2. TypeOK'
  BY <1>1 DEF IInv, TypeOK, defaultVars, entityVars
<1>3. CountInv' /\ Connected' /\ DefaultShared'
  BY DEF IInv, CountInv, Connected, DefaultShared, defaultVars, entityVars
<1>4. ClientParamsTrue'
  <2> SUFFICES ASSUME NEW c \in Clients, entity[c] # None
               PROVE  Exists(c)' /\ Content(c)' = [participant |-> entity[c].given, name |-> entity[c].name]
    BY DEF ClientParamsTrue, entityVars
  <2>1. Exists(c) /\ Content(c) = [participant |-> entity[c].given, name |-> entity[c].name]
    BY DEF ClientParamsTrue
  <2>2. impl[c] = c /\ c # v
    BY <2>1 DEF IInv, MemoryInv, Exists, Objects
  <2> QED BY <2>1, <2>2 DEF IInv, TypeOK, ParamsTypeOK, Exists, Content, Objects, Blocks
<1> QED BY <1>1, <1>2, <1>3, <1>4 DEF IInv

LEMMA SetParamsInv ==
  ASSUME IInv, ClientParamsTrue, NEW v \in Vars, SetParams(v)
  PROVE  IInv' /\ ClientParamsTrue'
<1> USE EntitiesAssumption
<1>0. v \in Objects /\ impl[v] = v /\ heap[v] \in Contents
  BY DEF IInv, TypeOK, ParamsTypeOK, MemoryInv, Exists, Objects, Blocks
<1>1. ASSUME NEW p \in Participants \cup {NullParticipant}, SetParam(v, "participant", p)
      PROVE  IInv' /\ ClientParamsTrue'
  <2> DEFINE content == [heap[v] EXCEPT !.participant = p]
  <2>1. content \in Contents
    BY <1>0 DEF Contents
  <2>2. /\ impl' = [impl EXCEPT ![v] = v] /\ heap' = [heap EXCEPT ![v] = content]
        /\ UNCHANGED <<defaultVars, entityVars>>
    BY <1>0, <1>1 DEF SetParam, Set, IInv, TypeOK, ParamsTypeOK, Blocks
  <2> QED BY <2>1, <2>2, ProgramObject
<1>2. ASSUME NEW name \in Names, SetParam(v, "name", name)
      PROVE  IInv' /\ ClientParamsTrue'
  <2> DEFINE content == [heap[v] EXCEPT !.name = name]
  <2>1. content \in Contents
    BY <1>0 DEF Contents
  <2>2. /\ impl' = [impl EXCEPT ![v] = v] /\ heap' = [heap EXCEPT ![v] = content]
        /\ UNCHANGED <<defaultVars, entityVars>>
    BY <1>0, <1>2 DEF SetParam, Set, IInv, TypeOK, ParamsTypeOK, Blocks
  <2> QED BY <2>1, <2>2, ProgramObject
<1> QED BY <1>1, <1>2 DEF SetParams

(* What may be copied has parameters.                                      *)
LEMMA AssignableType ==
  ASSUME IInv, ClientParamsTrue, NEW v \in Vars, NEW w \in Assignable(v)
  PROVE  w \in Objects /\ Exists(w) /\ Content(w) \in Contents
<1>1. w \in Vars \/ (w \in Clients /\ entity[w] # None)
  BY EntitiesAssumption DEF Assignable, Vars
<1>2. w \in Objects /\ Exists(w)
  BY <1>1 DEF IInv, MemoryInv, Objects
<1> QED BY <1>2, ContentType DEF IInv, TypeOK

LEMMA NewParamsInv ==
  ASSUME IInv, ClientParamsTrue, NEW v \in Vars, ResetParams(v) \/ AssignParams(v)
  PROVE  IInv' /\ ClientParamsTrue'
<1>0. v \in Objects /\ ParamsTypeOK /\ MemoryInv
  BY DEF Objects, IInv, TypeOK
<1>1. CASE ResetParams(v)
  <2>1. New(v, Default) /\ UNCHANGED <<defaultVars, entityVars>>
    BY <1>1 DEF ResetParams
  <2>2. impl' = [impl EXCEPT ![v] = v] /\ heap' = [heap EXCEPT ![v] = Default]
    BY <1>0, <2>1, NewType, DefaultType
  <2> QED BY <2>1, <2>2, ProgramObject, DefaultType
<1>2. CASE AssignParams(v)
  <2>1. PICK w \in Assignable(v) : Copy(v, w)
    BY <1>2 DEF AssignParams
  <2>2. Content(w) \in Contents
    BY AssignableType
  <2>3. impl' = [impl EXCEPT ![v] = v] /\ heap' = [heap EXCEPT ![v] = Content(w)]
    BY <1>0, <2>1, <2>2, NewType DEF Copy
  <2> QED BY <1>2, <2>2, <2>3, ProgramObject DEF AssignParams
<1> QED BY <1>1, <1>2

(* The participant.  Nobody is in the default one before it is there.      *)
LEMMA DefaultInv ==
  ASSUME IInv, ClientParamsTrue,
         domainid' \in Domains, default' \in Created \cup {NullParticipant}, created' \in 0..MaxCreated,
         default # NullParticipant => default' = default,
         UNCHANGED <<memoryVars, entityVars>>
  PROVE  IInv' /\ ClientParamsTrue'
<1>1. ParamsTypeOK' /\ MemoryInv' /\ ClientParamsTrue' /\ CountInv' /\ Connected'
  BY DEF IInv, TypeOK, ParamsTypeOK, MemoryInv, CountInv, Connected, ClientParamsTrue,
         Exists, Content, memoryVars, entityVars
<1>2. TypeOK'
  BY <1>1 DEF IInv, TypeOK, entityVars
<1>3. DefaultShared'
  BY DEF IInv, DefaultShared, Connected, entityVars
<1> QED BY <1>1, <1>2, <1>3 DEF IInv

LEMMA DefaultParticipantInv ==
  ASSUME IInv, ClientParamsTrue, AskDefault \/ \E d \in Domains : SetDomainId(d)
  PROVE  IInv' /\ ClientParamsTrue'
<1>1. CASE AskDefault
  <2>1. PICK p \in Created \cup {NullParticipant} : DefaultGet(p)
    BY <1>1 DEF AskDefault
  <2>2. UNCHANGED <<memoryVars, entityVars>>
    BY <1>1 DEF AskDefault
  <2> QED BY <2>1, <2>2, DefaultGetType, DefaultInv DEF AnyParticipant, IInv
<1>2. CASE \E d \in Domains : SetDomainId(d)
  BY <1>2, DefaultInv DEF SetDomainId, IInv, TypeOK
<1> QED BY <1>1, <1>2

(* An entity that is made: what the parts of the invariant need of it.     *)
LEMMA Made ==
  ASSUME IInv, NEW e \in Entities, entity[e] = None,
         NEW params \in Contents, NEW p \in AnyParticipant,
         domainid' \in Domains, default' \in Created \cup {NullParticipant}, created' \in 0..MaxCreated,
         default # NullParticipant => default' = default,
         ParamsTypeOK',
         entity' = [entity EXCEPT ![e] = Entity(params, p)], FirstHandle(e),
         NEW count \in Nat \ {0}, refs' = [refs EXCEPT ![e] = count],
         dispatchers' \in [Servers -> SUBSET Services]
  PROVE  TypeOK'
<1> USE EntitiesAssumption
<1>1. entity' \in [Entities -> Records \cup {None}] /\ \A f \in Entities : entity'[f] = None <=> f # e /\ entity[f] = None
  BY EntityType DEF IInv, TypeOK
<1>2. handles' \in [Entities -> 0..MaxHandles]
  BY DEF FirstHandle, IInv, TypeOK
<1>3. refs' \in [Entities -> Nat] /\ \A f \in Entities : refs'[f] = 0 <=> f # e /\ refs[f] = 0
  BY DEF IInv, TypeOK
<1> QED BY <1>1, <1>2, <1>3 DEF IInv, TypeOK

LEMMA MadeConnected ==
  ASSUME IInv, NEW e \in Clients \cup Services,
         NEW params \in Contents, NEW p \in AnyParticipant,
         default # NullParticipant => default' = default,
         p = IF params.participant = NullParticipant THEN default' ELSE params.participant,
         p # NullParticipant,
         entity' = [entity EXCEPT ![e] = Entity(params, p)]
  PROVE  Connected' /\ DefaultShared'
<1>1. \A f \in Clients \cup Services : entity'[f] = IF f = e THEN Entity(params, p) ELSE entity[f]
  BY DEF IInv, TypeOK, Entities
<1>2. Entity(params, p).given = params.participant /\ Entity(params, p).participant = p
  BY EntityType
<1>3. Connected'
  BY <1>1, <1>2 DEF IInv, Connected
<1>4. DefaultShared'
  BY <1>1, <1>2 DEF IInv, Connected, DefaultShared
<1> QED BY <1>3, <1>4

LEMMA MakeClientInv ==
  ASSUME IInv, ClientParamsTrue, NEW c \in Clients, NEW params \in Contents, MakeClient(c, params)
  PROVE  IInv' /\ ClientParamsTrue'
<1> USE EntitiesAssumption
<1>1. PICK p \in AnyParticipant :
        /\ Connect(params, p)
        /\ \/ /\ p # NullParticipant
              /\ New(c, params)
              /\ entity' = [entity EXCEPT ![c] = Entity(params, p)]
              /\ FirstHandle(c) /\ refs' = [refs EXCEPT ![c] = 1]
           \/ UNCHANGED <<memoryVars, entity, handles, refs>>
  BY DEF MakeClient
<1>2. /\ domainid' \in Domains /\ default' \in Created \cup {NullParticipant} /\ created' \in 0..MaxCreated
      /\ p = IF params.participant = NullParticipant THEN default' ELSE params.participant
      /\ default # NullParticipant => default' = default
  BY <1>1, ConnectType DEF IInv
<1>3. entity[c] = None /\ dispatchers' = dispatchers
  BY DEF MakeClient
<1>4. CASE UNCHANGED <<memoryVars, entity, handles, refs>>
  BY <1>2, <1>3, <1>4, DefaultInv DEF entityVars
<1>5. CASE /\ p # NullParticipant
           /\ New(c, params)
           /\ entity' = [entity EXCEPT ![c] = Entity(params, p)]
           /\ FirstHandle(c) /\ refs' = [refs EXCEPT ![c] = 1]
  <2>1. c \in Objects /\ c \in Entities /\ c \notin Vars
    BY DEF Objects, Entities
  <2>2. impl' = [impl EXCEPT ![c] = c] /\ heap' = [heap EXCEPT ![c] = params] /\ ParamsTypeOK'
    BY <1>5, <2>1, NewType DEF IInv, TypeOK
  <2>3. TypeOK'
    <3>1. dispatchers' \in [Servers -> SUBSET Services]
      BY <1>3 DEF IInv, TypeOK
    <3>2. 1 \in Nat \ {0}
      OBVIOUS
    <3> QED BY <1>2, <1>3, <1>5, <2>1, <2>2, <3>1, <3>2, Made
  <2>4. \A f \in Entities : entity'[f] = IF f = c THEN Entity(params, p) ELSE entity[f]
    BY <1>5 DEF IInv, TypeOK
  <2>5. Entity(params, p) # None
    BY EntityType
  <2>6. MemoryInv'
    <3>1. \A o \in Objects : impl'[o] = IF o = c THEN c ELSE impl[o]
      BY <2>2 DEF IInv, TypeOK, ParamsTypeOK
    <3> QED BY <2>1, <2>4, <2>5, <3>1 DEF IInv, MemoryInv, Exists, Objects, Entities
  <2>7. CountInv'
    BY <1>3, <1>5, <2>1 DEF IInv, CountInv, TypeOK, FirstHandle, Entities
  <2>8. Connected' /\ DefaultShared'
    BY <1>2, <1>5, MadeConnected
  <2>9. ClientParamsTrue'
    <3> SUFFICES ASSUME NEW d \in Clients, entity'[d] # None
                 PROVE  Exists(d)' /\ Content(d)' = [participant |-> entity'[d].given, name |-> entity'[d].name]
      BY DEF ClientParamsTrue
    <3>1. d \in Objects /\ d \in Entities
      BY DEF Objects, Entities
    <3>2. CASE d = c
      BY <1>5, <2>2, <2>4, <3>1, <3>2, EntityType DEF IInv, TypeOK, ParamsTypeOK, Exists, Content, Blocks, Contents
    <3>3. CASE d # c
      <4>1. entity'[d] = entity[d] /\ Exists(d) /\ Content(d) = [participant |-> entity[d].given, name |-> entity[d].name]
        BY <2>4, <3>1, <3>3 DEF ClientParamsTrue
      <4>2. impl[d] = d
        BY <3>1, <4>1 DEF IInv, MemoryInv, Exists
      <4> QED BY <2>2, <3>1, <3>3, <4>1, <4>2 DEF IInv, TypeOK, ParamsTypeOK, Exists, Content, Blocks
    <3> QED BY <3>2, <3>3
  <2> QED BY <2>3, <2>6, <2>7, <2>8, <2>9 DEF IInv
<1> QED BY <1>1, <1>4, <1>5

LEMMA ClientsInv ==
  ASSUME IInv, ClientParamsTrue, NEW c \in Clients, ClientWith(c) \/ ClientDefault(c)
  PROVE  IInv' /\ ClientParamsTrue'
<1>1. CASE ClientWith(c)
  <2>1. PICK v \in ClientVars : MakeClient(c, Content(v))
    BY <1>1 DEF ClientWith
  <2>2. Content(v) \in Contents
    BY ContentType DEF IInv, TypeOK, MemoryInv, Vars, Objects
  <2> QED BY <2>1, <2>2, MakeClientInv
<1>2. CASE ClientDefault(c)
  <2>1. [participant |-> NullParticipant, name |-> RobotControl] \in Contents
    BY EntitiesAssumption DEF Contents
  <2> QED BY <1>2, <2>1, MakeClientInv DEF ClientDefault
<1> QED BY <1>1, <1>2

LEMMA ServersInv ==
  ASSUME IInv, ClientParamsTrue, NEW s \in Servers, ServerDefault(s) \/ ServerWith(s)
  PROVE  IInv' /\ ClientParamsTrue'
<1> USE EntitiesAssumption
<1>1. ASSUME NEW p \in AnyParticipant, NEW params \in Contents, entity[s] = None,
             domainid' \in Domains, default' \in Created \cup {NullParticipant}, created' \in 0..MaxCreated,
             default # NullParticipant => default' = default,
             entity' = [entity EXCEPT ![s] = Entity(params, p)],
             FirstHandle(s), refs' = [refs EXCEPT ![s] = 1],
             UNCHANGED <<memoryVars, dispatchers>>
      PROVE  IInv' /\ ClientParamsTrue'
  <2>1. s \in Entities /\ s \notin Clients /\ s \notin Services
    BY DEF Entities
  <2>2. \A f \in Entities : entity'[f] = IF f = s THEN Entity(params, p) ELSE entity[f]
    BY <1>1 DEF IInv, TypeOK
  <2>3. ParamsTypeOK' /\ MemoryInv' /\ ClientParamsTrue'
    BY <1>1, <2>1, <2>2 DEF IInv, TypeOK, ParamsTypeOK, MemoryInv, ClientParamsTrue,
         Exists, Content, memoryVars, Entities
  <2>4. TypeOK'
    <3>1. dispatchers' \in [Servers -> SUBSET Services] /\ 1 \in Nat \ {0}
      BY <1>1 DEF IInv, TypeOK
    <3> QED BY <1>1, <2>1, <2>3, <3>1, Made
  <2>5. CountInv'
    BY <1>1, <2>1 DEF IInv, CountInv, TypeOK, FirstHandle, Entities
  <2>6. Connected' /\ DefaultShared'
    BY <1>1, <2>1, <2>2 DEF IInv, Connected, DefaultShared, Entities
  <2> QED BY <2>3, <2>4, <2>5, <2>6 DEF IInv
<1>2. CASE ServerDefault(s)
  <2>1. PICK p \in AnyParticipant :
          /\ DefaultGet(p)
          /\ IF p = NullParticipant THEN UNCHANGED <<entity, handles, refs>>
             ELSE /\ entity' = [entity EXCEPT ![s] = Entity(Default, p)]
                  /\ FirstHandle(s) /\ refs' = [refs EXCEPT ![s] = 1]
    BY <1>2 DEF ServerDefault
  <2>2. /\ domainid' \in Domains /\ default' \in Created \cup {NullParticipant} /\ created' \in 0..MaxCreated
        /\ default # NullParticipant => default' = default
    BY <2>1, DefaultGetType DEF IInv
  <2>3. entity[s] = None /\ UNCHANGED <<memoryVars, dispatchers>>
    BY <1>2 DEF ServerDefault
  <2>4. CASE p = NullParticipant
    BY <2>1, <2>2, <2>3, <2>4, DefaultInv DEF entityVars
  <2>5. CASE p # NullParticipant
    BY <1>1, <2>1, <2>2, <2>3, <2>5, DefaultType
  <2> QED BY <2>4, <2>5
<1>3. CASE ServerWith(s)
  <2>1. PICK v \in ServerVars :
          entity' = [entity EXCEPT ![s] =
            Entity([Default EXCEPT !.participant = Content(v).participant], Content(v).participant)]
    BY <1>3 DEF ServerWith
  <2>2. Content(v) \in Contents
    BY ContentType DEF IInv, TypeOK, MemoryInv, Vars, Objects
  <2>3. /\ Content(v).participant \in AnyParticipant
        /\ [Default EXCEPT !.participant = Content(v).participant] \in Contents
    BY <2>2 DEF Contents, Default, AnyParticipant
  <2>4. /\ domainid' \in Domains /\ default' \in Created \cup {NullParticipant} /\ created' \in 0..MaxCreated
        /\ default # NullParticipant => default' = default
    BY <1>3 DEF ServerWith, defaultVars, IInv, TypeOK
  <2>5. /\ entity[s] = None /\ UNCHANGED <<memoryVars, dispatchers>>
        /\ FirstHandle(s) /\ refs' = [refs EXCEPT ![s] = 1]
    BY <1>3 DEF ServerWith
  <2> QED BY <1>1, <2>1, <2>3, <2>4, <2>5
<1> QED BY <1>2, <1>3

LEMMA ServicesInv ==
  ASSUME IInv, ClientParamsTrue, NEW e \in Services, ServiceWith(e)
  PROVE  IInv' /\ ClientParamsTrue'
<1> USE EntitiesAssumption
<1>1. PICK s \in Servers, v \in ServiceVars, p \in AnyParticipant :
        /\ handles[s] > 0
        /\ Connect(Content(v), p)
        /\ \/ /\ p # NullParticipant
              /\ entity' = [entity EXCEPT ![e] = Entity(Content(v), p)]
              /\ FirstHandle(e) /\ Register(s, e)
           \/ UNCHANGED entityVars
  BY DEF ServiceWith
<1> DEFINE params == Content(v)
<1>2. params \in Contents
  BY ContentType DEF IInv, TypeOK, MemoryInv, Vars, Objects
<1> HIDE DEF params
<1>3. /\ domainid' \in Domains /\ default' \in Created \cup {NullParticipant} /\ created' \in 0..MaxCreated
      /\ p = IF params.participant = NullParticipant THEN default' ELSE params.participant
      /\ default # NullParticipant => default' = default
  BY <1>1, <1>2, ConnectType DEF IInv, params
<1>4. entity[e] = None /\ UNCHANGED memoryVars
  BY DEF ServiceWith
<1>5. CASE UNCHANGED entityVars
  BY <1>3, <1>4, <1>5, DefaultInv
<1>6. CASE /\ p # NullParticipant
           /\ entity' = [entity EXCEPT ![e] = Entity(params, p)]
           /\ FirstHandle(e) /\ Register(s, e)
  <2>1. e \in Entities /\ e \notin Clients /\ e \notin Servers /\ s \in Entities
    BY DEF Entities
  <2>2. \A f \in Entities : entity'[f] = IF f = e THEN Entity(params, p) ELSE entity[f]
    BY <1>6 DEF IInv, TypeOK
  <2>3. ParamsTypeOK' /\ MemoryInv' /\ ClientParamsTrue'
    BY <1>4, <2>1, <2>2 DEF IInv, TypeOK, ParamsTypeOK, MemoryInv, ClientParamsTrue,
         Exists, Content, memoryVars, Entities
  <2>4. TypeOK'
    <3>1. dispatchers' \in [Servers -> SUBSET Services] /\ 2 \in Nat \ {0} /\ refs' = [refs EXCEPT ![e] = 2]
      BY <1>6 DEF Register, IInv, TypeOK
    <3> QED BY <1>2, <1>3, <1>4, <1>6, <2>1, <2>3, <3>1, Made
  <2>5. CountInv'
    <3>1. refs[e] = 0
      BY <1>4, <2>1 DEF IInv, TypeOK
    <3>2. handles[e] \in Nat /\ handles[e] = 0 /\ \A t \in Servers : e \notin dispatchers[t]
      BY <3>1, <2>1 DEF IInv, TypeOK, CountInv
    <3>3. /\ \A f \in Entities : handles'[f] = IF f = e THEN 1 ELSE handles[f]
          /\ \A f \in Entities : refs'[f] = IF f = e THEN 2 ELSE refs[f]
          /\ \A t \in Servers : dispatchers'[t] = IF t = s THEN dispatchers[s] \cup {e} ELSE dispatchers[t]
      BY <1>6 DEF FirstHandle, Register, IInv, TypeOK
    <3>4. refs[s] # 0
      BY <1>1, <2>1 DEF IInv, TypeOK, CountInv
    <3>5. \A f \in Clients \cup Servers : refs'[f] = handles'[f]
      BY <2>1, <3>3 DEF IInv, CountInv, Entities
    <3>6. \A t \in Servers : refs'[t] = 0 => dispatchers'[t] = {}
      BY <2>1, <3>3, <3>4 DEF IInv, CountInv, Entities
    <3>7. ASSUME NEW f \in Services
          PROVE  /\ refs'[f] = handles'[f] \/ refs'[f] = handles'[f] + 1
                 /\ refs'[f] = handles'[f] <=> \A t \in Servers : f \notin dispatchers'[t]
                 /\ \A t, u \in Servers : f \in dispatchers'[t] \cap dispatchers'[u] => t = u
      <4>1. CASE f = e
        BY <2>1, <3>2, <3>3, <4>1
      <4>2. CASE f # e
        BY <3>3, <4>2 DEF IInv, CountInv, Entities
      <4> QED BY <4>1, <4>2
    <3> QED BY <3>5, <3>6, <3>7 DEF CountInv
  <2>6. Connected' /\ DefaultShared'
    BY <1>2, <1>3, <1>6, MadeConnected
  <2> QED BY <2>3, <2>4, <2>5, <2>6 DEF IInv
<1> QED BY <1>1, <1>5, <1>6 DEF params

LEMMA CopyHandleInv ==
  ASSUME IInv, ClientParamsTrue, NEW e \in Entities, CopyHandle(e)
  PROVE  IInv' /\ ClientParamsTrue'
<1> USE EntitiesAssumption
<1>1. /\ UNCHANGED <<memoryVars, defaultVars, entity, dispatchers>>
      /\ handles[e] \in 1..(MaxHandles - 1)
      /\ \A f \in Entities : handles'[f] = IF f = e THEN handles[f] + 1 ELSE handles[f]
      /\ \A f \in Entities : refs'[f] = IF f = e THEN refs[f] + 1 ELSE refs[f]
      /\ handles' \in [Entities -> 0..MaxHandles] /\ refs' \in [Entities -> Nat]
  BY DEF CopyHandle, IInv, TypeOK
<1>2. refs[e] # 0
  BY <1>1 DEF IInv, TypeOK, CountInv, Entities
<1>3. MemoryInv' /\ Connected' /\ DefaultShared' /\ ClientParamsTrue'
  BY <1>1 DEF IInv, MemoryInv, Connected, DefaultShared, ClientParamsTrue,
       Exists, Content, memoryVars, defaultVars
<1>4. TypeOK'
  <2>1. ParamsTypeOK'
    BY <1>1 DEF IInv, TypeOK, ParamsTypeOK, memoryVars
  <2>2. \A f \in Entities : refs[f] \in Nat /\ (refs[f] = 0 <=> entity[f] = None)
    BY DEF IInv, TypeOK
  <2>3. \A f \in Entities : refs'[f] = 0 <=> entity'[f] = None
    BY <1>1, <1>2, <2>2
  <2> QED BY <1>1, <2>1, <2>3 DEF IInv, TypeOK, defaultVars
<1>5. CountInv'
  <2>1. \A f \in Entities : refs[f] \in Nat /\ handles[f] \in Nat
    BY DEF IInv, TypeOK
  <2>2. \A f \in Clients \cup Servers : f \in Entities /\ refs'[f] = handles'[f]
    BY <1>1 DEF IInv, CountInv, Entities
  <2>3. \A s \in Servers : refs'[s] = 0 => dispatchers'[s] = {}
    BY <1>1, <1>2, <2>1 DEF IInv, CountInv, Entities
  <2>4. ASSUME NEW f \in Services
        PROVE  /\ refs'[f] = handles'[f] \/ refs'[f] = handles'[f] + 1
               /\ refs'[f] = handles'[f] <=> \A t \in Servers : f \notin dispatchers'[t]
               /\ \A t, u \in Servers : f \in dispatchers'[t] \cap dispatchers'[u] => t = u
    <3>1. f \in Entities
      BY DEF Entities
    <3>2. /\ refs[f] = handles[f] \/ refs[f] = handles[f] + 1
          /\ refs[f] = handles[f] <=> \A t \in Servers : f \notin dispatchers[t]
          /\ \A t, u \in Servers : f \in dispatchers[t] \cap dispatchers[u] => t = u
      BY DEF IInv, CountInv
    <3> QED BY <1>1, <2>1, <3>1, <3>2
  <2> QED BY <2>2, <2>3, <2>4 DEF CountInv
<1> QED BY <1>3, <1>4, <1>5 DEF IInv

(* The use counts when a handle goes: whatever lost a reference had one.   *)
LEMMA DropCounts ==
  ASSUME IInv, NEW e \in Entities, handles[e] > 0,
         handles' = [handles EXCEPT ![e] = @ - 1],
         refs' = [f \in Entities |-> IF f \in Lost(e) THEN refs[f] - 1 ELSE refs[f]],
         dispatchers' = [s \in Servers |-> IF refs'[s] = 0 THEN {} ELSE dispatchers[s]]
  PROVE  /\ handles' \in [Entities -> 0..MaxHandles]
         /\ refs' \in [Entities -> Nat]
         /\ \A f \in Entities : refs[f] = 0 => refs'[f] = 0
         /\ \A c \in Clients : refs'[c] = IF c = e THEN refs[c] - 1 ELSE refs[c]
         /\ CountInv'
<1> USE EntitiesAssumption
<1>1. /\ \A f \in Entities : refs[f] \in Nat /\ handles[f] \in Nat /\ handles[f] \in 0..MaxHandles
      /\ \A f \in Entities : handles'[f] = IF f = e THEN handles[f] - 1 ELSE handles[f]
      /\ handles' \in [Entities -> 0..MaxHandles]
  BY DEF IInv, TypeOK
<1>2. \A s \in Servers : dispatchers[s] \subseteq Services
  BY DEF IInv, TypeOK
<1>3. /\ e \in Lost(e) /\ Lost(e) \subseteq {e} \cup Services
      /\ \A f \in Services : f # e /\ f \in Lost(e) =>
           e \in Servers /\ refs[e] = 1 /\ f \in dispatchers[e]
      /\ \A f \in Services : e \in Servers /\ refs[e] = 1 /\ f \in dispatchers[e] => f \in Lost(e)
  BY <1>2 DEF Lost
<1>4. \A f \in Entities : refs'[f] = IF f \in Lost(e) THEN refs[f] - 1 ELSE refs[f]
  OBVIOUS
<1>5. \A f \in Clients \cup Servers : f \in Entities /\ refs[f] = handles[f] /\ (f \in Lost(e) <=> f = e)
  BY <1>3 DEF IInv, CountInv, Entities
<1>6. \A f \in Clients \cup Servers : refs'[f] = handles'[f] /\ refs'[f] = IF f = e THEN refs[f] - 1 ELSE refs[f]
  BY <1>1, <1>4, <1>5
<1>7. \A f \in Services :
        /\ f \in Entities
        /\ refs[f] = handles[f] \/ refs[f] = handles[f] + 1
        /\ refs[f] = handles[f] <=> \A t \in Servers : f \notin dispatchers[t]
        /\ \A t, u \in Servers : f \in dispatchers[t] \cap dispatchers[u] => t = u
  BY DEF IInv, CountInv, Entities
<1>8. ASSUME NEW f \in Lost(e)
      PROVE  f \in Entities /\ refs[f] > 0
  <2>1. CASE f = e
    BY <1>1, <1>5, <1>7, <2>1 DEF Entities
  <2>2. CASE f # e
    <3>1. f \in Services /\ e \in Servers /\ f \in dispatchers[e]
      BY <1>3, <2>2
    <3>2. refs[f] # handles[f]
      BY <1>7, <3>1
    <3> QED BY <1>1, <1>7, <3>1, <3>2
  <2> QED BY <2>1, <2>2
<1>9. refs' \in [Entities -> Nat] /\ \A f \in Entities : refs[f] = 0 => refs'[f] = 0
  BY <1>1, <1>4, <1>8
<1>10. ASSUME NEW f \in Services
       PROVE  /\ refs'[f] = handles'[f] \/ refs'[f] = handles'[f] + 1
              /\ refs'[f] = handles'[f] <=> \A t \in Servers : f \notin dispatchers'[t]
              /\ \A t, u \in Servers : f \in dispatchers'[t] \cap dispatchers'[u] => t = u
  <2>0. \A t \in Servers : dispatchers'[t] = IF refs'[t] = 0 THEN {} ELSE dispatchers[t]
    OBVIOUS
  <2>1. \A t \in Servers : refs'[t] = 0 <=> refs[t] = 0 \/ (t = e /\ refs[t] = 1)
    BY <1>1, <1>5, <1>6, <1>8
  <2>2. \A t \in Servers : refs[t] = 0 => dispatchers[t] = {}
    BY DEF IInv, CountInv
  <2>3. \A t \in Servers : f \in dispatchers'[t] <=> f \in dispatchers[t] /\ ~(t = e /\ refs[t] = 1)
    BY <2>0, <2>1, <2>2
  <2>4. CASE e \in Servers /\ refs[e] = 1 /\ f \in dispatchers[e]
    <3>1. f # e /\ f \in Lost(e) /\ refs[f] = handles[f] + 1
      BY <1>1, <1>3, <1>7, <2>4
    <3>2. \A t \in Servers : f \notin dispatchers'[t]
      BY <1>7, <2>3, <2>4
    <3> QED BY <1>1, <1>4, <1>7, <3>1, <3>2
  <2>5. CASE ~(e \in Servers /\ refs[e] = 1 /\ f \in dispatchers[e])
    <3>1. f \in Lost(e) <=> f = e
      BY <1>3, <2>5
    <3>2. \A t \in Servers : f \in dispatchers'[t] <=> f \in dispatchers[t]
      BY <2>3, <2>5
    <3>3. /\ refs[f] \in Nat /\ handles[f] \in Nat
          /\ refs'[f] = IF f = e THEN refs[f] - 1 ELSE refs[f]
          /\ handles'[f] = IF f = e THEN handles[f] - 1 ELSE handles[f]
      BY <1>1, <1>4, <1>7, <3>1
    <3>4. /\ refs'[f] = handles'[f] <=> refs[f] = handles[f]
          /\ refs'[f] = handles'[f] + 1 <=> refs[f] = handles[f] + 1
      BY <3>3
    <3> QED BY <1>7, <3>2, <3>4
  <2> QED BY <2>4, <2>5
<1>11. \A s \in Servers : refs'[s] = 0 => dispatchers'[s] = {}
  OBVIOUS
<1>12. CountInv'
  BY <1>6, <1>10, <1>11 DEF CountInv
<1> QED BY <1>1, <1>6, <1>9, <1>12

LEMMA DropHandleInv ==
  ASSUME IInv, ClientParamsTrue, NEW e \in Entities, DropHandle(e)
  PROVE  IInv' /\ ClientParamsTrue'
<1> USE EntitiesAssumption
<1>1. /\ handles[e] > 0
      /\ handles' = [handles EXCEPT ![e] = @ - 1]
      /\ refs' = [f \in Entities |-> IF f \in Lost(e) THEN refs[f] - 1 ELSE refs[f]]
      /\ entity' = [f \in Entities |-> IF refs'[f] = 0 THEN None ELSE entity[f]]
      /\ dispatchers' = [s \in Servers |-> IF refs'[s] = 0 THEN {} ELSE dispatchers[s]]
      /\ UNCHANGED defaultVars
  BY DEF DropHandle
<1>2. /\ handles' \in [Entities -> 0..MaxHandles] /\ refs' \in [Entities -> Nat]
      /\ \A f \in Entities : refs[f] = 0 => refs'[f] = 0
      /\ \A c \in Clients : refs'[c] = IF c = e THEN refs[c] - 1 ELSE refs[c]
      /\ CountInv'
  BY <1>1, DropCounts
<1>3. /\ \A f \in Entities : refs'[f] = 0 <=> entity'[f] = None
      /\ \A f \in Entities : entity'[f] # None => entity'[f] = entity[f]
      /\ entity' \in [Entities -> Records \cup {None}]
  BY <1>1, <1>2 DEF IInv, TypeOK
<1>4. \A c \in Clients :
        /\ c \in Entities /\ c \in Objects /\ c \notin Vars
        /\ (entity'[c] = None <=> entity[c] = None \/ (c = e /\ refs[c] = 1))
        /\ (Exists(c) <=> entity[c] # None)
  <2>1. \A c \in Clients : c \in Entities /\ c \in Objects /\ c \notin Vars /\ refs[c] \in Nat /\ (refs[c] = 0 <=> entity[c] = None)
    BY DEF Entities, Objects, IInv, TypeOK
  <2>2. \A c \in Clients : c = e => refs[c] > 0
    BY <1>1 DEF IInv, CountInv
  <2> QED BY <1>2, <1>3, <2>1, <2>2 DEF IInv, MemoryInv
<1>5. ParamsTypeOK' /\ MemoryInv' /\ ClientParamsTrue'
  <2>1. CASE e \in Clients /\ refs[e] = 1
    <3>1. impl[e] = e
      BY <1>4, <2>1 DEF IInv, MemoryInv, Exists, TypeOK
    <3>2. impl' = [impl EXCEPT ![e] = NoBlock] /\ heap' = [heap EXCEPT ![e] = Default]
      BY <2>1, <3>1 DEF DropHandle, Delete
    <3>3. ParamsTypeOK'
      BY <1>4, <2>1, <3>2, DefaultType DEF IInv, TypeOK, ParamsTypeOK
    <3>4. /\ \A o \in Objects : impl'[o] = IF o = e THEN NoBlock ELSE impl[o]
          /\ \A o \in Objects : heap'[o] = IF o = e THEN Default ELSE heap[o]
      BY <3>2 DEF IInv, TypeOK, ParamsTypeOK, Blocks
    <3>5. MemoryInv'
      BY <1>4, <2>1, <3>4 DEF IInv, MemoryInv, Exists, Objects
    <3>6. ClientParamsTrue'
      <4> SUFFICES ASSUME NEW c \in Clients, entity'[c] # None
                   PROVE  Exists(c)' /\ Content(c)' = [participant |-> entity'[c].given, name |-> entity'[c].name]
        BY DEF ClientParamsTrue
      <4>1. c # e /\ entity'[c] = entity[c] /\ entity[c] # None /\ c \in Objects
        BY <1>3, <1>4, <2>1
      <4>2. impl[c] = c
        BY <1>4, <4>1 DEF IInv, MemoryInv, Exists
      <4> QED BY <3>4, <4>1, <4>2 DEF ClientParamsTrue, Exists, Content
    <3> QED BY <3>3, <3>5, <3>6
  <2>2. CASE ~(e \in Clients /\ refs[e] = 1)
    <3>1. UNCHANGED memoryVars
      BY <2>2 DEF DropHandle
    <3>2. ParamsTypeOK'
      BY <3>1 DEF IInv, TypeOK, ParamsTypeOK, memoryVars
    <3>3. MemoryInv'
      BY <1>4, <2>2, <3>1 DEF IInv, MemoryInv, Exists, memoryVars
    <3>4. ClientParamsTrue'
      BY <1>3, <1>4, <3>1 DEF ClientParamsTrue, Exists, Content, memoryVars
    <3> QED BY <3>2, <3>3, <3>4
  <2> QED BY <2>1, <2>2
<1>6. TypeOK'
  <2>1. dispatchers' \in [Servers -> SUBSET Services]
    BY <1>1 DEF IInv, TypeOK
  <2> QED BY <1>1, <1>2, <1>3, <1>5, <2>1 DEF IInv, TypeOK, defaultVars
<1>7. Connected' /\ DefaultShared'
  BY <1>1, <1>3 DEF IInv, Connected, DefaultShared, Entities, defaultVars
<1> QED BY <1>2, <1>5, <1>6, <1>7 DEF IInv
-----------------------------------------------------------------------------
(* Every step.                                                             *)
LEMMA NextInv == IInv /\ ClientParamsTrue /\ [Next]_vars => IInv' /\ ClientParamsTrue'
<1> SUFFICES ASSUME IInv, ClientParamsTrue, [Next]_vars PROVE IInv' /\ ClientParamsTrue'
  OBVIOUS
<1>1. CASE \E v \in Vars : SetParams(v) \/ ResetParams(v) \/ AssignParams(v)
  BY <1>1, SetParamsInv, NewParamsInv
<1>2. CASE AskDefault \/ \E d \in Domains : SetDomainId(d)
  BY <1>2, DefaultParticipantInv
<1>3. CASE \E c \in Clients : ClientWith(c) \/ ClientDefault(c)
  BY <1>3, ClientsInv
<1>4. CASE \E s \in Servers : ServerDefault(s) \/ ServerWith(s)
  BY <1>4, ServersInv
<1>5. CASE \E e \in Services : ServiceWith(e)
  BY <1>5, ServicesInv
<1>6. CASE \E e \in Entities : CopyHandle(e) \/ DropHandle(e)
  BY <1>6, CopyHandleInv, DropHandleInv
<1>7. CASE UNCHANGED vars
  BY <1>7, DefaultInv DEF vars, defaultVars, IInv, TypeOK
<1> QED BY <1>1, <1>2, <1>3, <1>4, <1>5, <1>6, <1>7 DEF Next

LEMMA Invariant == Spec => [](IInv /\ ClientParamsTrue)
<1>1. Init => IInv /\ ClientParamsTrue
  BY InitInv
<1>2. IInv /\ ClientParamsTrue /\ [Next]_vars => (IInv /\ ClientParamsTrue)'
  BY NextInv
<1> QED BY <1>1, <1>2, PTL DEF Spec

(* The variables have their types, and an entity is gone exactly when its  *)
(* last reference is (function_call.hpp, the shared_ptr members).          *)
THEOREM TypeCorrect == Spec => []TypeOK
<1>1. IInv => TypeOK
  BY DEF IInv
<1> QED BY <1>1, Invariant, PTL

(* get_client_params tells what a client's requester was made with         *)
(* (ClientImpl's constructor and the copying of ClientParams).             *)
THEOREM ClientParamsHold == Spec => []ClientParamsTrue
BY Invariant, PTL

(* Whoever asked DefaultDomainParticipant for a participant got the one it *)
(* has now.                                                                *)
THEOREM DefaultSharedHolds == Spec => []DefaultShared
<1>1. IInv => DefaultShared
  BY DEF IInv
<1> QED BY <1>1, Invariant, PTL

(* What a server of the program dispatches to is there (register_service   *)
(* keeps a shared_ptr to each dispatcher).                                 *)
THEOREM RegisteredServedHolds == Spec => []RegisteredServed
<1>1. IInv => RegisteredServed
  <2> SUFFICES ASSUME IInv, NEW s \in Servers, NEW e \in dispatchers[s] PROVE entity[e] # None
    BY DEF RegisteredServed
  <2>1. e \in Services /\ e \in Entities /\ refs[e] \in Nat /\ handles[e] \in Nat
    BY DEF IInv, TypeOK, Entities
  <2>2. refs[e] = handles[e] + 1
    BY <2>1 DEF IInv, CountInv
  <2> QED BY <2>1, <2>2 DEF IInv, TypeOK
<1> QED BY <1>1, Invariant, PTL
-----------------------------------------------------------------------------
(* Parameter objects are values.  An object that gets its own block, or    *)
(* none, and new parameters in it, changes alone.                          *)
LEMMA OneChanges ==
  ASSUME ParamsTypeOK, MemoryInv, NEW o \in Objects, NEW block \in {o, NoBlock}, NEW content \in Contents,
         impl' = [impl EXCEPT ![o] = block], heap' = [heap EXCEPT ![o] = content]
  PROVE  /\ Held'[o] = IF block = o THEN content ELSE NoBlock
         /\ \A p \in Objects \ {o} : Held'[p] = Held[p]
<1>1. /\ \A p \in Objects : impl'[p] = IF p = o THEN block ELSE impl[p]
      /\ \A p \in Objects : heap'[p] = IF p = o THEN content ELSE heap[p]
      /\ \A p \in Objects : impl[p] \in {p, NoBlock}
  BY DEF ParamsTypeOK, MemoryInv, Blocks
<1>2. \A p \in Objects : Held[p] = IF impl[p] # NoBlock THEN heap[p] ELSE NoBlock
  BY <1>1 DEF Held, Exists, Content
<1>3. \A p \in Objects : Held'[p] = IF impl'[p] # NoBlock THEN heap'[p] ELSE NoBlock
  BY <1>1 DEF Held, Exists, Content
<1>4. o # NoBlock
  BY EntitiesAssumption
<1> QED BY <1>1, <1>2, <1>3, <1>4

LEMMA HeldType ==
  ASSUME IInv, NEW o \in Objects
  PROVE  IF Exists(o) THEN Held[o] = Content(o) /\ Held[o] \in Contents /\ Held[o] # NoBlock
         ELSE Held[o] = NoBlock
BY ContentType, EntitiesAssumption DEF IInv, TypeOK, Held

(* The shape of a step of ParamValues.                                     *)
LEMMA ValueStep ==
  ASSUME NEW o \in Objects, \A p \in Objects \ {o} : Held'[p] = Held[p],
         Values!Make(o) \/ Values!Reset(o) \/ Values!SetOne(o) \/ Values!Copy(o) \/ Values!Drop(o)
  PROVE  Values!Next
<1>1. DOMAIN Held' = Objects
  BY DEF Held
<1> QED BY <1>1 DEF Values!Next

LEMMA StutterStep == ASSUME UNCHANGED memoryVars PROVE UNCHANGED Held
BY DEF memoryVars, Held, Exists, Content

LEMMA SetParamsValue ==
  ASSUME IInv, NEW v \in Vars, SetParams(v)
  PROVE  Values!Next
<1>0. v \in Objects /\ impl[v] = v /\ heap[v] \in Contents /\ Held[v] = heap[v] /\ Held[v] # NoBlock
  <2>1. v \in Objects /\ Exists(v) /\ impl[v] = v
    BY DEF IInv, MemoryInv, Exists, Objects
  <2> QED BY <2>1, HeldType DEF Content
<1>1. PICK field \in DOMAIN Default, content \in Contents :
        Set(v, field, content[field])
  <2>1. ASSUME NEW p \in Participants \cup {NullParticipant}, SetParam(v, "participant", p)
        PROVE  \E field \in DOMAIN Default, content \in Contents : Set(v, field, content[field])
    <3>1. [Default EXCEPT !.participant = p] \in Contents /\ [Default EXCEPT !.participant = p]["participant"] = p
      BY DEF Default, Contents
    <3>2. "participant" \in DOMAIN Default
      BY DEF Default
    <3> QED BY <2>1, <3>1, <3>2 DEF SetParam
  <2>2. ASSUME NEW name \in Names, SetParam(v, "name", name)
        PROVE  \E field \in DOMAIN Default, content \in Contents : Set(v, field, content[field])
    <3>1. [Default EXCEPT !.name = name] \in Contents /\ [Default EXCEPT !.name = name]["name"] = name
      BY DEF Default, Contents
    <3>2. "name" \in DOMAIN Default
      BY DEF Default
    <3> QED BY <2>2, <3>1, <3>2 DEF SetParam
  <2> QED BY <2>1, <2>2 DEF SetParams
<1> DEFINE new == [heap[v] EXCEPT ![field] = content[field]]
<1>2. new \in Contents
  BY <1>0 DEF Contents, Default
<1>3. impl' = [impl EXCEPT ![v] = v] /\ heap' = [heap EXCEPT ![v] = new]
  BY <1>0, <1>1 DEF Set, IInv, TypeOK, ParamsTypeOK
<1>4. Held'[v] = new /\ \A p \in Objects \ {v} : Held'[p] = Held[p]
  BY <1>0, <1>2, <1>3, OneChanges DEF IInv, TypeOK
<1>5. Values!SetOne(v)
  BY <1>0, <1>4 DEF Values!SetOne
<1> QED BY <1>0, <1>4, <1>5, ValueStep

LEMMA NewParamsValue ==
  ASSUME IInv, ClientParamsTrue, NEW v \in Vars, ResetParams(v) \/ AssignParams(v)
  PROVE  Values!Next
<1>0. v \in Objects /\ ParamsTypeOK /\ MemoryInv /\ Held[v] # NoBlock
  <2>1. v \in Objects /\ Exists(v)
    BY DEF IInv, MemoryInv, Objects
  <2> QED BY <2>1, HeldType DEF IInv, TypeOK
<1>1. ASSUME NEW content \in Contents, New(v, content)
      PROVE  Held'[v] = content /\ \A p \in Objects \ {v} : Held'[p] = Held[p]
  <2>1. impl' = [impl EXCEPT ![v] = v] /\ heap' = [heap EXCEPT ![v] = content]
    BY <1>0, <1>1, NewType
  <2> QED BY <1>0, <2>1, OneChanges
<1>2. CASE ResetParams(v)
  <2>1. Held'[v] = Default /\ \A p \in Objects \ {v} : Held'[p] = Held[p]
    BY <1>1, <1>2, DefaultType DEF ResetParams
  <2>2. Values!Reset(v)
    BY <1>0, <2>1 DEF Values!Reset
  <2> QED BY <1>0, <2>1, <2>2, ValueStep
<1>3. CASE AssignParams(v)
  <2>1. PICK w \in Assignable(v) : Copy(v, w)
    BY <1>3 DEF AssignParams
  <2>2. w \in Objects /\ Content(w) \in Contents /\ Held[w] = Content(w) /\ Held[w] # NoBlock
    BY AssignableType, HeldType
  <2>3. Held'[v] = Content(w) /\ \A p \in Objects \ {v} : Held'[p] = Held[p]
    BY <1>1, <2>1, <2>2 DEF Copy
  <2>4. Values!Copy(v)
    BY <1>0, <2>2, <2>3 DEF Values!Copy
  <2> QED BY <1>0, <2>3, <2>4, ValueStep
<1> QED BY <1>2, <1>3

LEMMA ClientsValue ==
  ASSUME IInv, NEW c \in Clients, ClientWith(c) \/ ClientDefault(c)
  PROVE  [Values!Next]_Held
<1>0. c \in Objects /\ ParamsTypeOK /\ MemoryInv
  BY DEF Objects, IInv, TypeOK
<1>1. PICK params \in Contents : MakeClient(c, params)
  <2>1. CASE ClientWith(c)
    <3>1. \A v \in ClientVars : Content(v) \in Contents
      BY ContentType DEF IInv, TypeOK, MemoryInv, Vars, Objects
    <3> QED BY <2>1, <3>1 DEF ClientWith
  <2>2. CASE ClientDefault(c)
    <3>1. [participant |-> NullParticipant, name |-> RobotControl] \in Contents
      BY EntitiesAssumption DEF Contents
    <3> QED BY <2>2, <3>1 DEF ClientDefault
  <2> QED BY <2>1, <2>2
<1>2. CASE UNCHANGED memoryVars
  BY <1>2, StutterStep
<1>3. CASE New(c, params)
  <2>1. impl' = [impl EXCEPT ![c] = c] /\ heap' = [heap EXCEPT ![c] = params]
    BY <1>0, <1>3, NewType
  <2>2. Held'[c] = params /\ \A p \in Objects \ {c} : Held'[p] = Held[p]
    BY <1>0, <2>1, OneChanges
  <2>3. Held[c] = NoBlock
    BY <1>0, <1>1, HeldType DEF MakeClient, MemoryInv
  <2>4. Values!Make(c)
    BY <2>2, <2>3 DEF Values!Make
  <2> QED BY <1>0, <2>2, <2>4, ValueStep
<1> QED BY <1>1, <1>2, <1>3 DEF MakeClient

LEMMA DropHandleValue ==
  ASSUME IInv, NEW e \in Entities, DropHandle(e)
  PROVE  [Values!Next]_Held
<1>1. CASE e \in Clients /\ refs[e] = 1
  <2>1. e \in Objects /\ Exists(e) /\ impl[e] = e /\ Held[e] # NoBlock
    <3>1. e \in Objects /\ Exists(e)
      BY <1>1 DEF IInv, MemoryInv, TypeOK, Objects
    <3> QED BY <3>1, HeldType DEF IInv, MemoryInv, Exists
  <2>2. impl' = [impl EXCEPT ![e] = NoBlock] /\ heap' = [heap EXCEPT ![e] = Default]
    BY <1>1, <2>1 DEF DropHandle, Delete
  <2>3. Held'[e] = NoBlock /\ \A p \in Objects \ {e} : Held'[p] = Held[p]
    BY <2>1, <2>2, OneChanges, DefaultType, EntitiesAssumption DEF IInv, TypeOK
  <2>4. Values!Drop(e)
    BY <2>1, <2>3 DEF Values!Drop
  <2> QED BY <2>1, <2>3, <2>4, ValueStep
<1>2. CASE ~(e \in Clients /\ refs[e] = 1)
  BY <1>2, StutterStep DEF DropHandle
<1> QED BY <1>1, <1>2

LEMMA RefineInit == Init => Values!Init
<1> SUFFICES ASSUME Init PROVE Values!Init
  OBVIOUS
<1>1. \A o \in Objects : Held[o] \in {Default, NoBlock}
  BY EntitiesAssumption DEF Init, ParamsInit, Held, Exists, Content, Blocks, Objects
<1> QED BY <1>1 DEF Values!Init, Held

LEMMA RefineStep == IInv /\ ClientParamsTrue /\ [Next]_vars => [Values!Next]_Held
<1> SUFFICES ASSUME IInv, ClientParamsTrue, [Next]_vars PROVE [Values!Next]_Held
  OBVIOUS
<1>1. CASE \E v \in Vars : SetParams(v) \/ ResetParams(v) \/ AssignParams(v)
  BY <1>1, SetParamsValue, NewParamsValue
<1>2. CASE AskDefault \/ \E d \in Domains : SetDomainId(d)
  BY <1>2, StutterStep DEF AskDefault, SetDomainId
<1>3. CASE \E c \in Clients : ClientWith(c) \/ ClientDefault(c)
  BY <1>3, ClientsValue
<1>4. CASE \E s \in Servers : ServerDefault(s) \/ ServerWith(s)
  BY <1>4, StutterStep DEF ServerDefault, ServerWith
<1>5. CASE \E e \in Services : ServiceWith(e)
  BY <1>5, StutterStep DEF ServiceWith
<1>6. CASE \E e \in Entities : CopyHandle(e) \/ DropHandle(e)
  BY <1>6, StutterStep, DropHandleValue DEF CopyHandle
<1>7. CASE UNCHANGED vars
  BY <1>7, StutterStep DEF vars
<1> QED BY <1>1, <1>2, <1>3, <1>4, <1>5, <1>6, <1>7 DEF Next

(* ServiceParams, ClientParams and ServerParams objects, and the           *)
(* parameters a client keeps, are values: no operation on one changes      *)
(* another (function_call.cxx, the copy constructors and assignments).     *)
THEOREM EntitiesImplementValues == Spec => ImplementsValues
BY Invariant, RefineInit, RefineStep, PTL DEF Spec, ImplementsValues, Values!Spec
=============================================================================
