\* A client, a server and a service; a participant of the program and the
\* default one, in one of two domains.
SPECIFICATION Spec
CONSTANTS
  ServiceVars = {sp}
  ClientVars = {cp}
  ServerVars = {vp}
  Clients = {c1}
  Services = {s1}
  Servers = {v1}
  MaxHandles = 2
  Participants = {own}
  Names = {robot}
  RobotControl = robot
  NullParticipant = null
  NoName = noname
  NoBlock = noblock
  None = none
  Domains = {0, 65}
  MaxCreated = 3
INVARIANTS TypeOK ClientParamsTrue DefaultShared RegisteredServed
PROPERTY ImplementsValues
