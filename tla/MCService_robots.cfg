\* Three services on one thread, every operation.
SPECIFICATION FairSpec
CONSTANTS
  NumServices = 3
  MaxRequests = 3
  Ops = {"command", "getSpeed", "setSpeed", "getStatus", "unknown", "nodata"}
  Speeds = {20, 110}
  InitSpeed = 10
  MaxSpeed = 100
INVARIANTS TypeOK NoRequestDropped BoundedOvertaking ServedInOrder
PROPERTIES ImplementsRobotControl EveryRequestAnswered
CHECK_DEADLOCK FALSE
