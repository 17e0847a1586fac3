\* Stubs of both kinds; a second client drives the same robot.
SPECIFICATION Spec
CONSTANTS
  SyncCallers = {main}
  AsyncCallers = {main}
  MaxRequests = 2
  MaxReplyThreads = 1
  SnValues = 2
  MaxOthers = 1
  Ops = {"command", "getSpeed", "setSpeed", "getStatus"}
  Speeds = {20, 110}
  InitSpeed = 10
  MaxSpeed = 100
INVARIANTS SpeedsInOrder TooFastReported FailureExplained
CHECK_DEADLOCK FALSE
