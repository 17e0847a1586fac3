\* The retry loop of one thread against two repliers of the service.
SPECIFICATION FairSpec
CONSTANTS
  SyncCallers = {main}
  AsyncCallers = {}
  RawCallers = {}
  Impatient = {}
  Repliers = {r1, r2}
  MaxRequests = 2
  MaxReplyThreads = 1
  SnValues = 2
  ReplyValidity = {TRUE}
PROPERTY LoopEnds
CHECK_DEADLOCK FALSE
