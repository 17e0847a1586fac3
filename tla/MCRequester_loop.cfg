\* The retry loop of one thread against one replier, however late it answers.
SPECIFICATION FairSpec
CONSTANTS
  SyncCallers = {main}
  AsyncCallers = {}
  RawCallers = {}
  Impatient = {}
  Repliers = {r1}
  MaxRequests = 5
  MaxReplyThreads = 1
  SnValues = 2
  ReplyValidity = {TRUE}
INVARIANT NeverRefused
PROPERTY LoopEnds
CHECK_DEADLOCK FALSE
