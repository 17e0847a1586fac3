\* One future, one replier that answers after the reply thread has given up.
SPECIFICATION FairSpec
CONSTANTS
  SyncCallers = {}
  AsyncCallers = {main}
  RawCallers = {}
  Impatient = {}
  Repliers = {r1}
  MaxRequests = 1
  MaxReplyThreads = 1
  SnValues = 2
  ReplyValidity = {TRUE}
PROPERTY FutureReady
CHECK_DEADLOCK FALSE
