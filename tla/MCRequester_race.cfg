\* One thread that sends asynchronous requests and its reply threads.
SPECIFICATION Spec
CONSTANTS
  SyncCallers = {}
  AsyncCallers = {main}
  RawCallers = {}
  Impatient = {}
  Repliers = {r1}
  MaxRequests = 2
  MaxReplyThreads = 2
  SnValues = 2
  ReplyValidity = {TRUE}
INVARIANT NoDataRace
CHECK_DEADLOCK FALSE
