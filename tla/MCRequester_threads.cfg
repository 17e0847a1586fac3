\* Three requests: the main thread makes both kinds of calls while a pool
\* thread sends asynchronous requests, and at most two reply threads run.  A
\* third request has the requestId of the first, which may have been given up.
SPECIFICATION Spec
CONSTANTS
  SyncCallers = {main}
  AsyncCallers = {main, pool}
  RawCallers = {}
  Impatient = {main}
  Repliers = {r1}
  MaxRequests = 3
  MaxReplyThreads = 2
  SnValues = 2
  ReplyValidity = {TRUE}
INVARIANTS Correlated ReplyNeverStolen DictAccurate
CHECK_DEADLOCK FALSE
