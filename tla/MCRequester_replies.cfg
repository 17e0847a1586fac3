\* Two requests, each answered by up to two repliers, with replies that may
\* carry no data, a client that gives up after one receive_reply, and a
\* caller that bypasses the stamp.
SPECIFICATION FairSpec
CONSTANTS
  SyncCallers = {main}
  AsyncCallers = {pool}
  RawCallers = {pool}
  Impatient = {main}
  Repliers = {r1, r2}
  MaxRequests = 2
  MaxReplyThreads = 1
  SnValues = 2
  ReplyValidity = {TRUE, FALSE}
INVARIANTS TypeOK MappingLive
PROPERTIES ImplementsCall FutureCompletes
CHECK_DEADLOCK FALSE
