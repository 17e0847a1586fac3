\* client_rr with three rounds a test and four chains against server_rr; three
\* increments reach the limit, the fourth is refused.
SPECIFICATION FairSpec
CONSTANTS
  Rounds = 3
  Queries = 1
  Races = 3
  Increment = 10
  SpeedLimit = 30
INVARIANTS TypeOK AssertionsHold
PROPERTY ProgramEnds
CHECK_DEADLOCK FALSE
