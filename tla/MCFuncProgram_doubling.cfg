\* client_func with five rounds, of which the fifth is refused, and four
\* chains that double the speed while it is brought to the limit in steps of
\* three and of one.
SPECIFICATION FairSpec
CONSTANTS
  Rounds = 5
  NumChains = 4
  RecursiveIncrement = 3
  IterativeIncrement = 1
  InitSpeed = 2
  MaxSpeed = 10
INVARIANTS TypeOK ReadsOwnWrite AtTop
PROPERTY ProgramEnds
CHECK_DEADLOCK FALSE
