\* A race chain the program waits for, and one nobody waits for: the program
\* leaves at any moment of the second.
SPECIFICATION FairSpec
CONSTANTS
  NumChains = 2
  Races = {1, 2}
  Awaited = {1}
INVARIANTS TypeOK ContinuationFindsRequester PointerGood
PROPERTIES ImplementsCells ChainEnds Reclaimed
CHECK_DEADLOCK FALSE
