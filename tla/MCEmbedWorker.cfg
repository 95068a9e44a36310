CONSTANTS
  Entry = {e1}
  NWorkers = 2
  Capacity = 1
  MaxVersion = 2
  MaxWalks = 1
  None = None
SPECIFICATION Spec
INVARIANTS
  LatestWins
  NothingMissing
  NoResurrection
PROPERTIES FlushReturns
