SPECIFICATION Spec
CONSTANTS
  p1 = p1
  p2 = p2
  c1 = c1
  c2 = c2
  Proc = {p1, p2}
  Caller = {c1, c2}
  Home <- MCHome
  Ticket = {1, 2, 3}
  Completed = {1}
  Cosine <- MCCosine
  HitLimit = 1
  PageSize = 1
  MinUsed = 1
  Tallies <- MCTallies
  MaxOps = 4
  None = None
INVARIANTS TalliesExact WalkExact
PROPERTIES RatingsCount
CHECK_DEADLOCK FALSE
SYMMETRY UpkeepSymmetry
