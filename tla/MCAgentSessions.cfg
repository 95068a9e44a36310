CONSTANTS
  Key = {k1, k2}
  Conn = {m1}
  Browser = {b1}
  Call = {c1, c2}
  Sweeper = {s1}
  MaxId = 3
  Ttl = 1
  Grace = 1
  Patience = 1
  MaxTime = 3
  Budget <- MCBudget
  None = None
SPECIFICATION Spec
SYMMETRY AgentSymmetry
INVARIANTS
  RegistryExact
  IssuedResolves
  LatestIdentity
CHECK_DEADLOCK FALSE
