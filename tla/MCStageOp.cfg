CONSTANTS
  Op = {o1, o2}
  Dir <- MCDir
  Name <- MCName
  Plan <- MCPlan
  InitTree <- MCInitTree
  AutoCommit = TRUE
  Hung = {o2}
  Absent = Absent
  None = None
SPECIFICATION RSpec
INVARIANTS
  PartialIsLegible
  HeadIsDisk
PROPERTIES
  HolderWrites
  ImplementsAtomicStore
  LockIsLive
