CONSTANTS
  Slot = {v1}
  Ticket = {t1, t2, t3}
  NPhase = 1
  Enforce = TRUE
  MaxOps = 4
  None = None
SPECIFICATION Spec
SYMMETRY TicketSymmetry
INVARIANTS
  StructureHolds
  GraphHolds
  AuditTrail
  CacheMatchesDisk
PROPERTIES
  NoReopen
  GateHolds
