SPECIFICATION PhasesSpec
CONSTANTS
  Slot = {v1, v2}
  Ticket = {t1, t2}
  Name = {n1, n2}
  MaxId = 3
  MaxOps = 7
  Nil = Nil
  Gone = Gone
INVARIANTS NumberOnce LiesWhereLabelled
PROPERTIES LostOnlyUnseen
SYMMETRY PhaseSymmetry
CHECK_DEADLOCK FALSE
