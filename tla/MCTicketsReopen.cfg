CONSTANTS
  Slot = {v1, v2}
  Ticket = {t1, t2}
  NPhase = 1
  Enforce = TRUE
  MaxOps = 3
  None = None
SPECIFICATION Spec
SYMMETRY TicketSymmetry
PROPERTIES
  NoReopenUndisturbed
