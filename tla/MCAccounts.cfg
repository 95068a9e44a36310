CONSTANTS
  Subject = {s1, s2}
  Project = {p1}
  Invite = {i1}
  Req = {r1, r2}
  MaxUser = 2
  None = None
SPECIFICATION Spec
SYMMETRY AccountSymmetry
INVARIANTS
  OneUserPerSubject
  OneFirstOwner
  AcceptedOnce
PROPERTIES
  OwnerKept
CHECK_DEADLOCK FALSE
