SPECIFICATION MountsSpec
CONSTANTS
  Repo = {r1, r2}
  Default = r1
  Slug = {s1, s2}
  Req = {c1, c2}
  Limit = 1
  Mount = {m1, m2, m3}
  MaxId = 2
  MaxCall = 4
  Nil = Nil
INVARIANTS ResidentBound WorkersOwned KeptUntilDeleted
SYMMETRY MountSymmetry
CHECK_DEADLOCK FALSE
