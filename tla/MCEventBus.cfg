SPECIFICATION Spec
CONSTANTS
  Topic = {t1, t2}
  Publisher = {p1, p2}
  Client = {c1}
  RingSize = 1
  LiveBuffer = 1
  NConns = 2
  MaxSeq = 3
  None = None
INVARIANTS InOrderExactlyOnce GapOnlyOvertaken NeverHeldUp
CHECK_DEADLOCK FALSE
SYMMETRY BusSymmetry
