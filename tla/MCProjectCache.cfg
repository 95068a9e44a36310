SPECIFICATION Spec
CONSTANTS
  Req = {r1, r2}
  Other = {o1}
  Load = {l1, l2, l3}
  MaxUpdates = 2
  None = None
VIEW LiveView
SYMMETRY CacheSymmetry
INVARIANTS WatcherOwned OutdatedOnlyIfMissed
PROPERTIES LostOnlyAcross
