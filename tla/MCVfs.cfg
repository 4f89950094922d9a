SPECIFICATION Spec
CONSTANTS
  Tasks = {t1, t2, t3}
  MAX_OPEN_FILES = 2
  MaxFd = 3
  Paths = {p1, p2}
  NoPath = NoPath
  Contents <- MCContents
  Lengths = {1}
  Distances <- MCDistances
  OffsetMod = 3
SYMMETRY MCSymmetry
INVARIANT HandlesOwned
INVARIANT NoLostHandle
INVARIANT InBounds
INVARIANT OneVersion
CHECK_DEADLOCK FALSE
