SPECIFICATION LruSpec
CONSTANTS
  b1 = b1
  b2 = b2
  Blocks = {0, b1, b2}
  NumEntries = 2
  SectorsPerBlock = 2
  d0 = d0
  d1 = d1
  rest = rest
  Values = {d0, d1, rest}
  Uninit = Uninit
  Payloads <- MCPayloads
  StampMod = 4
  MaxStamp = 4
  Faults = {"read_early", "read_mid", "write"}
SYMMETRY MCSymmetry
INVARIANTS NoAlias CleanIsCopy SyncedOnDisk
PROPERTIES StoreSpec DirtyIsWritten EvictsOldest
