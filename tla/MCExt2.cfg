SPECIFICATION Spec
CONSTANTS
  s_blocks_count = 10
  s_blocks_per_group = 5
  s_inodes_per_group = 3
  s_first_data_block = 1
  Meta = {1, 2, 3, 6}
  NDirect = 2
  PtrsPerBlock = 2
  BlockBytes = 56
  CellsPerBlock = 2
  WordMod = 9
  Names <- MCNames
  NameLen <- MCNameLen
  Values = {1, 2}
  Zero = 0
  Unknown = 9
  Clients = {c1, c2}
  Writes <- MCWrites
  Images <- MCImages
  MaxFaults = 1
  MAX_SYMLINK_DEPTH = 1
  StackFrames = 3
  Paths <- MCPaths
SYMMETRY MCSymmetry
INVARIANTS BlockMapInOrder PathsResolve BlocksOwned CountsCover DirectorySound ReadsBack
CHECK_DEADLOCK FALSE
