SPECIFICATION Spec
CONSTANTS
  TotalClusters = 3
  RootEntries = 2
  ClusterBytes = 2
  CountMod = 3
  Bytes = {1, 2}
  Zero = 0
  Paths <- MCPaths
  ShortNames <- MCShortNames
  Component <- MCComponent
  Whole <- MCWhole
  Images <- MCImages
  Contents <- MCContents
INVARIANT LinksAscend
INVARIANT Sound
PROPERTY StoreSpec
