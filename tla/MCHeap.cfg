SPECIFICATION FairSpec
CONSTANTS
  WordMod = 512
  PageSize = 64
  MinExpand = 64
  HeapStart = 64
  HeapEnd = 192
  MaxHeap = 192
  Sizes = {1, 20, 56, 440}
  Callers = {c1}
INVARIANTS Tiling Merged RoomForRequest
PROPERTY KmallocReturns
