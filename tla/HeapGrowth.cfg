SPECIFICATION MemSpec
CONSTANTS
  FramesPerChunk = 2
  FrameCount = 6
  StartFrame = 2
  WordMod = 4096
  PageSize = 64
  MinExpand = 64
  HeapStart = 64
  HeapEnd = 320
  MaxHeap = 384
  Sizes = {1, 20}
  ChunkSize = 20
  WordsSize = 4
INVARIANT HeapFramesReserved
