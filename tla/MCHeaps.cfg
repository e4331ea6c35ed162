SPECIFICATION HeapsSpec
CONSTANTS
  End = 4
  Chunk = 48
  UINT = 256
  Requests = {8, 9, 40}
  Limit = 100
  PAGE_SIZE = 8
  HEAP_START = 8
  HEAP_SIZE = 56
  PageRequests = {1, 2}
  Fan = 2
  VPages = {0, 3}
  PPages = {5}
  KmemBytes = 512
  KmemRequests = {1, 12, 24}
INVARIANTS
  BlocksInHeap
  Tiled
  FreeOrUsed
  FlagsTell
  Translates
  ChainWhole
PROPERTIES
  MallocImplements
  PagesImplement
  KmemImplements
