\* The ring: one reader, two chunks resident, three connections of a torn packet each at most.
\* The store: five segments, three kept, one request for a segment.
SPECIFICATION SubjectSpec
CONSTANTS
  r1 = r1
  Readers <- OneReader
  TSPacketSize = 2
  ChunkBytes = 4
  Capacity = 2
  Retention = 1
  MaxChunksPerRead = 1
  MaxBoundaries = 2
  JoinBehinds <- LiveAndBehind
  MaxWrite = 8
  MaxBytes = 8
  MaxConn = 3
  MaxNow = 1
  g1 = g1
  Segments <- FiveSegments
  StoreSegments = 3
  LiveEdge = 1
  Depth = 3
  Sizes <- OneOrTwo
  ByteLimit = 3
  DiskCap = 3
  Gets <- OneGet
  MaxGens = 2
  MaxDiskFaults = 1
INVARIANTS
  PacketsAreOneConnection
  BytesInOrder
  BoundaryOnRecord
  NoLostWakeup
  WantedIsFetchable
  PlaylistIsTrue
  DiskIsAccounted
PROPERTIES
  ImplementsFanOut
  DeliversLikeFanOut
CHECK_DEADLOCK FALSE
