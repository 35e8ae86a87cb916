SPECIFICATION MCSpec
CONSTANTS
  Peers = {q1, q2}
  NumChunks = 2
  WantedSets = {{}, {0, 1}}
  MaxCount = 2
  Reqs = {r1, r2}
  Fast = TRUE
  PieceLen = 2
  MaxPending = 1
  MaxRequests = 3
  MaxChokes = 2
  Lengths = {0, 1, 3, 4}
  MaxPacket = 3
  MaxFrames = 3
  Leechers = {a, b, c}
  SlotCounts = {1, 2}
  MaxId = 3
  IntMax = 15
  Int64Max = 99
  WrittenInts = {0, 15, 30}
  WrittenStrings <- MCStrings
  ForeignBytes = {0, 3, 10, 11, 12, 13, 14, 15}
  MaxDoc = 12
  MaxForeign = 5
  MaxDepth = 2
SYMMETRY Alike
INVARIANTS AvailableExact InterestKept PendingExact FramingExact SlotsBounded PexAgrees BencodeExact
PROPERTY ImplementsService
CHECK_DEADLOCK FALSE
