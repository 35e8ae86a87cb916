SPECIFICATION MCSpec
CONSTANTS
  Nodes = {1, 2}
  NumIds = 2
  MaxReqs = 2
  MaxRunning = 1
  Reserve = 1
  MaxVisited = 1
  MaxAnnounced = 1
  CloseK = 1
  MaxTasks = 2
  MaxWaiting = 1
  MaxKey = 7
  OurKey = 0
  Peers = {4, 5, 6}
  BucketK = 2
  Old = 0
  BadLimit = 1
  MaxClock = 1
  Hashes = {h1}
  Addrs = {a1, a2}
  MaxAge = 2
  Interval = 2
  MaxItems = 3
  SeqNrMod = 8
  Cap = 3
  OutCap = 2
  EraseAfter = 1
  UpdateAt = 1
  Writes <- MC_Writes
  MaxNet = 2
  MaxFaults = 1
INVARIANTS OutstandingExact Partition NothingStale  WindowExact
PROPERTY SearchEnds
CHECK_DEADLOCK FALSE
