SPECIFICATION MCSpec
CONSTANTS
  DataFiles = {f1, f2}
  Dirs = {A, B}
  CompletedDir = B
  PreallocOn = TRUE
  MaxJobs = 3
  MaxMoves = 1
  h = h
  u = u
  Urls = {h, u}
  Udp = {u}
  Torrents <- MCTorrents
  Rank <- MCRank
  MaxFails = 1
  MaxQueue = 1
  Layouts <- MCLayouts
  CS = 3
  PieceLen = 2
  MaxPieces = 1
  Window = 1
  MaxChecks = 1
INVARIANTS NotLeftPaused   ReadBack CheckFindsIt StreamReads
CHECK_DEADLOCK FALSE
