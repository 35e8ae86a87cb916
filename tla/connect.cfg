SPECIFICATION MCSpec
CONSTANTS
  Torrents = {1, 2}
  Addrs = {1, 2}
  PeerIds = {p1}
  Conns = {1, 2, 3}
  Blocked = {2}
  MaxHalfOpen = 1
  MaxAuths = 1
  GlobalLimits = {2, 3}
  TorrentLimits = {2}
  UtpFirst = TRUE
  Encryption = TRUE
  OnlyEncryption = TRUE
  UtpOn = TRUE
  OnlyUtp = FALSE
  MPeers = {h, x}
  Honest = {h}
  MetaPieces = 2
  YLen = 2
  HashLen = 2
  VcLen = 2
  SelLen = 3
  HsLen = 4
  HsMin = 2
  MaxPad = 2
  MoreLen = 3
  SocksVersions = {4, 5}
  Hosts = {1, 2}
  DomLen = 2
  Routers = {1, 2}
  Locations = {l1}
  Ports = {p6881}
  Services = {ip, ppp}
  MaxRequests = 4
INVARIANTS TokensExact PeerStreamIntact ForwardingsRight
PROPERTIES AttemptEnds MetadataArrives
CHECK_DEADLOCK FALSE
