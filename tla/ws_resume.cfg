SPECIFICATION MCSpec
CONSTANTS
  Layouts <- MCLayouts
  CS = 3
  RangeLen = 2
  ConnectAtOnce = FALSE
  MaxCloses = 1
  Threads = {"up", "down"}
  Socks = {s, t}
  Groups = 1
  Caps = {0, 1}
  Limits = {0, 1}
  Assured = {0, 1}
  MaxBytes = 2
  MaxGiven = 2
  MaxChanges = 3
  MaxIdle = 1
INVARIANT GoodNotDisabled
CHECK_DEADLOCK FALSE
