CONSTANTS
  Conns = {1, 2}
  MaxSignals = 1
SPECIFICATION Spec
INVARIANT WakesUp
