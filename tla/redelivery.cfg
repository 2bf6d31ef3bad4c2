SPECIFICATION EpochLogSpec
CONSTANTS
  Peers = {p1, p2}
  Ranges = {r1, r2}
  MaxOffset = 0
  MaxEpochs = 2
  MaxReconnects = 1
SYMMETRY Symmetry
INVARIANTS
  ExecutedOnce
CHECK_DEADLOCK FALSE
