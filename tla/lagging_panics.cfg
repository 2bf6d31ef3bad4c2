SPECIFICATION Spec
CONSTANTS
  Peers = {p1, p2, p3}
  Ranges = {r1}
  MaxOffset = 0
  ConsensusNodes = 2
  MaxEpochs = 1
  MaxReconnects = 0
  Redeliver = TRUE
SYMMETRY PeerSymmetry
INVARIANTS
  NoAppPanics
