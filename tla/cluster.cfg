SPECIFICATION Spec
CONSTANTS
  Peers = {p1, p2}
  Ranges = {r1}
  MaxOffset = 0
  ConsensusNodes = 2
  MaxEpochs = 2
  MaxReconnects = 1
  Redeliver = TRUE
SYMMETRY PeerSymmetry
INVARIANTS
  ConsensusHeldByQuorum
  CommittedHeldByQuorum
  UnanimousNeverPanics
  ClusterInv
