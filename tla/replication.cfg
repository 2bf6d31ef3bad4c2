SPECIFICATION FairReplicationSpec
CONSTANTS
  Peers = {p1, p2}
  Ranges = {r1}
  MaxOffset = 1
  ConsensusNodes = 3
  Redeliver = FALSE
INVARIANTS
  SelfOffsetsExact
  NeverOverestimated
  NeverSpins
PROPERTIES
  EveryoneCatchesUp
