SPECIFICATION FairEpochLogSpec
CONSTANTS
  Peers = {p1, p2}
  Ranges = {r1}
  MaxOffset = 1
  MaxEpochs = 2
  MaxReconnects = 1
INVARIANTS
  EpochsTile
  AppliedInOrder
  EpochLogInv
PROPERTIES
  CommitedNeverRegresses
  EveryEpochApplied
  ImplementsTotalOrder
CHECK_DEADLOCK FALSE
