SPECIFICATION FairSpec
CONSTANTS
  first = first
  second = second
  again = again
  Nodes = {1, 2, 3}
  Gateways = {first, second, again}
  SingleBlobSize = 3
  RangeOf <- MCRangeOf
  Setups <- MCSetups
INVARIANTS
  ListsFollowConnections
  TurnsApart
  AnsweredOnceAndRight
  ExecutedAlike
  OffsetsInRange
  ProgressIsReal
PROPERTIES
  EpochsKeepComing
  EveryRequestAnswered
CHECK_DEADLOCK FALSE
