SPECIFICATION RuntimeSpec
CONSTANTS
  QueueNames = {q1, q2}
  Txs = {t1}
  MaxHandovers = 2
  MaxFibers = 2
  MaxFutures = 2
  MaxMessages = 1
  MaxResolved = 1
  MaxTime = 1
  EpochTimes = {1}
  Delays = {1}
  MaxArms = 2
  MaxPrimitives = 2
SYMMETRY Symmetry
INVARIANTS
  FibersSound
  QueuesListedOnce
  HandoversAnsweredOnce
  PublicFuturesApart
PROPERTIES
  OnlyTimersOvertake
CHECK_DEADLOCK FALSE
