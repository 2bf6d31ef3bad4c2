SPECIFICATION Spec
CONSTANTS
    Programs <- MCPrograms
    InitVars <- MCInitVars
    Taken <- MCTaken
    Deliveries <- MCDeliveries
    MaxU64 = 255
    MaxMessages = 3
    MaxStack = 48
INVARIANT ResponsesBound
CHECK_DEADLOCK FALSE
