SPECIFICATION FairSpec
CONSTANTS
    Programs <- MCPrograms
    InitVars <- MCInitVars
    Taken <- MCTaken
    Deliveries <- MCDeliveries
    MaxU64 = 255
    MaxMessages = 3
    MaxStack = 48
INVARIANTS
    StackSound
    GeneratedIsCurrent
    AnswersRight
PROPERTIES
    FollowsIr
    
CHECK_DEADLOCK FALSE
