SPECIFICATION Spec
CONSTANTS
    Clients = {1, 2, 3}
    Requests <- MCRequests
    Users = {1}
    MaxU64 = 2047
INVARIANTS
    ExecutorSound
    NobodyForgotten
    ToldTheTruth
PROPERTIES
    RequestsFinish
    SentMessagesArrive
CHECK_DEADLOCK FALSE
