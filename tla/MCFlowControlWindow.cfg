SPECIFICATION WindowSpec
CONSTANTS
    s1 = s1
    s2 = s2
    s3 = s3
    Senders <- MCSenders
    Demands <- MCDemands
    InitialSizes <- MCInitialSizes
    MaxWindowSize = 3
    IsConnection = FALSE
    PeerOverrun = 1
INVARIANTS Conservation NoLostWakeup WindowInRange
PROPERTIES ImplementsCredit
CHECK_DEADLOCK FALSE
