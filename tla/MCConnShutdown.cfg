SPECIFICATION Spec
CONSTANTS
    MaxId = 1
    WriterCapacity = 1
    Closers <- OwnerAndOne
    AdminErrors <- NoError
    MayFail = TRUE
INVARIANTS GoAwayOnce SentIsDelivered
PROPERTIES EveryCloseReturns HandlersEnd
CHECK_DEADLOCK FALSE
