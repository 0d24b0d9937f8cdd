SPECIFICATION HandshakeSpec
CONSTANTS
    AdminErrors <- AnyError
    MaxSent = 4
INVARIANTS ServedAfterSettings NoTimerLeft
PROPERTIES ConnectionSettles
CHECK_DEADLOCK FALSE
