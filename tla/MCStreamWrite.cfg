SPECIFICATION Spec
CONSTANTS
    s1 = s1
    s2 = s2
    Connection = conn
    Streams <- TwoStreams
    Bodies <- MixedBodies
    MaxFrameSize = 2
    ConnWindow = 2
    InitialSizes <- TwoOrThree
    WriterCapacity = 2
    WireCapacity = 1
    SettingsBound = 2
    Resetting <- OneStream
INVARIANTS CreditAddsUp NeverOverruns NothingTruncated
PROPERTIES ResponsesArrive
CHECK_DEADLOCK FALSE
