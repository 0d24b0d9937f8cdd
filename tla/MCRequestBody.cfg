SPECIFICATION Spec
CONSTANTS
    s1 = s1
    s2 = s2
    conn = conn
    Streams <- TwoStreams
    Connection = conn
    StreamWindow = 4
    ConnWindow = 2
    QueueCapacity = 1
    MaxFrameSize = 1
    WireCapacity = 1
    PadLengths <- NoPadding
    Draining <- OneStream
    Answering <- OtherStream
    Resetting <- OneStream
    Panicking <- OtherStream
    Misdeclaring <- NoStream
INVARIANTS WindowsAgree NoSilentTruncation
PROPERTIES  StreamWindowReopens
CHECK_DEADLOCK FALSE
