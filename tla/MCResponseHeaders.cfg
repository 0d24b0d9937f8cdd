SPECIFICATION Spec
CONSTANTS
    s1 = s1
    s2 = s2
    Streams <- OneStream
    Uploading <- OneStream
    WriterCapacity = 1
    MaxCalls <- FourCalls
INVARIANTS ResponsesWellFormed ClosedForAReason OneFrameAfterReset
PROPERTIES NobodyStaysBlocked
CHECK_DEADLOCK FALSE
