SPECIFICATION FramesSpec
CONSTANTS
    Word = 32
    Lengths <- AllLengths
    Pads <- SomePads
    MaxFrameSize = 12
INVARIANTS FramesKeptApart
PROPERTIES FrameIsAnswered
CHECK_DEADLOCK FALSE
