SPECIFICATION Spec
CONSTANTS
    MaxId = 3
    Limit = 2
    Restarting = {1}
    MaxStarts = 2
INVARIANTS CountMatchesTable HorizonsAgree OneHandler
PROPERTIES ClientResetIsFinal
CHECK_DEADLOCK FALSE
