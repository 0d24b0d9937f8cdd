SPECIFICATION FairSpec
CONSTANTS
    Conns = {c1, c2}
    TLS = TRUE
    MaxSignals = 2
INVARIANTS OneShutdown AbortedReloadStays
PROPERTIES ShutdownEnds QueuedTermObeyed
CHECK_DEADLOCK FALSE
