SPECIFICATION Spec
CONSTANTS
    f1 = f1
    f2 = f2
    Inodes = {f1, f2}
    Routes <- MCRoutes
    Characters <- MCCharacters
    Requests <- MCRequests
    Callers <- OnlyRouter
    Root <- MCRoot
    IndexFiles <- MCIndex
    Listings = {TRUE, FALSE}
    Disk <- MCDisk
    Sizes <- MCSizes
    Chunk = 2
    MaxSize = 3
    MaxChanges = 2
INVARIANTS FilesServed
CHECK_DEADLOCK FALSE
