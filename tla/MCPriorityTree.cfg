SPECIFICATION TreeSpec
CONSTANTS
    Streams <- MCStreams
    Root = 0
INVARIANTS ListsMatchParents Rooted
