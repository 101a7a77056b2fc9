\* A decoder and a second thread in the loader.  A failed decoder has stopped.
SPECIFICATION FairSpec
CONSTANTS
    Threads = {"reader", "host"}
    Reader = "reader"
    Fields = 2
    Kinds = {"plain", "filtered", "raw"}
    Files <- MCFiles
    Delays = {0, 1}
    Limits = {3, 9}
    Sizes = {1, 3}
    MaxRaw = 7
INVARIANTS
    TypeOK
    ReadsAreExact
    TableIsLoaded
PROPERTIES
    CancelEnds
CHECK_DEADLOCK FALSE
