\* A helper against run_command; and a program that does not fork, with a child that
\* starts no threads, during the first use of the client; and two downloads of an
\* object that is replaced by a shorter one.
CONSTANTS
    Platforms <- MCPlatforms
    OutputLimit = 1
    Buffer = 2
    Capacity = 3
    Processes <- MCPair
    Numbers <- MCNumbers
    QuietFork = TRUE
    QuietChild = TRUE
    d1 = d1
    d2 = d2
    Downloads = {d1, d2}
    Sizes <- Shrinks
    Tagged = {1}
    ProbeSize = 1
    ChunkSize <- SomeChunks
    Parallelism <- SomeSlots
    NoCall = NoCall
SPECIFICATION SystemSpec
INVARIANTS
    AcceptedIsComplete
    NothingLeftBehind
    OwnEngine
    StaleUntouched
    DestinationIsWhole
    FailedPublishedNothing
    BuffersOutliveBatches
PROPERTIES
    CommandReturns
    NeverReplaced
    DownloadReturns
CHECK_DEADLOCK FALSE
