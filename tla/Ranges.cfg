\* URIs: up to two layers around a fragment; a third one is too deep.
\* Plans: three ranges of three bits.  read_ends: three versions, two attempts.
CONSTANTS
    MaxNumber = 3
    MaxDepth = 2
    Depth = 2
    Uris <- MCUris
    MaxInt = 7
    Candidates <- Mixed
    MaxRequests = 3
    FileObjects = {2}
    NoCondition = 0
    Options <- Settings
    MaxRetries = 2
    Sizes <- Versions
    Tagged = {1, 2, 3}
    Windows <- SomeWindows
    Heads = {0, 2}
    Tails = {0, 1, 2}
    Unbounded = Unbounded
    FallbackLimit = 1
    MaxAttempts = 2
SPECIFICATION RangesSpec
INVARIANTS WindowIsNested PlanIsSound BytesInPlace EndsAreSound
