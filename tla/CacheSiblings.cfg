\* Two objects of one callback, below one cache prefix.
CONSTANTS
    Lookers = {l1, l2}
    Paths = {"x", "y"}
    CustomPaths = {"x", "y"}
    Scopes = {"wide"}
    Scope <- NoNative
    Covering <- Siblings
    Size <- ScopeSize
    NoScope = NoScope
    MaxLoads = 3
    MaxRejections = 1
    MaxTime = 1
    StaticTtl = 1
    Lifetimes <- LongLived
SPECIFICATION CacheSpec
INVARIANT RejectedNotReused
