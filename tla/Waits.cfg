\* Two loops and two producers; a resolver with room for two of three hosts; and
\* lookups for a native object and for an object of a callback.
CONSTANTS
    Loops = {1, 2}
    Producers = {p1, p2}
    Limit <- Slots
    MaxAdd = 2
    MaxItems = 2
    Hosts = {h1, h2, h3}
    Transfers = {t1}
    NoHost = NoHost
    KeepAnswer = 2
    WaitForFirstAnswer = 1
    MaxHosts = 2
    Lookers = {l1, l2}
    Paths = {"a", "x"}
    CustomPaths = {"x"}
    Scopes = {"wide"}
    Scope <- OneNative
    Covering <- OnePath
    Size <- ScopeSize
    NoScope = NoScope
    MaxLoads = 3
    MaxRejections = 1
    MaxTime = 2
    StaticTtl = 1
    Lifetimes <- SomeLifetimes
SPECIFICATION WaitsSpec
INVARIANTS NoLostWakeup LookedUpOnce NoWakeAfterStop SharedLoad OnlyUsable
PROPERTIES BacklogIsTaken WaitEnds LookupEnds
