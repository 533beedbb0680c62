\* A server that ignores If-Match, and an object that becomes empty.
CONSTANTS
    v1 = v1
    v2 = v2
    v3 = v3
    Versions = {v1, v2, v3}
    Size <- Sizes
    NoTag = NoTag
    AnyTag = AnyTag
    Conditions = {v1}
    Cloud = FALSE
    OtherSuccess = {}
    offset = 1
    length = 2
    FallbackLimits = {1}
    MaxAttempts = 2
    UnreachableAttempts = 1
    MaxChanges = 1
SPECIFICATION HttpSpec
INVARIANT ContradictedIsRefused
