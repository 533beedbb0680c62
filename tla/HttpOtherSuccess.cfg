\* A server that answers with another status of success.
CONSTANTS
    v1 = v1
    v2 = v2
    v3 = v3
    Versions = {v1, v2, v3}
    Size <- Sizes
    NoTag = NoTag
    AnyTag = AnyTag
    Conditions = {NoTag}
    Cloud = FALSE
    OtherSuccess = {203}
    offset = 1
    length = 2
    FallbackLimits = {1}
    MaxAttempts = 1
    UnreachableAttempts = 1
    MaxChanges = 0
SPECIFICATION HttpSpec
INVARIANT OkIsRequested
