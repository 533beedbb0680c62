\* A file and a cloud object in one batch; the second push_back may throw.
CONSTANTS
    b1 = b1
    b2 = b2
    t1 = t1
    t2 = t2
    p1 = p1
    p2 = p2
    p3 = p3
    l1 = l1
    w1 = w1
    w2 = w2
    Nobody = Nobody
    Batches = {b1}
    Transfers = {t1, t2}
    Parts = {p1, p2, p3}
    Loops = {l1}
    FileWorkers = {w1}
    CredWorkers = {w2}
    Of <- RouteOf
    Kind <- RouteKind
    BatchOf <- RouteBatchOf
    TransferOf <- RouteTransferOf
    Limit <- OneSlot
    MaxAttempts = 2
SPECIFICATION FaultSpec
INVARIANT FreedIsReleased
