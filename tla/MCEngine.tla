------------------------------ MODULE MCEngine ------------------------------
(***************************************************************************)
(* Small instances of Engine.                                              *)
(***************************************************************************)
EXTENDS Engine, TLC

CONSTANTS b1, b2, t1, t2, p1, p2, p3, l1, w1, w2

OneSlot == (l1 :> 1)

\* One batch of a local file, a cloud object and a range that the plan rejects.
RouteOf == (t1 :> b1) @@ (t2 :> b1)
RouteKind == (t1 :> "file") @@ (t2 :> "cloud")
RouteBatchOf == [p \in {p1, p2, p3} |-> b1]
RouteTransferOf == (p1 :> t1) @@ (p2 :> t2) @@ (p3 :> Nobody)

\* Two batches compete for the only slot: an S3 object, and two ranges that are
\* one transfer of a plain URL.
SlotOf == (t1 :> b1) @@ (t2 :> b2)
SlotKind == (t1 :> "s3") @@ (t2 :> "http")
SlotBatchOf == (p1 :> b1) @@ (p2 :> b2) @@ (p3 :> b2)
SlotTransferOf == (p1 :> t1) @@ (p2 :> t2) @@ (p3 :> t2)
=============================================================================
