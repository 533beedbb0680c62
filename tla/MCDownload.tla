----------------------------- MODULE MCDownload -----------------------------
(***************************************************************************)
(* Two calls for an object that is replaced by one of another size: one    *)
(* with two slots and more chunks than that, the last one short or whole,  *)
(* and one that reads all that the probe leaves as one chunk.              *)
(***************************************************************************)
EXTENDS Download, TLC

CONSTANTS d1, d2

Shrinks == <<6, 3>>
SomeChunks == (d1 :> 2) @@ (d2 :> 6)
SomeSlots == (d1 :> 2) @@ (d2 :> 1)
=============================================================================
