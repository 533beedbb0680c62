--------------------------- MODULE MCHttpTransfer ---------------------------
(* Three versions of an object, one too short for the read and one empty, and *)
(* a read of two bytes from the second one on.                                *)
EXTENDS HttpTransfer, TLC

CONSTANTS v1, v2, v3

Sizes == (v1 :> 5) @@ (v2 :> 2) @@ (v3 :> 0)
=============================================================================
