------------------------------ MODULE MCClient ------------------------------
(* A process and its child, two threads each.                                *)
EXTENDS Client

MCPair == 1..2
MCNumbers == 1..2
=============================================================================
