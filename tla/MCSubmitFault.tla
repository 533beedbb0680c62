--------------------------- MODULE MCSubmitFault ---------------------------
(* The instances of MCEngine, for a submit that may fail.                   *)
EXTENDS SubmitFault, MCEngine
=============================================================================
