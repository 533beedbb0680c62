----------------------------- MODULE MCResolver -----------------------------
(***************************************************************************)
(* A map of two hosts and three hosts to put into it.                      *)
(***************************************************************************)
EXTENDS Resolver
=============================================================================
