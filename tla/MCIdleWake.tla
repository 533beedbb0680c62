----------------------------- MODULE MCIdleWake -----------------------------
(***************************************************************************)
(* Two loops, the first with one slot and the second with two.             *)
(***************************************************************************)
EXTENDS IdleWake, TLC

Slots == 1 :> 1 @@ 2 :> 2
=============================================================================
