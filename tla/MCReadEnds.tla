----------------------------- MODULE MCReadEnds -----------------------------
(***************************************************************************)
(* An object that is replaced by one of the same size and then by a        *)
(* shorter one, open and bounded windows, and buffers that overlap or do   *)
(* not.                                                                    *)
(***************************************************************************)
EXTENDS ReadEnds

Versions == <<3, 3, 2>>
SomeWindows ==
    [offset : {0, 1}, length : {Unbounded}] \cup [offset : {1}, length : {0, 2}]
=============================================================================
