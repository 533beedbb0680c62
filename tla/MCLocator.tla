----------------------------- MODULE MCLocator -----------------------------
(***************************************************************************)
(* Numbers of two bits: 3 is UINT64_MAX and TO_END, 4 does not parse.      *)
(***************************************************************************)
EXTENDS Locator

CONSTANT Depth  \* the deepest nesting with every layer

Texts == 0 .. MaxNumber + 1
MCLayers ==
    [offset : Texts, form : {"number"}, length : Texts]
    \cup [offset : Texts, form : {"negative"}, length : {1, MaxNumber + 1}]
    \cup [offset : Texts, form : {"none"}, length : {0}]
MCFragments ==
    [present : {FALSE}, first : {0}, last : {0}, open : {FALSE}]
    \cup [present : {TRUE}, first : Texts, last : Texts, open : {FALSE}]
    \cup [present : {TRUE}, first : Texts, last : {0}, open : {TRUE}]

WholeLayer == [offset |-> 0, form |-> "none", length |-> 0]

\* Objects under up to Depth layers, and under one layer too many; what is no
\* object under at most one layer.
MCUris ==
    UNION {[depth : {d}, layers : [1 .. d -> MCLayers], fragment : MCFragments,
            target : {"object"}] : d \in 0 .. Depth}
    \cup UNION {[depth : {d}, layers : [1 .. d -> MCLayers], fragment : MCFragments,
                 target : {"malformed", "unsupported"}] : d \in 0 .. 1}
    \cup [depth : {MaxDepth + 1}, layers : [1 .. MaxDepth + 1 -> {WholeLayer}],
          fragment : MCFragments, target : {"object"}]
=============================================================================
