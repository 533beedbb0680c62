------------------------------ MODULE Locator ------------------------------
(***************************************************************************)
(* resolve (uri.cpp): a URI names an object, perhaps a range of it in a    *)
(* #bytes fragment, and up to MaxDepth layers of /vsisubfile/ around it.   *)
(* resolve_impl calls itself for the inner URI, so the layers are parsed   *)
(* from the outermost inwards and their windows composed on the way back.  *)
(* The result is one window, an offset and a length in 64 bits, computed   *)
(* without knowing the object's size.                                      *)
(*                                                                         *)
(* The history variable `view' says what the layers mean for an object of  *)
(* some size: byte k of a subfile is byte offset + k of what it is cut     *)
(* from.                                                                   *)
(***************************************************************************)
EXTENDS Integers

CONSTANTS
    MaxNumber, \* UINT64_MAX
    MaxDepth,  \* MAX_SUBFILE_DEPTH
    Uris       \* the URIs

ASSUME LocatorAssumption == MaxNumber \in Nat \ {0} /\ MaxDepth \in Nat

TO_END == MaxNumber

\* A number in a text: one above MaxNumber stands for every text that parse_u64 refuses.
\* The length of a layer is a number, a negative number or left out; the last byte of a
\* fragment may be left out.
Layer == [offset : Nat, form : {"number", "negative", "none"}, length : Nat]
Fragment == [present : BOOLEAN, first : Nat, last : Nat, open : BOOLEAN]

ASSUME UrisAssumption ==
    \A u \in Uris :
        /\ u.depth \in Nat
        /\ u.layers \in [1 .. u.depth -> Layer]
        /\ u.fragment \in Fragment
        /\ u.target \in {"object", "malformed", "unsupported"}

VARIABLES
    uri,      \* the argument of resolve
    size,     \* the size of the object it names
    pc,       \* "descend", "unwind", or the outcome
    depth,    \* the recursion: layers parsed and not yet applied
    window,   \* window_offset and window_length of the Resolved
    view      \* the bytes of the object that the layers applied so far show

vars == <<uri, size, pc, depth, window, view>>

Window == [offset : 0 .. MaxNumber, length : 0 .. MaxNumber]

Init ==
    /\ uri \in Uris
    /\ size \in 0 .. MaxNumber
    /\ pc = "descend"
    /\ depth = 0
    /\ window = [offset |-> 0, length |-> TO_END]
    /\ view = [k \in 0 .. size - 1 |-> k]

Parses(n) == n <= MaxNumber

Least(a, b) == IF a < b THEN a ELSE b

\* What a layer means: the bytes from o on, at most l of them.
Cut(v, o, l) ==
    [k \in {i \in DOMAIN v : i < l /\ i + o \in DOMAIN v} |-> v[k + o]]

\* A length of TO_END is no limit.
Limit(l) == IF l = TO_END THEN size ELSE l

(***************************************************************************)
(* apply_window: the offset must not overflow and must lie in a bounded    *)
(* parent; the length is clipped to what the parent has left.              *)
(***************************************************************************)
WindowFits(o) ==
    /\ window.offset <= MaxNumber - o
    /\ window.length # TO_END => o <= window.length

\* Mutant: a subfile's own length is taken as it is.
ComposedUnclipped(l, o) == l

Composed(l, o) ==
    IF window.length # TO_END THEN Least(l, window.length - o) ELSE l

apply_window(o, l) ==
    /\ view' = Cut(view, o, Limit(l))
    /\ IF WindowFits(o)
       THEN /\ window' = [offset |-> window.offset + o, length |-> Composed(l, o)]
            /\ pc' = "unwind"
       ELSE pc' = "refused" /\ UNCHANGED window

(***************************************************************************)
(* resolve_impl                                                            *)
(***************************************************************************)
layer(d) == uri.layers[d]

LayerParses(d) ==
    /\ Parses(layer(d).offset)
    /\ layer(d).form # "none" => Parses(layer(d).length)

Length(d) == IF layer(d).form = "number" THEN layer(d).length ELSE TO_END

Descend ==
    /\ pc = "descend" /\ depth < uri.depth
    /\ IF depth = MaxDepth \/ ~LayerParses(depth + 1)
       THEN pc' = "malformed" /\ UNCHANGED depth
       ELSE depth' = depth + 1 /\ UNCHANGED pc
    /\ UNCHANGED <<uri, size, window, view>>

\* take_bytes_fragment
fragment == uri.fragment

FragmentParses ==
    fragment.present =>
        /\ Parses(fragment.first)
        /\ ~fragment.open => /\ Parses(fragment.last)
                             /\ fragment.first <= fragment.last
                             /\ fragment.last - fragment.first # MaxNumber

FragmentOffset == IF fragment.present THEN fragment.first ELSE 0
FragmentLength ==
    IF fragment.present /\ ~fragment.open THEN fragment.last - fragment.first + 1 ELSE TO_END

\* A handler that karu does not have is refused before the fragment is looked at.
TargetFails ==
    /\ pc = "descend" /\ depth = uri.depth
    /\ \/ uri.target = "unsupported" /\ pc' = "unsupported"
       \/ /\ uri.target = "malformed" \/ (uri.target = "object" /\ ~FragmentParses)
          /\ pc' = "malformed"
    /\ UNCHANGED <<uri, size, depth, window, view>>

\* finish: the window of the fragment, unless it shows all of the object.
terminal ==
    /\ pc = "descend" /\ depth = uri.depth
    /\ uri.target = "object" /\ FragmentParses
    /\ IF FragmentOffset # 0 \/ FragmentLength # TO_END
       THEN apply_window(FragmentOffset, FragmentLength)
       ELSE pc' = "unwind" /\ UNCHANGED <<window, view>>
    /\ UNCHANGED <<uri, size, depth>>

Unwind ==
    /\ pc = "unwind" /\ depth > 0
    /\ apply_window(layer(depth).offset, Length(depth))
    /\ depth' = depth - 1
    /\ UNCHANGED <<uri, size>>

Resolve ==
    /\ pc = "unwind" /\ depth = 0
    /\ pc' = "resolved"
    /\ UNCHANGED <<uri, size, depth, window, view>>

Next == Descend \/ TargetFails \/ terminal \/ Unwind \/ Resolve

Spec == Init /\ [][Next]_vars

(***************************************************************************)
(* Properties                                                              *)
(***************************************************************************)
\* The bytes that an offset and a length select in the object.
Selected(o, l) == [k \in {i \in 0 .. size - 1 : i < Limit(l) /\ i + o < size} |-> k + o]

\* Whatever the numbers and the nesting, and whatever the object's size,
\* the one window that resolve returns shows exactly the bytes that one
\* obtains by cutting the object layer by layer, in the same order; and a URI
\* that apply_window refuses would not have shown a single byte.
WindowIsNested ==
    /\ pc \in {"unwind", "resolved"} => view = Selected(window.offset, window.length)
    /\ pc = "refused" => DOMAIN view = {}
=============================================================================
