---------------------------- MODULE RangesProofs -----------------------------
(***************************************************************************)
(* For numbers of any width: resolve returns the window that the layers of *)
(* its URI describe, plan_transfers makes of the ranges of a batch the     *)
(* transfers that serve them, the bytes of a transfer reach the ranges     *)
(* that asked for them, and read_ends returns two ends of one version.     *)
(*                                                                         *)
(* Windows.  WindowIsNested is inductive but for the types of what is      *)
(* parsed: every layer on the way back has been parsed on the way in, so   *)
(* its numbers are at most MaxNumber (Parsed).  The arithmetic is in two   *)
(* lemmas on Cut, for a window that fits and for one that is refused.      *)
(*                                                                         *)
(* Plans.  That a range is served once rests on the tags of the transfers  *)
(* so far being the first `next' of the sorted ranges (Judged, Served);    *)
(* that the sums of 64 bits are the sums meant rests on the order of the   *)
(* ranges, by which a merged range never begins before its transfer, and   *)
(* on the loop's test against a span of MaxInt (Ordered, Built).           *)
(*                                                                         *)
(* Copying.  The loop of store_payload may stop at the first part beyond a *)
(* chunk because parts come in the order of their offsets (InOrder), and   *)
(* may begin at the cursor because the parts before it are full (Behind).  *)
(* The order is one that the planner has made.                             *)
(*                                                                         *)
(* Ends.  A reply is of one version and has all the bytes wanted, or there *)
(* is nothing to have (OfOneVersion), whatever earlier attempts have left  *)
(* in the buffer; the requests of each stage are the ones that the call    *)
(* and the first replies lead to (Requested), so that the positions in a   *)
(* reply are those that the caller is told.                                *)
(***************************************************************************)
EXTENDS Locator, PlanScatter, ReadEnds, FiniteSetTheorems, TLAPS

TypeOK ==
    /\ uri \in Uris
    /\ size \in 0 .. MaxNumber
    /\ pc \in {"descend", "unwind", "resolved", "malformed", "unsupported", "refused"}
    /\ depth \in 0 .. uri.depth
    /\ window \in Window

\* What the recursion has passed on the way in can be applied on the way out.
Parsed == \A d \in 1 .. depth : LayerParses(d)

\* Nothing is applied before the innermost URI has been reached.
Untouched ==
    pc = "descend" => /\ window = [offset |-> 0, length |-> TO_END]
                      /\ view = [k \in 0 .. size - 1 |-> k]

IInv == TypeOK /\ Parsed /\ Untouched /\ WindowIsNested

\* A layer that apply_window accepts: cutting what the window shows is showing
\* the composed window (uri.cpp:203-218).
LEMMA CutOfSelected ==
    ASSUME size \in 0 .. MaxNumber, window \in Window,
           NEW o \in 0 .. MaxNumber, NEW l \in 0 .. MaxNumber,
           WindowFits(o)
    PROVE  /\ Composed(l, o) \in 0 .. MaxNumber
           /\ Cut(Selected(window.offset, window.length), o, Limit(l))
                = Selected(window.offset + o, Composed(l, o))
<1> DEFINE a == window.offset
           n == window.length
           c == Composed(l, o)
           v == Selected(a, n)
           D == {i \in DOMAIN v : i < Limit(l) /\ i + o \in DOMAIN v}
           E == {i \in 0 .. size - 1 : i < Limit(c) /\ i + (a + o) < size}
<1>1. /\ a \in 0 .. MaxNumber /\ n \in 0 .. MaxNumber
      /\ a + o <= MaxNumber /\ (n # MaxNumber => o <= n)
  BY LocatorAssumption DEF Window, WindowFits, TO_END
<1>2. /\ c \in 0 .. MaxNumber
      /\ c = IF n # MaxNumber THEN IF l < n - o THEN l ELSE n - o ELSE l
  BY <1>1, LocatorAssumption DEF Composed, Least, TO_END
<1>3. DOMAIN v = {i \in 0 .. size - 1 : i < Limit(n) /\ i + a < size}
  BY DEF Selected
<1>4. \A i : i \in D <=> i \in E
  <2> SUFFICES ASSUME NEW i PROVE i \in D <=> i \in E
    OBVIOUS
  <2> HIDE DEF v, c, a, n
  <2>1. CASE i \in 0 .. size - 1
    BY <2>1, <1>1, <1>2, <1>3, LocatorAssumption DEF Limit, TO_END
  <2>2. CASE i \notin 0 .. size - 1
    BY <2>2, <1>3
  <2> QED
    BY <2>1, <2>2
<1>5. D = E
  BY <1>4
<1>6. \A k \in D : v[k + o] = k + (a + o)
  <2> SUFFICES ASSUME NEW k \in D PROVE v[k + o] = k + (a + o)
    OBVIOUS
  <2>1. k + o \in DOMAIN v /\ k \in DOMAIN v
    OBVIOUS
  <2>2. k \in Int
    BY <2>1, <1>3
  <2>3. v[k + o] = (k + o) + a
    BY <2>1 DEF Selected
  <2> HIDE DEF v, a, D
  <2> QED
    BY <2>2, <2>3, <1>1
<1>7. Cut(v, o, Limit(l)) = [k \in D |-> v[k + o]]
  BY DEF Cut
<1>8. Selected(a + o, c) = [k \in E |-> k + (a + o)]
  BY DEF Selected
<1> HIDE DEF D, E, v, c, a
<1>9. [k \in D |-> v[k + o]] = [k \in E |-> k + (a + o)]
  BY <1>5, <1>6
<1> QED
  BY <1>2, <1>7, <1>8, <1>9 DEF v, c, a

\* A layer that apply_window refuses shows nothing: it starts where the parent has ended,
\* or beyond the last byte an object can have (uri.cpp:207-213).
LEMMA CutOfRefused ==
    ASSUME size \in 0 .. MaxNumber, window \in Window,
           NEW o \in 0 .. MaxNumber, NEW l \in 0 .. MaxNumber,
           ~WindowFits(o)
    PROVE  DOMAIN Cut(Selected(window.offset, window.length), o, Limit(l)) = {}
<1> DEFINE a == window.offset
           n == window.length
           v == Selected(a, n)
<1>1. /\ a \in 0 .. MaxNumber /\ n \in 0 .. MaxNumber
      /\ a + o > MaxNumber \/ (n # MaxNumber /\ o > n)
  BY LocatorAssumption DEF Window, WindowFits, TO_END
<1>2. DOMAIN v = {i \in 0 .. size - 1 : i < Limit(n) /\ i + a < size}
  BY DEF Selected
<1>3. DOMAIN Cut(v, o, Limit(l)) = {i \in DOMAIN v : i < Limit(l) /\ i + o \in DOMAIN v}
  BY DEF Cut
<1> HIDE DEF v, a, n
<1>4. \A i \in DOMAIN v : i + o \notin DOMAIN v
  BY <1>1, <1>2, LocatorAssumption DEF Limit, TO_END
<1> QED
  BY <1>3, <1>4 DEF v, a, n

\* apply_window keeps what has been shown (uri.cpp:203-218).
LEMMA ApplyWindow ==
    ASSUME size \in 0 .. MaxNumber, window \in Window,
           view = Selected(window.offset, window.length),
           NEW o \in 0 .. MaxNumber, NEW l \in 0 .. MaxNumber,
           apply_window(o, l), size' = size
    PROVE  /\ window' \in Window
           /\ pc' \in {"unwind", "refused"}
           /\ WindowIsNested'
<1>1. CASE WindowFits(o)
  <2>1. window' = [offset |-> window.offset + o, length |-> Composed(l, o)]
        /\ pc' = "unwind" /\ view' = Cut(view, o, Limit(l))
    BY <1>1 DEF apply_window
  <2>2. window' \in Window
    BY <2>1, <1>1, CutOfSelected, LocatorAssumption DEF Window, WindowFits
  <2>3. view' = Selected(window'.offset, window'.length)
    BY <2>1, <1>1, CutOfSelected
  <2>4. Selected(window'.offset, window'.length) = Selected(window.offset, window.length)'
    BY DEF Selected, Limit
  <2> QED
    BY <2>1, <2>2, <2>3, <2>4 DEF WindowIsNested
<1>2. CASE ~WindowFits(o)
  BY <1>2, CutOfRefused DEF apply_window, WindowIsNested
<1> QED
  BY <1>1, <1>2

\* What has been parsed fits in 64 bits, and TO_END does.
LEMMA ParsedIsSmall ==
    ASSUME TypeOK, NEW d \in 1 .. uri.depth, LayerParses(d)
    PROVE  layer(d).offset \in 0 .. MaxNumber /\ Length(d) \in 0 .. MaxNumber
<1>1. layer(d) \in Layer
  BY UrisAssumption DEF TypeOK, layer
<1> QED
  BY <1>1, LocatorAssumption DEF LayerParses, Parses, Length, Layer, TO_END

LEMMA FragmentIsSmall ==
    ASSUME TypeOK, FragmentParses
    PROVE  FragmentOffset \in 0 .. MaxNumber /\ FragmentLength \in 0 .. MaxNumber
<1>1. fragment \in Fragment
  BY UrisAssumption DEF TypeOK, fragment
<1> QED
  BY <1>1, LocatorAssumption
     DEF FragmentParses, Parses, FragmentOffset, FragmentLength, Fragment, TO_END

LEMMA InitIInv == Init => IInv
<1> SUFFICES ASSUME Init PROVE IInv
  OBVIOUS
<1>1. TypeOK
  BY LocatorAssumption, UrisAssumption DEF Init, TypeOK, Window, TO_END
<1>2. Parsed /\ Untouched /\ WindowIsNested
  BY DEF Init, Parsed, Untouched, WindowIsNested
<1> QED
  BY <1>1, <1>2 DEF IInv

LEMMA NextIInv == IInv /\ [Next]_vars => IInv'
<1> SUFFICES ASSUME IInv, [Next]_vars PROVE IInv'
  OBVIOUS
<1>0. TypeOK /\ Parsed /\ Untouched /\ WindowIsNested
  BY DEF IInv
<1>1. CASE Descend
  <2>1. TypeOK'
    BY <1>0, <1>1, UrisAssumption DEF TypeOK, Descend
  <2>2. Parsed'
    BY <1>0, <1>1, UrisAssumption DEF TypeOK, Parsed, Descend, LayerParses, layer
  <2>3. Untouched' /\ WindowIsNested'
    BY <1>0, <1>1 DEF Untouched, WindowIsNested, Descend
  <2> QED
    BY <2>1, <2>2, <2>3 DEF IInv
<1>2. CASE TargetFails
  BY <1>0, <1>2
     DEF IInv, TypeOK, Parsed, Untouched, WindowIsNested, TargetFails, LayerParses, layer
<1>3. CASE terminal
  <2>1. /\ window = [offset |-> 0, length |-> TO_END]
        /\ view = Selected(window.offset, window.length)
        /\ uri' = uri /\ size' = size /\ depth' = depth
        /\ FragmentParses /\ pc = "descend"
    <3>1. /\ window = [offset |-> 0, length |-> TO_END] /\ view = [k \in 0 .. size - 1 |-> k]
          /\ uri' = uri /\ size' = size /\ depth' = depth
          /\ FragmentParses /\ pc = "descend"
      BY <1>0, <1>3 DEF Untouched, terminal
    <3>2. {i \in 0 .. size - 1 : i < Limit(TO_END) /\ i + 0 < size} = 0 .. size - 1
      BY <1>0 DEF Limit, TypeOK
    <3>3. Selected(0, TO_END) = [k \in 0 .. size - 1 |-> k + 0]
      BY <3>2 DEF Selected
    <3>4. [k \in 0 .. size - 1 |-> k + 0] = [k \in 0 .. size - 1 |-> k]
      OBVIOUS
    <3> QED
      BY <3>1, <3>3, <3>4
  <2>2. Parsed'
    BY <1>0, <2>1 DEF Parsed, LayerParses, layer
  <2>3. /\ window' \in Window
        /\ pc' \in {"unwind", "refused"}
        /\ WindowIsNested'
    <3>1. CASE FragmentOffset # 0 \/ FragmentLength # TO_END
      BY <3>1, <1>0, <1>3, <2>1, ApplyWindow, FragmentIsSmall DEF terminal, TypeOK
    <3>2. CASE ~(FragmentOffset # 0 \/ FragmentLength # TO_END)
      BY <3>2, <1>0, <1>3, <2>1 DEF terminal, TypeOK, WindowIsNested, Selected, Limit
    <3> QED
      BY <3>1, <3>2
  <2> QED
    BY <1>0, <2>1, <2>2, <2>3 DEF IInv, TypeOK, Untouched
<1>4. CASE Unwind
  <2>1. /\ pc = "unwind" /\ depth > 0 /\ depth' = depth - 1
        /\ uri' = uri /\ size' = size
        /\ apply_window(layer(depth).offset, Length(depth))
    BY <1>4 DEF Unwind
  <2>2. layer(depth).offset \in 0 .. MaxNumber /\ Length(depth) \in 0 .. MaxNumber
    <3>1. depth \in 1 .. uri.depth /\ LayerParses(depth)
      BY <1>0, <2>1, UrisAssumption DEF TypeOK, Parsed
    <3> QED
      BY <1>0, <3>1, ParsedIsSmall
  <2>3. /\ window' \in Window
        /\ pc' \in {"unwind", "refused"}
        /\ WindowIsNested'
    BY <1>0, <2>1, <2>2, ApplyWindow DEF TypeOK, WindowIsNested
  <2>4. TypeOK'
    BY <1>0, <2>1, <2>3, UrisAssumption DEF TypeOK
  <2>5. Parsed'
    BY <1>0, <2>1, UrisAssumption DEF TypeOK, Parsed, LayerParses, layer
  <2> QED
    BY <2>3, <2>4, <2>5 DEF IInv, Untouched
<1>5. CASE Resolve
  BY <1>0, <1>5
     DEF IInv, TypeOK, Parsed, Untouched, WindowIsNested, Resolve, LayerParses, layer,
         Selected, Limit
<1>6. CASE UNCHANGED vars
  BY <1>0, <1>6
     DEF IInv, TypeOK, Parsed, Untouched, WindowIsNested, vars, LayerParses, layer,
         Selected, Limit
<1> QED
  BY <1>1, <1>2, <1>3, <1>4, <1>5, <1>6 DEF Next

\* The window that resolve returns shows exactly the bytes that the URI's
\* fragment and layers describe, for numbers of any width, any nesting and any
\* object that the numbers can count (uri.cpp:203-310).
THEOREM WindowsNest == Spec => []WindowIsNested
<1>1. IInv => WindowIsNested
  BY DEF IInv
<1> QED
  BY <1>1, InitIInv, NextIInv, PTL DEF Spec
-----------------------------------------------------------------------------
(* Plans.                                                                  *)

PlanPart == [relative_offset : 0 .. MaxInt, length : 1 .. MaxInt - 1, tag : Nat]
PlanTransfer == [object : Nat, if_match : Nat, offset : 0 .. MaxInt,
                 length : 0 .. MaxInt, parts : Seq(PlanPart)]

PlannerTypeOK ==
    /\ requests \in Seq(Request)
    /\ checked \in 0 .. Len(requests)
    /\ immediate \in SUBSET (1 .. checked)
    /\ valid \in Seq(Nat) /\ Len(valid) <= checked
    /\ next \in 0 .. Len(valid)
    /\ transfers \in Seq(PlanTransfer)
    /\ last_byte \in 0 .. MaxInt
    /\ stage \in {"validate", "open", "merge", "done", "nomem", "fetched"}

\* The ranges that were judged: the rejected ones are complete, each of the
\* others is in `valid', once.
Judged ==
    /\ \A i \in 1 .. checked : i \in immediate <=> ~Accepted(requests[i])
    /\ \A k \in 1 .. Len(valid) : valid[k] \in 1 .. checked /\ valid[k] \notin immediate
    /\ \A i \in 1 .. checked : i \notin immediate => \E k \in 1 .. Len(valid) : valid[k] = i
    /\ \A j, k \in 1 .. Len(valid) : valid[j] = valid[k] => j = k

\* The first and the last byte of range i of the batch rs, and the order of
\* its ranges.
FirstByte(rs, i) == rs[i].window_offset + rs[i].offset
LastByte(rs, i) == FirstByte(rs, i) + rs[i].length - 1
Precedes(rs, i, j) ==
    \/ rs[i].object < rs[j].object
    \/ /\ rs[i].object = rs[j].object
       /\ \/ rs[i].if_match < rs[j].if_match
          \/ /\ rs[i].if_match = rs[j].if_match
             /\ \/ FirstByte(rs, i) < FirstByte(rs, j)
                \/ FirstByte(rs, i) = FirstByte(rs, j) /\ i < j

Ordered ==
    /\ stage = "validate" => next = 0 /\ transfers = <<>>
    /\ stage # "validate" =>
         /\ checked = Len(requests)
         /\ \A j, k \in 1 .. Len(valid) : j < k => Precedes(requests, valid[j], valid[k])
    /\ stage = "done" => next = Len(valid)

PartsOf(n) == 1 .. Len(transfers[n].parts)
TagOf(n, k) == transfers[n].parts[k].tag

\* The first `next' of `valid' are the parts of the transfers, each one once.
Served ==
    /\ \A n \in 1 .. Len(transfers) :
         /\ Len(transfers[n].parts) \in 1 .. next
         /\ \A k \in PartsOf(n) : \E v \in 1 .. next : valid[v] = TagOf(n, k)
    /\ \A v \in 1 .. next : \E n \in 1 .. Len(transfers) : \E k \in PartsOf(n) :
         TagOf(n, k) = valid[v]
    /\ \A m, n \in 1 .. Len(transfers) : \A j \in PartsOf(m), k \in PartsOf(n) :
         TagOf(m, j) = TagOf(n, k) => m = n /\ j = k

\* The parts of a transfer are what their ranges ask for, in the order of
\* their offsets.
Reads(rs, t, p) ==
    /\ rs[p.tag].object = t.object
    /\ rs[p.tag].if_match = t.if_match
    /\ t.offset + p.relative_offset = FirstByte(rs, p.tag)
    /\ p.length = rs[p.tag].length
Agrees(rs, t) ==
    /\ \A k \in 1 .. Len(t.parts) : Reads(rs, t, t.parts[k])
    /\ t.parts[1].relative_offset = 0
    /\ \A j, k \in 1 .. Len(t.parts) :
         j <= k => t.parts[j].relative_offset <= t.parts[k].relative_offset

\* Byte b is the last one that a transfer needs.
EndsAt(rs, t, b) ==
    /\ \A k \in 1 .. Len(t.parts) : LastByte(rs, t.parts[k].tag) <= b
    /\ \E k \in 1 .. Len(t.parts) : LastByte(rs, t.parts[k].tag) = b

Built ==
    /\ \A n \in 1 .. Len(transfers) :
         /\ Agrees(requests, transfers[n])
         /\ n < Len(transfers) \/ stage # "merge" =>
              EndsAt(requests, transfers[n], transfers[n].offset + transfers[n].length - 1)
    /\ stage = "merge" =>
         /\ transfers # <<>>
         /\ EndsAt(requests, Growing, last_byte)
         /\ last_byte - Growing.offset \in 0 .. MaxInt - 1

PlannerInv == PlannerTypeOK /\ Judged /\ Ordered /\ Served /\ Built

-----------------------------------------------------------------------------
(* The copying of bodies.                                                  *)

BodyPart == [relative_offset : Nat, length : Nat \ {0}]

ScatterTypeOK ==
    /\ parts \in Seq(BodyPart)
    /\ transfer_length \in Nat
    /\ file \in BOOLEAN
    /\ received \in 0 .. transfer_length
    /\ scatter_cursor \in 1 .. Len(parts) + 1
    /\ DOMAIN buffer = 1 .. Len(parts)
    /\ \A k \in 1 .. Len(parts) : DOMAIN buffer[k] = S!Positions(k)
    /\ DOMAIN scratch = 0 .. transfer_length - 1
    /\ DOMAIN completion = 1 .. Len(parts)
    /\ \A k \in 1 .. Len(parts) : completion[k] \in [status : {"none", "ok", "range"}, got : Nat]

\* The planner's order, on which the copying loop relies to stop early, and the
\* parts that the cursor has left behind.
InOrder ==
    \A j, k \in 1 .. Len(parts) :
        j <= k => parts[j].relative_offset <= parts[k].relative_offset
Behind == \A k \in 1 .. scatter_cursor - 1 : S!End(k) <= received

\* A file is read into the scratch buffer, or into its only part.
FileBytes ==
    file /\ S!Open => \A i \in 0 .. received - 1 :
        (IF S!scattered THEN scratch[i] ELSE buffer[1][i]) = i

ScatterInv == ScatterTypeOK /\ InOrder /\ Behind /\ FileBytes /\ BytesInPlace

PlanInv == PlannerInv /\ ScatterInv

\* validate, computed in 64 bits, rejects what leaves its window or the numbers.
LEMMA AcceptedFacts ==
  ASSUME NEW r \in Request
  PROVE  Accepted(r) <=>
           ~ \/ r.object \in FileObjects /\ r.if_match # NoCondition
             \/ r.window_length # ToEnd /\ r.offset + r.length > r.window_length
             \/ r.window_offset + r.offset + r.length - 1 > MaxInt
<1>1. /\ MaxInt \in Nat
      /\ r.window_offset \in 0 .. MaxInt /\ r.window_length \in 0 .. MaxInt
      /\ r.offset \in 0 .. MaxInt /\ r.length \in 1 .. MaxInt - 1
  BY PlannerAssumption DEF Request
<1>2. Sub(r.length, 1) = r.length - 1
  BY <1>1 DEF Sub
<1>3. r.offset <= MaxInt - r.window_offset =>
        Sub(MaxInt, Add(r.window_offset, r.offset)) = MaxInt - (r.window_offset + r.offset)
  <2> SUFFICES ASSUME r.window_offset + r.offset <= MaxInt
               PROVE  Sub(MaxInt, Add(r.window_offset, r.offset))
                        = MaxInt - (r.window_offset + r.offset)
    BY <1>1
  <2>1. \A x \in 0 .. MaxInt : x % (MaxInt + 1) = x
    BY <1>1
  <2>2. r.window_offset + r.offset \in 0 .. MaxInt
    BY <1>1
  <2>3. Add(r.window_offset, r.offset) = r.window_offset + r.offset
    BY <2>1, <2>2 DEF Add
  <2>4. MaxInt - (r.window_offset + r.offset) \in 0 .. MaxInt
    BY <1>1
  <2> QED
    BY <2>1, <2>3, <2>4 DEF Sub
<1> QED
  BY <1>1, <1>2, <1>3 DEF Accepted, validate, ToEnd

\* The bytes of an accepted range have numbers.
LEMMA RangeFacts ==
  ASSUME NEW i, requests[i] \in Request, Accepted(requests[i])
  PROVE  /\ absolute_offset(i) = From(i) /\ end(i) = To(i)
         /\ From(i) \in 0 .. MaxInt /\ To(i) \in 0 .. MaxInt
         /\ To(i) = From(i) + requests[i].length - 1
         /\ requests[i].length \in 1 .. MaxInt - 1
<1> DEFINE r == requests[i]
<1>1. /\ MaxInt \in Nat
      /\ r.window_offset \in 0 .. MaxInt
      /\ r.offset \in 0 .. MaxInt /\ r.length \in 1 .. MaxInt - 1
  BY PlannerAssumption DEF Request
<1>2. r.window_offset + r.offset + r.length - 1 <= MaxInt
  BY <1>1, AcceptedFacts
<1> HIDE DEF r
<1>3. Add(r.window_offset, r.offset) = r.window_offset + r.offset
  BY <1>1, <1>2 DEF Add
<1>4. Sub(Add(r.window_offset + r.offset, r.length), 1) = r.window_offset + r.offset + r.length - 1
  <2> DEFINE a == r.window_offset + r.offset
  <2>1. a \in 0 .. MaxInt /\ a + r.length <= MaxInt + 1 /\ a + r.length >= 1
    BY <1>1, <1>2
  <2> HIDE DEF a
  <2>2. CASE a + r.length <= MaxInt
    <3>1. Add(a, r.length) = a + r.length
      BY <1>1, <2>1, <2>2 DEF Add
    <3>2. a + r.length - 1 \in 0 .. MaxInt
      BY <1>1, <2>1, <2>2
    <3>3. \A x \in 0 .. MaxInt : x % (MaxInt + 1) = x
      BY <1>1
    <3>4. Sub(a + r.length, 1) = a + r.length - 1
      BY <1>1, <2>1, <3>2, <3>3 DEF Sub
    <3> QED
      BY <3>1, <3>4 DEF a
  <2>3. CASE a + r.length = MaxInt + 1
    <3>1. Add(a, r.length) = 0
      BY <1>1, <2>1, <2>3 DEF Add
    <3>2. Sub(0, 1) = MaxInt
      BY <1>1 DEF Sub
    <3> QED
      BY <1>1, <2>3, <3>1, <3>2 DEF a
  <2> QED
    BY <1>1, <2>1, <2>2, <2>3
<1> QED
  BY <1>1, <1>2, <1>3, <1>4 DEF r, absolute_offset, end, From, To

\* A set of natural numbers has a smallest element.
LEMMA SmallestFacts ==
  ASSUME NEW T \in SUBSET Nat, T # {}
  PROVE  S!Smallest(T) \in T /\ \A m \in T : S!Smallest(T) <= m
<1> DEFINE R == OpToRel(<, Nat)
<1>1. \E x \in T : \A y \in T : ~(<<y, x>> \in R)
  BY NatLessThanWellFounded, WFMin, Zenon
<1>2. \A x, y \in Nat : y < x => <<y, x>> \in R
  BY DEF OpToRel
<1> HIDE DEF R
<1>3. PICK x \in T : \A y \in T : ~(<<y, x>> \in R)
  BY <1>1
<1>4. \A y \in T : ~(y < x)
  BY <1>2, <1>3
<1>5. \E n \in T : \A m \in T : n <= m
  BY <1>4
<1> QED
  BY <1>5 DEF S!Smallest

LEMMA PartFacts ==
  ASSUME ScatterTypeOK, NEW k \in 1 .. Len(parts)
  PROVE  /\ parts[k].relative_offset \in Nat /\ parts[k].length \in Nat \ {0}
         /\ S!End(k) \in Nat
         /\ S!End(k) = parts[k].relative_offset + parts[k].length
<1>1. parts[k] \in BodyPart
  BY DEF ScatterTypeOK
<1>2. parts[k].relative_offset \in Nat /\ parts[k].length \in Nat \ {0}
  BY <1>1 DEF BodyPart
<1> QED
  BY <1>2 DEF S!End

\* The cursor goes to the first part that ends after byte b, and leaves only
\* parts behind that do not.
LEMMA AdvancedFacts ==
  ASSUME ScatterTypeOK, NEW b \in Nat
  PROVE  /\ S!Advanced(b) \in scatter_cursor .. Len(parts) + 1
         /\ \A k \in scatter_cursor .. S!Advanced(b) - 1 : S!End(k) <= b
<1> DEFINE T == {k \in scatter_cursor .. Len(parts) : S!End(k) > b} \cup {Len(parts) + 1}
<1>1. Len(parts) \in Nat /\ scatter_cursor \in 1 .. Len(parts) + 1
  BY DEF ScatterTypeOK
<1>2. T \in SUBSET Nat /\ T # {}
  BY <1>1
<1>3. \A k \in 1 .. Len(parts) : S!End(k) \in Nat
  BY PartFacts
<1>4. S!Advanced(b) = S!Smallest(T)
  BY DEF S!Advanced
<1> HIDE DEF T
<1>5. S!Advanced(b) \in T /\ \A m \in T : S!Advanced(b) <= m
  BY <1>2, <1>4, SmallestFacts
<1>6. S!Advanced(b) \in scatter_cursor .. Len(parts) + 1
  BY <1>1, <1>5 DEF T
<1>7. ASSUME NEW k \in scatter_cursor .. S!Advanced(b) - 1
      PROVE  S!End(k) <= b
  <2>1. k \in 1 .. Len(parts) /\ k \in scatter_cursor .. Len(parts) /\ k < S!Advanced(b)
    BY <1>1, <1>6
  <2>2. k \notin T
    BY <1>1, <1>5, <1>6, <2>1
  <2>3. S!End(k) \in Nat /\ ~(S!End(k) > b)
    BY <1>3, <2>1, <2>2 DEF T
  <2> QED
    BY <2>3
<1> QED
  BY <1>6, <1>7

\* The copying loop visits every part that has a byte of the chunk.
LEMMA VisitedFacts ==
  ASSUME ScatterTypeOK, InOrder, Behind, NEW k \in 1 .. Len(parts),
         NEW stop \in Nat, NEW byte \in Nat,
         parts[k].relative_offset <= byte, byte < S!End(k),
         received <= byte, byte < stop
  PROVE  k \in S!Visited(S!Advanced(received), stop)
<1> DEFINE c == S!Advanced(received)
<1>1. /\ received \in Nat /\ Len(parts) \in Nat
      /\ scatter_cursor \in 1 .. Len(parts) + 1
      /\ \A m \in 1 .. Len(parts) : parts[m].relative_offset \in Nat /\ S!End(m) \in Nat
  <2>1. /\ received \in Nat /\ Len(parts) \in Nat
        /\ scatter_cursor \in 1 .. Len(parts) + 1
    BY DEF ScatterTypeOK
  <2> QED
    BY <2>1, PartFacts
<1>2. /\ c \in scatter_cursor .. Len(parts) + 1
      /\ \A m \in scatter_cursor .. c - 1 : S!End(m) <= received
  BY <1>1, AdvancedFacts
<1> HIDE DEF c
<1>3. k >= c
  <2> SUFFICES ASSUME k < c PROVE FALSE
    BY <1>1, <1>2
  <2>1. S!End(k) <= received
    <3>1. CASE k < scatter_cursor
      BY <1>1, <3>1 DEF Behind
    <3>2. CASE k >= scatter_cursor
      BY <1>1, <1>2, <3>2
    <3> QED
      BY <1>1, <3>1, <3>2
  <2> QED
    BY <1>1, <2>1
<1>4. \A m \in c .. k : parts[m].relative_offset < stop
  <2> TAKE m \in c .. k
  <2>1. m \in 1 .. Len(parts) /\ m <= k
    BY <1>1, <1>2
  <2>2. parts[m].relative_offset <= parts[k].relative_offset
    BY <2>1 DEF InOrder
  <2> QED
    BY <1>1, <2>1, <2>2
<1>5. k \in c .. Len(parts)
  BY <1>1, <1>2, <1>3
<1> QED
  BY <1>4, <1>5 DEF c, S!Visited

\* An open transfer has reported nothing.
LEMMA OpenReports ==
  ASSUME ScatterTypeOK, S!Open, UNCHANGED <<parts, completion>>
  PROVE  S!ReportedBytesAreThere' /\ (S!Open' <=> S!Open)
<1>1. ASSUME NEW k \in 1 .. Len(parts)
      PROVE  completion'[k] = [status |-> "none", got |-> 0] /\ parts[k].length # 0
  <2>1. k \in DOMAIN parts
    BY DEF ScatterTypeOK
  <2> QED
    BY <2>1, PartFacts DEF S!Open, S!Pending
<1>2. DOMAIN parts' = 1 .. Len(parts) /\ parts' = parts
  BY DEF ScatterTypeOK
<1>3. S!ReportedBytesAreThere'
  <2> SUFFICES ASSUME NEW k \in 1 .. Len(parts)
               PROVE  /\ \A i \in 0 .. completion'[k].got - 1 :
                           buffer'[k][i] = parts'[k].relative_offset + i
                      /\ completion'[k].status = "ok" <=> completion'[k].got = parts'[k].length
    BY <1>2 DEF S!ReportedBytesAreThere
  <2>1. completion'[k].status = "none" /\ completion'[k].got = 0
    BY <1>1
  <2> QED
    BY <1>1, <1>2, <2>1
<1> QED
  BY <1>3 DEF S!Open

LEMMA StoreKeeps ==
  ASSUME ScatterInv, NEW n \in 1 .. transfer_length, S!store_payload(n)
  PROVE  ScatterInv'
<1> DEFINE stop == received + n
           c == S!Advanced(received)
           Hit(k, i) == /\ ~S!scattered \/ k \in S!Visited(c, stop)
                        /\ received <= parts[k].relative_offset + i
                        /\ parts[k].relative_offset + i < stop
<1>0. ScatterTypeOK /\ InOrder /\ Behind /\ S!BytesInPlace
  BY DEF ScatterInv, BytesInPlace
<1>1. /\ ~file /\ S!Open /\ stop <= transfer_length /\ received' = stop
      /\ scatter_cursor' = IF S!scattered THEN c ELSE scatter_cursor
      /\ UNCHANGED <<parts, transfer_length, file, scratch, completion>>
  BY DEF S!store_payload
<1>2. buffer' = [k \in DOMAIN parts |-> [i \in S!Positions(k) |->
                    IF Hit(k, i) THEN parts[k].relative_offset + i ELSE buffer[k][i]]]
  BY DEF S!store_payload
<1>3. /\ received \in Nat /\ n \in Nat /\ stop \in 0 .. transfer_length /\ stop > received
      /\ Len(parts) \in Nat /\ DOMAIN parts = 1 .. Len(parts)
      /\ scatter_cursor \in 1 .. Len(parts) + 1
  BY <1>0, <1>1 DEF ScatterTypeOK
<1>4. /\ c \in scatter_cursor .. Len(parts) + 1
      /\ \A k \in scatter_cursor .. c - 1 : S!End(k) <= received
  BY <1>0, <1>3, AdvancedFacts
<1> HIDE DEF c, stop, Hit
<1>5. \A k \in 1 .. Len(parts) : /\ S!Positions(k)' = S!Positions(k)
                                 /\ S!End(k)' = S!End(k)
  BY <1>1 DEF S!Positions, S!End
<1>6. ScatterTypeOK'
  <2>1. scatter_cursor' \in 1 .. Len(parts) + 1
    BY <1>1, <1>3, <1>4
  <2>2. /\ DOMAIN buffer' = 1 .. Len(parts)
        /\ \A k \in 1 .. Len(parts) : DOMAIN buffer'[k] = S!Positions(k)
    BY <1>2, <1>3
  <2> QED
    BY <1>0, <1>1, <1>3, <1>5, <2>1, <2>2 DEF ScatterTypeOK
<1>7. Behind'
  <2> SUFFICES ASSUME NEW k \in 1 .. scatter_cursor' - 1
               PROVE  S!End(k) <= stop
    BY <1>1, <1>3, <1>4, <1>5 DEF Behind
  <2>1. k \in 1 .. Len(parts)
    BY <1>1, <1>3, <1>4
  <2>2. S!End(k) \in Nat
    BY <1>0, <2>1, PartFacts
  <2>3. S!End(k) <= received
    <3>1. CASE k < scatter_cursor
      BY <1>0, <1>3, <2>1, <3>1 DEF Behind
    <3>2. CASE k >= scatter_cursor
      BY <1>1, <1>3, <1>4, <3>2
    <3> QED
      BY <1>3, <2>1, <3>1, <3>2
  <2> QED
    BY <1>3, <2>2, <2>3
<1>8. S!BytesInPlace'
  <2> SUFFICES ASSUME NEW k \in 1 .. Len(parts), NEW i \in S!Positions(k)
               PROVE  /\ buffer'[k][i] \in {S!NoByte, parts[k].relative_offset + i}
                      /\ parts[k].relative_offset + i < stop =>
                           buffer'[k][i] = parts[k].relative_offset + i
    BY <1>1, <1>3, <1>5 DEF S!BytesInPlace
  <2> DEFINE byte == parts[k].relative_offset + i
  <2>1. buffer'[k][i] = IF Hit(k, i) THEN byte ELSE buffer[k][i]
    BY <1>2, <1>3
  <2>2. /\ buffer[k][i] \in {S!NoByte, byte}
        /\ byte < received => buffer[k][i] = byte
    BY <1>0, <1>1, <1>3 DEF S!BytesInPlace
  <2>3. byte \in Nat /\ parts[k].relative_offset <= byte /\ byte < S!End(k)
    BY <1>0, PartFacts DEF S!Positions
  <2>4. received <= byte /\ byte < stop => Hit(k, i)
    BY <1>0, <1>3, <2>3, VisitedFacts DEF Hit, c
  <2> HIDE DEF byte
  <2>5. byte < stop => byte < received \/ Hit(k, i)
    BY <1>3, <2>3, <2>4
  <2>6. buffer'[k][i] \in {S!NoByte, byte} /\ (byte < stop => buffer'[k][i] = byte)
    BY <2>1, <2>2, <2>5
  <2> QED
    BY <2>6 DEF byte
<1>9. InOrder' /\ FileBytes' /\ S!ReportedBytesAreThere'
  BY <1>0, <1>1, OpenReports DEF InOrder, FileBytes
<1> QED
  BY <1>6, <1>7, <1>8, <1>9 DEF ScatterInv, BytesInPlace

LEMMA ReadKeeps ==
  ASSUME ScatterInv, NEW n \in 1 .. transfer_length, S!Read(n)
  PROVE  ScatterInv'
<1> DEFINE stop == received + n
<1>0. ScatterTypeOK /\ InOrder /\ Behind /\ S!BytesInPlace /\ FileBytes
  BY DEF ScatterInv, BytesInPlace
<1>1. /\ file /\ S!Open /\ stop <= transfer_length /\ received' = stop
      /\ UNCHANGED <<parts, transfer_length, file, scatter_cursor, completion>>
  BY DEF S!Read
<1>2. /\ received \in Nat /\ n \in Nat /\ stop \in 0 .. transfer_length /\ stop > received
      /\ Len(parts) \in Nat /\ DOMAIN parts = 1 .. Len(parts)
      /\ scatter_cursor \in 1 .. Len(parts) + 1
  BY <1>0, <1>1 DEF ScatterTypeOK
<1>3. \A k \in 1 .. Len(parts) : /\ S!Positions(k)' = S!Positions(k)
                                 /\ S!End(k)' = S!End(k)
  BY <1>1 DEF S!Positions, S!End
<1>4. S!scattered' <=> S!scattered
  BY <1>1 DEF S!scattered
<1>5. Behind'
  <2> SUFFICES ASSUME NEW k \in 1 .. scatter_cursor - 1
               PROVE  S!End(k) <= stop
    BY <1>1, <1>2, <1>3 DEF Behind
  <2>1. k \in 1 .. Len(parts)
    BY <1>2
  <2>2. S!End(k) \in Nat /\ S!End(k) <= received
    BY <1>0, <2>1, PartFacts DEF Behind
  <2> HIDE DEF stop
  <2> QED
    BY <1>2, <2>2
<1>6. InOrder' /\ S!ReportedBytesAreThere'
  BY <1>0, <1>1, OpenReports DEF InOrder
<1>7. CASE S!scattered
  <2>1. /\ buffer' = buffer
        /\ scratch' = [i \in DOMAIN scratch |->
                         IF received <= i /\ i < stop THEN i ELSE scratch[i]]
    BY <1>7 DEF S!Read
  <2>2. ScatterTypeOK'
    BY <1>0, <1>1, <1>2, <1>3, <2>1 DEF ScatterTypeOK
  <2>3. S!BytesInPlace'
    BY <1>0, <1>1, <1>2, <1>3, <2>1 DEF S!BytesInPlace
  <2>4. FileBytes'
    <3> SUFFICES ASSUME NEW i \in 0 .. stop - 1
                 PROVE  scratch'[i] = i
      BY <1>1, <1>4, <1>7 DEF FileBytes
    <3>1. i \in DOMAIN scratch
      BY <1>0, <1>2 DEF ScatterTypeOK
    <3>2. i < received => scratch[i] = i
      BY <1>0, <1>1, <1>2, <1>7 DEF FileBytes
    <3> QED
      BY <1>2, <2>1, <3>1, <3>2
  <2> QED
    BY <1>5, <1>6, <2>2, <2>3, <2>4 DEF ScatterInv, BytesInPlace
<1>8. CASE ~S!scattered
  <2>1. /\ Len(parts) = 1 /\ parts[1].relative_offset = 0
        /\ parts[1].length = transfer_length
    BY <1>8 DEF S!scattered
  <2>2. /\ scratch' = scratch
        /\ buffer' = [buffer EXCEPT ![1] = [i \in S!Positions(1) |->
                        IF received <= i /\ i < stop THEN i ELSE buffer[1][i]]]
    BY <1>8 DEF S!Read
  <2>3. /\ DOMAIN buffer = 1 .. 1
        /\ DOMAIN buffer' = 1 .. 1
        /\ buffer'[1] = [i \in S!Positions(1) |->
                           IF received <= i /\ i < stop THEN i ELSE buffer[1][i]]
    BY <1>0, <2>1, <2>2 DEF ScatterTypeOK
  <2>4. ScatterTypeOK'
    <3>1. \A k \in 1 .. Len(parts) : DOMAIN buffer'[k] = S!Positions(k)
      BY <2>1, <2>3
    <3> QED
      BY <1>0, <1>1, <1>2, <1>3, <2>1, <2>2, <2>3, <3>1 DEF ScatterTypeOK
  <2>5. S!BytesInPlace'
    <3> SUFFICES ASSUME NEW i \in S!Positions(1)
                 PROVE  buffer'[1][i] \in {S!NoByte, 0 + i}
      BY <1>1, <1>2, <1>3, <2>1 DEF S!BytesInPlace
    <3>1. i \in Nat
      BY <1>2, <2>1 DEF S!Positions
    <3>2. buffer[1][i] \in {S!NoByte, 0 + i}
      BY <1>0, <1>2, <2>1 DEF S!BytesInPlace
    <3> QED
      BY <2>3, <3>1, <3>2
  <2>6. FileBytes'
    <3> SUFFICES ASSUME NEW i \in 0 .. stop - 1
                 PROVE  buffer'[1][i] = i
      BY <1>1, <1>4, <1>8 DEF FileBytes
    <3>1. i \in S!Positions(1)
      BY <1>0, <1>2, <2>1 DEF S!Positions, ScatterTypeOK
    <3>2. i < received => buffer[1][i] = i
      BY <1>0, <1>1, <1>2, <1>8 DEF FileBytes
    <3> QED
      BY <1>2, <2>3, <3>1, <3>2
  <2> QED
    BY <1>5, <1>6, <2>4, <2>5, <2>6 DEF ScatterInv, BytesInPlace
<1> QED
  BY <1>7, <1>8

LEMMA RetryKeeps ==
  ASSUME ScatterInv, S!Retry
  PROVE  ScatterInv'
<1>0. ScatterTypeOK /\ InOrder /\ S!BytesInPlace
  BY DEF ScatterInv, BytesInPlace
<1>1. /\ ~file /\ S!Open /\ received' \in {0, received} /\ scatter_cursor' = 1
      /\ UNCHANGED <<parts, transfer_length, file, scratch, completion>>
  BY DEF S!Retry
<1>2. buffer' = [k \in DOMAIN parts |-> [i \in S!Positions(k) |->
                    IF parts[k].relative_offset + i < received'
                    THEN buffer[k][i] ELSE S!NoByte]]
  BY DEF S!Retry, S!Kept
<1>3. /\ received \in Nat /\ received' \in 0 .. transfer_length /\ received' <= received
      /\ Len(parts) \in Nat /\ DOMAIN parts = 1 .. Len(parts)
  BY <1>0, <1>1 DEF ScatterTypeOK
<1>4. \A k \in 1 .. Len(parts) : S!Positions(k)' = S!Positions(k)
  BY <1>1 DEF S!Positions
<1>5. ScatterTypeOK'
  <2>1. /\ DOMAIN buffer' = 1 .. Len(parts)
        /\ \A k \in 1 .. Len(parts) : DOMAIN buffer'[k] = S!Positions(k)
    BY <1>2, <1>3
  <2>2. scatter_cursor' \in 1 .. Len(parts) + 1
    BY <1>1, <1>3
  <2> QED
    BY <1>0, <1>1, <1>3, <1>4, <2>1, <2>2 DEF ScatterTypeOK
<1>6. S!BytesInPlace'
  <2> SUFFICES ASSUME NEW k \in 1 .. Len(parts), NEW i \in S!Positions(k)
               PROVE  /\ buffer'[k][i] \in {S!NoByte, parts[k].relative_offset + i}
                      /\ parts[k].relative_offset + i < received' =>
                           buffer'[k][i] = parts[k].relative_offset + i
    BY <1>1, <1>3, <1>4 DEF S!BytesInPlace
  <2> DEFINE byte == parts[k].relative_offset + i
  <2>1. buffer'[k][i] = IF byte < received' THEN buffer[k][i] ELSE S!NoByte
    BY <1>2, <1>3
  <2>2. /\ buffer[k][i] \in {S!NoByte, byte}
        /\ byte < received => buffer[k][i] = byte
    BY <1>0, <1>1, <1>3 DEF S!BytesInPlace
  <2>3. byte \in Nat
    BY <1>0, PartFacts DEF S!Positions
  <2> HIDE DEF byte
  <2>4. byte < received' => byte < received
    BY <1>3, <2>3
  <2>5. buffer'[k][i] \in {S!NoByte, byte} /\ (byte < received' => buffer'[k][i] = byte)
    BY <2>1, <2>2, <2>4
  <2> QED
    BY <2>5 DEF byte
<1>7. InOrder' /\ Behind' /\ FileBytes' /\ S!ReportedBytesAreThere'
  <2>1. S!ReportedBytesAreThere'
    BY <1>0, <1>1, OpenReports
  <2>2. 1 .. 1 - 1 = {}
    OBVIOUS
  <2>3. Behind'
    BY <1>1, <2>2 DEF Behind
  <2> QED
    BY <1>0, <1>1, <2>1, <2>3 DEF InOrder, FileBytes
<1> QED
  BY <1>5, <1>6, <1>7 DEF ScatterInv, BytesInPlace

\* What deliver reports of a part is in it, and is of the bytes received.
LEMMA GotFacts ==
  ASSUME ScatterTypeOK, NEW k \in 1 .. Len(parts)
  PROVE  /\ S!Got(k) \in 0 .. parts[k].length
         /\ \A i \in 0 .. S!Got(k) - 1 : /\ i \in S!Positions(k)
                                         /\ parts[k].relative_offset + i \in 0 .. received - 1
<1>1. /\ parts[k].relative_offset \in Nat /\ parts[k].length \in Nat
      /\ S!End(k) = parts[k].relative_offset + parts[k].length
      /\ received \in Nat
  BY PartFacts DEF ScatterTypeOK
<1>2. \A o, l, r \in Nat : LET g == IF o + l <= r THEN l ELSE IF r > o THEN r - o ELSE 0
                          IN  g \in 0 .. l /\ (o + g <= r \/ g = 0)
  OBVIOUS
<1> DEFINE g == S!Got(k)
<1>3. /\ g \in 0 .. parts[k].length
      /\ parts[k].relative_offset + g <= received \/ g = 0
  BY <1>1, <1>2 DEF S!Got
<1> HIDE DEF g
<1>4. \A i \in 0 .. g - 1 : /\ i \in 0 .. parts[k].length - 1
                           /\ parts[k].relative_offset + i \in 0 .. received - 1
  <2>1. \A o, l, r \in Nat : \A h \in 0 .. l : o + h <= r \/ h = 0 =>
            \A i \in 0 .. h - 1 : i \in 0 .. l - 1 /\ o + i \in 0 .. r - 1
    OBVIOUS
  <2> QED
    BY <1>1, <1>3, <2>1
<1> QED
  BY <1>3, <1>4 DEF g, S!Positions

LEMMA DeliverKeeps ==
  ASSUME ScatterInv, S!deliver
  PROVE  ScatterInv'
<1>0. ScatterTypeOK /\ InOrder /\ Behind /\ S!BytesInPlace /\ FileBytes
  BY DEF ScatterInv, BytesInPlace
<1>1. /\ S!Open
      /\ UNCHANGED <<parts, transfer_length, file, received, scatter_cursor, scratch>>
  BY DEF S!deliver
<1>2. buffer' = [k \in DOMAIN parts |-> [i \in S!Positions(k) |->
                   IF file /\ S!scattered /\ i < S!Got(k)
                   THEN scratch[parts[k].relative_offset + i] ELSE buffer[k][i]]]
  BY DEF S!deliver
<1>3. completion' = [k \in DOMAIN parts |->
         [status |-> IF S!Got(k) = parts[k].length THEN "ok" ELSE "range", got |-> S!Got(k)]]
  BY DEF S!deliver
<1>4. /\ received \in Nat /\ Len(parts) \in Nat /\ DOMAIN parts = 1 .. Len(parts)
      /\ parts # <<>> /\ file \in BOOLEAN
  BY <1>0, <1>1 DEF ScatterTypeOK, S!Open
<1>5. \A k \in 1 .. Len(parts) : /\ S!Positions(k)' = S!Positions(k)
                                 /\ S!End(k)' = S!End(k)
  BY <1>1 DEF S!Positions, S!End
<1>6. ASSUME NEW k \in 1 .. Len(parts)
      PROVE  /\ completion'[k].status = IF S!Got(k) = parts[k].length THEN "ok" ELSE "range"
             /\ completion'[k].got = S!Got(k)
             /\ completion'[k] \in [status : {"none", "ok", "range"}, got : Nat]
  <2>1. completion'[k] = [status |-> IF S!Got(k) = parts[k].length THEN "ok" ELSE "range",
                          got |-> S!Got(k)]
    BY <1>3, <1>4
  <2>2. S!Got(k) \in Nat
    BY <1>0, GotFacts, PartFacts
  <2> DEFINE st == IF S!Got(k) = parts[k].length THEN "ok" ELSE "range"
             g == S!Got(k)
  <2>3. completion'[k] = [status |-> st, got |-> g]
    BY <2>1, Zenon
  <2>4. st = "ok" \/ st = "range"
    BY Zenon
  <2> HIDE DEF st, g
  <2>5. st \in {"none", "ok", "range"}
    BY <2>4
  <2>6. /\ completion'[k].status = st /\ completion'[k].got = g
        /\ g \in Nat => completion'[k] \in [status : {"none", "ok", "range"}, got : Nat]
    BY <2>3, <2>5
  <2> QED
    BY <2>2, <2>6, Zenon DEF st, g
<1>7. ASSUME NEW k \in 1 .. Len(parts), NEW i \in S!Positions(k)
      PROVE  /\ buffer'[k][i] \in {S!NoByte, parts[k].relative_offset + i}
             /\ ~file /\ parts[k].relative_offset + i < received =>
                  buffer'[k][i] = parts[k].relative_offset + i
             /\ i < S!Got(k) => buffer'[k][i] = parts[k].relative_offset + i
  <2> DEFINE byte == parts[k].relative_offset + i
  <2>1. buffer'[k][i] = IF file /\ S!scattered /\ i < S!Got(k)
                        THEN scratch[byte] ELSE buffer[k][i]
    BY <1>2, <1>4
  <2>2. /\ buffer[k][i] \in {S!NoByte, byte}
        /\ ~file /\ byte < received => buffer[k][i] = byte
    BY <1>0, <1>1, <1>4 DEF S!BytesInPlace
  <2>3. i < S!Got(k) => byte \in 0 .. received - 1
    <3>1. i \in Nat /\ S!Got(k) \in Nat
      BY <1>0, PartFacts, GotFacts DEF S!Positions
    <3> QED
      BY <1>0, <3>1, GotFacts
  <2>4. CASE ~file
    BY <1>4, <2>1, <2>2, <2>3, <2>4
  <2>5. CASE file /\ S!scattered
    <3>1. i < S!Got(k) => scratch[byte] = byte
      BY <1>0, <1>1, <2>3, <2>5 DEF FileBytes
    <3> HIDE DEF byte
    <3>2. /\ buffer'[k][i] \in {S!NoByte, byte}
          /\ i < S!Got(k) => buffer'[k][i] = byte
      BY <2>1, <2>2, <2>5, <3>1
    <3> QED
      BY <2>5, <3>2 DEF byte
  <2>6. CASE file /\ ~S!scattered
    <3>1. Len(parts) = 1 /\ parts[1].relative_offset = 0
      BY <2>6 DEF S!scattered
    <3>2. k = 1 /\ i \in Nat
      BY <1>0, <3>1, PartFacts DEF S!Positions
    <3>3. byte = i
      BY <3>1, <3>2
    <3>4. i < S!Got(k) => buffer[k][i] = i
      BY <1>0, <1>1, <2>3, <2>6, <3>2, <3>3 DEF FileBytes
    <3> HIDE DEF byte
    <3>5. /\ buffer'[k][i] \in {S!NoByte, byte}
          /\ i < S!Got(k) => buffer'[k][i] = byte
      BY <2>1, <2>2, <2>6, <3>3, <3>4
    <3> QED
      BY <2>6, <3>5 DEF byte
  <2> QED
    BY <1>4, <2>4, <2>5, <2>6
<1>8. ScatterTypeOK'
  <2>1. /\ DOMAIN buffer' = 1 .. Len(parts)
        /\ \A k \in 1 .. Len(parts) : DOMAIN buffer'[k] = S!Positions(k)
    BY <1>2, <1>4
  <2>2. /\ DOMAIN completion' = 1 .. Len(parts)
        /\ \A k \in 1 .. Len(parts) :
             completion'[k] \in [status : {"none", "ok", "range"}, got : Nat]
    BY <1>3, <1>4, <1>6
  <2> QED
    BY <1>0, <1>1, <1>5, <2>1, <2>2 DEF ScatterTypeOK
<1>9. S!BytesInPlace'
  <2>1. \A k \in 1 .. Len(parts) : \A i \in S!Positions(k) :
            /\ buffer'[k][i] \in {S!NoByte, parts[k].relative_offset + i}
            /\ ~file /\ parts[k].relative_offset + i < received =>
                  buffer'[k][i] = parts[k].relative_offset + i
    BY <1>7
  <2> QED
    BY <1>1, <1>4, <1>5, <2>1 DEF S!BytesInPlace
<1>10. S!ReportedBytesAreThere'
  <2> SUFFICES ASSUME NEW k \in 1 .. Len(parts)
               PROVE  /\ \A i \in 0 .. completion'[k].got - 1 :
                           buffer'[k][i] = parts[k].relative_offset + i
                      /\ completion'[k].status = "ok" <=> completion'[k].got = parts[k].length
    BY <1>1, <1>4 DEF S!ReportedBytesAreThere
  <2>1. \A i \in 0 .. S!Got(k) - 1 : buffer'[k][i] = parts[k].relative_offset + i
    <3> TAKE i \in 0 .. S!Got(k) - 1
    <3>1. i \in S!Positions(k) /\ S!Got(k) \in Nat
      BY <1>0, GotFacts, PartFacts
    <3>2. i < S!Got(k)
      BY <3>1
    <3> QED
      BY <1>7, <3>1, <3>2
  <2> QED
    BY <1>6, <2>1
<1>11. ~S!Open'
  <2>1. 1 \in 1 .. Len(parts)
    BY <1>0, <1>4 DEF ScatterTypeOK
  <2>2. completion'[1].status # "none"
    BY <1>6, <2>1
  <2>3. S!Pending.status = "none"
    BY DEF S!Pending
  <2> QED
    BY <1>1, <1>4, <2>1, <2>2, <2>3 DEF S!Open, S!Pending
<1>12. InOrder' /\ Behind' /\ FileBytes'
  BY <1>0, <1>1, <1>11 DEF InOrder, Behind, FileBytes, S!End
<1> QED
  BY <1>8, <1>9, <1>10, <1>12 DEF ScatterInv, BytesInPlace

-----------------------------------------------------------------------------

\* A range that was let through is a range of the batch, and its bytes have
\* numbers.
LEMMA ValidFacts ==
  ASSUME PlannerTypeOK, Judged, NEW v \in 1 .. Len(valid)
  PROVE  /\ valid[v] \in 1 .. Len(requests) /\ valid[v] \in 1 .. checked
         /\ requests[valid[v]] \in Request
         /\ absolute_offset(valid[v]) = FirstByte(requests, valid[v])
         /\ end(valid[v]) = LastByte(requests, valid[v])
         /\ FirstByte(requests, valid[v]) \in 0 .. MaxInt
         /\ LastByte(requests, valid[v]) \in 0 .. MaxInt
         /\ LastByte(requests, valid[v])
              = FirstByte(requests, valid[v]) + requests[valid[v]].length - 1
         /\ requests[valid[v]].length \in 1 .. MaxInt - 1
<1>1. /\ valid[v] \in 1 .. checked /\ valid[v] \notin immediate
      /\ checked \in 0 .. Len(requests) /\ Len(requests) \in Nat
  BY DEF Judged, PlannerTypeOK
<1>2. valid[v] \in 1 .. Len(requests)
  BY <1>1
<1>3. requests[valid[v]] \in Request
  BY <1>2 DEF PlannerTypeOK
<1>4. Accepted(requests[valid[v]])
  BY <1>1 DEF Judged
<1> QED
  BY <1>1, <1>2, <1>3, <1>4, RangeFacts DEF FirstByte, LastByte, From, To

\* Before is the order of the ranges, computed in 64 bits.
LEMMA BeforeFacts ==
  ASSUME PlannerTypeOK, Judged, NEW u \in 1 .. Len(valid), NEW v \in 1 .. Len(valid),
         Before(valid[u], valid[v])
  PROVE  Precedes(requests, valid[u], valid[v])
<1> DEFINE i == valid[u]
           j == valid[v]
           a == <<requests[i].object, requests[i].if_match, FirstByte(requests, i), i>>
           b == <<requests[j].object, requests[j].if_match, FirstByte(requests, j), j>>
<1>1. PICK k \in 1 .. 4 : a[k] < b[k] /\ \A m \in 1 .. k - 1 : a[m] = b[m]
  BY ValidFacts DEF Before
<1>2. k = 1 => requests[i].object < requests[j].object
  BY <1>1
<1>3. k = 2 => /\ requests[i].object = requests[j].object
               /\ requests[i].if_match < requests[j].if_match
  BY <1>1
<1>4. k = 3 => /\ requests[i].object = requests[j].object
               /\ requests[i].if_match = requests[j].if_match
               /\ FirstByte(requests, i) < FirstByte(requests, j)
  BY <1>1
<1>5. k = 4 => /\ requests[i].object = requests[j].object
               /\ requests[i].if_match = requests[j].if_match
               /\ FirstByte(requests, i) = FirstByte(requests, j)
               /\ i < j
  BY <1>1
<1>6. k = 1 \/ k = 2 \/ k = 3 \/ k = 4
  OBVIOUS
<1>7. CASE k = 1
  BY <1>2, <1>7 DEF Precedes
<1>8. CASE k = 2
  BY <1>3, <1>8 DEF Precedes
<1>9. CASE k = 3
  BY <1>4, <1>9 DEF Precedes
<1>10. CASE k = 4
  BY <1>5, <1>10 DEF Precedes
<1> QED
  BY <1>6, <1>7, <1>8, <1>9, <1>10

LEMMA PlannerInitHolds ==
  PlannerInit => PlannerInv
<1> SUFFICES ASSUME PlannerInit PROVE PlannerInv
  OBVIOUS
<1>1. requests \in Seq(Request)
  <2>1. PICK n \in 1 .. MaxRequests : requests \in [1 .. n -> Candidates]
    BY DEF PlannerInit
  <2>2. n \in Nat
    BY PlannerAssumption
  <2>3. requests \in [1 .. n -> Request]
    BY <2>1, PlannerAssumption
  <2> QED
    BY <2>2, <2>3
<1>2. /\ checked = 0 /\ immediate = {} /\ valid = <<>> /\ next = 0 /\ transfers = <<>>
      /\ last_byte = 0 /\ stage = "validate" /\ MaxInt \in Nat
  BY PlannerAssumption DEF PlannerInit
<1>3. PlannerTypeOK
  BY <1>1, <1>2 DEF PlannerTypeOK
<1> QED
  BY <1>2, <1>3 DEF PlannerInv, Judged, Ordered, Served, Built

LEMMA ValidateKeeps ==
  ASSUME PlannerInv, Validate
  PROVE  PlannerInv'
<1> DEFINE i == checked + 1
<1>0. PlannerTypeOK /\ Judged /\ Ordered
  BY DEF PlannerInv
<1>1. /\ stage = "validate" /\ checked < Len(requests) /\ checked' = i
      /\ UNCHANGED <<requests, next, transfers, last_byte, stage>>
  BY DEF Validate
<1>2. /\ checked \in Nat /\ i \in 1 .. Len(requests) /\ Len(requests) \in Nat
      /\ valid \in Seq(Nat) /\ Len(valid) \in Nat /\ Len(valid) <= checked
      /\ immediate \in SUBSET (1 .. checked)
      /\ next = 0 /\ transfers = <<>>
  BY <1>0, <1>1 DEF PlannerTypeOK, Ordered
<1>3. Ordered' /\ Served' /\ Built'
  BY <1>1, <1>2 DEF Ordered, Served, Built
<1>4. CASE Accepted(requests[i])
  <2>1. valid' = Append(valid, i) /\ immediate' = immediate
    BY <1>4 DEF Validate
  <2>2. /\ valid' \in Seq(Nat) /\ Len(valid') = Len(valid) + 1
        /\ \A k \in 1 .. Len(valid) : valid'[k] = valid[k]
        /\ valid'[Len(valid) + 1] = i
    BY <1>2, <2>1
  <2>3. PlannerTypeOK'
    BY <1>0, <1>1, <1>2, <2>1, <2>2 DEF PlannerTypeOK
  <2>4. Judged'
    <3>1. \A j \in 1 .. i : j \in immediate' <=> ~Accepted(requests[j])
      BY <1>0, <1>2, <1>4, <2>1 DEF Judged
    <3>2. \A k \in 1 .. Len(valid') : valid'[k] \in 1 .. i /\ valid'[k] \notin immediate'
      BY <1>0, <1>2, <2>1, <2>2 DEF Judged
    <3>3. ASSUME NEW j \in 1 .. i, j \notin immediate'
          PROVE  \E k \in 1 .. Len(valid') : valid'[k] = j
      <4>1. CASE j = i
        BY <1>2, <2>2, <4>1
      <4>2. CASE j # i
        <5>1. PICK k \in 1 .. Len(valid) : valid[k] = j
          BY <1>0, <1>2, <2>1, <3>3, <4>2 DEF Judged
        <5> QED
          BY <1>2, <2>2, <5>1
      <4> QED
        BY <4>1, <4>2
    <3>4. \A j, k \in 1 .. Len(valid') : valid'[j] = valid'[k] => j = k
      <4>1. \A k \in 1 .. Len(valid) : valid'[k] # i
        BY <1>0, <1>2, <2>2 DEF Judged
      <4>2. \A k \in 1 .. Len(valid') : k \in 1 .. Len(valid) \/ k = Len(valid) + 1
        BY <1>2, <2>2
      <4>3. \A j, k \in 1 .. Len(valid) : valid'[j] = valid'[k] => j = k
        BY <1>0, <2>2 DEF Judged
      <4> QED
        BY <2>2, <4>1, <4>2, <4>3
    <3> QED
      BY <1>1, <3>1, <3>2, <3>3, <3>4 DEF Judged
  <2> QED
    BY <1>3, <2>3, <2>4 DEF PlannerInv
<1>5. CASE ~Accepted(requests[i])
  <2>1. valid' = valid /\ immediate' = immediate \cup {i}
    BY <1>5 DEF Validate
  <2>2. PlannerTypeOK'
    BY <1>0, <1>1, <1>2, <2>1 DEF PlannerTypeOK
  <2>3. Judged'
    <3>1. \A j \in 1 .. i : j \in immediate' <=> ~Accepted(requests[j])
      BY <1>0, <1>2, <1>5, <2>1 DEF Judged
    <3>2. \A k \in 1 .. Len(valid) : valid[k] \in 1 .. i /\ valid[k] \notin immediate'
      BY <1>0, <1>2, <2>1 DEF Judged
    <3>3. \A j \in 1 .. i : j \notin immediate' => j \in 1 .. checked /\ j \notin immediate
      BY <1>2, <2>1
    <3> QED
      BY <1>0, <1>1, <2>1, <3>1, <3>2, <3>3 DEF Judged
  <2> QED
    BY <1>3, <2>2, <2>3 DEF PlannerInv
<1> QED
  BY <1>4, <1>5

LEMMA SortKeeps ==
  ASSUME PlannerInv, Sort
  PROVE  PlannerInv'
<1>0. PlannerTypeOK /\ Judged /\ Ordered
  BY DEF PlannerInv
<1> DEFINE n == Len(valid)
<1>1. PICK place \in Arrangements(n) : valid' = [k \in 1 .. n |-> valid[place[k]]]
  BY DEF Sort
<1>2. /\ stage = "validate" /\ checked = Len(requests) /\ stage' = "open"
      /\ \A j, k \in 1 .. n : j < k => Before(valid'[j], valid'[k])
      /\ UNCHANGED <<requests, checked, immediate, next, transfers, last_byte>>
  BY DEF Sort
<1>3. /\ n \in Nat /\ valid \in [1 .. n -> Nat] /\ next = 0 /\ transfers = <<>>
      /\ Len(requests) \in Nat /\ valid \in Seq(Nat)
  BY <1>0, <1>2 DEF PlannerTypeOK, Ordered
<1>4. /\ place \in [1 .. n -> 1 .. n]
      /\ \A k \in 1 .. n : \E j \in 1 .. n : place[j] = k
  BY <1>1 DEF Arrangements
<1> HIDE DEF n
<1>5. /\ valid' \in Seq(Nat) /\ Len(valid') = n
      /\ \A k \in 1 .. n : valid'[k] = valid[place[k]] /\ place[k] \in 1 .. n
  <2>1. valid' \in [1 .. n -> Nat]
    BY <1>1, <1>3, <1>4
  <2>2. valid' \in Seq(Nat) /\ Len(valid') = n
    BY <1>3, <2>1
  <2> QED
    BY <1>1, <1>4, <2>2
<1>6. \A j, k \in 1 .. n : j < k => Precedes(requests, valid'[j], valid'[k])
  BY <1>0, <1>2, <1>5, BeforeFacts DEF n
<1>7. \A j, k \in 1 .. n : valid'[j] = valid'[k] => j = k
  <2> SUFFICES ASSUME NEW j \in 1 .. n, NEW k \in 1 .. n, j < k, valid'[j] = valid'[k]
               PROVE  FALSE
    BY <1>3
  <2> DEFINE i == valid'[j]
  <2>1. Precedes(requests, i, i)
    BY <1>6
  <2>2. /\ i \in Nat /\ FirstByte(requests, i) \in Int
        /\ requests[i].object \in Nat /\ requests[i].if_match \in Nat
    <3>1. /\ valid[place[j]] \in 1 .. Len(requests)
          /\ FirstByte(requests, valid[place[j]]) \in 0 .. MaxInt
          /\ requests[valid[place[j]]] \in Request
      BY <1>0, <1>5, ValidFacts DEF n
    <3>2. i = valid[place[j]]
      BY <1>5
    <3> HIDE DEF i
    <3>3. /\ i \in 1 .. Len(requests) /\ FirstByte(requests, i) \in 0 .. MaxInt
          /\ requests[i] \in Request
      BY <3>1, <3>2
    <3>4. requests[i].object \in Nat /\ requests[i].if_match \in Nat
      BY <3>3 DEF Request
    <3> QED
      BY <1>3, <3>3, <3>4, PlannerAssumption
  <2> HIDE DEF i
  <2> QED
    BY <2>1, <2>2 DEF Precedes
<1>8. Judged'
  <2>1. \A k \in 1 .. n : valid'[k] \in 1 .. checked /\ valid'[k] \notin immediate
    BY <1>0, <1>5 DEF Judged, n
  <2>2. ASSUME NEW i \in 1 .. checked, i \notin immediate
        PROVE  \E k \in 1 .. n : valid'[k] = i
    <3>1. PICK k \in 1 .. n : valid[k] = i
      BY <1>0, <2>2 DEF Judged, n
    <3>2. PICK j \in 1 .. n : place[j] = k
      BY <1>4
    <3> QED
      BY <1>5, <3>1, <3>2
  <2> QED
    BY <1>0, <1>2, <1>5, <1>7, <2>1, <2>2 DEF Judged
<1>9. PlannerTypeOK'
  BY <1>0, <1>2, <1>3, <1>5 DEF PlannerTypeOK, n
<1>10. Ordered' /\ Served' /\ Built'
  BY <1>2, <1>3, <1>5, <1>6 DEF Ordered, Served, Built
<1> QED
  BY <1>8, <1>9, <1>10 DEF PlannerInv

\* The next range is not yet part of a transfer.
LEMMA NextIsNew ==
  ASSUME PlannerTypeOK, Judged, Served, next < Len(valid),
         NEW n \in 1 .. Len(transfers), NEW k \in PartsOf(n)
  PROVE  TagOf(n, k) # valid[next + 1]
<1>1. PICK v \in 1 .. next : valid[v] = TagOf(n, k)
  BY DEF Served
<1>2. /\ next \in Nat /\ Len(valid) \in Nat
      /\ v \in 1 .. Len(valid) /\ next + 1 \in 1 .. Len(valid) /\ v # next + 1
  BY DEF PlannerTypeOK
<1> QED
  BY <1>1, <1>2 DEF Judged

\* The transfers as records.
LEMMA TransferFacts ==
  ASSUME PlannerTypeOK, Served, NEW n \in 1 .. Len(transfers)
  PROVE  /\ transfers[n] \in PlanTransfer
         /\ transfers[n].offset \in 0 .. MaxInt /\ transfers[n].length \in 0 .. MaxInt
         /\ transfers[n].parts \in Seq(PlanPart)
         /\ Len(transfers[n].parts) \in Nat \ {0}
         /\ \A k \in PartsOf(n) : /\ transfers[n].parts[k].relative_offset \in 0 .. MaxInt
                                  /\ transfers[n].parts[k].length \in 1 .. MaxInt - 1
<1>1. transfers[n] \in PlanTransfer
  BY DEF PlannerTypeOK
<1>2. /\ transfers[n].parts \in Seq(PlanPart)
      /\ transfers[n].offset \in 0 .. MaxInt /\ transfers[n].length \in 0 .. MaxInt
  BY <1>1 DEF PlanTransfer
<1>3. Len(transfers[n].parts) \in Nat \ {0}
  <2>1. Len(transfers[n].parts) \in 1 .. next /\ next \in Nat
    BY DEF Served, PlannerTypeOK
  <2> QED
    BY <2>1
<1>4. \A k \in PartsOf(n) : transfers[n].parts[k] \in PlanPart
  BY <1>2 DEF PartsOf
<1> QED
  BY <1>1, <1>2, <1>3, <1>4 DEF PlanPart

LEMMA OpenKeeps ==
  ASSUME PlannerInv, Open
  PROVE  PlannerInv'
<1> DEFINE i == valid[next + 1]
           L == Len(transfers)
           q == [relative_offset |-> 0, length |-> requests[i].length, tag |-> i]
           t == [object |-> requests[i].object, if_match |-> requests[i].if_match,
                 offset |-> FirstByte(requests, i), length |-> requests[i].length,
                 parts |-> <<q>>]
<1>0. PlannerTypeOK /\ Judged /\ Ordered /\ Served /\ Built
  BY DEF PlannerInv
<1>1. /\ stage = "open" /\ next < Len(valid) /\ next' = next + 1 /\ stage' = "merge"
      /\ UNCHANGED <<requests, checked, immediate, valid>>
  BY DEF Open
<1>2. /\ next \in Nat /\ Len(valid) \in Nat /\ next + 1 \in 1 .. Len(valid)
      /\ L \in Nat /\ MaxInt \in Nat
  BY <1>0, <1>1, PlannerAssumption DEF PlannerTypeOK
<1>3. /\ i \in 1 .. Len(requests) /\ requests[i] \in Request
      /\ absolute_offset(i) = FirstByte(requests, i) /\ end(i) = LastByte(requests, i)
      /\ FirstByte(requests, i) \in 0 .. MaxInt /\ LastByte(requests, i) \in 0 .. MaxInt
      /\ LastByte(requests, i) = FirstByte(requests, i) + requests[i].length - 1
      /\ requests[i].length \in 1 .. MaxInt - 1
  BY <1>0, <1>2, ValidFacts
<1>4. i \in Nat /\ requests[i].object \in Nat /\ requests[i].if_match \in Nat
  <2> HIDE DEF i
  <2>1. i \in Nat
    BY <1>3
  <2>2. requests[i] \in Request
    BY <1>3
  <2> QED
    BY <2>1, <2>2 DEF Request
<1>5. transfers' = Append(transfers, t) /\ last_byte' = LastByte(requests, i)
  <2>1. Sub(absolute_offset(i), absolute_offset(i)) = 0
    BY <1>2, <1>3 DEF Sub
  <2>2. Part(i, absolute_offset(i)) = q
    BY <2>1 DEF Part
  <2> QED
    BY <1>3, <2>2 DEF Open
<1>6. q \in PlanPart
  BY <1>2, <1>3, <1>4 DEF PlanPart
<1>7. /\ t.object = requests[i].object /\ t.if_match = requests[i].if_match
      /\ t.offset = FirstByte(requests, i) /\ t.length = requests[i].length
      /\ t.parts = <<q>> /\ Len(t.parts) = 1 /\ t.parts[1] = q
      /\ q.relative_offset = 0 /\ q.length = requests[i].length /\ q.tag = i
  OBVIOUS
<1>8. t \in PlanTransfer
  <2>1. <<q>> \in Seq(PlanPart)
    BY <1>6
  <2>2. requests[i].length \in 0 .. MaxInt
    BY <1>2, <1>3
  <2> HIDE DEF q, i
  <2> QED
    BY <1>3, <1>4, <2>1, <2>2 DEF PlanTransfer
<1> HIDE DEF q, t, i
<1>9. /\ transfers' \in Seq(PlanTransfer) /\ Len(transfers') = L + 1
      /\ \A n \in 1 .. L : transfers'[n] = transfers[n]
      /\ transfers'[L + 1] = t
  <2>1. transfers \in Seq(PlanTransfer)
    BY <1>0 DEF PlannerTypeOK
  <2> QED
    BY <1>5, <1>8, <2>1
<1> HIDE DEF L
<1>10. PlannerTypeOK'
  BY <1>0, <1>1, <1>2, <1>3, <1>5, <1>9 DEF PlannerTypeOK
<1>11. Judged' /\ Ordered'
  BY <1>0, <1>1 DEF Judged, Ordered
<1>12. \A n \in 1 .. L + 1 : n \in 1 .. L \/ n = L + 1
  BY <1>2
<1>13. Served'
  <2>1. ASSUME NEW n \in 1 .. L + 1
        PROVE  /\ Len(transfers'[n].parts) \in 1 .. next'
               /\ \A k \in 1 .. Len(transfers'[n].parts) :
                     \E v \in 1 .. next' : valid'[v] = transfers'[n].parts[k].tag
    <3>1. CASE n \in 1 .. L
      <4>1. /\ Len(transfers[n].parts) \in 1 .. next
            /\ \A k \in 1 .. Len(transfers[n].parts) :
                  \E v \in 1 .. next : valid[v] = transfers[n].parts[k].tag
        BY <1>0, <3>1 DEF Served, PartsOf, TagOf, L
      <4>2. transfers'[n] = transfers[n] /\ valid' = valid /\ 1 .. next \subseteq 1 .. next'
        BY <1>1, <1>2, <1>9, <3>1
      <4>3. Len(transfers[n].parts) \in 1 .. next'
        BY <4>1, <4>2
      <4> QED
        BY <4>1, <4>2, <4>3
    <3>2. CASE n = L + 1
      <4>1. transfers'[n] = t /\ valid'[next'] = i /\ next' \in 1 .. next'
        BY <1>1, <1>2, <1>9, <3>2 DEF i
      <4>2. Len(t.parts) \in 1 .. next' /\ \A k \in 1 .. Len(t.parts) : t.parts[k].tag = i
        <5>1. 1 \in 1 .. next' /\ \A k \in 1 .. 1 : k = 1
          BY <1>1, <1>2
        <5> QED
          BY <1>7, <5>1
      <4> QED
        BY <4>1, <4>2
    <3> QED
      BY <1>12, <3>1, <3>2
  <2>2. ASSUME NEW v \in 1 .. next'
        PROVE  \E n \in 1 .. L + 1 : \E k \in 1 .. Len(transfers'[n].parts) :
                  transfers'[n].parts[k].tag = valid'[v]
    <3>1. CASE v \in 1 .. next
      <4>1. PICK n \in 1 .. L : \E k \in 1 .. Len(transfers[n].parts) :
                  transfers[n].parts[k].tag = valid[v]
        BY <1>0, <3>1 DEF Served, PartsOf, TagOf, L
      <4> QED
        BY <1>1, <1>2, <1>9, <4>1
    <3>2. CASE v = next + 1
      <4>1. transfers'[L + 1].parts[1].tag = valid'[v] /\ 1 \in 1 .. Len(transfers'[L + 1].parts)
        BY <1>1, <1>7, <1>9, <3>2 DEF i
      <4> QED
        BY <1>2, <4>1
    <3> QED
      BY <1>1, <1>2, <3>1, <3>2
  <2>3. ASSUME NEW m \in 1 .. L + 1, NEW n \in 1 .. L + 1,
               NEW j \in 1 .. Len(transfers'[m].parts), NEW k \in 1 .. Len(transfers'[n].parts),
               transfers'[m].parts[j].tag = transfers'[n].parts[k].tag
        PROVE  m = n /\ j = k
    <3>1. \A o \in 1 .. L : \A l \in 1 .. Len(transfers[o].parts) :
             transfers[o].parts[l].tag # i
      BY <1>0, <1>1, NextIsNew DEF PartsOf, TagOf, L, i
    <3>2. CASE m \in 1 .. L /\ n \in 1 .. L
      <4>1. transfers'[m] = transfers[m] /\ transfers'[n] = transfers[n]
        BY <1>9, <3>2
      <4>2. j \in PartsOf(m) /\ k \in PartsOf(n) /\ TagOf(m, j) = TagOf(n, k)
        BY <2>3, <4>1 DEF PartsOf, TagOf
      <4> QED
        BY <1>0, <3>2, <4>2 DEF Served, L
    <3>3. CASE m = L + 1 /\ n = L + 1
      <4>1. Len(t.parts) = 1
        BY <1>7
      <4>2. j \in 1 .. 1 /\ k \in 1 .. 1
        BY <1>9, <3>3, <4>1
      <4> QED
        BY <3>3, <4>2
    <3>4. CASE m \in 1 .. L /\ n = L + 1
      <4>1. k = 1
        <5>1. k \in 1 .. 1
          BY <1>7, <1>9, <3>4
        <5> QED
          BY <5>1
      <4> QED
        BY <1>7, <1>9, <2>3, <3>1, <3>4, <4>1
    <3>5. CASE m = L + 1 /\ n \in 1 .. L
      <4>1. j = 1
        <5>1. j \in 1 .. 1
          BY <1>7, <1>9, <3>5
        <5> QED
          BY <5>1
      <4> QED
        BY <1>7, <1>9, <2>3, <3>1, <3>5, <4>1
    <3> QED
      BY <1>12, <3>2, <3>3, <3>4, <3>5
  <2>4. /\ \A n \in 1 .. Len(transfers') :
             /\ Len(transfers'[n].parts) \in 1 .. next'
             /\ \A k \in 1 .. Len(transfers'[n].parts) :
                  \E v \in 1 .. next' : valid'[v] = transfers'[n].parts[k].tag
        /\ \A v \in 1 .. next' : \E n \in 1 .. Len(transfers') :
             \E k \in 1 .. Len(transfers'[n].parts) : transfers'[n].parts[k].tag = valid'[v]
    BY <1>9, <2>1, <2>2
  <2>5. \A m, n \in 1 .. Len(transfers') :
             \A j \in 1 .. Len(transfers'[m].parts), k \in 1 .. Len(transfers'[n].parts) :
                transfers'[m].parts[j].tag = transfers'[n].parts[k].tag => m = n /\ j = k
    BY <1>9, <2>3
  <2> QED
    BY <2>4, <2>5 DEF Served, PartsOf, TagOf
<1>14. Agrees(requests, t) /\ EndsAt(requests, t, LastByte(requests, i))
  <2>1. \A k \in 1 .. Len(t.parts) : k = 1
    BY <1>7
  <2>2. Reads(requests, t, q)
    BY <1>3, <1>7 DEF Reads
  <2>3. Agrees(requests, t)
    BY <1>7, <2>1, <2>2 DEF Agrees
  <2>4. EndsAt(requests, t, LastByte(requests, i))
    BY <1>3, <1>7, <2>1 DEF EndsAt
  <2> QED
    BY <2>3, <2>4
<1>15. Built'
  <2>1. ASSUME NEW n \in 1 .. L + 1
        PROVE  Agrees(requests', transfers'[n])
    BY <1>0, <1>1, <1>9, <1>12, <1>14 DEF Built, L
  <2>2. ASSUME NEW n \in 1 .. L + 1, n < L + 1
        PROVE  EndsAt(requests', transfers'[n], transfers'[n].offset + transfers'[n].length - 1)
    <3>1. n \in 1 .. L
      BY <1>2, <2>2
    <3>2. EndsAt(requests, transfers[n], transfers[n].offset + transfers[n].length - 1)
      BY <1>0, <1>1, <3>1 DEF Built, L
    <3> QED
      BY <1>1, <1>9, <3>1, <3>2
  <2>3. Growing' = t /\ transfers' # <<>>
    BY <1>2, <1>9 DEF Growing
  <2>4. last_byte' - t.offset \in 0 .. MaxInt - 1
    <3>1. \A f, m \in 0 .. MaxInt : m \in 1 .. MaxInt - 1 => f + m - 1 - f \in 0 .. MaxInt - 1
      BY <1>2
    <3>2. /\ last_byte' = FirstByte(requests, i) + requests[i].length - 1
          /\ t.offset = FirstByte(requests, i) /\ requests[i].length \in 0 .. MaxInt
      BY <1>2, <1>3, <1>5, <1>7
    <3> QED
      BY <1>3, <3>1, <3>2
  <2>5. /\ EndsAt(requests', Growing', last_byte')
        /\ last_byte' - (Growing').offset \in 0 .. MaxInt - 1
    BY <1>1, <1>5, <1>14, <2>3, <2>4
  <2> QED
    BY <1>1, <1>9, <2>1, <2>2, <2>3, <2>5 DEF Built, Growing
<1> QED
  BY <1>10, <1>11, <1>13, <1>15 DEF PlannerInv

LEMMA MergeKeeps ==
  ASSUME PlannerInv, Merge
  PROVE  PlannerInv'
<1> DEFINE i == valid[next + 1]
           L == Len(transfers)
           t == transfers[L]
           P == Len(t.parts)
           q == Part(i, t.offset)
           u == transfers'[L]
           F(j) == FirstByte(requests, j)
           E(j) == LastByte(requests, j)
<1>0. PlannerTypeOK /\ Judged /\ Ordered /\ Served /\ Built
  BY DEF PlannerInv
<1>1. /\ stage = "merge" /\ next < Len(valid) /\ next' = next + 1 /\ Mergeable(i, t)
      /\ last_byte' = Larger(last_byte, end(i))
      /\ UNCHANGED <<requests, checked, immediate, valid, stage>>
  BY DEF Merge, merged_last, Growing
<1>2. transfers' = [transfers EXCEPT ![L].parts = Append(@, q)]
  BY DEF Merge, Growing
<1>3. /\ next \in Nat /\ Len(valid) \in Nat /\ next + 1 \in 1 .. Len(valid)
      /\ MaxInt \in Nat /\ last_byte \in 0 .. MaxInt /\ transfers \in Seq(PlanTransfer)
      /\ L \in Nat /\ L \in 1 .. L
  BY <1>0, <1>1, PlannerAssumption DEF PlannerTypeOK, Built
<1>4. /\ i \in 1 .. Len(requests) /\ requests[i] \in Request
      /\ absolute_offset(i) = F(i) /\ end(i) = E(i)
      /\ F(i) \in 0 .. MaxInt /\ E(i) \in 0 .. MaxInt
      /\ E(i) = F(i) + requests[i].length - 1
      /\ requests[i].length \in 1 .. MaxInt - 1
  BY <1>0, <1>3, ValidFacts
<1>5. /\ t \in PlanTransfer /\ t.offset \in 0 .. MaxInt /\ t.parts \in Seq(PlanPart)
      /\ P \in Nat \ {0} /\ 1 \in 1 .. P
      /\ \A k \in 1 .. P : t.parts[k].relative_offset \in 0 .. MaxInt
  BY <1>0, <1>3, TransferFacts DEF PartsOf
<1>6. /\ Agrees(requests, t) /\ EndsAt(requests, t, last_byte)
      /\ last_byte - t.offset \in 0 .. MaxInt - 1
  BY <1>0, <1>1, <1>3 DEF Built, Growing
<1>7. /\ requests[i].object = t.object /\ requests[i].if_match = t.if_match
      /\ \A k \in 1 .. P : t.offset + t.parts[k].relative_offset <= F(i)
  <2>1. /\ requests[t.parts[1].tag].object = requests[i].object
        /\ requests[t.parts[1].tag].if_match = requests[i].if_match
    BY <1>1 DEF Mergeable, same_resource
  <2>2. /\ requests[i].object = t.object /\ requests[i].if_match = t.if_match
    BY <1>5, <1>6, <2>1 DEF Agrees, Reads
  <2>3. ASSUME NEW k \in 1 .. P
        PROVE  t.offset + t.parts[k].relative_offset <= F(i)
    <3>1. /\ requests[t.parts[k].tag].object = t.object
          /\ requests[t.parts[k].tag].if_match = t.if_match
          /\ t.offset + t.parts[k].relative_offset = F(t.parts[k].tag)
      BY <1>6 DEF Agrees, Reads
    <3>2. PICK v \in 1 .. next : valid[v] = t.parts[k].tag
      BY <1>0, <1>3 DEF Served, PartsOf, TagOf
    <3>3. v \in 1 .. Len(valid) /\ v < next + 1
      BY <1>3
    <3>4. Precedes(requests, t.parts[k].tag, i)
      BY <1>0, <1>1, <1>3, <3>2, <3>3 DEF Ordered
    <3>5. requests[i].object \in Nat /\ requests[i].if_match \in Nat
      BY <1>4 DEF Request
    <3>6. F(t.parts[k].tag) \in 0 .. MaxInt
      BY <1>0, <3>2, <3>3, ValidFacts
    <3> HIDE DEF i, t, F
    <3>7. F(t.parts[k].tag) < F(i) \/ F(t.parts[k].tag) = F(i)
      BY <2>2, <3>1, <3>4, <3>5 DEF Precedes, F
    <3> QED
      BY <1>4, <3>1, <3>6, <3>7
  <2> QED
    BY <2>2, <2>3
<1>8. q = [relative_offset |-> F(i) - t.offset, length |-> requests[i].length, tag |-> i]
      /\ F(i) - t.offset \in 0 .. MaxInt
  <2>1. t.offset + t.parts[1].relative_offset <= F(i) /\ t.parts[1].relative_offset = 0
    BY <1>5, <1>6, <1>7 DEF Agrees
  <2>2. /\ F(i) - t.offset \in 0 .. MaxInt
        /\ Sub(absolute_offset(i), t.offset) = F(i) - t.offset
    <3> HIDE DEF t, F, i
    <3>1. t.offset <= F(i)
      BY <1>4, <1>5, <2>1
    <3>2. F(i) - t.offset \in 0 .. MaxInt
      <4>1. \A a, b \in 0 .. MaxInt : a <= b => b - a \in 0 .. MaxInt
        BY <1>3
      <4> QED
        BY <1>4, <1>5, <3>1, <4>1
    <3>3. \A x \in 0 .. MaxInt : x % (MaxInt + 1) = x
      BY <1>3
    <3> QED
      BY <1>4, <3>2, <3>3 DEF Sub
  <2> QED
    BY <2>2 DEF Part
<1>9. /\ q.relative_offset = F(i) - t.offset /\ q.length = requests[i].length /\ q.tag = i
      /\ q \in PlanPart
  <2>1. i \in Nat
    BY <1>4
  <2> HIDE DEF q, t, F, i
  <2> QED
    BY <1>4, <1>8, <2>1 DEF PlanPart
<1> HIDE DEF q
<1>10. /\ transfers' \in Seq(PlanTransfer) /\ Len(transfers') = L
       /\ \A n \in 1 .. L : n # L => transfers'[n] = transfers[n]
       /\ u.object = t.object /\ u.if_match = t.if_match /\ u.offset = t.offset
       /\ u.parts = Append(t.parts, q)
  <2>1. Append(t.parts, q) \in Seq(PlanPart)
    BY <1>5, <1>9
  <2>2. [t EXCEPT !.parts = Append(t.parts, q)] \in PlanTransfer
    <3> HIDE DEF t
    <3> QED
      BY <1>5, <2>1 DEF PlanTransfer
  <2>3. transfers' = [transfers EXCEPT ![L] = [t EXCEPT !.parts = Append(t.parts, q)]]
    BY <1>2
  <2> DEFINE w == [t EXCEPT !.parts = Append(t.parts, q)]
  <2> HIDE DEF w
  <2>4. /\ transfers' \in Seq(PlanTransfer) /\ Len(transfers') = L
        /\ \A n \in 1 .. L : n # L => transfers'[n] = transfers[n]
        /\ u = w
    <3>1. transfers' = [transfers EXCEPT ![L] = w] /\ w \in PlanTransfer
      BY <2>2, <2>3 DEF w
    <3> QED
      BY <1>3, <3>1
  <2>5. /\ u.object = t.object /\ u.if_match = t.if_match /\ u.offset = t.offset
        /\ u.parts = Append(t.parts, q)
    <3> HIDE DEF t, u
    <3> QED
      BY <1>5, <2>4 DEF PlanTransfer, w
  <2> QED
    BY <2>4, <2>5
<1>11. /\ Len(u.parts) = P + 1 /\ u.parts[P + 1] = q
       /\ \A k \in 1 .. P : u.parts[k] = t.parts[k]
       /\ \A k \in 1 .. P + 1 : k \in 1 .. P \/ k = P + 1
  <2>1. Len(u.parts) = P + 1 /\ u.parts[P + 1] = q /\ \A k \in 1 .. P : u.parts[k] = t.parts[k]
    BY <1>5, <1>9, <1>10
  <2> QED
    BY <1>5, <2>1
<1>12. last_byte' = IF last_byte < E(i) THEN E(i) ELSE last_byte
  BY <1>1, <1>4 DEF Larger
<1>13. last_byte' \in 0 .. MaxInt /\ last_byte' - t.offset \in 0 .. MaxInt - 1
  <2>1. Sub(Larger(last_byte, end(i)), t.offset) # MaxInt
    BY <1>1 DEF Mergeable
  <2>2. Sub(last_byte', t.offset) # MaxInt
    BY <1>1, <2>1
  <2> HIDE DEF t, E, F, i
  <2>3. last_byte' \in 0 .. MaxInt /\ last_byte' - t.offset \in 0 .. MaxInt
    <3>1. /\ last_byte' \in 0 .. MaxInt /\ last_byte' >= last_byte
          /\ last_byte - t.offset >= 0
      BY <1>3, <1>4, <1>6, <1>12
    <3> QED
      BY <1>3, <1>5, <3>1
  <2>4. \A x \in 0 .. MaxInt : x % (MaxInt + 1) = x
    BY <1>3
  <2>5. Sub(last_byte', t.offset) = last_byte' - t.offset
    BY <2>3, <2>4 DEF Sub
  <2> QED
    BY <1>3, <2>2, <2>3, <2>5
<1> HIDE DEF t, u, L, i, F, E, P
<1>14. PlannerTypeOK'
  <2>1. next' \in 0 .. Len(valid)
    BY <1>1, <1>3
  <2> QED
    BY <1>0, <1>1, <1>10, <1>13, <2>1 DEF PlannerTypeOK
<1>15. Judged' /\ Ordered'
  BY <1>0, <1>1 DEF Judged, Ordered
<1>16. /\ \A n \in 1 .. L : n # L =>
             /\ Len(transfers'[n].parts) = Len(transfers[n].parts)
             /\ \A k \in 1 .. Len(transfers[n].parts) :
                   transfers'[n].parts[k] = transfers[n].parts[k]
       /\ \A n \in 1 .. L : \A k \in 1 .. Len(transfers[n].parts) :
             /\ k \in 1 .. Len(transfers'[n].parts)
             /\ transfers'[n].parts[k].tag = transfers[n].parts[k].tag
       /\ P + 1 \in 1 .. Len(transfers'[L].parts) /\ transfers'[L].parts[P + 1].tag = i
       /\ \A n \in 1 .. L : \A k \in 1 .. Len(transfers'[n].parts) :
             k \in 1 .. Len(transfers[n].parts) \/ (n = L /\ k = P + 1)
  <2>1. \A n \in 1 .. L : n # L =>
             /\ Len(transfers'[n].parts) = Len(transfers[n].parts)
             /\ \A k \in 1 .. Len(transfers[n].parts) :
                   transfers'[n].parts[k] = transfers[n].parts[k]
    BY <1>10
  <2>2. /\ Len(transfers'[L].parts) = P + 1 /\ Len(transfers[L].parts) = P
        /\ transfers'[L].parts[P + 1].tag = i
        /\ \A k \in 1 .. P : transfers'[L].parts[k] = transfers[L].parts[k]
    BY <1>9, <1>11 DEF u, t, P
  <2>3. /\ P + 1 \in 1 .. P + 1 /\ 1 .. P \subseteq 1 .. P + 1
        /\ \A k \in 1 .. P + 1 : k \in 1 .. P \/ k = P + 1
    BY <1>5
  <2>4. ASSUME NEW n \in 1 .. L, NEW k \in 1 .. Len(transfers[n].parts)
        PROVE  /\ k \in 1 .. Len(transfers'[n].parts)
               /\ transfers'[n].parts[k].tag = transfers[n].parts[k].tag
    <3>1. CASE n = L
      BY <2>2, <2>3, <3>1
    <3>2. CASE n # L
      BY <2>1, <3>2
    <3> QED
      BY <3>1, <3>2
  <2>5. ASSUME NEW n \in 1 .. L, NEW k \in 1 .. Len(transfers'[n].parts)
        PROVE  k \in 1 .. Len(transfers[n].parts) \/ (n = L /\ k = P + 1)
    <3>1. CASE n = L
      BY <2>2, <2>3, <3>1
    <3>2. CASE n # L
      BY <2>1, <3>2
    <3> QED
      BY <3>1, <3>2
  <2> QED
    BY <2>1, <2>2, <2>3, <2>4, <2>5
<1>17. /\ next \in 1 .. next' /\ next' \in 1 .. next' /\ 1 .. next \subseteq 1 .. next'
       /\ \A v \in 1 .. next' : v \in 1 .. next \/ v = next'
       /\ valid'[next'] = i /\ P <= next
  <2>1. P \in 1 .. next
    BY <1>0, <1>3 DEF Served, P, t, L
  <2> QED
    BY <1>1, <1>3, <1>5, <2>1 DEF i
<1>18. Served'
  <2>1. ASSUME NEW n \in 1 .. L
        PROVE  /\ Len(transfers'[n].parts) \in 1 .. next'
               /\ \A k \in 1 .. Len(transfers'[n].parts) :
                     \E v \in 1 .. next' : valid'[v] = transfers'[n].parts[k].tag
    <3>1. /\ Len(transfers[n].parts) \in 1 .. next
          /\ \A k \in 1 .. Len(transfers[n].parts) :
                \E v \in 1 .. next : valid[v] = transfers[n].parts[k].tag
      BY <1>0 DEF Served, PartsOf, TagOf, L
    <3>2. Len(transfers'[n].parts) \in 1 .. next'
      <4>1. CASE n = L
        <5>1. Len(transfers'[n].parts) = P + 1
          BY <1>11, <4>1 DEF u
        <5> QED
          BY <1>1, <1>3, <1>5, <1>17, <5>1
      <4>2. CASE n # L
        BY <1>16, <1>17, <3>1, <4>2
      <4> QED
        BY <4>1, <4>2
    <3>3. ASSUME NEW k \in 1 .. Len(transfers'[n].parts)
          PROVE  \E v \in 1 .. next' : valid'[v] = transfers'[n].parts[k].tag
      <4>1. CASE k \in 1 .. Len(transfers[n].parts)
        <5>1. PICK v \in 1 .. next : valid[v] = transfers[n].parts[k].tag
          BY <3>1, <4>1
        <5>2. v \in 1 .. next' /\ valid'[v] = transfers'[n].parts[k].tag
          BY <1>1, <1>16, <1>17, <4>1, <5>1
        <5> QED
          BY <5>2
      <4>2. CASE n = L /\ k = P + 1
        BY <1>16, <1>17, <4>2
      <4> QED
        BY <1>16, <4>1, <4>2
    <3> QED
      BY <3>2, <3>3
  <2>2. ASSUME NEW v \in 1 .. next'
        PROVE  \E n \in 1 .. L : \E k \in 1 .. Len(transfers'[n].parts) :
                  transfers'[n].parts[k].tag = valid'[v]
    <3>1. CASE v \in 1 .. next
      <4>1. PICK n \in 1 .. L : \E k \in 1 .. Len(transfers[n].parts) :
                  transfers[n].parts[k].tag = valid[v]
        BY <1>0, <3>1 DEF Served, PartsOf, TagOf, L
      <4>2. PICK k \in 1 .. Len(transfers[n].parts) : transfers[n].parts[k].tag = valid[v]
        BY <4>1
      <4>3. k \in 1 .. Len(transfers'[n].parts) /\ transfers'[n].parts[k].tag = valid'[v]
        BY <1>1, <1>16, <4>2
      <4> QED
        BY <4>3
    <3>2. CASE v = next'
      BY <1>3, <1>16, <1>17, <3>2
    <3> QED
      BY <1>17, <3>1, <3>2
  <2>3. ASSUME NEW m \in 1 .. L, NEW n \in 1 .. L,
               NEW j \in 1 .. Len(transfers'[m].parts), NEW k \in 1 .. Len(transfers'[n].parts),
               transfers'[m].parts[j].tag = transfers'[n].parts[k].tag
        PROVE  m = n /\ j = k
    <3>1. \A o \in 1 .. L : \A l \in 1 .. Len(transfers[o].parts) :
             transfers[o].parts[l].tag # i
      BY <1>0, <1>1, NextIsNew DEF PartsOf, TagOf, L, i
    <3>2. CASE j \in 1 .. Len(transfers[m].parts) /\ k \in 1 .. Len(transfers[n].parts)
      <4>1. j \in PartsOf(m) /\ k \in PartsOf(n) /\ TagOf(m, j) = TagOf(n, k)
        BY <1>16, <2>3, <3>2 DEF PartsOf, TagOf
      <4> QED
        BY <1>0, <4>1 DEF Served, L
    <3>3. CASE j \in 1 .. Len(transfers[m].parts) /\ n = L /\ k = P + 1
      <4>1. transfers'[m].parts[j].tag = transfers[m].parts[j].tag
        BY <1>16, <3>3
      <4>2. transfers[m].parts[j].tag # i
        BY <3>1, <3>3
      <4>3. transfers'[n].parts[k].tag = i
        BY <1>16, <3>3
      <4> QED
        BY <2>3, <4>1, <4>2, <4>3
    <3>4. CASE k \in 1 .. Len(transfers[n].parts) /\ m = L /\ j = P + 1
      <4>1. transfers'[n].parts[k].tag = transfers[n].parts[k].tag
        BY <1>16, <3>4
      <4>2. transfers[n].parts[k].tag # i
        BY <3>1, <3>4
      <4>3. transfers'[m].parts[j].tag = i
        BY <1>16, <3>4
      <4> QED
        BY <2>3, <4>1, <4>2, <4>3
    <3> QED
      BY <1>16, <3>2, <3>3, <3>4
  <2> QED
    BY <1>10, <2>1, <2>2, <2>3 DEF Served, PartsOf, TagOf
<1>19. Agrees(requests, u)
  <2>1. ASSUME NEW k \in 1 .. P + 1
        PROVE  Reads(requests, u, u.parts[k])
    <3>1. CASE k \in 1 .. P
      <4>1. Reads(requests, t, t.parts[k])
        BY <1>6, <3>1 DEF Agrees, P
      <4> QED
        BY <1>10, <1>11, <3>1, <4>1 DEF Reads
    <3>2. CASE k = P + 1
      <4>1. t.offset + (F(i) - t.offset) = F(i)
        BY <1>4, <1>5
      <4> QED
        BY <1>7, <1>9, <1>10, <1>11, <3>2, <4>1 DEF Reads, F
    <3> QED
      BY <1>11, <3>1, <3>2
  <2>2. u.parts[1].relative_offset = 0
    BY <1>5, <1>6, <1>11 DEF Agrees
  <2>3. ASSUME NEW j \in 1 .. P + 1, NEW k \in 1 .. P + 1, j <= k
        PROVE  u.parts[j].relative_offset <= u.parts[k].relative_offset
    <3>1. CASE k \in 1 .. P
      <4>1. j \in 1 .. P
        BY <1>5, <2>3, <3>1
      <4> QED
        BY <1>6, <1>11, <2>3, <3>1, <4>1 DEF Agrees, P
    <3>2. CASE k = P + 1 /\ j \in 1 .. P
      <4>1. /\ t.offset + t.parts[j].relative_offset <= F(i)
            /\ t.parts[j].relative_offset \in 0 .. MaxInt
        BY <1>5, <1>7, <3>2
      <4>2. \A a, b, c \in 0 .. MaxInt : a + b <= c => b <= c - a
        BY <1>3
      <4>3. t.parts[j].relative_offset <= F(i) - t.offset
        BY <1>4, <1>5, <4>1, <4>2
      <4> QED
        BY <1>9, <1>11, <3>2, <4>3
    <3>3. CASE k = P + 1 /\ j = P + 1
      BY <1>4, <1>5, <1>9, <1>11, <3>3
    <3> QED
      BY <1>11, <3>1, <3>2, <3>3
  <2> QED
    BY <1>11, <2>1, <2>2, <2>3 DEF Agrees
<1>20. EndsAt(requests, u, last_byte')
  <2>1. ASSUME NEW k \in 1 .. P + 1
        PROVE  LastByte(requests, u.parts[k].tag) <= last_byte'
    <3>1. CASE k \in 1 .. P
      <4>1. PICK v \in 1 .. next : valid[v] = t.parts[k].tag
        BY <1>0, <1>3, <3>1 DEF Served, PartsOf, TagOf, t, L, P
      <4>2. v \in 1 .. Len(valid)
        BY <1>3
      <4>3. LastByte(requests, t.parts[k].tag) \in 0 .. MaxInt
        BY <1>0, <4>1, <4>2, ValidFacts
      <4>4. LastByte(requests, t.parts[k].tag) <= last_byte
        BY <1>6, <3>1 DEF EndsAt, P
      <4>5. last_byte <= last_byte'
        BY <1>3, <1>4, <1>12
      <4>6. u.parts[k] = t.parts[k]
        BY <1>11, <3>1
      <4>7. \A a, b, c \in 0 .. MaxInt : a <= b /\ b <= c => a <= c
        BY <1>3
      <4> QED
        BY <1>3, <1>13, <4>3, <4>4, <4>5, <4>6, <4>7
    <3>2. CASE k = P + 1
      <4>1. E(i) <= last_byte'
        BY <1>3, <1>4, <1>12
      <4> QED
        BY <1>9, <1>11, <3>2, <4>1 DEF E
    <3> QED
      BY <1>11, <3>1, <3>2
  <2>2. \E k \in 1 .. P + 1 : LastByte(requests, u.parts[k].tag) = last_byte'
    <3>1. CASE last_byte < E(i)
      <4>1. P + 1 \in 1 .. P + 1
        BY <1>5
      <4> QED
        BY <1>9, <1>11, <1>12, <3>1, <4>1 DEF E
    <3>2. CASE ~(last_byte < E(i))
      <4>1. PICK k \in 1 .. P : LastByte(requests, t.parts[k].tag) = last_byte
        BY <1>6 DEF EndsAt, P
      <4>2. k \in 1 .. P + 1
        BY <1>5
      <4> QED
        BY <1>11, <1>12, <3>2, <4>1, <4>2
    <3> QED
      BY <3>1, <3>2
  <2> QED
    BY <1>11, <2>1, <2>2 DEF EndsAt
<1>21. Built'
  <2>1. ASSUME NEW n \in 1 .. L
        PROVE  Agrees(requests', transfers'[n])
    <3>1. CASE n = L
      BY <1>1, <1>19, <3>1 DEF u
    <3>2. CASE n # L
      BY <1>0, <1>1, <1>10, <3>2 DEF Built, L
    <3> QED
      BY <3>1, <3>2
  <2>2. ASSUME NEW n \in 1 .. L, n < L
        PROVE  EndsAt(requests', transfers'[n], transfers'[n].offset + transfers'[n].length - 1)
    <3>1. n # L
      BY <1>3, <2>2
    <3>2. EndsAt(requests, transfers[n], transfers[n].offset + transfers[n].length - 1)
      BY <1>0, <2>2 DEF Built, L
    <3> QED
      BY <1>1, <1>10, <3>1, <3>2
  <2>3. Growing' = u /\ transfers' # <<>>
    BY <1>3, <1>10 DEF Growing, u
  <2>4. /\ EndsAt(requests', Growing', last_byte')
        /\ last_byte' - (Growing').offset \in 0 .. MaxInt - 1
    BY <1>1, <1>10, <1>13, <1>20, <2>3
  <2> QED
    BY <1>1, <1>10, <2>1, <2>2, <2>3, <2>4 DEF Built, Growing
<1> QED
  BY <1>14, <1>15, <1>18, <1>21 DEF PlannerInv

LEMMA CloseKeeps ==
  ASSUME PlannerInv, Close
  PROVE  PlannerInv'
<1> DEFINE L == Len(transfers)
           t == transfers[L]
           n1 == Add(Sub(last_byte, t.offset), 1)
           u == transfers'[L]
<1>0. PlannerTypeOK /\ Judged /\ Ordered /\ Served /\ Built
  BY DEF PlannerInv
<1>1. /\ stage = "merge" /\ stage' \in {"open", "nomem"}
      /\ transfers' = [transfers EXCEPT ![L].length = n1]
      /\ UNCHANGED <<requests, checked, immediate, valid, next, last_byte>>
  BY DEF Close, Growing
<1>2. /\ MaxInt \in Nat /\ last_byte \in 0 .. MaxInt /\ transfers \in Seq(PlanTransfer)
      /\ L \in Nat /\ L \in 1 .. L
  BY <1>0, <1>1, PlannerAssumption DEF PlannerTypeOK, Built
<1>3. t \in PlanTransfer /\ t.offset \in 0 .. MaxInt
  BY <1>0, <1>2, TransferFacts
<1>4. /\ EndsAt(requests, t, last_byte)
      /\ last_byte - t.offset \in 0 .. MaxInt - 1
  BY <1>0, <1>1, <1>2 DEF Built, Growing
<1>5. n1 = last_byte - t.offset + 1 /\ n1 \in 0 .. MaxInt /\ t.offset + n1 - 1 = last_byte
  <2> HIDE DEF t
  <2>1. \A x \in 0 .. MaxInt : x % (MaxInt + 1) = x
    BY <1>2
  <2>2. last_byte - t.offset \in 0 .. MaxInt /\ last_byte - t.offset + 1 \in 0 .. MaxInt
    BY <1>2, <1>3, <1>4
  <2>3. Sub(last_byte, t.offset) = last_byte - t.offset
    BY <2>1, <2>2 DEF Sub
  <2>4. n1 = last_byte - t.offset + 1
    BY <2>1, <2>2, <2>3 DEF Add
  <2> QED
    BY <1>2, <1>3, <2>2, <2>4
<1> HIDE DEF n1
<1>6. /\ transfers' \in Seq(PlanTransfer) /\ Len(transfers') = L
      /\ \A n \in 1 .. L : n # L => transfers'[n] = transfers[n]
      /\ u.object = t.object /\ u.if_match = t.if_match /\ u.offset = t.offset
      /\ u.parts = t.parts /\ u.length = n1
  <2>1. [t EXCEPT !.length = n1] \in PlanTransfer
    <3> HIDE DEF t
    <3> QED
      BY <1>3, <1>5 DEF PlanTransfer
  <2>2. transfers' = [transfers EXCEPT ![L] = [t EXCEPT !.length = n1]]
    BY <1>1
  <2> DEFINE w == [t EXCEPT !.length = n1]
  <2> HIDE DEF w
  <2>3. /\ transfers' \in Seq(PlanTransfer) /\ Len(transfers') = L
        /\ \A n \in 1 .. L : n # L => transfers'[n] = transfers[n]
        /\ u = w
    <3>1. transfers' = [transfers EXCEPT ![L] = w] /\ w \in PlanTransfer
      BY <2>1, <2>2 DEF w
    <3> QED
      BY <1>2, <3>1
  <2>4. /\ u.object = t.object /\ u.if_match = t.if_match /\ u.offset = t.offset
        /\ u.parts = t.parts /\ u.length = n1
    <3> HIDE DEF t, u
    <3> QED
      BY <1>3, <2>3 DEF PlanTransfer, w
  <2> QED
    BY <2>3, <2>4
<1>7. \A n \in 1 .. L : transfers'[n].parts = transfers[n].parts
  BY <1>6
<1> HIDE DEF t, u, L
<1>8. PlannerTypeOK'
  BY <1>0, <1>1, <1>6 DEF PlannerTypeOK
<1>9. Judged' /\ Ordered'
  BY <1>0, <1>1 DEF Judged, Ordered
<1>10. Served'
  <2>1. /\ Len(transfers') = Len(transfers)
        /\ \A n \in 1 .. Len(transfers) : transfers'[n].parts = transfers[n].parts
    BY <1>6, <1>7 DEF L
  <2>2. ASSUME NEW n \in 1 .. Len(transfers)
        PROVE  /\ Len(transfers'[n].parts) \in 1 .. next
               /\ \A k \in 1 .. Len(transfers'[n].parts) :
                    \E v \in 1 .. next : valid[v] = transfers'[n].parts[k].tag
    <3>1. /\ Len(transfers[n].parts) \in 1 .. next
          /\ \A k \in 1 .. Len(transfers[n].parts) :
               \E v \in 1 .. next : valid[v] = transfers[n].parts[k].tag
      BY <1>0 DEF Served, PartsOf, TagOf
    <3>2. transfers'[n].parts = transfers[n].parts
      BY <2>1
    <3> QED
      BY <3>1, <3>2
  <2>3. ASSUME NEW v \in 1 .. next
        PROVE  \E n \in 1 .. Len(transfers) :
                 \E k \in 1 .. Len(transfers'[n].parts) : transfers'[n].parts[k].tag = valid[v]
    <3>1. PICK n \in 1 .. Len(transfers) : \E k \in PartsOf(n) : TagOf(n, k) = valid[v]
      BY <1>0 DEF Served
    <3> QED
      BY <2>1, <3>1 DEF PartsOf, TagOf
  <2>4. ASSUME NEW m \in 1 .. Len(transfers), NEW n \in 1 .. Len(transfers),
               NEW j \in 1 .. Len(transfers'[m].parts), NEW k \in 1 .. Len(transfers'[n].parts),
               transfers'[m].parts[j].tag = transfers'[n].parts[k].tag
        PROVE  m = n /\ j = k
    <3>1. j \in PartsOf(m) /\ k \in PartsOf(n) /\ TagOf(m, j) = TagOf(n, k)
      BY <2>1, <2>4 DEF PartsOf, TagOf
    <3> QED
      BY <1>0, <3>1 DEF Served
  <2> QED
    BY <1>1, <2>1, <2>2, <2>3, <2>4 DEF Served, PartsOf, TagOf
<1>11. Built'
  <2>1. ASSUME NEW n \in 1 .. L
        PROVE  /\ Agrees(requests', transfers'[n])
               /\ EndsAt(requests', transfers'[n],
                         transfers'[n].offset + transfers'[n].length - 1)
    <3>1. CASE n = L
      <4>1. Agrees(requests, t)
        BY <1>0, <1>2 DEF Built, t, L
      <4>2. Agrees(requests, u)
        BY <1>6, <4>1 DEF Agrees, Reads
      <4>3. EndsAt(requests, u, last_byte)
        BY <1>4, <1>6 DEF EndsAt
      <4>4. u.offset + u.length - 1 = last_byte
        BY <1>5, <1>6
      <4> QED
        BY <1>1, <3>1, <4>2, <4>3, <4>4 DEF u
    <3>2. CASE n # L
      <4>1. n < L
        BY <1>2, <3>2
      <4>2. /\ Agrees(requests, transfers[n])
            /\ EndsAt(requests, transfers[n], transfers[n].offset + transfers[n].length - 1)
        BY <1>0, <4>1 DEF Built, L
      <4> QED
        BY <1>1, <1>6, <3>2, <4>2
    <3> QED
      BY <3>1, <3>2
  <2>2. stage' # "merge"
    BY <1>1
  <2> QED
    BY <1>6, <2>1, <2>2 DEF Built
<1> QED
  BY <1>8, <1>9, <1>10, <1>11 DEF PlannerInv

LEMMA DoneKeeps ==
  ASSUME PlannerInv, Done
  PROVE  PlannerInv'
<1>0. PlannerTypeOK /\ Judged /\ Ordered /\ Served /\ Built
  BY DEF PlannerInv
<1>1. /\ stage = "open" /\ next = Len(valid) /\ stage' = "done"
      /\ UNCHANGED <<requests, checked, immediate, valid, next, transfers, last_byte>>
  BY DEF Done
<1>2. PlannerTypeOK' /\ Judged' /\ Ordered'
  BY <1>0, <1>1 DEF PlannerTypeOK, Judged, Ordered
<1>3. Served' /\ Built'
  BY <1>0, <1>1 DEF Served, PartsOf, TagOf, Built
<1> QED
  BY <1>2, <1>3 DEF PlannerInv

LEMMA PlannerStutters ==
  ASSUME PlannerInv, UNCHANGED plannerVars
  PROVE  PlannerInv'
<1>0. PlannerTypeOK /\ Judged /\ Ordered /\ Served /\ Built
  BY DEF PlannerInv
<1>1. UNCHANGED <<requests, checked, immediate, valid, next, transfers, last_byte, stage>>
  BY DEF plannerVars
<1>2. PlannerTypeOK' /\ Judged' /\ Ordered'
  BY <1>0, <1>1 DEF PlannerTypeOK, Judged, Ordered
<1>3. Served' /\ Built'
  BY <1>0, <1>1 DEF Served, PartsOf, TagOf, Built, Growing
<1> QED
  BY <1>2, <1>3 DEF PlannerInv

LEMMA FetchedPlan ==
  ASSUME Fetch
  PROVE  PlannerInv'
<1>1. /\ requests' = <<>> /\ checked' = 0 /\ immediate' = {} /\ valid' = <<>> /\ next' = 0
      /\ transfers' = <<>> /\ last_byte' = 0 /\ stage' = "fetched" /\ MaxInt \in Nat
  BY PlannerAssumption DEF Fetch
<1>2. PlannerTypeOK'
  BY <1>1 DEF PlannerTypeOK
<1> QED
  BY <1>1, <1>2 DEF PlannerInv, Judged, Ordered, Served, Built

LEMMA ScatterStutters ==
  ASSUME ScatterInv, UNCHANGED scatterVars
  PROVE  ScatterInv'
<1>1. UNCHANGED <<parts, transfer_length, file, received, scatter_cursor, buffer, scratch,
                  completion>>
  BY DEF scatterVars
<1>2. \A k \in 1 .. Len(parts) : S!Positions(k)' = S!Positions(k)
  BY <1>1 DEF S!Positions
<1>3. ScatterTypeOK'
  BY <1>1, <1>2 DEF ScatterInv, ScatterTypeOK
<1>4. InOrder' /\ Behind' /\ FileBytes'
  BY <1>1 DEF ScatterInv, InOrder, Behind, FileBytes, S!End, S!Open, S!scattered
<1>5. BytesInPlace'
  BY <1>1 DEF ScatterInv, BytesInPlace, S!BytesInPlace, S!ReportedBytesAreThere, S!Positions
<1> QED
  BY <1>3, <1>4, <1>5 DEF ScatterInv

LEMMA ScatterInitHolds ==
  S!Init => ScatterInv
<1> SUFFICES ASSUME S!Init PROVE ScatterInv
  OBVIOUS
<1>1. /\ parts = <<>> /\ transfer_length = 0 /\ file = FALSE /\ received = 0
      /\ scatter_cursor = 1 /\ buffer = <<>> /\ scratch = <<>> /\ completion = <<>>
  BY DEF S!Init
<1>2. ScatterTypeOK
  <2>1. parts \in Seq(BodyPart) /\ Len(parts) = 0
    BY <1>1
  <2>2. 1 .. 0 = {} /\ 0 .. 0 - 1 = {} /\ 0 \in 0 .. 0 /\ 1 \in 1 .. 0 + 1
    OBVIOUS
  <2>3. DOMAIN buffer = {} /\ DOMAIN scratch = {} /\ DOMAIN completion = {}
    BY <1>1
  <2> QED
    BY <1>1, <2>1, <2>2, <2>3 DEF ScatterTypeOK
<1>3. InOrder /\ Behind /\ FileBytes
  BY <1>1 DEF InOrder, Behind, FileBytes
<1>4. BytesInPlace
  BY <1>1 DEF BytesInPlace, S!BytesInPlace, S!ReportedBytesAreThere
<1> QED
  BY <1>2, <1>3, <1>4 DEF ScatterInv

\* What the planner made of a transfer is what the copying loop needs.
LEMMA FetchedTransfer ==
  ASSUME PlannerInv, Fetch
  PROVE  ScatterInv'
<1>0. PlannerTypeOK /\ Served /\ Built
  BY DEF PlannerInv
<1>1. PICK n \in DOMAIN transfers :
         S!Begin([k \in DOMAIN transfers[n].parts |->
                    [relative_offset |-> transfers[n].parts[k].relative_offset,
                     length |-> transfers[n].parts[k].length]],
                 transfers[n].length, transfers[n].object \in FileObjects)
  BY DEF Fetch
<1> DEFINE ps == transfers[n].parts
           P == Len(ps)
<1>2. n \in 1 .. Len(transfers)
  BY <1>0 DEF PlannerTypeOK
<1>3. /\ ps \in Seq(PlanPart) /\ P \in Nat /\ DOMAIN ps = 1 .. P
      /\ transfers[n].length \in Nat
      /\ \A k \in 1 .. P : ps[k].relative_offset \in Nat /\ ps[k].length \in Nat \ {0}
  <2>1. /\ ps \in Seq(PlanPart) /\ transfers[n].length \in 0 .. MaxInt
        /\ \A k \in 1 .. P : /\ ps[k].relative_offset \in 0 .. MaxInt
                             /\ ps[k].length \in 1 .. MaxInt - 1
    BY <1>0, <1>2, TransferFacts DEF PartsOf
  <2> QED
    BY <2>1, PlannerAssumption
<1>4. \A j, k \in 1 .. P : j <= k => ps[j].relative_offset <= ps[k].relative_offset
  BY <1>0, <1>2 DEF Built, Agrees
<1>5. /\ parts' = [k \in DOMAIN ps |-> [relative_offset |-> ps[k].relative_offset,
                                        length |-> ps[k].length]]
      /\ transfer_length' = transfers[n].length
      /\ file' = (transfers[n].object \in FileObjects)
      /\ received' = 0 /\ scatter_cursor' = 1
      /\ buffer' = [k \in DOMAIN parts' |-> [i \in 0 .. parts'[k].length - 1 |-> S!NoByte]]
      /\ scratch' = [i \in 0 .. transfer_length' - 1 |-> S!NoByte]
      /\ completion' = [k \in DOMAIN parts' |-> S!Pending]
  BY <1>1 DEF S!Begin
<1> HIDE DEF ps, P
<1>6. /\ parts' \in Seq(BodyPart) /\ Len(parts') = P /\ DOMAIN parts' = 1 .. P
      /\ \A k \in 1 .. P : /\ parts'[k].relative_offset = ps[k].relative_offset
                           /\ parts'[k].length = ps[k].length
  <2>1. \A k \in 1 .. P : [relative_offset |-> ps[k].relative_offset,
                           length |-> ps[k].length] \in BodyPart
    BY <1>3 DEF BodyPart
  <2>2. parts' \in [1 .. P -> BodyPart]
    BY <1>3, <1>5, <2>1
  <2>3. parts' \in Seq(BodyPart) /\ Len(parts') = P
    BY <1>3, <2>2
  <2> QED
    BY <1>3, <1>5, <2>3
<1>7. \A k \in 1 .. P : S!Positions(k)' = 0 .. parts'[k].length - 1
  BY DEF S!Positions
<1>8. \A k \in 1 .. P : completion'[k] = [status |-> "none", got |-> 0]
  BY <1>5, <1>6 DEF S!Pending
<1>9. ScatterTypeOK'
  <2>1. /\ transfer_length' \in Nat /\ file' \in BOOLEAN
        /\ received' \in 0 .. transfer_length' /\ scatter_cursor' \in 1 .. Len(parts') + 1
    BY <1>3, <1>5, <1>6
  <2>2. /\ DOMAIN buffer' = 1 .. P
        /\ \A k \in 1 .. P : DOMAIN buffer'[k] = S!Positions(k)'
        /\ DOMAIN scratch' = 0 .. transfer_length' - 1
    BY <1>5, <1>6, <1>7
  <2>3. /\ DOMAIN completion' = 1 .. P
        /\ \A k \in 1 .. P : completion'[k] \in [status : {"none", "ok", "range"}, got : Nat]
    BY <1>5, <1>6, <1>8
  <2> QED
    BY <1>6, <2>1, <2>2, <2>3 DEF ScatterTypeOK
<1>10. InOrder' /\ Behind' /\ FileBytes'
  <2>1. InOrder'
    BY <1>4, <1>6 DEF InOrder
  <2>2. 0 .. 0 - 1 = {} /\ 1 .. 1 - 1 = {}
    OBVIOUS
  <2> QED
    BY <1>5, <2>1, <2>2 DEF Behind, FileBytes
<1>11. S!BytesInPlace'
  <2> SUFFICES ASSUME NEW k \in 1 .. P, NEW i \in 0 .. parts'[k].length - 1
               PROVE  /\ buffer'[k][i] = S!NoByte
                      /\ ~(parts'[k].relative_offset + i < received')
    BY <1>6, <1>7 DEF S!BytesInPlace
  <2>1. buffer'[k][i] = S!NoByte
    BY <1>5, <1>6
  <2>2. parts'[k].relative_offset \in Nat /\ i \in Nat
    <3>1. parts'[k].relative_offset \in Nat
      BY <1>3, <1>6
    <3>2. i \in Nat
      OBVIOUS
    <3> QED
      BY <3>1, <3>2
  <2> QED
    BY <1>5, <2>1, <2>2
<1>12. S!ReportedBytesAreThere'
  <2> SUFFICES ASSUME NEW k \in 1 .. P
               PROVE  /\ \A i \in 0 .. completion'[k].got - 1 :
                           buffer'[k][i] = parts'[k].relative_offset + i
                      /\ completion'[k].status = "ok" <=> completion'[k].got = parts'[k].length
    BY <1>6 DEF S!ReportedBytesAreThere
  <2>1. completion'[k].status = "none" /\ completion'[k].got = 0 /\ parts'[k].length # 0
    BY <1>3, <1>6, <1>8
  <2> QED
    BY <2>1
<1> QED
  BY <1>9, <1>10, <1>11, <1>12 DEF ScatterInv, BytesInPlace

LEMMA PlanInitHolds ==
  PlanInit => PlanInv
BY PlannerInitHolds, ScatterInitHolds DEF PlanInit, PlanInv

LEMMA PlanStepKeeps ==
  ASSUME PlanInv, [PlanNext]_allVars
  PROVE  PlanInv'
<1>0. PlannerInv /\ ScatterInv
  BY DEF PlanInv
<1>1. CASE PlannerNext /\ UNCHANGED scatterVars
  <2>1. PlannerInv'
    <3>1. CASE Validate
      BY <1>0, <3>1, ValidateKeeps
    <3>2. CASE Sort
      BY <1>0, <3>2, SortKeeps
    <3>3. CASE Open
      BY <1>0, <3>3, OpenKeeps
    <3>4. CASE Merge
      BY <1>0, <3>4, MergeKeeps
    <3>5. CASE Close
      BY <1>0, <3>5, CloseKeeps
    <3>6. CASE Done
      BY <1>0, <3>6, DoneKeeps
    <3>7. CASE Planned
      BY <1>0, <3>7, PlannerStutters DEF Planned
    <3> QED
      BY <1>1, <3>1, <3>2, <3>3, <3>4, <3>5, <3>6, <3>7 DEF PlannerNext
  <2> QED
    BY <1>0, <1>1, <2>1, ScatterStutters DEF PlanInv
<1>2. CASE Fetch
  BY <1>0, <1>2, FetchedPlan, FetchedTransfer DEF PlanInv
<1>3. CASE S!Next /\ UNCHANGED plannerVars
  <2>1. ScatterInv'
    <3>1. CASE \E n \in 1 .. transfer_length : S!store_payload(n)
      BY <1>0, <3>1, StoreKeeps
    <3>2. CASE \E n \in 1 .. transfer_length : S!Read(n)
      BY <1>0, <3>2, ReadKeeps
    <3>3. CASE S!Retry
      BY <1>0, <3>3, RetryKeeps
    <3>4. CASE S!deliver
      BY <1>0, <3>4, DeliverKeeps
    <3> QED
      BY <1>3, <3>1, <3>2, <3>3, <3>4 DEF S!Next
  <2> QED
    BY <1>0, <1>3, <2>1, PlannerStutters DEF PlanInv
<1>4. CASE UNCHANGED allVars
  BY <1>0, <1>4, PlannerStutters, ScatterStutters DEF PlanInv, allVars
<1> QED
  BY <1>1, <1>2, <1>3, <1>4 DEF PlanNext, Over

\* A plan that is kept by the invariant is the caller's request.
LEMMA SoundPlan ==
  PlannerInv => PlanIsSound
<1> SUFFICES ASSUME PlannerInv PROVE PlanIsSound
  OBVIOUS
<1>0. PlannerTypeOK /\ Judged /\ Ordered /\ Served /\ Built
  BY DEF PlannerInv
<1>1. ASSUME stage = "done", NEW i \in DOMAIN requests
      PROVE  Cardinality(ServedAt(i)) = IF i \in immediate THEN 0 ELSE 1
  <2>1. /\ i \in 1 .. checked /\ next = Len(valid) /\ checked = Len(requests)
        /\ Len(valid) <= Len(requests) /\ Len(requests) \in Nat /\ Len(valid) \in Nat
    BY <1>0, <1>1 DEF PlannerTypeOK, Ordered
  <2>2. CASE i \in immediate
    <3>1. ServedAt(i) = {}
      <4> SUFFICES ASSUME NEW p \in ServedAt(i) PROVE FALSE
        OBVIOUS
      <4>1. /\ p[1] \in 1 .. Len(transfers) /\ p[2] \in DOMAIN transfers[p[1]].parts
            /\ transfers[p[1]].parts[p[2]].tag = i
        BY DEF ServedAt
      <4>2. p[2] \in PartsOf(p[1])
        BY <1>0, <4>1, TransferFacts DEF PartsOf
      <4>3. TagOf(p[1], p[2]) = i
        BY <4>1 DEF TagOf
      <4>4. \E v \in 1 .. next : valid[v] = TagOf(p[1], p[2])
        BY <1>0, <4>1, <4>2 DEF Served
      <4>5. PICK v \in 1 .. next : valid[v] = i
        BY <4>3, <4>4
      <4> QED
        BY <1>0, <2>1, <2>2, <4>5 DEF Judged
    <3> QED
      BY <2>2, <3>1, FS_EmptySet
  <2>3. CASE i \notin immediate
    <3>1. PICK v \in 1 .. next : valid[v] = i
      BY <1>0, <2>1, <2>3 DEF Judged
    <3>2. PICK n \in 1 .. Len(transfers) : \E k \in PartsOf(n) : TagOf(n, k) = i
      BY <1>0, <3>1 DEF Served
    <3>3. PICK k \in PartsOf(n) : TagOf(n, k) = i
      BY <3>2
    <3>4. ServedAt(i) = {<<n, k>>}
      <4>1. DOMAIN transfers[n].parts = PartsOf(n) /\ k \in 1 .. Len(requests)
        <5>1. transfers[n].parts \in Seq(PlanPart) /\ Len(transfers[n].parts) \in 1 .. next
          BY <1>0, TransferFacts DEF Served
        <5>2. k \in 1 .. Len(transfers[n].parts)
          BY DEF PartsOf
        <5> QED
          BY <2>1, <5>1, <5>2 DEF PartsOf
      <4>2. <<n, k>> \in ServedAt(i)
        BY <3>3, <4>1 DEF ServedAt, TagOf
      <4>3. ASSUME NEW p \in ServedAt(i)
            PROVE  p = <<n, k>>
        <5>1. /\ p = <<p[1], p[2]>>
              /\ p[1] \in 1 .. Len(transfers) /\ p[2] \in DOMAIN transfers[p[1]].parts
              /\ transfers[p[1]].parts[p[2]].tag = i
          BY DEF ServedAt
        <5>2. p[2] \in PartsOf(p[1])
          BY <1>0, <5>1, TransferFacts DEF PartsOf
        <5>3. p[1] = n /\ p[2] = k
          <6>1. TagOf(p[1], p[2]) = TagOf(n, k)
            BY <3>3, <5>1 DEF TagOf
          <6> QED
            BY <1>0, <5>1, <5>2, <6>1 DEF Served
        <5> QED
          BY <5>1, <5>3
      <4> QED
        BY <4>2, <4>3
    <3> QED
      BY <2>3, <3>4, FS_Singleton
  <2> QED
    BY <2>2, <2>3
<1>2. EveryRangeOnce
  BY <1>1 DEF EveryRangeOnce
<1>3. RejectedRightly
  <2> SUFFICES ASSUME NEW i \in 1 .. checked
               PROVE  i \in immediate <=>
                        LET r == requests[i]
                        IN  \/ r.object \in FileObjects /\ r.if_match # NoCondition
                            \/ r.window_length # ToEnd /\ r.offset + r.length > r.window_length
                            \/ To(i) > MaxInt
    BY DEF RejectedRightly
  <2>1. requests[i] \in Request
    BY <1>0 DEF PlannerTypeOK
  <2>2. i \in immediate <=> ~Accepted(requests[i])
    BY <1>0 DEF Judged
  <2> QED
    BY <2>1, <2>2, AcceptedFacts DEF To, From
<1>4. ASSUME stage \in {"open", "done"}, NEW n \in DOMAIN transfers
      PROVE  LET t == transfers[n]
             IN  /\ \A k \in DOMAIN t.parts :
                      LET p == t.parts[k]
                      IN  /\ requests[p.tag].object = t.object
                          /\ requests[p.tag].if_match = t.if_match
                          /\ t.offset + p.relative_offset = From(p.tag)
                          /\ p.length = requests[p.tag].length
                          /\ p.relative_offset + p.length <= t.length
                 /\ \E i \in Tags(t) : From(i) = t.offset
                 /\ \E i \in Tags(t) : To(i) = t.offset + t.length - 1
  <2> DEFINE t == transfers[n]
             b == t.offset + t.length - 1
  <2>1. n \in 1 .. Len(transfers)
    BY <1>0 DEF PlannerTypeOK
  <2>2. Agrees(requests, t) /\ EndsAt(requests, t, b)
    BY <1>0, <1>4, <2>1 DEF Built
  <2>3. /\ t.parts \in Seq(PlanPart) /\ DOMAIN t.parts = 1 .. Len(t.parts)
        /\ 1 \in 1 .. Len(t.parts)
        /\ t.offset \in 0 .. MaxInt /\ t.length \in 0 .. MaxInt /\ MaxInt \in Nat
        /\ \A k \in 1 .. Len(t.parts) : /\ t.parts[k].relative_offset \in 0 .. MaxInt
                                        /\ t.parts[k].length \in 1 .. MaxInt - 1
    <3>1. Len(t.parts) \in Nat \ {0} /\ t.parts \in Seq(PlanPart)
      BY <1>0, <2>1, TransferFacts
    <3>2. DOMAIN t.parts = 1 .. Len(t.parts) /\ 1 \in 1 .. Len(t.parts)
      <4> HIDE DEF t
      <4> QED
        BY <3>1
    <3> QED
      BY <1>0, <2>1, <3>1, <3>2, TransferFacts, PlannerAssumption DEF PartsOf
  <2>4. \A i : FirstByte(requests, i) = From(i) /\ LastByte(requests, i) = To(i)
    BY DEF FirstByte, LastByte, From, To
  <2> HIDE DEF t
  <2>5. ASSUME NEW k \in 1 .. Len(t.parts)
        PROVE  /\ Reads(requests, t, t.parts[k])
               /\ t.parts[k].relative_offset + t.parts[k].length <= t.length
    <3> DEFINE p == t.parts[k]
    <3>1. Reads(requests, t, p)
      BY <2>2 DEF Agrees
    <3>2. LastByte(requests, p.tag) <= b
      BY <2>2 DEF EndsAt
    <3>3. LastByte(requests, p.tag) = t.offset + p.relative_offset + p.length - 1
      BY <3>1 DEF Reads, LastByte
    <3>4. p.relative_offset \in 0 .. MaxInt /\ p.length \in 1 .. MaxInt - 1
      BY <2>3
    <3> HIDE DEF p
    <3>5. \A o, r, m, n1 \in Int : o + r + m - 1 <= o + n1 - 1 => r + m <= n1
      OBVIOUS
    <3>6. p.relative_offset + p.length <= t.length
      <4>1. t.offset + p.relative_offset + p.length - 1 <= t.offset + t.length - 1
        BY <3>2, <3>3
      <4>2. /\ t.offset \in Int /\ t.length \in Int
            /\ p.relative_offset \in Int /\ p.length \in Int
        BY <2>3, <3>4
      <4> QED
        BY <3>5, <4>1, <4>2
    <3> QED
      BY <3>1, <3>6 DEF p
  <2>6. \E i \in Tags(t) : From(i) = t.offset
    <3>1. FirstByte(requests, t.parts[1].tag) = t.offset
      BY <2>2, <2>3 DEF Agrees, Reads
    <3> QED
      BY <2>3, <2>4, <3>1 DEF Tags
  <2>7. \E i \in Tags(t) : To(i) = b
    <3>1. PICK k \in 1 .. Len(t.parts) : LastByte(requests, t.parts[k].tag) = b
      BY <2>2 DEF EndsAt
    <3> HIDE DEF b
    <3> QED
      BY <2>3, <2>4, <3>1 DEF Tags
  <2>8. \A k \in 1 .. Len(t.parts) :
             /\ requests[t.parts[k].tag].object = t.object
             /\ requests[t.parts[k].tag].if_match = t.if_match
             /\ t.offset + t.parts[k].relative_offset = From(t.parts[k].tag)
             /\ t.parts[k].length = requests[t.parts[k].tag].length
             /\ t.parts[k].relative_offset + t.parts[k].length <= t.length
    BY <2>4, <2>5 DEF Reads
  <2> QED
    BY <2>3, <2>6, <2>7, <2>8 DEF t
<1>5. PartsAreRequests
  BY <1>4 DEF PartsAreRequests
<1> QED
  BY <1>2, <1>3, <1>5 DEF PlanIsSound

\* The plan is the caller's request (plan_transfers): of any batch, no range is
\* lost, served twice, rejected without reason or let through by a sum that
\* wraps around, and every transfer reads what its parts ask for and no byte
\* more.
THEOREM PlansAreSound == PlanSpec => []PlanIsSound
<1>1. PlanInv => PlanIsSound
  BY SoundPlan DEF PlanInv
<1>2. PlanInv /\ [PlanNext]_allVars => PlanInv'
  BY PlanStepKeeps
<1> QED
  BY <1>1, <1>2, PlanInitHolds, PTL DEF PlanSpec

\* The bytes of a transfer are where their ranges want them (store_payload,
\* read_file, deliver): however the planner merged the ranges of the batch, the
\* body was cut into chunks and attempts were resumed, a byte is never in a
\* wrong place, and those that a completion reports are there.
THEOREM BytesFindTheirPlace == PlanSpec => []BytesInPlace
<1>1. PlanInv => BytesInPlace
  BY DEF PlanInv, ScatterInv
<1>2. PlanInv /\ [PlanNext]_allVars => PlanInv'
  BY PlanStepKeeps
<1> QED
  BY <1>1, <1>2, PlanInitHolds, PTL DEF PlanSpec
-----------------------------------------------------------------------------
(***************************************************************************)
(* read_ends.                                                              *)
(***************************************************************************)
\* The types of what the two threads share and of the requests they make.
Version == 1 .. Len(Sizes)
EndByte == (Nat \X Int)
Answer == [total : Nat, got : Nat, etag : Nat, suffix_ignored : BOOLEAN]
Job == [state : {"none", "running", "replied", "failed"}, first : Nat, length : Nat,
        suffix : BOOLEAN, if_match : Nat, attempt : Nat,
        resent : SUBSET {"region", "credentials"}, reply : Answer]
Call == [window : Windows, backend : {"s3", "azure", "file"}, head : Heads, tail : Tails]

EndsTypeOK ==
    /\ object \in Version
    /\ call \in Call
    /\ at \in {"start", "info", "ends", "last", "file head", "file tail", "ok", "failed"}
    /\ job \in [Jobs -> Job]
    /\ head \in [1 .. call.head -> EndByte]
    /\ tail \in [1 .. call.tail -> EndByte]
    /\ result \in [size : Nat, etag : Nat]

\* What a request is, apart from how far it has come.
SameRequest(r, q) ==
    /\ r.first = q.first /\ r.length = q.length
    /\ r.suffix = q.suffix /\ r.if_match = q.if_match
    /\ r.state = "none" <=> q.state = "none"

LastJob == NewJob(offset + visible - tail_length, tail_length, FALSE, etag)

\* The requests of each stage of read_ends.
Requested ==
    /\ at \in {"start", "file head", "file tail"} => \A j \in Jobs : job[j] = NoJob
    /\ at = "info" => call.head = 0 /\ call.tail = 0 /\ job["tail"] = NoJob /\ job["last"] = NoJob
    /\ at \in {"ends", "last"} =>
          /\ SameRequest(job["head"], HeadJob) /\ SameRequest(job["tail"], TailJob)
    /\ at = "ends" => job["last"] = NoJob
    /\ at = "last" =>
          /\ SameRequest(job["last"], LastJob)
          /\ job["head"].state \in {"none", "replied"}
          /\ job["tail"].state \in {"none", "replied"}
          /\ ~Disagree
          /\ tail_length > 0 /\ ~TailReceived /\ visible > head_length
    /\ at = "ok" => \A j \in Jobs : job[j].state # "running"
    /\ at \in {"info", "ends", "last"} => remote
    /\ at \in {"file head", "file tail"} => ~remote

\* The bytes that a request is for, of an object of `total' bytes.
Wanted(r, total) ==
    IF Satisfiable(r, total) THEN Until(r, total) - FromByte(r, total) ELSE 0

\* A reply is of one version: it has all that was asked for, from the place
\* asked for, or there is nothing to have.
Whole(r, v, dest) ==
    /\ r.reply.got = Wanted(r, Sizes[v]) /\ r.reply.etag = Tag(v)
    /\ ~r.reply.suffix_ignored
    /\ r.if_match = NoTag \/ Tag(v) \in {NoTag, r.if_match}
    /\ \A i \in DOMAIN dest :
          i <= r.reply.got => dest[i] = <<v, FromByte(r, Sizes[v]) + i - 1>>
Nothing(r, v) ==
    /\ r.reply.got = 0 /\ r.reply.etag \in {NoTag, Tag(v)}
    /\ r.suffix => r.reply.suffix_ignored \/ Sizes[v] = 0
    /\ ~r.suffix => ~r.reply.suffix_ignored /\ r.first >= Sizes[v]
OfOneVersion(r, dest) ==
    \E v \in Version :
        /\ r.reply.total = Sizes[v]
        /\ Whole(r, v, dest) \/ Nothing(r, v)

Replies ==
    /\ at \in {"ends", "last"} /\ job["head"].state = "replied" => OfOneVersion(job["head"], head)
    /\ at = "ends" /\ job["tail"].state = "replied" => OfOneVersion(job["tail"], tail)
    /\ at = "last" /\ job["tail"].state = "replied" => OfOneVersion(job["tail"], <<>>)
    /\ at = "last" /\ job["last"].state = "replied" => OfOneVersion(job["last"], tail)

HeadInPlace ==
    \A i \in 1 .. Smaller(call.head, result.size) :
        head[i][1] # 0 /\ head[i][2] = offset + i - 1

EndsIInv ==
    /\ EndsTypeOK /\ Requested /\ Replies
    /\ at = "file tail" => HeadInPlace
    /\ EndsAreSound

\* Versions are numbered from 1, with their sizes and tags.
LEMMA EndsConstants ==
    /\ Len(Sizes) \in Nat
    /\ \A v \in Version : v \in Nat \ {0} /\ Sizes[v] \in Nat /\ Tag(v) \in Nat
    /\ \A v \in Version : Tag(v) \in {NoTag, v} /\ (v \in Tagged => Tag(v) = v)
    /\ 1 \in Version
<1>1. Sizes \in Seq(Nat) /\ Sizes # <<>>
  BY EndsAssumption
<1>2. Len(Sizes) \in Nat \ {0} /\ Sizes \in [1 .. Len(Sizes) -> Nat]
  BY <1>1
<1> QED
  BY <1>2 DEF Version, Tag, NoTag

\* The parts of the window that read_ends asks for are numbers
\* (engine.cpp:1128).
LEMMA CallTypes ==
    ASSUME call \in Call
    PROVE  /\ offset \in Nat /\ call.head \in Nat /\ call.tail \in Nat
           /\ bounded \in BOOLEAN /\ (bounded => call.window.length \in Nat)
           /\ \A n \in Nat : visible_size(n) \in Nat
           /\ head_part \in Nat /\ tail_part \in Nat
           /\ HeadJob \in Job /\ TailJob \in Job /\ NoJob \in Job
<1>1. /\ call.window \in [offset : Nat, length : Nat \cup {Unbounded}]
      /\ call.head \in Nat /\ call.tail \in Nat
  BY EndsAssumption DEF Call
<1>2. offset \in Nat /\ (bounded => call.window.length \in Nat)
  BY <1>1 DEF offset, bounded
<1>3. \A n \in Nat : visible_size(n) \in Nat
  BY <1>2 DEF visible_size
<1>4. head_part \in Nat
  BY <1>1, <1>2 DEF head_part, Smaller
<1>5. tail_part \in Nat /\ (bounded => tail_part <= call.window.length)
  BY <1>1, <1>2, <1>4 DEF tail_part, by_suffix, Smaller
<1>6. NoJob \in Job
  BY DEF NoJob, Job, NoReply, Answer, NoTag
<1>7. ASSUME NEW f \in Nat, NEW n \in Nat, NEW s \in BOOLEAN, NEW e \in Nat
      PROVE  NewJob(f, n, s, e) \in Job
  BY <1>6 DEF NewJob, Job
<1>8. HeadJob \in Job
  BY <1>2, <1>4, <1>6, <1>7 DEF HeadJob, NoTag
<1>9. TailJob \in Job
  <2>1. CASE bounded
    <3>1. offset + call.window.length - tail_part \in Nat
      BY <1>2, <1>5, <2>1
    <3> QED
      BY <3>1, <1>5, <1>6, <1>7 DEF TailJob, NoTag
  <2>2. CASE ~bounded /\ tail_part # 0
    <3>1. by_suffix
      BY <2>2 DEF tail_part
    <3> QED
      BY <3>1, <1>5, <1>6, <1>7 DEF TailJob, NoTag
  <2>3. CASE tail_part = 0
    BY <2>3, <1>6 DEF TailJob
  <2> QED
    BY <2>1, <2>2, <2>3
<1> QED
  BY <1>1, <1>2, <1>3, <1>4, <1>5, <1>6, <1>8, <1>9 DEF bounded

\* The bytes a request is for lie in the object.
LEMMA WantedIn ==
    ASSUME NEW r \in Job, NEW total \in Nat
    PROVE  /\ FromByte(r, total) \in Nat /\ Until(r, total) \in Nat
           /\ Wanted(r, total) \in Nat
           /\ Wanted(r, total) > 0 => FromByte(r, total) + Wanted(r, total) = Until(r, total)
           /\ ~Satisfiable(r, total) => Wanted(r, total) = 0
           /\ Until(r, total) <= total
           /\ r.suffix => Wanted(r, total) = Smaller(r.length, total)
<1>1. r.first \in Nat /\ r.length \in Nat /\ r.suffix \in BOOLEAN
  BY DEF Job
<1> QED
  BY <1>1 DEF FromByte, Until, Wanted, Satisfiable, Smaller

\* An answer that get_range accepts has all the bytes wanted, also a 200 whose
\* body the callback has cut short (transport.cpp:819).
LEMMA AnswerIsWhole ==
    ASSUME object \in Version, NEW r \in Job, NEW a \in Answers(r),
           Possible(r, a), Answered(r, a), a.status # 416,
           ~(a.status = 200 /\ suffix_ignored(r))
    PROVE  stored(r, a) = Wanted(r, Sizes[object]) /\ ~version_changed(r)
<1> DEFINE total == Sizes[object]
           w == Wanted(r, total)
           from == FromByte(r, total)
<1>1. total \in Nat /\ w \in Nat /\ from \in Nat /\ wanted(r) = w
  BY EndsConstants, WantedIn DEF wanted, Wanted
<1>2. /\ a.sent \in Nat /\ a.fits \in BOOLEAN /\ a.broken \in BOOLEAN
      /\ a.status \in Statuses(r)
  BY <1>1 DEF Answers
<1>3. ~version_changed(r) /\ a.fits /\ Complete(r, a)
  BY DEF Answered
<1>4. CASE a.status = 206
  <2>1. Takes(r, a) /\ a.sent = w
    BY <1>1, <1>3, <1>4 DEF Takes, Answered
  <2> QED
    BY <1>1, <1>2, <1>3, <1>4, <2>1 DEF stored, Smaller
<1>5. CASE a.status = 200
  <2>1. Takes(r, a)
    BY <1>3, <1>5 DEF Takes, Answered
  <2>2. CASE a.broken
    BY <1>1, <1>2, <1>3, <1>5, <2>1, <2>2 DEF Complete, cut_short
  <2>3. CASE ~a.broken
    <3>1. a.sent = total
      BY <1>5, <2>3 DEF Possible, Body
    <3>2. w = IF from < Until(r, total) THEN Until(r, total) - from ELSE 0
      BY DEF Wanted, Satisfiable
    <3>3. Until(r, total) \in Nat /\ Until(r, total) <= total
      BY <1>1, WantedIn
    <3>4. stored(r, a) = IF a.sent < from THEN 0 ELSE Smaller(a.sent - from, w)
      BY <1>1, <1>5, <2>1 DEF stored
    <3>5. \A f, u, t, x \in Nat :
             u <= t /\ x = (IF f < u THEN u - f ELSE 0)
             => (IF t < f THEN 0 ELSE Smaller(t - f, x)) = x
      BY DEF Smaller
    <3>6. stored(r, a) = w
      <4> HIDE DEF w, from, total
      <4> QED
        BY <1>1, <3>1, <3>2, <3>3, <3>4, <3>5
    <3> QED
      BY <3>6, <1>3
  <2> QED
    BY <2>2, <2>3, <1>2
<1> QED
  BY <1>4, <1>5 DEF Answered

\* A callback stores within the buffer it was given.
LEMMA StoredType ==
    ASSUME object \in Version, NEW r \in Job, NEW a, NEW n \in Nat,
           NEW dest \in [1 .. n -> EndByte]
    PROVE  Stored(dest, r, a) \in [1 .. n -> EndByte]
<1>1. FromByte(r, Sizes[object]) \in Nat /\ object \in Nat
  BY EndsConstants, WantedIn
<1>2. ASSUME NEW i \in 1 .. n
      PROVE  <<object, FromByte(r, Sizes[object]) + i - 1>> \in EndByte
  <2>1. FromByte(r, Sizes[object]) + i - 1 \in Int
    BY <1>1
  <2> QED
    BY <1>1, <2>1 DEF EndByte
<1>3. DOMAIN dest = 1 .. n /\ \A i \in 1 .. n : dest[i] \in EndByte
  OBVIOUS
<1> QED
  BY <1>2, <1>3 DEF Stored

\* A reply of get_range is of one version of the object, whatever earlier
\* attempts have left in the buffer.
LEMMA AnswerIsOfOneVersion ==
    ASSUME object \in Version, NEW r \in Job, NEW a \in Answers(r),
           Possible(r, a), Answered(r, a), NEW dest,
           NEW reply, a.status = 416 => reply \in Unsatisfied(r),
           a.status # 416 => reply = Reply(r, a),
           NEW q, q = [r EXCEPT !.state = "replied", !.reply = reply]
    PROVE  reply \in Answer /\ OfOneVersion(q, Stored(dest, r, a))
<1> DEFINE total == Sizes[object]
<1>1. total \in Nat /\ Tag(object) \in Nat /\ Wanted(r, total) \in Nat
  BY EndsConstants, WantedIn
<1>2. /\ q.first = r.first /\ q.length = r.length /\ q.suffix = r.suffix
      /\ q.if_match = r.if_match /\ q.reply = reply
      /\ r.first \in Nat /\ r.length \in Nat /\ r.suffix \in BOOLEAN /\ r.if_match \in Nat
  BY DEF Job
<1>3. Wanted(q, total) = Wanted(r, total) /\ FromByte(q, total) = FromByte(r, total)
  BY <1>2 DEF Wanted, FromByte, Until, Satisfiable
<1>4. CASE a.status = 416
  <2>1. PICK e \in {NoTag, Tag(object)} :
            reply = [total |-> total, got |-> 0, etag |-> e,
                     suffix_ignored |-> r.suffix /\ total # 0]
    BY <1>4 DEF Unsatisfied
  <2>2. reply \in Answer
    BY <1>1, <1>2, <2>1 DEF Answer, NoTag
  <2>3. Nothing(q, object)
    BY <1>2, <1>4, <2>1 DEF Nothing, Answered
  <2> QED
    BY <2>1, <2>2, <2>3, <1>2 DEF OfOneVersion
<1>5. CASE a.status # 416
  <2>1. reply = [total |-> total, got |-> stored(r, a), etag |-> Tag(object),
                 suffix_ignored |-> r.suffix /\ a.status # 206 /\ suffix_ignored(r)]
    BY <1>5 DEF Reply
  <2>2. CASE a.status = 200 /\ suffix_ignored(r)
    <3>1. stored(r, a) = 0
      BY <2>2 DEF stored, Takes
    <3>2. r.suffix
      BY <2>2 DEF suffix_ignored
    <3>3. reply \in Answer
      BY <1>1, <2>1, <3>1, <3>2, <2>2 DEF Answer, suffix_ignored
    <3>4. reply.suffix_ignored = TRUE /\ reply.got = 0 /\ reply.etag = Tag(object)
      <4>1. a.status # 206
        BY <2>2
      <4>2. (r.suffix /\ a.status # 206 /\ suffix_ignored(r)) = TRUE
        BY <4>1, <2>2, <3>2
      <4> QED
        BY <2>1, <3>1, <4>2
    <3>5. Nothing(q, object)
      <4>1. q.suffix = TRUE
        BY <1>2, <3>2
      <4> QED
        BY <1>2, <3>4, <4>1 DEF Nothing
    <3> QED
      BY <3>3, <3>5, <2>1, <1>2 DEF OfOneVersion
  <2>3. CASE ~(a.status = 200 /\ suffix_ignored(r))
    <3>1. stored(r, a) = Wanted(r, total) /\ ~version_changed(r)
      BY <1>5, <2>3, AnswerIsWhole
    <3>2. a.status \in {200, 206}
      BY <1>5 DEF Answered
    <3>3. reply.suffix_ignored = FALSE /\ reply.got = Wanted(r, total) /\ reply.etag = Tag(object)
      BY <2>1, <2>3, <3>1, <3>2
    <3>4. reply \in Answer
      BY <2>1, <3>1, <3>3, <1>1 DEF Answer
    <3>5. r.if_match = NoTag \/ Tag(object) \in {NoTag, r.if_match}
      BY <3>1 DEF version_changed
    <3>6. \A i \in DOMAIN Stored(dest, r, a) :
             i <= reply.got => Stored(dest, r, a)[i] = <<object, FromByte(r, total) + i - 1>>
      BY <3>1, <3>3 DEF Stored
    <3>7. Whole(q, object, Stored(dest, r, a))
      BY <3>3, <3>5, <3>6, <1>2, <1>3 DEF Whole
    <3> QED
      BY <3>4, <3>7, <2>1, <1>2 DEF OfOneVersion
  <2> QED
    BY <2>2, <2>3
<1> QED
  BY <1>4, <1>5
-----------------------------------------------------------------------------
\* A call that has not sent anything yet.
LEMMA EndsInitially == EndsInit => EndsIInv
<1> SUFFICES ASSUME EndsInit PROVE EndsIInv
  OBVIOUS
<1>1. call \in Call /\ call.head \in Nat /\ call.tail \in Nat
  BY EndsAssumption DEF EndsInit, Call
<1>2. NoByte \in EndByte
  BY DEF NoByte, EndByte
<1>3. EndsTypeOK
  <2>1. object \in Version
    BY EndsConstants DEF EndsInit
  <2>2. job \in [Jobs -> Job]
    BY <1>1, CallTypes DEF EndsInit
  <2>3. head \in [1 .. call.head -> EndByte] /\ tail \in [1 .. call.tail -> EndByte]
    BY <1>2 DEF EndsInit, Blank
  <2>4. result \in [size : Nat, etag : Nat]
    BY DEF EndsInit, NoTag
  <2> QED
    BY <1>1, <2>1, <2>2, <2>3, <2>4 DEF EndsInit, EndsTypeOK
<1>4. Requested /\ Replies /\ EndsAreSound /\ at # "file tail"
  BY DEF EndsInit, Requested, Replies, EndsAreSound, EndsInPlace, EndsOfOneVersion
<1> QED
  BY <1>3, <1>4 DEF EndsIInv

\* What read_ends knows of the replies to its first requests depends on no other.
LEMMA SameKnown ==
    ASSUME call' = call, job'["head"] = job["head"], job'["tail"] = job["tail"]
    PROVE  /\ known' = known /\ visible' = visible /\ etag' = etag
           /\ head_length' = head_length /\ tail_length' = tail_length
           /\ Disagree' = Disagree /\ TailReceived' = TailReceived
           /\ LastJob' = LastJob
<1>1. /\ known' = known /\ etag' = etag /\ head_reply' = head_reply /\ tail_reply' = tail_reply
      /\ head_sent' = head_sent /\ tail_sent' = tail_sent
  BY DEF known, etag, head_reply, tail_reply, head_sent, tail_sent
<1>2. /\ offset' = offset /\ bounded' = bounded /\ head_part' = head_part
      /\ tail_part' = tail_part
  BY DEF offset, bounded, head_part, tail_part, by_suffix
<1>3. visible' = visible
  BY <1>1, <1>2 DEF visible, visible_size
<1>4. head_length' = head_length /\ tail_length' = tail_length
  BY <1>3 DEF head_length, tail_length
<1> QED
  BY <1>1, <1>2, <1>3, <1>4 DEF Disagree, TailReceived, LastJob

\* The first requests depend on the call alone.
LEMMA SameJobs ==
    ASSUME call' = call
    PROVE  HeadJob' = HeadJob /\ TailJob' = TailJob
<1>1. /\ offset' = offset /\ bounded' = bounded /\ head_part' = head_part
      /\ tail_part' = tail_part /\ by_suffix' = by_suffix
  BY DEF offset, bounded, head_part, tail_part, by_suffix
<1> QED
  BY <1>1 DEF HeadJob, TailJob

\* One step of a job: it keeps its request, and a reply is of one version.
JobStep(j, w) ==
    /\ job[j].state = "running"
    /\ w \in Job /\ SameRequest(w, job[j]) /\ w.state # "none"
    /\ job' = [job EXCEPT ![j] = w]
    /\ UNCHANGED <<object, call, at, result>>
    /\ head' \in [1 .. call.head -> EndByte] /\ tail' \in [1 .. call.tail -> EndByte]
    /\ j # "head" => head' = head
    /\ j = "head" => tail' = tail
    /\ w.state = "replied" => OfOneVersion(w, IF j = "head" THEN head' ELSE tail')

\* A job with its reply.
LEMMA RepliedJob ==
    ASSUME NEW r \in Job, NEW x \in Answer, r.state = "running"
    PROVE  LET w == [r EXCEPT !.state = "replied", !.reply = x]
           IN  w \in Job /\ SameRequest(w, r) /\ w.state = "replied"
<1> DEFINE w == [r EXCEPT !.state = "replied", !.reply = x]
<1>1. w \in Job
  BY DEF Job
<1>2. /\ w.first = r.first /\ w.length = r.length /\ w.suffix = r.suffix
      /\ w.if_match = r.if_match /\ w.state = "replied"
  BY DEF Job
<1> HIDE DEF w
<1>3. SameRequest(w, r)
  BY <1>2 DEF SameRequest
<1> QED
  BY <1>1, <1>2, <1>3 DEF w

\* An answer is one step of its job: a reply, a failure or another attempt.
LEMMA AnsweredStep ==
    ASSUME EndsTypeOK, NEW j \in Jobs, get_range(j)
    PROVE  \E w : JobStep(j, w)
<1> DEFINE r == job[j]
<1>1. r \in Job /\ r.state = "running" /\ object \in Version /\ call \in Call
  BY DEF EndsTypeOK, get_range
<1>2. PICK a \in Answers(r) :
        /\ Possible(r, a)
        /\ head' = IF j = "head" THEN Stored(head, r, a) ELSE head
        /\ tail' = IF j # "head" THEN Stored(tail, r, a) ELSE tail
        /\ \/ /\ Answered(r, a)
              /\ \E reply \in IF a.status = 416 THEN Unsatisfied(r) ELSE {Reply(r, a)} :
                   job' = [job EXCEPT ![j].state = "replied", ![j].reply = reply]
           \/ /\ a.status = 403
              /\ \E why \in Reasons \ r.resent :
                   job' = [job EXCEPT ![j].resent = @ \cup {why}]
           \/ /\ ~Answered(r, a) /\ Transient(r, a)
              /\ job' = [job EXCEPT ![j].attempt = @ + 1]
           \/ /\ ~Answered(r, a) /\ ~Transient(r, a)
              /\ job' = [job EXCEPT ![j].state = "failed"]
  BY DEF get_range
<1>3. UNCHANGED <<object, call, at, result>>
  BY DEF get_range
<1>4. /\ call.head \in Nat /\ call.tail \in Nat
      /\ head \in [1 .. call.head -> EndByte] /\ tail \in [1 .. call.tail -> EndByte]
  BY <1>1, CallTypes DEF EndsTypeOK
<1>5. /\ head' \in [1 .. call.head -> EndByte] /\ tail' \in [1 .. call.tail -> EndByte]
      /\ (j # "head" => head' = head) /\ (j = "head" => tail' = tail)
  BY <1>1, <1>2, <1>4, StoredType
<1>6. ASSUME NEW w \in Job, SameRequest(w, r), w.state # "none", w.state # "replied",
             job' = [job EXCEPT ![j] = w]
      PROVE  JobStep(j, w)
  BY <1>1, <1>3, <1>5, <1>6 DEF JobStep
<1>7. CASE /\ Answered(r, a)
           /\ \E reply \in IF a.status = 416 THEN Unsatisfied(r) ELSE {Reply(r, a)} :
                job' = [job EXCEPT ![j].state = "replied", ![j].reply = reply]
  <2>1. PICK reply \in IF a.status = 416 THEN Unsatisfied(r) ELSE {Reply(r, a)} :
          job' = [job EXCEPT ![j].state = "replied", ![j].reply = reply]
    BY <1>7
  <2> DEFINE w == [r EXCEPT !.state = "replied", !.reply = reply]
             dest == IF j = "head" THEN head ELSE tail
             n == IF j = "head" THEN call.head ELSE call.tail
  <2>2. n \in Nat /\ dest \in [1 .. n -> EndByte]
    BY <1>4
  <2>3. reply \in Answer /\ OfOneVersion(w, Stored(dest, r, a))
    <3>1. object \in Version /\ r \in Job /\ Possible(r, a) /\ Answered(r, a)
      BY <1>1, <1>2, <1>7
    <3>2. a \in Answers(r)
      OBVIOUS
    <3>3. /\ a.status = 416 => reply \in Unsatisfied(r)
          /\ a.status # 416 => reply = Reply(r, a)
      OBVIOUS
    <3> HIDE DEF n, dest, r
    <3> QED
      BY <2>2, <3>1, <3>2, <3>3, AnswerIsOfOneVersion
  <2>4. reply \in Answer
    BY <2>3
  <2>5. (IF j = "head" THEN head' ELSE tail') = Stored(dest, r, a)
    BY <1>2
  <2>6. w \in Job /\ SameRequest(w, r) /\ w.state = "replied"
    <3> HIDE DEF r
    <3> QED
      BY <1>1, <2>4, RepliedJob
  <2>7. job' = [job EXCEPT ![j] = w]
    BY <2>1 DEF EndsTypeOK
  <2>8. OfOneVersion(w, IF j = "head" THEN head' ELSE tail')
    BY <2>3, <2>5
  <2>9. JobStep(j, w)
    <3> HIDE DEF w, dest, n
    <3> QED
      BY <1>1, <1>3, <1>5, <2>6, <2>7, <2>8 DEF JobStep
  <2> QED
    BY <2>9
<1>8. CASE \E why \in Reasons \ r.resent : job' = [job EXCEPT ![j].resent = @ \cup {why}]
  <2>1. PICK why \in Reasons : job' = [job EXCEPT ![j].resent = @ \cup {why}]
    BY <1>8
  <2> DEFINE w == [r EXCEPT !.resent = @ \cup {why}]
  <2>2. w \in Job /\ SameRequest(w, r) /\ w.state = "running"
    BY <1>1 DEF SameRequest, Job, Reasons
  <2>3. job' = [job EXCEPT ![j] = w]
    BY <2>1 DEF EndsTypeOK
  <2> HIDE DEF w
  <2> QED
    BY <1>6, <2>2, <2>3
<1>9. CASE job' = [job EXCEPT ![j].attempt = @ + 1]
  <2> DEFINE w == [r EXCEPT !.attempt = @ + 1]
  <2>1. w \in Job /\ SameRequest(w, r) /\ w.state = "running"
    BY <1>1 DEF SameRequest, Job
  <2>2. job' = [job EXCEPT ![j] = w]
    BY <1>9 DEF EndsTypeOK
  <2> HIDE DEF w
  <2> QED
    BY <1>6, <2>1, <2>2
<1>10. CASE job' = [job EXCEPT ![j].state = "failed"]
  <2> DEFINE w == [r EXCEPT !.state = "failed"]
  <2>1. w \in Job /\ SameRequest(w, r) /\ w.state = "failed"
    BY <1>1 DEF SameRequest, Job
  <2>2. job' = [job EXCEPT ![j] = w]
    BY <1>10 DEF EndsTypeOK
  <2> HIDE DEF w
  <2> QED
    BY <1>6, <2>1, <2>2
<1> QED
  BY <1>2, <1>7, <1>8, <1>9, <1>10

\* A job that fails without an answer keeps its request.
LEMMA GiveUpStep ==
    ASSUME EndsTypeOK, NEW j \in Jobs, GiveUp(j)
    PROVE  \E w : JobStep(j, w)
<1> DEFINE r == job[j]
           w == [r EXCEPT !.state = "failed"]
<1>1. r \in Job /\ r.state = "running"
  BY DEF EndsTypeOK, GiveUp
<1>2. w \in Job /\ SameRequest(w, r) /\ w.state = "failed"
  BY <1>1 DEF SameRequest, Job
<1>3. job' = [job EXCEPT ![j] = w]
  BY DEF EndsTypeOK, GiveUp
<1>4. JobStep(j, w)
  <2> HIDE DEF w
  <2> QED
    BY <1>1, <1>2, <1>3 DEF JobStep, GiveUp, EndsTypeOK
<1> QED
  BY <1>4

\* A step of a job disturbs nothing that read_ends has from the others.
LEMMA JobSteps ==
    ASSUME EndsIInv, NEW j \in Jobs, NEW w, JobStep(j, w)
    PROVE  EndsIInv'
<1>1. /\ job \in [Jobs -> Job] /\ w \in Job /\ job'[j] = w
      /\ \A k \in Jobs : k # j => job'[k] = job[k]
      /\ job[j].state = "running"
  BY DEF EndsIInv, EndsTypeOK, JobStep
<1>2. UNCHANGED <<object, call, at, result>>
  BY DEF JobStep
<1>3. EndsTypeOK'
  BY DEF EndsIInv, EndsTypeOK, JobStep
<1>4. at \notin {"start", "file head", "file tail", "ok"}
  <2>1. NoJob.state = "none"
    BY DEF NoJob
  <2>2. Requested
    BY DEF EndsIInv
  <2>3. job[j] # NoJob
    BY <1>1, <2>1
  <2> QED
    BY <1>1, <2>2, <2>3 DEF Requested
<1>5. CASE at = "last"
  <2>1. j = "last"
    BY <1>1, <1>5 DEF EndsIInv, Requested, Jobs
  <2>2. job'["head"] = job["head"] /\ job'["tail"] = job["tail"] /\ job'["last"] = w
    BY <1>1, <2>1 DEF Jobs
  <2>3. SameRequest(w, LastJob)
    BY <1>5, <2>1 DEF EndsIInv, Requested, JobStep, SameRequest
  <2>4. Requested'
    BY <1>2, <1>5, <2>2, <2>3, SameKnown, SameJobs DEF EndsIInv, Requested, remote
  <2>5. Replies'
    BY <1>2, <1>5, <2>1, <2>2 DEF EndsIInv, Replies, JobStep
  <2> QED
    BY <1>2, <1>3, <1>5, <2>4, <2>5 DEF EndsIInv, EndsAreSound, EndsInPlace, EndsOfOneVersion
<1>6. CASE at = "ends"
  <2>1. j # "last"
    BY <1>1, <1>6 DEF EndsIInv, Requested, NoJob
  <2>2. /\ SameRequest(job'["head"], HeadJob) /\ SameRequest(job'["tail"], TailJob)
        /\ job'["last"] = NoJob
    BY <1>1, <1>6, <2>1 DEF EndsIInv, Requested, JobStep, SameRequest, Jobs
  <2>3. Requested'
    BY <1>2, <1>6, <2>2, SameJobs DEF EndsIInv, Requested, remote
  <2>4. Replies'
    BY <1>1, <1>2, <1>6, <2>1 DEF EndsIInv, Replies, JobStep, Jobs
  <2> QED
    BY <1>2, <1>3, <1>6, <2>3, <2>4 DEF EndsIInv, EndsAreSound, EndsInPlace, EndsOfOneVersion
<1>7. CASE at = "info"
  <2>1. j = "head"
    BY <1>1, <1>7 DEF EndsIInv, Requested, NoJob, Jobs
  <2>2. job'["tail"] = NoJob /\ job'["last"] = NoJob
    BY <1>1, <1>7, <2>1 DEF EndsIInv, Requested, Jobs
  <2>3. Requested' /\ Replies'
    BY <1>2, <1>7, <2>2 DEF EndsIInv, Requested, Replies, remote
  <2> QED
    BY <1>2, <1>3, <1>7, <2>3 DEF EndsIInv, EndsAreSound, EndsInPlace, EndsOfOneVersion
<1>8. CASE at = "failed"
  BY <1>2, <1>3, <1>8
     DEF EndsIInv, Requested, Replies, EndsAreSound, EndsInPlace, EndsOfOneVersion
<1> QED
  BY <1>4, <1>5, <1>6, <1>7, <1>8 DEF EndsIInv, EndsTypeOK
-----------------------------------------------------------------------------
\* Both first requests have been answered, and the answers go together.
Agreed ==
    /\ EndsTypeOK /\ Requested /\ Replies
    /\ at \in {"ends", "last"}
    /\ job["head"].state \in {"none", "replied"} /\ job["tail"].state \in {"none", "replied"}
    /\ ~Disagree

\* What the replies say is in numbers, and both lengths are within them.
LEMMA KnownTypes ==
    ASSUME EndsTypeOK
    PROVE  /\ job["head"] \in Job /\ job["tail"] \in Job /\ job["last"] \in Job
           /\ \A r \in Job : /\ r.first \in Nat /\ r.length \in Nat /\ r.suffix \in BOOLEAN
                             /\ r.if_match \in Nat /\ r.reply \in Answer
           /\ \A x \in Answer : /\ x.total \in Nat /\ x.got \in Nat /\ x.etag \in Nat
                                /\ x.suffix_ignored \in BOOLEAN
           /\ known \in Answer /\ etag \in Nat
           /\ visible \in Nat /\ head_length \in Nat /\ tail_length \in Nat
           /\ head_length <= visible /\ tail_length <= visible
           /\ head_length <= call.head /\ tail_length <= call.tail
<1>1. job["head"] \in Job /\ job["tail"] \in Job /\ job["last"] \in Job /\ call \in Call
  BY DEF EndsTypeOK, Jobs
<1>2. \A r \in Job : /\ r.first \in Nat /\ r.length \in Nat /\ r.suffix \in BOOLEAN
                     /\ r.if_match \in Nat /\ r.reply \in Answer
  BY DEF Job
<1>3. \A x \in Answer : /\ x.total \in Nat /\ x.got \in Nat /\ x.etag \in Nat
                        /\ x.suffix_ignored \in BOOLEAN
  BY DEF Answer
<1>4. known \in Answer
  BY <1>1, <1>2 DEF known, head_reply, tail_reply
<1>5. etag \in Nat
  BY <1>1, <1>2, <1>3, <1>4 DEF etag, tail_reply
<1>6. visible \in Nat /\ call.head \in Nat /\ call.tail \in Nat
  BY <1>1, <1>3, <1>4, CallTypes DEF visible
<1>7. /\ head_length \in Nat /\ tail_length \in Nat
      /\ head_length <= visible /\ tail_length <= visible
      /\ head_length <= call.head /\ tail_length <= call.tail
  BY <1>6 DEF head_length, tail_length, Smaller
<1> QED
  BY <1>1, <1>2, <1>3, <1>4, <1>5, <1>6, <1>7

\* What the first requests ask for.
LEMMA HeadRequest ==
    ASSUME Agreed
    PROVE  /\ head_sent <=> head_part # 0
           /\ head_sent => /\ job["head"].first = offset /\ job["head"].length = head_part
                           /\ job["head"].suffix = FALSE
                           /\ job["head"].state = "replied"
<1>1. call \in Call /\ SameRequest(job["head"], HeadJob)
  BY DEF Agreed, EndsTypeOK, Requested
<1>2. offset \in Nat /\ head_part \in Nat
  BY <1>1, CallTypes
<1>3. head_part = 0 => HeadJob.state = "none"
  BY DEF HeadJob, NoJob
<1>4. head_part # 0 => /\ HeadJob.state = "running" /\ HeadJob.first = offset
                       /\ HeadJob.length = head_part /\ HeadJob.suffix = FALSE
  <2>1. head_part # 0 => HeadJob = NewJob(offset, head_part, FALSE, NoTag)
    BY DEF HeadJob
  <2> QED
    BY <2>1 DEF NewJob, NoJob
<1> QED
  BY <1>1, <1>3, <1>4 DEF Agreed, SameRequest, head_sent

\* A bounded window asks for its tail by an offset, an open one by a suffix.
LEMMA TailRequest ==
    ASSUME Agreed
    PROVE  /\ tail_sent <=> tail_part # 0
           /\ tail_sent => job["tail"].state = "replied"
           /\ tail_sent /\ by_suffix => /\ job["tail"].length = tail_part
                                       /\ job["tail"].suffix = TRUE
           /\ tail_sent /\ ~by_suffix =>
                 /\ job["tail"].first = offset + call.window.length - tail_part
                 /\ job["tail"].length = tail_part /\ job["tail"].suffix = FALSE
           /\ tail_sent => (by_suffix <=> ~bounded)
           /\ bounded => tail_part <= call.window.length
<1>1. call \in Call /\ SameRequest(job["tail"], TailJob)
  BY DEF Agreed, EndsTypeOK, Requested
<1>2. /\ offset \in Nat /\ tail_part \in Nat /\ head_part \in Nat /\ call.tail \in Nat
      /\ bounded => call.window.length \in Nat
  BY <1>1, CallTypes
<1>3. tail_part = 0 => TailJob.state = "none"
  BY DEF TailJob, NoJob
<1>4. tail_part # 0 /\ by_suffix =>
         /\ TailJob.state = "running" /\ TailJob.length = tail_part /\ TailJob.suffix = TRUE
  <2>1. tail_part # 0 /\ by_suffix => TailJob = NewJob(0, tail_part, TRUE, NoTag)
    BY DEF TailJob
  <2> QED
    BY <2>1 DEF NewJob, NoJob
<1>5. tail_part # 0 => (by_suffix <=> ~bounded)
  BY DEF tail_part, by_suffix
<1>6. bounded => tail_part <= call.window.length
  BY <1>2 DEF tail_part, by_suffix, Smaller
<1>7. tail_part # 0 /\ ~by_suffix =>
         /\ TailJob.state = "running"
         /\ TailJob.first = offset + call.window.length - tail_part
         /\ TailJob.length = tail_part /\ TailJob.suffix = FALSE
  <2>1. tail_part # 0 /\ ~by_suffix =>
           TailJob = NewJob(offset + call.window.length - tail_part, tail_part, FALSE, NoTag)
    BY DEF TailJob
  <2> QED
    BY <2>1 DEF NewJob, NoJob
<1> QED
  BY <1>1, <1>3, <1>4, <1>5, <1>6, <1>7 DEF Agreed, SameRequest, tail_sent

\* The head of the visible bytes is in the caller's buffer, of one version.
LEMMA HeadIsThere ==
    ASSUME Agreed
    PROVE  /\ ~head_sent => head_length = 0
           /\ head_sent => \E v \in Version :
                 /\ known.total = Sizes[v]
                 /\ head_length > 0 => known.etag = Tag(v)
                 /\ \A i \in 1 .. head_length : head[i] = <<v, offset + i - 1>>
<1> DEFINE r == job["head"]
<1>1. EndsTypeOK /\ call \in Call
  BY DEF Agreed, EndsTypeOK
<1>2. /\ offset \in Nat /\ head_part \in Nat /\ call.head \in Nat /\ bounded \in BOOLEAN
      /\ bounded => call.window.length \in Nat /\ visible = call.window.length
  BY <1>1, CallTypes DEF visible, visible_size
<1>3. /\ visible \in Nat /\ head_length \in Nat /\ head_length = Smaller(call.head, visible)
      /\ r \in Job
  BY <1>1, KnownTypes DEF head_length
<1>4. ASSUME ~head_sent PROVE head_length = 0
  <2>1. head_part = 0
    BY <1>4, HeadRequest
  <2>2. CASE bounded
    BY <1>2, <1>3, <2>1, <2>2 DEF head_part, Smaller
  <2>3. CASE ~bounded
    <3>1. call.head = 0
      BY <2>1, <2>3, <1>2 DEF head_part
    <3> QED
      BY <1>2, <1>3, <3>1 DEF Smaller
  <2> QED
    BY <2>2, <2>3, <1>2
<1>5. ASSUME head_sent
      PROVE  \E v \in Version :
                 /\ known.total = Sizes[v]
                 /\ head_length > 0 => known.etag = Tag(v)
                 /\ \A i \in 1 .. head_length : head[i] = <<v, offset + i - 1>>
  <2>1. /\ r.first = offset /\ r.length = head_part /\ r.suffix = FALSE
        /\ r.state = "replied" /\ head_part # 0 /\ known = r.reply
    BY <1>5, HeadRequest DEF known, head_reply
  <2>2. OfOneVersion(r, head)
    BY <2>1 DEF Agreed, Replies
  <2>3. PICK v \in Version : r.reply.total = Sizes[v] /\ (Whole(r, v, head) \/ Nothing(r, v))
    BY <2>2 DEF OfOneVersion
  <2> DEFINE total == Sizes[v]
  <2>4. total \in Nat
    BY EndsConstants
  <2>5. FromByte(r, total) = offset /\ Until(r, total) = Smaller(offset + head_part, total)
    BY <2>1 DEF FromByte, Until
  <2>6. bounded => r.reply.got = head_part /\ head_part = head_length
    <3>1. bounded => r.reply.got = head_part
      BY <1>5 DEF Agreed, Disagree, head_reply
    <3>2. bounded => head_part = head_length
      BY <1>2, <1>3 DEF head_part
    <3> QED
      BY <3>1, <3>2
  <2>7. ~bounded => /\ visible = IF total > offset THEN total - offset ELSE 0
                    /\ call.head <= head_part
    BY <1>2, <2>1, <2>3 DEF visible, visible_size, head_part
  <2>8. CASE Whole(r, v, head)
    <3>1. r.reply.got = Wanted(r, total) /\ r.reply.etag = Tag(v)
      BY <2>8 DEF Whole
    <3>2. head_length <= r.reply.got
      <4>1. CASE bounded
        BY <2>6, <4>1, <1>3
      <4>2. CASE ~bounded
        <5> HIDE DEF r, total
        <5> QED
          BY <1>2, <1>3, <2>4, <2>5, <2>7, <3>1, <4>2 DEF Wanted, Satisfiable, Smaller
      <4> QED
        BY <4>1, <4>2
    <3>3. r.reply.got \in Nat /\ DOMAIN head = 1 .. call.head /\ head_length <= call.head
      BY <1>1, <1>3, KnownTypes DEF EndsTypeOK
    <3>4. ASSUME NEW i \in 1 .. head_length
          PROVE  head[i] = <<v, offset + i - 1>>
      <4>1. i \in 1 .. call.head /\ i <= r.reply.got
        BY <1>2, <1>3, <3>2, <3>3
      <4> QED
        BY <2>5, <2>8, <3>3, <4>1 DEF Whole
    <3> QED
      BY <2>1, <2>3, <3>1, <3>4
  <2>9. CASE Nothing(r, v)
    <3>1. r.reply.got = 0 /\ offset >= total
      BY <2>1, <2>9 DEF Nothing
    <3>2. ~bounded
      BY <2>6, <2>1, <3>1
    <3>3. visible = 0
      BY <3>1, <3>2, <2>4, <2>7, <1>2
    <3>4. head_length = 0
      BY <3>3, <1>2, <1>3 DEF Smaller
    <3> QED
      BY <3>4, <2>1, <2>3
  <2> QED
    BY <2>3, <2>8, <2>9
<1> QED
  BY <1>4, <1>5

\* A tail that was received ends where the visible bytes do, once it is moved.
LEMMA TailIsThere ==
    ASSUME Agreed, at = "ends", TailReceived, tail_length > 0
    PROVE  \E w \in Version :
              /\ tail_reply.etag = Tag(w)
              /\ ~bounded => known.total = Sizes[w]
              /\ \A i \in 1 .. tail_length :
                    SuffixMoved[i] = <<w, offset + visible - tail_length + i - 1>>
<1> DEFINE r == job["tail"]
<1>1. EndsTypeOK /\ call \in Call
  BY DEF Agreed, EndsTypeOK
<1>2. /\ offset \in Nat /\ tail_part \in Nat /\ call.tail \in Nat /\ bounded \in BOOLEAN
      /\ bounded => call.window.length \in Nat /\ visible = call.window.length
  BY <1>1, CallTypes DEF visible, visible_size
<1>3. /\ visible \in Nat /\ tail_length \in Nat /\ tail_length = Smaller(call.tail, visible)
      /\ tail_length <= call.tail
      /\ r \in Job /\ r.reply.got \in Nat
  BY <1>1, KnownTypes DEF tail_length
<1>4. DOMAIN tail = 1 .. call.tail
  BY <1>1 DEF EndsTypeOK
<1>5. tail_sent /\ ~r.reply.suffix_ignored /\ tail_reply = r.reply
  BY DEF TailReceived, tail_reply
<1>6. r.state = "replied" /\ tail_part # 0
  BY <1>5, TailRequest
<1>7. PICK w \in Version : r.reply.total = Sizes[w] /\ (Whole(r, w, tail) \/ Nothing(r, w))
  <2>1. OfOneVersion(r, tail)
    BY <1>6 DEF Agreed, Replies
  <2> QED
    BY <2>1 DEF OfOneVersion
<1> DEFINE total == Sizes[w]
<1>8. total \in Nat
  BY EndsConstants
<1>9. known.total = total
  <2>1. CASE head_sent
    BY <2>1, <1>5, <1>7 DEF Agreed, Disagree, same_version, known, tail_reply
  <2>2. CASE ~head_sent
    BY <2>2, <1>7 DEF known, tail_reply
  <2> QED
    BY <2>1, <2>2
<1>10. CASE bounded
  <2>1. /\ ~by_suffix /\ r.first = offset + call.window.length - tail_part
        /\ r.length = tail_part /\ r.suffix = FALSE
    BY <1>5, <1>10, TailRequest
  <2>2. r.reply.got = tail_part
    BY <1>5, <1>10 DEF Agreed, Disagree
  <2>3. Whole(r, w, tail)
    <3>1. CASE Nothing(r, w)
      BY <3>1, <1>6, <2>2 DEF Nothing
    <3> QED
      BY <1>7, <3>1
  <2>4. tail_part = tail_length
    BY <1>2, <1>3, <1>6, <1>10, <2>1 DEF tail_part
  <2>5. ASSUME NEW i \in 1 .. tail_length
        PROVE  SuffixMoved[i] = <<w, offset + visible - tail_length + i - 1>>
    <3>1. i \in 1 .. call.tail /\ i <= r.reply.got
      BY <1>2, <1>3, <2>2, <2>4
    <3>2. SuffixMoved[i] = tail[i]
      BY <1>4, <2>1, <3>1 DEF SuffixMoved
    <3>3. FromByte(r, total) = offset + visible - tail_length
      BY <1>2, <1>10, <2>1, <2>4 DEF FromByte
    <3> QED
      BY <1>4, <2>3, <3>1, <3>2, <3>3 DEF Whole
  <2> QED
    BY <1>5, <2>3, <2>5, <1>10 DEF Whole
<1>11. CASE ~bounded
  <2>1. by_suffix /\ r.length = tail_part /\ r.suffix = TRUE /\ tail_part = call.tail
    BY <1>5, <1>11, TailRequest DEF tail_part
  <2>2. visible = IF total > offset THEN total - offset ELSE 0
    BY <1>9, <1>11 DEF visible, visible_size
  <2>3. Whole(r, w, tail)
    <3>1. CASE Nothing(r, w)
      <4>1. total = 0
        BY <3>1, <1>5, <2>1 DEF Nothing
      <4>2. tail_length = 0
        BY <4>1, <2>2, <1>2, <1>3 DEF Smaller
      <4> QED
        BY <4>2, <1>3
    <3> QED
      BY <1>7, <3>1
  <2>4. r.reply.got = Smaller(call.tail, total)
    BY <1>3, <1>8, <2>1, <2>3, WantedIn DEF Whole
  <2>5. FromByte(r, total) = total - Smaller(call.tail, total)
    BY <2>1 DEF FromByte
  <2>6. visible = total - offset /\ tail_length <= r.reply.got
    BY <1>2, <1>3, <1>8, <2>2, <2>4 DEF Smaller
  <2>7. ASSUME NEW i \in 1 .. tail_length
        PROVE  SuffixMoved[i] = <<w, offset + visible - tail_length + i - 1>>
    <3> DEFINE k == r.reply.got - tail_length + i
    <3>1. k \in 1 .. call.tail /\ k <= r.reply.got /\ i \in 1 .. call.tail
      BY <1>2, <1>3, <1>8, <2>4, <2>6 DEF Smaller
    <3>2. SuffixMoved[i] = tail[k]
      BY <1>3, <1>4, <1>5, <2>1, <3>1 DEF SuffixMoved
    <3>3. FromByte(r, total) + k - 1 = offset + visible - tail_length + i - 1
      <4>1. FromByte(r, total) = total - r.reply.got /\ total = offset + visible
        BY <1>2, <1>3, <1>8, <2>4, <2>5, <2>6
      <4>2. \A t, g, l, o, v \in Nat : t = o + v => t - g + (g - l + i) - 1 = o + v - l + i - 1
        OBVIOUS
      <4> QED
        BY <1>2, <1>3, <1>8, <4>1, <4>2
    <3>4. tail[k] = <<w, FromByte(r, total) + k - 1>>
      <4> HIDE DEF k
      <4> QED
        BY <1>4, <2>3, <3>1 DEF Whole
    <3> QED
      BY <3>2, <3>3, <3>4
  <2> QED
    BY <1>5, <1>9, <2>3, <2>7 DEF Whole
<1> QED
  BY <1>10, <1>11, <1>2

\* When the head is all that is visible, the tail is its end.
LEMMA TailIsInHead ==
    ASSUME Agreed, tail_length > 0, visible <= head_length
    PROVE  /\ head_sent
           /\ \A i \in 1 .. tail_length :
                 /\ visible - tail_length + i \in 1 .. head_length
                 /\ TailFromHead[i] = head[visible - tail_length + i]
<1>1. /\ EndsTypeOK /\ call.tail \in Nat
      /\ visible \in Nat /\ tail_length \in Nat /\ head_length \in Nat
      /\ tail_length <= visible /\ tail_length <= call.tail
  BY KnownTypes, CallTypes DEF Agreed, EndsTypeOK
<1>2. head_sent
  <2>1. head_length # 0
    BY <1>1
  <2> QED
    BY <2>1, HeadIsThere
<1>3. DOMAIN tail = 1 .. call.tail
  BY <1>1 DEF EndsTypeOK
<1>4. \A i \in 1 .. tail_length :
         /\ visible - tail_length + i \in 1 .. head_length
         /\ i \in 1 .. call.tail /\ i <= tail_length
  BY <1>1
<1> QED
  BY <1>2, <1>3, <1>4 DEF TailFromHead

\* The tail is asked for again only where the window is open, and then on the
\* version of the first answers.
LEMMA LastIsThere ==
    ASSUME Agreed, at = "last", job["last"].state = "replied",
           same_version(job["last"].reply, known)
    PROVE  \E u \in Version :
              /\ known.total = Sizes[u]
              /\ job["last"].reply.etag = Tag(u)
              /\ etag = NoTag \/ Tag(u) \in {NoTag, etag}
              /\ \A i \in 1 .. tail_length :
                    tail[i] = <<u, offset + visible - tail_length + i - 1>>
<1> DEFINE r == job["last"]
<1>1. EndsTypeOK /\ call \in Call /\ Requested
  BY DEF Agreed, EndsTypeOK
<1>2. /\ offset \in Nat /\ call.tail \in Nat /\ bounded \in BOOLEAN
      /\ head_part \in Nat /\ call.head \in Nat
      /\ bounded => call.window.length \in Nat /\ visible = call.window.length
  BY <1>1, CallTypes DEF visible, visible_size
<1>3. /\ visible \in Nat /\ tail_length \in Nat /\ tail_length <= visible
      /\ tail_length <= call.tail /\ tail_length = Smaller(call.tail, visible)
      /\ etag \in Nat /\ r \in Job /\ r.reply.got \in Nat
  BY <1>1, KnownTypes DEF tail_length
<1>4. tail_length > 0 /\ ~TailReceived /\ visible > head_length
  BY <1>1 DEF Requested
<1>5. ~bounded
  <2>1. SUFFICES ASSUME bounded PROVE FALSE
    OBVIOUS
  <2>2. CASE tail_sent
    <3>1. job["tail"].suffix = FALSE /\ job["tail"].state = "replied"
      BY <2>1, <2>2, TailRequest
    <3>2. OfOneVersion(job["tail"], <<>>)
      BY <3>1 DEF Agreed, Replies
    <3>3. ~job["tail"].reply.suffix_ignored
      BY <3>1, <3>2 DEF OfOneVersion, Whole, Nothing
    <3> QED
      BY <1>4, <2>2, <3>3 DEF TailReceived, tail_reply
  <2>3. CASE ~tail_sent
    <3>1. tail_part = 0
      BY <2>3, TailRequest
    <3>2. ~by_suffix
      BY <2>1 DEF by_suffix
    <3>3. call.window.length <= head_part
      BY <1>2, <1>3, <1>4, <2>1, <3>1, <3>2 DEF tail_part
    <3>4. head_length = head_part
      BY <1>2, <2>1 DEF head_length, head_part
    <3> QED
      BY <1>2, <1>4, <2>1, <3>3, <3>4
  <2> QED
    BY <2>2, <2>3
<1>6. /\ r.first = offset + visible - tail_length /\ r.length = tail_length
      /\ r.suffix = FALSE /\ r.if_match = etag
  <2>1. SameRequest(r, LastJob)
    BY <1>1 DEF Requested
  <2>2. /\ LastJob.first = offset + visible - tail_length /\ LastJob.length = tail_length
        /\ LastJob.suffix = FALSE /\ LastJob.if_match = etag
    BY DEF LastJob, NewJob, NoJob
  <2> QED
    BY <2>1, <2>2 DEF SameRequest
<1>7. PICK u \in Version : r.reply.total = Sizes[u] /\ (Whole(r, u, tail) \/ Nothing(r, u))
  <2>1. OfOneVersion(r, tail)
    BY DEF Agreed, Replies
  <2> QED
    BY <2>1 DEF OfOneVersion
<1> DEFINE total == Sizes[u]
<1>8. total \in Nat /\ known.total = total
  BY <1>7, EndsConstants DEF same_version
<1>9. offset + visible = total
  <2>1. visible = IF total > offset THEN total - offset ELSE 0
    BY <1>5, <1>8 DEF visible, visible_size
  <2> QED
    BY <1>2, <1>3, <1>4, <1>8, <2>1
<1>10. Whole(r, u, tail)
  <2>1. CASE Nothing(r, u)
    <3>1. r.first >= total
      BY <2>1, <1>6 DEF Nothing
    <3> QED
      BY <3>1, <1>2, <1>3, <1>4, <1>6, <1>8, <1>9
  <2> QED
    BY <1>7, <2>1
<1>11. r.reply.got = tail_length /\ FromByte(r, total) = r.first
  <2>1. FromByte(r, total) = r.first /\ Until(r, total) = Smaller(r.first + r.length, total)
    BY <1>6 DEF FromByte, Until
  <2>2. r.first + r.length = total /\ r.first < total /\ total - r.first = tail_length
    BY <1>2, <1>3, <1>4, <1>6, <1>8, <1>9
  <2>3. Until(r, total) = total
    BY <2>1, <2>2, <1>8 DEF Smaller
  <2>4. Wanted(r, total) = tail_length
    BY <2>1, <2>2, <2>3 DEF Wanted, Satisfiable
  <2> QED
    BY <2>1, <2>4, <1>10 DEF Whole
<1>12. DOMAIN tail = 1 .. call.tail
  BY <1>1 DEF EndsTypeOK
<1>13. ASSUME NEW i \in 1 .. tail_length
       PROVE  tail[i] = <<u, offset + visible - tail_length + i - 1>>
  <2>1. i \in 1 .. call.tail /\ i <= r.reply.got
    BY <1>2, <1>3, <1>11
  <2> QED
    BY <2>1, <1>6, <1>10, <1>11, <1>12 DEF Whole
<1> QED
  BY <1>6, <1>8, <1>10, <1>13 DEF Whole

\* Every byte returned is in its place, and of the version that is reported.
HeadNamed ==
    \A i \in 1 .. Smaller(call.head, result.size) :
        \E v \in Version :
           /\ head[i] = <<v, offset + i - 1>>
           /\ v \in Tagged => result.etag = v
           /\ ~bounded => result.size = visible_size(Sizes[v])
TailNamed ==
    \A i \in 1 .. Smaller(call.tail, result.size) :
        \E v \in Version :
           /\ tail[i] = <<v, offset + result.size - Smaller(call.tail, result.size) + i - 1>>
           /\ v \in Tagged => result.etag = v
           /\ ~bounded => result.size = visible_size(Sizes[v])

\* It is enough that every byte names the version that is reported.
LEMMA SoundWhenNamed ==
    ASSUME EndsTypeOK', HeadNamed', TailNamed'
    PROVE  EndsAreSound'
<1>1. \A v \in Version : v # 0
  BY EndsConstants
<1>2. EndsInPlace'
  <2>1. ASSUME NEW i \in 1 .. Smaller(call'.head, result'.size)
        PROVE  head'[i][1] # 0 /\ head'[i][2] = offset' + i - 1
    BY <1>1 DEF HeadNamed
  <2>2. ASSUME NEW i \in 1 .. Smaller(call'.tail, result'.size)
        PROVE  /\ tail'[i][1] # 0
               /\ tail'[i][2] = offset' + result'.size - Smaller(call'.tail, result'.size) + i - 1
    BY <1>1 DEF TailNamed
  <2> QED
    BY <2>1, <2>2 DEF EndsInPlace
<1>3. call'.head \in Nat /\ call'.tail \in Nat
  BY EndsAssumption DEF EndsTypeOK, Call
<1>4. Len(head') = call'.head /\ Len(tail') = call'.tail
  <2>1. ASSUME NEW n \in Nat, NEW f \in [1 .. n -> EndByte]
        PROVE  Len(f) = n
    OBVIOUS
  <2> QED
    BY <1>3, <2>1 DEF EndsTypeOK
<1>5. ASSUME NEW b \in Read(head)' \cup Read(tail)'
      PROVE  /\ b[1] \in Tagged => result'.etag = b[1]
             /\ ~bounded' => result'.size = visible_size(Sizes[b[1]])'
  <2>1. CASE b \in Read(head)'
    <3>1. PICK i \in 1 .. Smaller(call'.head, result'.size) : b = head'[i]
      BY <2>1, <1>4 DEF Read
    <3> QED
      BY <3>1 DEF HeadNamed
  <2>2. CASE b \in Read(tail)'
    <3>1. PICK i \in 1 .. Smaller(call'.tail, result'.size) : b = tail'[i]
      BY <2>2, <1>4 DEF Read
    <3> QED
      BY <3>1 DEF TailNamed
  <2> QED
    BY <2>1, <2>2
<1>6. EndsOfOneVersion'
  BY <1>5 DEF EndsOfOneVersion
<1> QED
  BY <1>2, <1>6 DEF EndsAreSound

\* A version with a strong ETag is named by it.
LEMMA TaggedIsNamed ==
    ASSUME NEW v \in Version, v \in Tagged
    PROVE  Tag(v) = v /\ v # NoTag
  BY EndsConstants DEF NoTag

\* read_ends returns after its first requests: the tail was received, or is the
\* end of the head.
LEMMA EndEndsStep ==
    ASSUME EndsIInv, EndEnds
    PROVE  EndsIInv'
<1>1. at = "ends" /\ Arrived /\ ~Disagree /\ EndsTypeOK /\ Requested /\ Replies
  BY DEF EndEnds, EndsIInv
<1>2. Agreed
  BY <1>1 DEF Agreed, Arrived, Jobs
<1>3. /\ at' = "ok" /\ result' = [size |-> visible, etag |-> etag]
      /\ UNCHANGED <<object, call, job, head>>
  BY DEF EndEnds, Return
<1>4. /\ call \in Call /\ visible \in Nat /\ etag \in Nat
      /\ offset \in Nat /\ bounded \in BOOLEAN
      /\ head_length = Smaller(call.head, visible) /\ tail_length = Smaller(call.tail, visible)
      /\ head_length \in Nat /\ tail_length \in Nat
      /\ call.tail \in Nat /\ call.head \in Nat
  BY <1>1, KnownTypes, CallTypes DEF EndsTypeOK, head_length, tail_length
<1>5. result'.size = visible /\ result'.etag = etag /\ result' \in [size : Nat, etag : Nat]
  BY <1>3, <1>4
<1>6. /\ tail_length = 0 => tail' = tail
      /\ tail_length # 0 /\ TailReceived => tail' = SuffixMoved
      /\ tail_length # 0 /\ ~TailReceived => tail' = TailFromHead /\ visible <= head_length
  BY DEF EndEnds
<1>7. \A v : known.total = Sizes[v] => visible = visible_size(Sizes[v])
  BY DEF visible
<1>8. ASSUME head_length > 0
      PROVE  \E v \in Version :
                /\ \A i \in 1 .. head_length : head[i] = <<v, offset + i - 1>>
                /\ v \in Tagged => etag = v
                /\ visible = visible_size(Sizes[v])
  <2>1. head_sent
    BY <1>2, <1>8, HeadIsThere
  <2>2. PICK v \in Version : /\ known.total = Sizes[v]
                             /\ head_length > 0 => known.etag = Tag(v)
                             /\ \A i \in 1 .. head_length : head[i] = <<v, offset + i - 1>>
    BY <1>2, <2>1, HeadIsThere
  <2>3. v \in Tagged => etag = v
    BY <1>8, <2>2, TaggedIsNamed DEF etag
  <2> QED
    BY <2>2, <2>3, <1>7
<1>9. ASSUME tail_length > 0
      PROVE  \A i \in 1 .. tail_length : \E v \in Version :
                /\ tail'[i] = <<v, offset + visible - tail_length + i - 1>>
                /\ v \in Tagged => etag = v
                /\ ~bounded => visible = visible_size(Sizes[v])
  <2>1. CASE TailReceived
    <3>1. PICK w \in Version :
             /\ tail_reply.etag = Tag(w)
             /\ ~bounded => known.total = Sizes[w]
             /\ \A i \in 1 .. tail_length :
                   SuffixMoved[i] = <<w, offset + visible - tail_length + i - 1>>
      BY <1>1, <1>2, <1>9, <2>1, TailIsThere
    <3>2. tail' = SuffixMoved
      BY <1>4, <1>6, <1>9, <2>1
    <3>3. w \in Tagged => etag = w
      <4>1. CASE head_sent
        <5>1. known.etag = NoTag \/ tail_reply.etag = NoTag \/ known.etag = tail_reply.etag
          BY <1>1, <2>1, <4>1 DEF Disagree, same_version, known, TailReceived
        <5> QED
          BY <5>1, <3>1, TaggedIsNamed DEF etag
      <4>2. CASE ~head_sent
        BY <4>2, <3>1 , TaggedIsNamed DEF etag, known
      <4> QED
        BY <4>1, <4>2
    <3> QED
      BY <3>1, <3>2, <3>3, <1>7
  <2>2. CASE ~TailReceived
    <3>1. tail' = TailFromHead /\ visible <= head_length
      BY <1>4, <1>6, <1>9, <2>2
    <3>2. \A i \in 1 .. tail_length :
             /\ visible - tail_length + i \in 1 .. head_length
             /\ TailFromHead[i] = head[visible - tail_length + i]
      BY <1>2, <1>9, <3>1, TailIsInHead
    <3>3. head_length > 0
      BY <1>4, <1>9, <3>2
    <3>4. PICK v \in Version :
                /\ \A i \in 1 .. head_length : head[i] = <<v, offset + i - 1>>
                /\ v \in Tagged => etag = v
                /\ visible = visible_size(Sizes[v])
      BY <1>8, <3>3
    <3>5. ASSUME NEW i \in 1 .. tail_length
          PROVE  tail'[i] = <<v, offset + visible - tail_length + i - 1>>
      <4> DEFINE k == visible - tail_length + i
      <4>1. k \in 1 .. head_length /\ tail'[i] = head[k]
        BY <3>1, <3>2
      <4>2. head[k] = <<v, offset + k - 1>>
        <5> HIDE DEF k
        <5> QED
          BY <4>1, <3>4
      <4>3. offset + k - 1 = offset + visible - tail_length + i - 1
        BY <1>4
      <4> QED
        BY <4>1, <4>2, <4>3
    <3> QED
      BY <3>4, <3>5
  <2> QED
    BY <2>1, <2>2
<1>10. tail' \in [1 .. call.tail -> EndByte] /\ head' \in [1 .. call.head -> EndByte]
  <2>1. tail \in [1 .. call.tail -> EndByte] /\ head \in [1 .. call.head -> EndByte]
    BY <1>1 DEF EndsTypeOK
  <2>2. DOMAIN tail' = 1 .. call.tail /\ tail' = [i \in 1 .. call.tail |-> tail'[i]]
    BY <1>6, <2>1 DEF SuffixMoved, TailFromHead
  <2>3. ASSUME NEW i \in 1 .. call.tail, i > tail_length
        PROVE  tail'[i] = tail[i]
    BY <1>4, <1>6, <2>1, <2>3 DEF SuffixMoved, TailFromHead
  <2>4. ASSUME NEW i \in 1 .. call.tail, i <= tail_length
        PROVE  tail'[i] \in EndByte
    <3>1. i \in 1 .. tail_length /\ tail_length > 0
      BY <2>4, <1>4
    <3>2. PICK v \in Version : tail'[i] = <<v, offset + visible - tail_length + i - 1>>
      BY <3>1, <1>9
    <3>3. v \in Nat /\ offset + visible - tail_length + i - 1 \in Int
      BY <1>4, EndsConstants
    <3> QED
      BY <3>2, <3>3 DEF EndByte
  <2>5. \A i \in 1 .. call.tail : tail'[i] \in EndByte
    BY <2>1, <2>3, <2>4, <1>4
  <2> QED
    BY <2>1, <2>2, <2>5, <1>3
<1>11. /\ offset' = offset /\ bounded' = bounded /\ call' = call /\ head' = head
       /\ \A v \in Version : visible_size(Sizes[v])' = visible_size(Sizes[v])
  BY <1>3 DEF offset, bounded, visible_size
<1>12. EndsTypeOK'
  BY <1>1, <1>3, <1>5, <1>10 DEF EndsTypeOK
<1>13. HeadNamed'
  <2>1. ASSUME NEW i \in 1 .. head_length
        PROVE  \E v \in Version : /\ head[i] = <<v, offset + i - 1>>
                                  /\ v \in Tagged => etag = v
                                  /\ ~bounded => visible = visible_size(Sizes[v])
    <3>1. head_length > 0
      BY <1>4
    <3> QED
      BY <1>8, <3>1
  <2>2. ASSUME NEW i \in 1 .. Smaller(call'.head, result'.size)
        PROVE  \E v \in Version :
                  /\ head'[i] = <<v, offset' + i - 1>>
                  /\ v \in Tagged => result'.etag = v
                  /\ ~bounded' => result'.size = visible_size(Sizes[v])'
    <3>1. Smaller(call'.head, result'.size) = head_length
      BY <1>4, <1>5, <1>11
    <3>2. i \in 1 .. head_length
      BY <3>1
    <3>3. PICK v \in Version : /\ head[i] = <<v, offset + i - 1>>
                               /\ v \in Tagged => etag = v
                               /\ ~bounded => visible = visible_size(Sizes[v])
      BY <2>1, <3>2
    <3> QED
      BY <3>1, <3>3, <1>5, <1>11
  <2> QED
    BY <2>2 DEF HeadNamed
<1>14. TailNamed'
  <2>1. ASSUME NEW i \in 1 .. tail_length
        PROVE  \E v \in Version : /\ tail'[i] = <<v, offset + visible - tail_length + i - 1>>
                                  /\ v \in Tagged => etag = v
                                  /\ ~bounded => visible = visible_size(Sizes[v])
    <3>1. tail_length > 0
      BY <1>4
    <3> QED
      BY <1>9, <3>1
  <2>2. ASSUME NEW i \in 1 .. Smaller(call'.tail, result'.size)
        PROVE  \E v \in Version :
                  /\ tail'[i] = <<v, offset' + result'.size - Smaller(call'.tail, result'.size) + i - 1>>
                  /\ v \in Tagged => result'.etag = v
                  /\ ~bounded' => result'.size = visible_size(Sizes[v])'
    <3>1. Smaller(call'.tail, result'.size) = tail_length
      BY <1>4, <1>5, <1>11
    <3>2. i \in 1 .. tail_length
      BY <3>1
    <3>3. PICK v \in Version : /\ tail'[i] = <<v, offset + visible - tail_length + i - 1>>
                               /\ v \in Tagged => etag = v
                               /\ ~bounded => visible = visible_size(Sizes[v])
      BY <2>1, <3>2
    <3> QED
      BY <3>1, <3>3, <1>5, <1>11
  <2> QED
    BY <2>2 DEF TailNamed
<1>15. EndsAreSound'
  BY <1>12, <1>13, <1>14, SoundWhenNamed
<1>16. Requested' /\ Replies'
  BY <1>1, <1>3 DEF Requested, Replies, Arrived
<1> QED
  BY <1>3, <1>12, <1>15, <1>16 DEF EndsIInv

\* read_ends returns after it has asked for the tail by its offset.
LEMMA EndLastStep ==
    ASSUME EndsIInv, EndLast
    PROVE  EndsIInv'
<1>1. at = "last" /\ Arrived /\ EndsTypeOK /\ Requested /\ Replies
  BY DEF EndLast, EndsIInv
<1>2. Agreed
  BY <1>1 DEF Agreed, Requested
<1>3. CASE ~same_version(job["last"].reply, known)
  <2>1. at' = "failed" /\ UNCHANGED <<object, call, job, head, tail, result>>
    BY <1>3 DEF EndLast, Fail
  <2> QED
    BY <1>1, <2>1 DEF EndsIInv, EndsTypeOK, Requested, Replies, EndsAreSound, EndsInPlace,
                      EndsOfOneVersion
<1>4. CASE same_version(job["last"].reply, known)
  <2> DEFINE named == IF etag = NoTag THEN job["last"].reply.etag ELSE etag
  <2>1. /\ at' = "ok" /\ result' = [size |-> visible, etag |-> named]
        /\ UNCHANGED <<object, call, job, head, tail>>
    BY <1>4 DEF EndLast, Return
  <2>2. /\ call \in Call /\ visible \in Nat /\ etag \in Nat /\ named \in Nat
        /\ head_length = Smaller(call.head, visible) /\ tail_length = Smaller(call.tail, visible)
        /\ head_length \in Nat /\ tail_length \in Nat
    BY <1>1, KnownTypes DEF EndsTypeOK, head_length, tail_length
  <2> HIDE DEF named
  <2>3. result'.size = visible /\ result'.etag = named /\ result' \in [size : Nat, etag : Nat]
    BY <2>1, <2>2
  <2>4. EndsTypeOK'
    BY <1>1, <2>1, <2>3 DEF EndsTypeOK
  <2>5. \A v : known.total = Sizes[v] => visible = visible_size(Sizes[v])
    BY DEF visible
  <2>6. /\ offset' = offset /\ bounded' = bounded /\ call' = call /\ head' = head /\ tail' = tail
        /\ \A v \in Version : visible_size(Sizes[v])' = visible_size(Sizes[v])
    BY <2>1 DEF offset, bounded, visible_size
  <2>7. HeadNamed'
    <3>1. ASSUME NEW i \in 1 .. Smaller(call'.head, result'.size)
          PROVE  \E v \in Version :
                    /\ head'[i] = <<v, offset' + i - 1>>
                    /\ v \in Tagged => result'.etag = v
                    /\ ~bounded' => result'.size = visible_size(Sizes[v])'
      <4>1. i \in 1 .. head_length /\ head_length > 0
        BY <2>2, <2>3, <2>6
      <4>2. head_sent
        BY <1>2, <4>1, HeadIsThere
      <4>3. PICK v \in Version :
               /\ known.total = Sizes[v]
               /\ head_length > 0 => known.etag = Tag(v)
               /\ \A k \in 1 .. head_length : head[k] = <<v, offset + k - 1>>
        BY <1>2, <4>2, HeadIsThere
      <4>4. v \in Tagged => named = v
        BY <4>1, <4>3, TaggedIsNamed DEF etag, named
      <4> QED
        BY <4>1, <4>3, <4>4, <2>3, <2>5, <2>6
    <3> QED
      BY <3>1 DEF HeadNamed
  <2>8. TailNamed'
    <3>1. ASSUME NEW i \in 1 .. Smaller(call'.tail, result'.size)
          PROVE  \E v \in Version :
                    /\ tail'[i] = <<v, offset' + result'.size
                                         - Smaller(call'.tail, result'.size) + i - 1>>
                    /\ v \in Tagged => result'.etag = v
                    /\ ~bounded' => result'.size = visible_size(Sizes[v])'
      <4>1. i \in 1 .. tail_length /\ Smaller(call'.tail, result'.size) = tail_length
        BY <2>2, <2>3, <2>6
      <4>2. job["last"].state = "replied"
        <5>1. SameRequest(job["last"], LastJob) /\ job["last"].state \in {"none", "replied"}
          BY <1>1 DEF Requested, Arrived, Jobs
        <5>2. LastJob.state = "running"
          BY DEF LastJob, NewJob, NoJob
        <5> QED
          BY <5>1, <5>2 DEF SameRequest
      <4>3. PICK v \in Version :
               /\ known.total = Sizes[v]
               /\ job["last"].reply.etag = Tag(v)
               /\ etag = NoTag \/ Tag(v) \in {NoTag, etag}
               /\ \A k \in 1 .. tail_length :
                     tail[k] = <<v, offset + visible - tail_length + k - 1>>
        BY <1>1, <1>2, <1>4, <4>2, LastIsThere
      <4>4. v \in Tagged => named = v
        BY <4>3, TaggedIsNamed DEF named
      <4> QED
        BY <4>1, <4>3, <4>4, <2>3, <2>5, <2>6
    <3> QED
      BY <3>1 DEF TailNamed
  <2>9. EndsAreSound'
    BY <2>4, <2>7, <2>8, SoundWhenNamed
  <2>10. Requested' /\ Replies'
    BY <1>1, <2>1 DEF Requested, Replies, Arrived
  <2> QED
    BY <2>1, <2>4, <2>9, <2>10 DEF EndsIInv
<1> QED
  BY <1>3, <1>4

\* The tail is asked for by its offset: the head stays, and the tail may go.
LEMMA StartLastStep ==
    ASSUME EndsIInv, StartLast
    PROVE  EndsIInv'
<1>1. /\ at = "ends" /\ Arrived /\ ~Disagree /\ EndsTypeOK /\ Requested /\ Replies
      /\ tail_length > 0 /\ ~TailReceived /\ visible > head_length
  BY DEF StartLast, EndsIInv
<1>2. /\ job' = [job EXCEPT !["last"] = LastJob] /\ at' = "last"
      /\ UNCHANGED <<object, call, head, tail, result>>
  BY DEF StartLast, LastJob
<1>3. LastJob \in Job
  <2>1. /\ offset \in Nat /\ visible \in Nat /\ tail_length \in Nat /\ etag \in Nat
        /\ tail_length <= visible
    BY <1>1, KnownTypes, CallTypes DEF EndsTypeOK
  <2>2. offset + visible - tail_length \in Nat
    BY <2>1
  <2> QED
    BY <2>1, <2>2 DEF LastJob, NewJob, NoJob, Job, NoReply, Answer, NoTag
<1>4. /\ job'["head"] = job["head"] /\ job'["tail"] = job["tail"] /\ job'["last"] = LastJob
      /\ job' \in [Jobs -> Job]
  BY <1>1, <1>2, <1>3 DEF EndsTypeOK, Jobs
<1>5. EndsTypeOK'
  BY <1>1, <1>2, <1>4 DEF EndsTypeOK
<1>6. job["head"].state \in {"none", "replied"} /\ job["tail"].state \in {"none", "replied"}
  BY <1>1 DEF Arrived, Jobs
<1>7. LastJob.state = "running"
  BY DEF LastJob, NewJob, NoJob
<1>8. Requested'
  <2>1. SameRequest(job["last"], LastJob)'
    BY <1>2, <1>4, SameKnown DEF SameRequest
  <2>2. (SameRequest(job["head"], HeadJob) /\ SameRequest(job["tail"], TailJob))'
    BY <1>1, <1>2, <1>4, SameJobs DEF Requested, SameRequest
  <2>3. (~Disagree /\ tail_length > 0 /\ ~TailReceived /\ visible > head_length)'
    BY <1>1, <1>2, <1>4, SameKnown
  <2>4. remote'
    BY <1>1, <1>2 DEF Requested, remote
  <2> QED
    BY <1>2, <1>4, <1>6, <2>1, <2>2, <2>3, <2>4 DEF Requested
<1>9. Replies'
  <2>1. job["head"].state = "replied" => OfOneVersion(job["head"], head)
    BY <1>1 DEF Replies
  <2>2. job["tail"].state = "replied" => OfOneVersion(job["tail"], <<>>)
    BY <1>1 DEF Replies, OfOneVersion, Whole
  <2> QED
    BY <1>2, <1>4, <1>7, <2>1, <2>2 DEF Replies
<1> QED
  BY <1>2, <1>5, <1>8, <1>9 DEF EndsIInv, EndsAreSound, EndsInPlace, EndsOfOneVersion

\* The first requests are sent.
LEMMA StartSteps ==
    ASSUME EndsIInv, StartInfo \/ StartEnds
    PROVE  EndsIInv'
<1>1. /\ at = "start" /\ remote /\ EndsTypeOK /\ Requested /\ call \in Call
      /\ UNCHANGED <<object, call, head, tail, result>>
  BY DEF StartInfo, StartEnds, EndsIInv, EndsTypeOK
<1>2. \A j \in Jobs : job[j] = NoJob
  BY <1>1 DEF Requested
<1>3. NoJob.state = "none"
  BY DEF NoJob
<1>4. CASE StartInfo
  <2> DEFINE w == NewJob(0, 1, FALSE, NoTag)
  <2>1. w \in Job
    BY DEF NewJob, NoJob, Job, NoReply, Answer, NoTag
  <2>2. /\ at' = "info" /\ call.head = 0 /\ call.tail = 0
        /\ job' = [job EXCEPT !["head"] = w]
    BY <1>4 DEF StartInfo
  <2> HIDE DEF w
  <2>3. job' \in [Jobs -> Job] /\ job'["tail"] = NoJob /\ job'["last"] = NoJob
    BY <1>1, <1>2, <2>1, <2>2 DEF EndsTypeOK, Jobs
  <2>4. EndsTypeOK'
    BY <1>1, <2>2, <2>3 DEF EndsTypeOK
  <2>5. Requested' /\ Replies'
    BY <1>1, <2>2, <2>3 DEF Requested, Replies, remote
  <2> QED
    BY <2>2, <2>4, <2>5 DEF EndsIInv, EndsAreSound, EndsInPlace, EndsOfOneVersion
<1>5. CASE StartEnds
  <2>1. at' = "ends" /\ job' = [job EXCEPT !["head"] = HeadJob, !["tail"] = TailJob]
    BY <1>5 DEF StartEnds
  <2>2. HeadJob \in Job /\ TailJob \in Job
    BY <1>1, CallTypes
  <2>3. /\ job' \in [Jobs -> Job] /\ job'["head"] = HeadJob /\ job'["tail"] = TailJob
        /\ job'["last"] = NoJob
    BY <1>1, <1>2, <2>1, <2>2 DEF EndsTypeOK, Jobs
  <2>4. EndsTypeOK'
    BY <1>1, <2>1, <2>3 DEF EndsTypeOK
  <2>5. HeadJob.state # "replied" /\ TailJob.state # "replied"
    BY DEF HeadJob, TailJob, NewJob, NoJob
  <2>6. Requested'
    <3>1. (SameRequest(job["head"], HeadJob) /\ SameRequest(job["tail"], TailJob))'
      BY <1>1, <2>3, SameJobs DEF SameRequest
    <3> QED
      BY <1>1, <2>1, <2>3, <3>1 DEF Requested, remote
  <2>7. Replies'
    BY <2>1, <2>3, <2>5 DEF Replies
  <2> QED
    BY <2>1, <2>4, <2>6, <2>7 DEF EndsIInv, EndsAreSound, EndsInPlace, EndsOfOneVersion
<1> QED
  BY <1>4, <1>5

\* object_info has no buffers to fill.
LEMMA EndInfoStep ==
    ASSUME EndsIInv, EndInfo
    PROVE  EndsIInv'
<1>1. /\ at = "info" /\ Arrived /\ EndsTypeOK /\ Requested /\ call \in Call
      /\ UNCHANGED <<object, call, job, head, tail>> /\ at' = "ok"
      /\ result' = [size |-> visible_size(head_reply.total), etag |-> head_reply.etag]
  BY DEF EndInfo, Return, EndsIInv, EndsTypeOK
<1>2. call.head = 0 /\ call.tail = 0
  BY <1>1 DEF Requested
<1>3. result' \in [size : Nat, etag : Nat]
  BY <1>1, KnownTypes, CallTypes DEF head_reply
<1>4. EndsTypeOK'
  BY <1>1, <1>3 DEF EndsTypeOK
<1>5. Requested' /\ Replies'
  BY <1>1 DEF Requested, Replies, Arrived
<1>6. 1 .. Smaller(call'.head, result'.size) = {} /\ 1 .. Smaller(call'.tail, result'.size) = {}
  BY <1>1, <1>2, <1>3 DEF Smaller
<1>7. HeadNamed' /\ TailNamed'
  BY <1>6 DEF HeadNamed, TailNamed
<1>8. EndsAreSound'
  BY <1>4, <1>7, SoundWhenNamed
<1> QED
  BY <1>1, <1>4, <1>5, <1>8 DEF EndsIInv

\* A call that fails promises nothing.
LEMMA FailSteps ==
    ASSUME EndsIInv, Fail
    PROVE  EndsIInv'
<1>1. at' = "failed" /\ UNCHANGED <<object, call, job, head, tail, result>>
  BY DEF Fail
<1> QED
  BY <1>1 DEF EndsIInv, EndsTypeOK, Requested, Replies, EndsAreSound, EndsInPlace,
              EndsOfOneVersion

\* A file is read within the buffer.
LEMMA FileReadType ==
    ASSUME object \in Version, NEW first \in Nat, NEW length, NEW n \in Nat,
           NEW dest \in [1 .. n -> EndByte]
    PROVE  FileRead(dest, first, length) \in [1 .. n -> EndByte]
<1>1. object \in Nat
  BY EndsConstants
<1>2. ASSUME NEW i \in 1 .. n
      PROVE  <<object, first + i - 1>> \in EndByte
  <2>1. first + i - 1 \in Int
    OBVIOUS
  <2> QED
    BY <1>1, <2>1 DEF EndByte
<1>3. DOMAIN dest = 1 .. n /\ \A i \in 1 .. n : dest[i] \in EndByte
  OBVIOUS
<1> QED
  BY <1>2, <1>3 DEF FileRead

\* read_file_ends: the head stays in place while the tail is read.
LEMMA FileSteps ==
    ASSUME EndsIInv, FileSize \/ FileHead \/ FileTail
    PROVE  EndsIInv'
<1>1. /\ EndsTypeOK /\ Requested /\ call \in Call /\ object \in Version
      /\ result \in [size : Nat, etag : Nat]
      /\ head \in [1 .. call.head -> EndByte] /\ tail \in [1 .. call.tail -> EndByte]
  BY DEF EndsIInv, EndsTypeOK
<1>2. /\ offset \in Nat /\ call.head \in Nat /\ call.tail \in Nat
      /\ Sizes[object] \in Nat /\ visible_size(Sizes[object]) \in Nat /\ result.size \in Nat
  BY <1>1, CallTypes, EndsConstants
<1>3. /\ Smaller(call.head, result.size) \in Nat /\ Smaller(call.tail, result.size) \in Nat
      /\ Smaller(call.head, result.size) <= call.head
      /\ Smaller(call.tail, result.size) <= call.tail
      /\ Smaller(call.tail, result.size) <= result.size
  BY <1>2 DEF Smaller
<1>4. CASE Fail
  BY <1>4, FailSteps
<1>5. CASE FileSize
  <2>1. /\ at = "start" /\ ~remote /\ at' = "file head"
        /\ UNCHANGED <<object, call, job, head, tail>>
        /\ result' = [result EXCEPT !.size = visible_size(Sizes[object])]
    BY <1>5 DEF FileSize
  <2>2. result' \in [size : Nat, etag : Nat]
    BY <1>1, <1>2, <2>1
  <2>3. EndsTypeOK'
    BY <1>1, <2>1, <2>2 DEF EndsTypeOK
  <2>4. Requested' /\ Replies'
    BY <1>1, <2>1 DEF Requested, Replies, remote
  <2> QED
    BY <2>1, <2>3, <2>4 DEF EndsIInv, EndsAreSound, EndsInPlace, EndsOfOneVersion
<1>6. CASE FileHead /\ ~Fail
  <2> DEFINE length == Smaller(call.head, result.size)
  <2>1. /\ at = "file head" /\ at' = "file tail"
        /\ UNCHANGED <<object, call, job, tail, result>>
        /\ head' = FileRead(head, offset, length)
    BY <1>6 DEF FileHead
  <2>2. /\ head' \in [1 .. call.head -> EndByte] /\ object # 0
        /\ \A i \in 1 .. length : head'[i] = <<object, offset + i - 1>>
    <3>1. length \in Nat /\ length <= call.head
      BY <1>3
    <3>2. FileRead(head, offset, length) \in [1 .. call.head -> EndByte]
      BY <1>1, <1>2, <3>1, FileReadType
    <3>3. \A i \in 1 .. length : i \in DOMAIN head /\ i <= length
      BY <1>1, <1>2, <3>1
    <3>4. \A i \in 1 .. length :
             FileRead(head, offset, length)[i] = <<object, offset + i - 1>>
      BY <3>3 DEF FileRead
    <3>5. object # 0
      BY <1>1, EndsConstants
    <3> QED
      BY <2>1, <3>2, <3>4, <3>5
  <2>3. EndsTypeOK'
    BY <1>1, <2>1, <2>2 DEF EndsTypeOK
  <2>4. Requested' /\ Replies'
    BY <1>1, <2>1 DEF Requested, Replies, remote
  <2>5. HeadInPlace'
    <3>1. \A i \in 1 .. length : head'[i][1] # 0 /\ head'[i][2] = offset + i - 1
      BY <2>2
    <3>2. offset' = offset
      BY <2>1 DEF offset
    <3> QED
      BY <2>1, <3>1, <3>2 DEF HeadInPlace
  <2> QED
    BY <2>1, <2>3, <2>4, <2>5 DEF EndsIInv, EndsAreSound, EndsInPlace, EndsOfOneVersion
<1>7. CASE FileTail /\ ~Fail
  <2> DEFINE length == Smaller(call.tail, result.size)
             first == offset + result.size - length
  <2>1. /\ at = "file tail" /\ at' = "ok"
        /\ UNCHANGED <<object, call, job, head, result>>
        /\ tail' = FileRead(tail, first, length)
    BY <1>7 DEF FileTail
  <2>2. /\ tail' \in [1 .. call.tail -> EndByte] /\ object # 0
        /\ \A i \in 1 .. length : tail'[i] = <<object, first + i - 1>>
    <3>1. length \in Nat /\ length <= call.tail /\ first \in Nat
      BY <1>2, <1>3
    <3>2. FileRead(tail, first, length) \in [1 .. call.tail -> EndByte]
      BY <1>1, <1>2, <3>1, FileReadType
    <3>3. \A i \in 1 .. length : i \in DOMAIN tail /\ i <= length
      BY <1>1, <1>2, <3>1
    <3>4. \A i \in 1 .. length :
             FileRead(tail, first, length)[i] = <<object, first + i - 1>>
      BY <3>3 DEF FileRead
    <3>5. object # 0
      BY <1>1, EndsConstants
    <3> QED
      BY <2>1, <3>2, <3>4, <3>5
  <2>3. EndsTypeOK'
    BY <1>1, <2>1, <2>2 DEF EndsTypeOK
  <2>4. HeadInPlace /\ ~remote
    BY <1>1, <2>1 DEF EndsIInv, Requested
  <2>5. Requested' /\ Replies'
    <3>1. \A j \in Jobs : job[j].state # "running"
      <4>1. NoJob.state = "none"
        BY DEF NoJob
      <4> QED
        BY <1>1, <2>1, <4>1 DEF Requested
    <3> QED
      BY <2>1, <3>1 DEF Requested, Replies
  <2>6. EndsInPlace'
    <3>1. \A i \in 1 .. Smaller(call.head, result.size) :
             head[i][1] # 0 /\ head[i][2] = offset + i - 1
      BY <2>4 DEF HeadInPlace
    <3>2. \A i \in 1 .. length : tail'[i][1] # 0 /\ tail'[i][2] = first + i - 1
      BY <2>2
    <3>3. offset' = offset
      BY <2>1 DEF offset
    <3> QED
      BY <2>1, <3>1, <3>2, <3>3 DEF EndsInPlace
  <2>7. EndsOfOneVersion'
    BY <2>1, <2>4 DEF EndsOfOneVersion, remote
  <2> QED
    BY <2>1, <2>3, <2>5, <2>6, <2>7 DEF EndsIInv, EndsAreSound
<1> QED
  BY <1>4, <1>5, <1>6, <1>7

\* The object may be replaced: what was received stays.
LEMMA EndsUnchanged ==
    ASSUME EndsIInv, UNCHANGED <<call, at, job, head, tail, result>>, object' \in Version
    PROVE  EndsIInv'
<1>1. EndsTypeOK'
  BY DEF EndsIInv, EndsTypeOK
<1>2. Requested'
  <2>1. Requested
    BY DEF EndsIInv
  <2>2. remote' = remote
    BY DEF remote
  <2>3. HeadJob' = HeadJob /\ TailJob' = TailJob
    BY SameJobs
  <2>4. /\ head_length' = head_length /\ tail_length' = tail_length /\ visible' = visible
        /\ Disagree' = Disagree /\ TailReceived' = TailReceived /\ LastJob' = LastJob
    BY SameKnown
  <2> QED
    BY <2>1, <2>2, <2>3, <2>4 DEF Requested
<1>3. Replies'
  BY DEF EndsIInv, Replies
<1>4. (at = "file tail" => HeadInPlace)'
  BY DEF EndsIInv, HeadInPlace, offset
<1>5. EndsAreSound'
  <2>1. EndsInPlace /\ EndsOfOneVersion
    BY DEF EndsIInv, EndsAreSound
  <2>2. /\ offset' = offset /\ bounded' = bounded /\ remote' = remote
        /\ Read(head)' = Read(head) /\ Read(tail)' = Read(tail)
    BY DEF offset, bounded, remote, Read
  <2>3. \A n : visible_size(n)' = visible_size(n)
    BY <2>2 DEF visible_size
  <2>4. EndsInPlace'
    BY <2>1, <2>2 DEF EndsInPlace
  <2>5. EndsOfOneVersion'
    BY <2>1, <2>2, <2>3 DEF EndsOfOneVersion
  <2> QED
    BY <2>4, <2>5 DEF EndsAreSound
<1> QED
  BY <1>1, <1>2, <1>3, <1>4, <1>5 DEF EndsIInv

\* Every step keeps the invariant.
LEMMA EndsPreserved == EndsIInv /\ [EndsNext]_endsVars => EndsIInv'
<1> SUFFICES ASSUME EndsIInv, [EndsNext]_endsVars PROVE EndsIInv'
  OBVIOUS
<1>1. ASSUME NEW j \in Jobs, get_range(j) \/ GiveUp(j) PROVE EndsIInv'
  <2>1. PICK w : JobStep(j, w)
    BY <1>1, AnsweredStep, GiveUpStep DEF EndsIInv
  <2> QED
    BY <2>1, JobSteps
<1>2. CASE StartInfo \/ StartEnds
  BY <1>2, StartSteps
<1>3. CASE JobFailed \/ RejectEnds \/ FileFails
  BY <1>3, FailSteps DEF JobFailed, RejectEnds, FileFails
<1>4. CASE EndInfo
  BY <1>4, EndInfoStep
<1>5. CASE EndEnds
  BY <1>5, EndEndsStep
<1>6. CASE StartLast
  BY <1>6, StartLastStep
<1>7. CASE EndLast
  BY <1>7, EndLastStep
<1>8. CASE FileSize \/ FileHead \/ FileTail
  BY <1>8, FileSteps
<1>9. CASE Replace
  <2>1. object' \in Version
    <3>1. Len(Sizes) \in Nat /\ object \in 1 .. Len(Sizes)
      BY EndsConstants DEF Version, EndsIInv, EndsTypeOK
    <3> QED
      BY <1>9, <3>1 DEF Replace, Version
  <2> QED
    BY <1>9, <2>1, EndsUnchanged DEF Replace
<1>10. CASE Returned \/ UNCHANGED endsVars
  BY <1>10, EndsUnchanged DEF Returned, endsVars, EndsIInv, EndsTypeOK
<1> QED
  BY <1>1, <1>2, <1>3, <1>4, <1>5, <1>6, <1>7, <1>8, <1>9, <1>10 DEF EndsNext, read_ends

\* Whatever the windows, the sizes and tags of the versions, the answers and
\* their order, read_ends (engine.cpp:1128) returns both ends in their place and
\* of the version that it reports.
THEOREM EndsSoundness == EndsSpec => []EndsAreSound
<1>1. EndsIInv => EndsAreSound
  BY DEF EndsIInv
<1> QED
  BY EndsInitially, EndsPreserved, <1>1, PTL DEF EndsSpec
=============================================================================
