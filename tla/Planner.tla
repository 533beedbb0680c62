------------------------------- MODULE Planner -------------------------------
(***************************************************************************)
(* plan_transfers (src/runtime/planner.cpp): the ranges of a batch are     *)
(* validated, sorted by object and offset, and neighbours are merged into  *)
(* one transfer while the merge pays off.                                  *)
(*                                                                         *)
(* Numbers are unsigned and wrap at MaxInt + 1; MaxInt is small, so that   *)
(* the tests against overflow are met.  Objects, conditions (if_match) and *)
(* tags are names.  What a transfer costs is counted in bytes, and nothing *)
(* is read.                                                                *)
(***************************************************************************)
EXTENDS Integers, Sequences, FiniteSets

CONSTANTS
    MaxInt,                     \* std::numeric_limits<std::uint64_t>::max()
    Candidates,                 \* the ranges that a batch may ask for
    MaxRequests,                \* bound: the ranges of a batch
    FileObjects,                \* the objects that are local files
    NoCondition,                \* the empty if_match
    Options                     \* the settings that a submit may have

\* A candidate: an object, numbered in the order of backend and URI; a
\* condition, a number too; a window of the object; a range of the window.
Request == [object : Nat, if_match : Nat, window_offset : 0 .. MaxInt,
            window_length : 0 .. MaxInt, offset : 0 .. MaxInt,
            length : 1 .. MaxInt - 1]

ASSUME PlannerAssumption ==
    /\ MaxInt \in Nat
    /\ Candidates \subseteq Request
    /\ MaxRequests \in Nat
    /\ FileObjects \subseteq Nat
    /\ NoCondition \in Nat
    /\ Options \subseteq [coalesce_gap : 0 .. MaxInt, coalesce_limit : 0 .. MaxInt,
                          coalesce_parts : 1 .. MaxInt,
                          coalesce_amplification : 1 .. MaxInt]

VARIABLES
    options,        \* the settings of this batch
    requests,       \* the ranges of the batch, in the order of the call
    checked,        \* how many of them have been validated
    immediate,      \* the ranges that the plan completes at once
    valid,          \* the others, later sorted
    next,           \* how many of these have gone into transfers
    transfers,      \* plan.transfers, the last one perhaps still growing
    last_byte, useful_bytes,    \* of that one
    stage           \* "validate", "open", "merge", "done" or "nomem"

plannerVars == <<options, requests, checked, immediate, valid, next, transfers, last_byte,
                 useful_bytes, stage>>

Add(a, b) == (a + b) % (MaxInt + 1)
Sub(a, b) == (a - b) % (MaxInt + 1)
Larger(a, b) == IF a < b THEN b ELSE a

PlannerInit ==
    /\ options \in Options
    /\ requests \in UNION {[1 .. n -> Candidates] : n \in 1 .. MaxRequests}
    /\ checked = 0
    /\ immediate = {}
    /\ valid = <<>>
    /\ next = 0
    /\ transfers = <<>>
    /\ last_byte = 0 /\ useful_bytes = 0
    /\ stage = "validate"
-----------------------------------------------------------------------------
ToEnd == MaxInt

\* validate: the range lies in its window, and its bytes have numbers.
validate(r) ==
    /\ \/ r.window_length = ToEnd
       \/ r.offset <= r.window_length /\ r.length <= r.window_length - r.offset
    /\ r.offset <= MaxInt - r.window_offset
    /\ Sub(r.length, 1) <= Sub(MaxInt, Add(r.window_offset, r.offset))

\* ETag preconditions are not available for local files.
Accepted(r) == ~(r.object \in FileObjects /\ r.if_match # NoCondition) /\ validate(r)

absolute_offset(i) == Add(requests[i].window_offset, requests[i].offset)
end(i) == Sub(Add(absolute_offset(i), requests[i].length), 1)

Validate ==
    /\ stage = "validate"
    /\ checked < Len(requests)
    /\ checked' = checked + 1
    /\ IF Accepted(requests[checked + 1])
       THEN valid' = Append(valid, checked + 1) /\ UNCHANGED immediate
       ELSE immediate' = immediate \cup {checked + 1} /\ UNCHANGED valid
    /\ UNCHANGED <<options, requests, next, transfers, last_byte, useful_bytes, stage>>

same_resource(i, j) ==
    /\ requests[i].object = requests[j].object
    /\ requests[i].if_match = requests[j].if_match

\* The order of stable_sort: by object, condition and offset, then as given.
Before(i, j) ==
    LET a == <<requests[i].object, requests[i].if_match, absolute_offset(i), i>>
        b == <<requests[j].object, requests[j].if_match, absolute_offset(j), j>>
    IN  \E k \in 1 .. 4 : a[k] < b[k] /\ \A m \in 1 .. k - 1 : a[m] = b[m]

\* The ways to rearrange n elements.
Arrangements(n) ==
    {place \in [1 .. n -> 1 .. n] : \A k \in 1 .. n : \E j \in 1 .. n : place[j] = k}

Sort ==
    /\ stage = "validate"
    /\ checked = Len(requests)
    /\ \E place \in Arrangements(Len(valid)) :
         valid' = [k \in 1 .. Len(valid) |-> valid[place[k]]]
    /\ \A j, k \in 1 .. Len(valid) : j < k => Before(valid'[j], valid'[k])
    /\ stage' = "open"
    /\ UNCHANGED <<options, requests, checked, immediate, next, transfers,
                   last_byte, useful_bytes>>

Part(i, offset) == [relative_offset |-> Sub(absolute_offset(i), offset),
                    length |-> requests[i].length, tag |-> i]

\* A transfer begins with the next range.
Open ==
    /\ stage = "open"
    /\ next < Len(valid)
    /\ LET i == valid[next + 1]
       IN  /\ transfers' = Append(transfers,
                [object |-> requests[i].object, if_match |-> requests[i].if_match,
                 offset |-> absolute_offset(i), length |-> requests[i].length,
                 parts |-> <<Part(i, absolute_offset(i))>>])
           /\ last_byte' = end(i)
           /\ useful_bytes' = requests[i].length
    /\ next' = next + 1
    /\ stage' = "merge"
    /\ UNCHANGED <<options, requests, checked, immediate, valid>>

excessive_amplification(span, useful) ==
    /\ useful <= MaxInt \div options.coalesce_amplification
    /\ span > useful * options.coalesce_amplification

Growing == transfers[Len(transfers)]
Gap(t) == IF t.object \in FileObjects THEN 0 ELSE options.coalesce_gap

\* The bytes asked for, those of overlapping ranges counted twice.
merged_useful(i) == IF requests[i].length > MaxInt - useful_bytes THEN MaxInt
                    ELSE useful_bytes + requests[i].length

\* The conditions of the merging loop, for range i and transfer t.
Mergeable(i, t) ==
    LET span == Sub(Larger(last_byte, end(i)), t.offset)
    IN  /\ options.coalesce_gap > 0
        /\ same_resource(t.parts[1].tag, i)
        /\ absolute_offset(i) > last_byte =>
             Sub(Sub(absolute_offset(i), last_byte), 1) <= Gap(t)
        /\ span # MaxInt
        /\ Len(t.parts) # options.coalesce_parts
        /\ Add(span, 1) <= options.coalesce_limit
        /\ ~excessive_amplification(Add(span, 1), merged_useful(i))

\* Mutant: the merged range ends the transfer.
EndOfLatest(i) == end(i)
merged_last(i) == Larger(last_byte, end(i))

Merge ==
    /\ stage = "merge"
    /\ next < Len(valid)
    /\ LET i == valid[next + 1]
       IN  /\ Mergeable(i, Growing)
           /\ transfers' = [transfers EXCEPT ![Len(transfers)].parts =
                                Append(@, Part(i, Growing.offset))]
           /\ last_byte' = merged_last(i)
           /\ useful_bytes' = merged_useful(i)
    /\ next' = next + 1
    /\ UNCHANGED <<options, requests, checked, immediate, valid, stage>>

\* Nothing more to merge: the length is settled and the parts get their
\* buffers, or the plan is given up for want of memory.
Close ==
    /\ stage = "merge"
    /\ next < Len(valid) => ~Mergeable(valid[next + 1], Growing)
    /\ transfers' = [transfers EXCEPT ![Len(transfers)].length =
                         Add(Sub(last_byte, Growing.offset), 1)]
    /\ stage' \in {"open", "nomem"}
    /\ UNCHANGED <<options, requests, checked, immediate, valid, next,
                   last_byte, useful_bytes>>

Done ==
    /\ stage = "open"
    /\ next = Len(valid)
    /\ stage' = "done"
    /\ UNCHANGED <<options, requests, checked, immediate, valid, next, transfers,
                   last_byte, useful_bytes>>

Planned == stage \in {"done", "nomem"} /\ UNCHANGED plannerVars

PlannerNext == Validate \/ Sort \/ Open \/ Merge \/ Close \/ Done \/ Planned

PlannerSpec == PlannerInit /\ [][PlannerNext]_plannerVars
-----------------------------------------------------------------------------
(***************************************************************************)
(* Properties.  From and To are computed without wrapping around.       *)
(***************************************************************************)
From(i) == requests[i].window_offset + requests[i].offset
To(i) == From(i) + requests[i].length - 1
Tags(t) == {t.parts[k].tag : k \in DOMAIN t.parts}

\* The transfers, and the parts of them, that serve range i.
ServedAt(i) ==
    {p \in (1 .. Len(transfers)) \X (1 .. Len(requests)) :
        /\ p[2] \in DOMAIN transfers[p[1]].parts
        /\ transfers[p[1]].parts[p[2]].tag = i}

\* The plan loses no range and serves none twice: each is completed at once or
\* is one part of one transfer.
EveryRangeOnce == stage = "done" => \A i \in DOMAIN requests :
    Cardinality(ServedAt(i)) = IF i \in immediate THEN 0 ELSE 1

\* A range is rejected exactly when it leaves its window or the numbers of
\* bytes, or asks for a precondition on a file; no wrap-around lets one pass.
RejectedRightly == \A i \in 1 .. checked : i \in immediate <=>
    LET r == requests[i]
    IN  \/ r.object \in FileObjects /\ r.if_match # NoCondition
        \/ r.window_length # ToEnd /\ r.offset + r.length > r.window_length
        \/ To(i) > MaxInt

\* A finished transfer reads, for every part, the bytes its request names, of
\* its object and under its condition, and not a byte beyond the outermost
\* parts.
PartsAreRequests == stage \in {"open", "done"} => \A n \in DOMAIN transfers :
    LET t == transfers[n]
    IN  /\ \A k \in DOMAIN t.parts :
             LET p == t.parts[k]
             IN  /\ requests[p.tag].object = t.object
                 /\ requests[p.tag].if_match = t.if_match
                 /\ t.offset + p.relative_offset = From(p.tag)
                 /\ p.length = requests[p.tag].length
                 /\ p.relative_offset + p.length <= t.length
        /\ \E i \in Tags(t) : From(i) = t.offset
        /\ \E i \in Tags(t) : To(i) = t.offset + t.length - 1

\* The plan is the caller's request: no range is lost, served twice, rejected
\* without reason or let through by a wrap-around, and every transfer reads
\* what its parts ask for (plan_transfers).
PlanIsSound == EveryRangeOnce /\ RejectedRightly /\ PartsAreRequests
=============================================================================
