--------------------------- MODULE BatchContract ---------------------------
(***************************************************************************)
(* What a batch promises its caller (karu_client_submit, karu_batch_next,  *)
(* karu_batch_free), without queues, workers or loops: every range is      *)
(* completed at most once and only while the engine has the batch's        *)
(* buffers, KARU_END means that every completion has been received, and    *)
(* a batch is destroyed only after the engine has let go of its buffers.   *)
(***************************************************************************)
CONSTANTS
    Batches,    \* the batches
    Parts,      \* the requested ranges
    BatchOf     \* BatchOf[p]: the batch of range p

VARIABLES
    phase,      \* phase[b]: "new", "open" or "freed"
    held,       \* the batches whose buffers the engine may still write to
    complete,   \* the ranges with a completion that waits to be received
    received,   \* the ranges whose completion the caller has
    ended       \* the batches for which the caller has seen KARU_END

vars == <<phase, held, complete, received, ended>>

Ranges(b) == {p \in Parts : BatchOf[p] = b}

Init ==
    /\ phase = [b \in Batches |-> "new"]
    /\ held = {}
    /\ complete = {}
    /\ received = {}
    /\ ended = {}

\* Ranges that the plan rejects are complete at once; the engine holds the
\* buffers of the batch if anything is left to transfer.
Submit(b) ==
    /\ phase[b] = "new"
    /\ phase' = [phase EXCEPT ![b] = "open"]
    /\ held' \in {held, held \cup {b}}
    /\ \E S \in SUBSET Ranges(b) : complete' = complete \cup S
    /\ UNCHANGED <<received, ended>>

Complete(p) ==
    /\ phase[BatchOf[p]] = "open"
    /\ BatchOf[p] \in held
    /\ p \notin complete \cup received
    /\ complete' = complete \cup {p}
    /\ UNCHANGED <<phase, held, received, ended>>

Receive(p) ==
    /\ phase[BatchOf[p]] = "open"
    /\ p \in complete
    /\ complete' = complete \ {p}
    /\ received' = received \cup {p}
    /\ UNCHANGED <<phase, held, ended>>

End(b) ==
    /\ phase[b] = "open"
    /\ Ranges(b) \subseteq received
    /\ ended' = ended \cup {b}
    /\ UNCHANGED <<phase, held, complete, received>>

\* Without a cancellation the buffers go only after the last completion; a
\* batch that is being freed may lose the rest of its completions.
Release(b) ==
    /\ b \in held
    /\ held' = held \ {b}
    /\ UNCHANGED <<phase, complete, received, ended>>

Free(b) ==
    /\ phase[b] = "open"
    /\ b \notin held
    /\ phase' = [phase EXCEPT ![b] = "freed"]
    /\ UNCHANGED <<held, complete, received, ended>>

Next ==
    \/ \E b \in Batches : Submit(b) \/ End(b) \/ Release(b) \/ Free(b)
    \/ \E p \in Parts : Complete(p) \/ Receive(p)

Spec == Init /\ [][Next]_vars
=============================================================================
