------------------------------- MODULE Engine -------------------------------
(***************************************************************************)
(* The karu engine: batches of byte-range reads, the transfers they are    *)
(* planned into, and the threads that carry them (src/runtime/engine.cpp,  *)
(* src/runtime/batch.cpp).                                                 *)
(*                                                                         *)
(* A transfer is a std::unique_ptr that is moved from container to         *)
(* container, so it is in exactly one place at a time: `place' says which, *)
(* `owner' which thread has it when the place belongs to a thread.  The    *)
(* containers are sets: the order in which a queue is served is left open, *)
(* so everything below holds for every order.  Whatever runs while a mutex *)
(* is held is one step; what runs between two critical sections is not.    *)
(*                                                                         *)
(* Payload bytes, statuses, clocks and the poll of an I/O loop are left    *)
(* out: an expired deadline, an allocation failure or an answer of the     *)
(* server is a choice among the outcomes that the code tells apart.        *)
(***************************************************************************)
EXTENDS Integers, FiniteSets

CONSTANTS
    Batches,        \* the batches submitted to one client
    Transfers,      \* all transfers plan_transfers makes for them
    Parts,          \* all requested ranges
    Loops,          \* the I/O loop threads (loops_)
    FileWorkers,    \* the file worker threads
    CredWorkers,    \* the credential worker threads
    Nobody,         \* the owner of a transfer that no thread holds
    Of,             \* Of[t]: the batch of transfer t
    Kind,           \* Kind[t]: the backend class of transfer t
    BatchOf,        \* BatchOf[p]: the batch of part p
    TransferOf,     \* TransferOf[p]: the transfer of part p, or Nobody when
                    \* the plan completes p at once (plan.immediate)
    Limit,          \* Limit[l]: the transfer slots of loop l
    MaxAttempts     \* options_.max_attempts

Threads == Loops \cup FileWorkers \cup CredWorkers
Kinds == {"file", "http", "cloud", "s3"}

ASSUME SetsAssumption ==
    /\ IsFiniteSet(Transfers)
    /\ IsFiniteSet(Parts)
    /\ Nobody \notin Threads \cup Transfers
    /\ Loops \cap FileWorkers = {}
    /\ Loops \cap CredWorkers = {}
    /\ FileWorkers \cap CredWorkers = {}

ASSUME PlanAssumption ==
    /\ Of \in [Transfers -> Batches]
    /\ Kind \in [Transfers -> Kinds]
    /\ BatchOf \in [Parts -> Batches]
    /\ TransferOf \in [Parts -> Transfers \cup {Nobody}]
    /\ \A p \in Parts : TransferOf[p] # Nobody => BatchOf[p] = Of[TransferOf[p]]
    /\ \A t \in Transfers : \E p \in Parts : TransferOf[p] = t

ASSUME OptionsAssumption ==
    /\ Limit \in [Loops -> Nat \ {0}]
    /\ MaxAttempts \in Nat \ {0}

VARIABLES
    \* Transfer
    place,                  \* place[t]: where the transfer is
    owner,                  \* owner[t]: the thread that has it, or Nobody
    attempt,                \* attempt[t]: ordinary retries so far
    region_retried,         \* region_retried[t]
    credentials_retried,    \* credentials_retried[t]
    credentials_ready,      \* credentials_ready[t]
    \* karu_batch
    stage,                  \* stage[b]: how far submit or karu_batch_free is
    live_transfers,         \* live_transfers[b]
    pending_parts,          \* pending_parts[b]
    cancelled,              \* cancelled[b]
    transfers_finished,     \* counters.transfers_finished of b
    ready,                  \* the parts whose completion is in a ready queue
    taken,                  \* the parts whose completion next() has returned
    ended,                  \* the batches for which next() returned KARU_END
    \* Engine
    lpc,                    \* lpc[l]: the phase of I/O loop l
    todo,                   \* todo[l]: what the current pass has still to visit
    cancellation_pending,   \* cancellation_pending[l]
    client,                 \* whether the client still owns the engine
    stop,                   \* stop_
    exited                  \* the threads that have returned

flagVars == <<attempt, region_retried, credentials_retried, credentials_ready>>
transferVars == <<place, owner, flagVars>>
countVars == <<live_transfers, pending_parts, transfers_finished>>
resultVars == <<ready, taken, ended>>
loopVars == <<lpc, todo, cancellation_pending>>
engineVars == <<client, stop, exited>>
\* What a worker or a loop leaves alone when it only moves transfers.
restVars == <<flagVars, stage, cancelled, pending_parts, transfers_finished,
              resultVars, engineVars>>
vars == <<transferVars, stage, cancelled, countVars, resultVars, loopVars,
          engineVars>>

(***************************************************************************)
(* Places.  Queued: in a queue of the engine.  Held: in a local variable   *)
(* of the thread that works on it.  Registered: in a container of a loop.  *)
(* "lookedUp", "due" and "done" are "resolving", "retries" and "active"    *)
(* after the resolver, the clock and libcurl respectively have made them   *)
(* ready to go on.                                                         *)
(***************************************************************************)
Queued == {"file", "credential", "http"}
Held == {"fileHeld", "fileRead", "credHeld", "lookup", "credReady", "count",
         "deliver"}
Slots == {"resolving", "lookedUp", "active", "done"}
Registered == Slots \cup {"pending", "retries", "due"}
Places == {"none", "plan", "gone"} \cup Queued \cup Held \cup Registered

Stages == {"new", "counted", "queued", "open", "cancel", "marked",
           "queuesScanned", "httpScanned", "waiting", "freed"}
Phases == {"take", "cancellation", "discard", "retries", "resolving", "start",
           "perform", "fail", "messages", "exited"}

TransfersOf(b) == {t \in Transfers : Of[t] = b}
PartsOf(b) == {p \in Parts : BatchOf[p] = b}
PartsIn(t) == {p \in Parts : TransferOf[p] = t}
Immediate(b) == {p \in PartsOf(b) : TransferOf[p] = Nobody}
Cloud(t) == Kind[t] \in {"cloud", "s3"}

At(p) == {t \in Transfers : place[t] = p}
OwnedIn(th, ps) == {t \in Transfers : owner[t] = th /\ place[t] \in ps}
Idle(th) == OwnedIn(th, Held) = {}
Cancelled(t) == cancelled[Of[t]]
Decrement(n) == IF n > 0 THEN n - 1 ELSE n

Init ==
    /\ place = [t \in Transfers |-> "none"]
    /\ owner = [t \in Transfers |-> Nobody]
    /\ attempt = [t \in Transfers |-> 0]
    /\ region_retried = [t \in Transfers |-> FALSE]
    /\ credentials_retried = [t \in Transfers |-> FALSE]
    /\ credentials_ready = [t \in Transfers |-> FALSE]
    /\ stage = [b \in Batches |-> "new"]
    /\ live_transfers = [b \in Batches |-> 0]
    /\ pending_parts = [b \in Batches |-> 0]
    /\ cancelled = [b \in Batches |-> FALSE]
    /\ transfers_finished = [b \in Batches |-> 0]
    /\ ready = {}
    /\ taken = {}
    /\ ended = {}
    /\ lpc = [l \in Loops |-> "take"]
    /\ todo = [l \in Loops |-> {}]
    /\ cancellation_pending = [l \in Loops |-> FALSE]
    /\ client = TRUE
    /\ stop = FALSE
    /\ exited = {}
-----------------------------------------------------------------------------
(***************************************************************************)
(* Moves of one transfer.                                                  *)
(***************************************************************************)
Move(t, p, th) ==
    /\ place' = [place EXCEPT ![t] = p]
    /\ owner' = [owner EXCEPT ![t] = th]

\* discard_transfer: the transfer is destroyed, then the batch is told.
discard_transfer(t) ==
    /\ Move(t, "gone", Nobody)
    /\ live_transfers' = [live_transfers EXCEPT ![Of[t]] = Decrement(@)]

\* The cancelled batch b takes the transfers in S out of the engine's queues.
DiscardAll(b, S) ==
    /\ place' = [t \in Transfers |-> IF t \in S THEN "gone" ELSE place[t]]
    /\ live_transfers' = [live_transfers EXCEPT ![b] = @ - Cardinality(S)]
    /\ UNCHANGED owner

\* finish_transfer is three steps: the counter, the completions, the end.
FinishCount(t) ==
    /\ place[t] = "count"
    /\ Move(t, "deliver", owner[t])
    /\ transfers_finished' = [transfers_finished EXCEPT ![Of[t]] = @ + 1]
    /\ UNCHANGED <<flagVars, stage, cancelled, live_transfers, pending_parts,
                   resultVars, loopVars, engineVars>>

\* karu_batch::push
Deliver(t) ==
    /\ place[t] = "deliver"
    /\ \E p \in PartsIn(t) \ (ready \cup taken) :
         /\ ready' = ready \cup {p}
         /\ pending_parts' = [pending_parts EXCEPT ![Of[t]] = Decrement(@)]
    /\ UNCHANGED <<transferVars, stage, cancelled, live_transfers,
                   transfers_finished, taken, ended, loopVars, engineVars>>

FinishDrop(t) ==
    /\ place[t] = "deliver"
    /\ PartsIn(t) \subseteq ready \cup taken
    /\ discard_transfer(t)
    /\ UNCHANGED <<restVars, loopVars>>

\* Mutant: the transfer is counted after its completions are published.
FinishCountLast(t) ==
    /\ \/ /\ place[t] = "count"
          /\ Move(t, "deliver", owner[t])
          /\ UNCHANGED <<live_transfers, transfers_finished>>
       \/ /\ place[t] = "deliver"
          /\ PartsIn(t) \subseteq ready \cup taken
          /\ discard_transfer(t)
          /\ transfers_finished' = [transfers_finished EXCEPT ![Of[t]] = @ + 1]
    /\ UNCHANGED <<flagVars, stage, cancelled, pending_parts, resultVars,
                   loopVars, engineVars>>

FinishOutOfOrder(t) == Deliver(t) \/ FinishCountLast(t)

finish_transfer(t) == FinishCount(t) \/ Deliver(t) \/ FinishDrop(t)
-----------------------------------------------------------------------------
(***************************************************************************)
(* The caller: Engine::submit, karu_batch_next, karu_batch_free.           *)
(***************************************************************************)

\* Mutant: pending_parts leaves plan.immediate out, though push() counts it.
SubmitCountTransfersOnly(b) ==
    /\ client
    /\ stage[b] = "new"
    /\ stage' = [stage EXCEPT ![b] = "counted"]
    /\ live_transfers' = [live_transfers EXCEPT ![b] = Cardinality(TransfersOf(b))]
    /\ pending_parts' = [pending_parts EXCEPT
                           ![b] = Cardinality(PartsOf(b)) - 2 * Cardinality(Immediate(b))]
    /\ ready' = ready \cup Immediate(b)
    /\ place' = [t \in Transfers |-> IF Of[t] = b THEN "plan" ELSE place[t]]
    /\ UNCHANGED <<owner, flagVars, cancelled, transfers_finished, taken,
                   ended, loopVars, engineVars>>

\* The counts are set before any transfer is visible to a worker; the
\* completions of plan.immediate follow, before the caller has the batch.
SubmitCount(b) ==
    /\ client
    /\ stage[b] = "new"
    /\ stage' = [stage EXCEPT ![b] = "counted"]
    /\ live_transfers' = [live_transfers EXCEPT ![b] = Cardinality(TransfersOf(b))]
    /\ pending_parts' = [pending_parts EXCEPT
                           ![b] = Cardinality(PartsOf(b)) - Cardinality(Immediate(b))]
    /\ ready' = ready \cup Immediate(b)
    /\ place' = [t \in Transfers |-> IF Of[t] = b THEN "plan" ELSE place[t]]
    /\ UNCHANGED <<owner, flagVars, cancelled, transfers_finished, taken,
                   ended, loopVars, engineVars>>

\* Under queue_mutex_: local files and cloud objects reach their workers.
SubmitQueue(b) ==
    /\ stage[b] = "counted"
    /\ stage' = [stage EXCEPT ![b] = "queued"]
    /\ place' = [t \in Transfers |->
                   IF Of[t] = b /\ Kind[t] = "file" THEN "file"
                   ELSE IF Of[t] = b /\ Cloud(t) THEN "credential"
                   ELSE place[t]]
    /\ UNCHANGED <<owner, flagVars, cancelled, countVars, resultVars, loopVars,
                   engineVars>>

\* Under http_mutex_: the other transfers reach the loops; the caller has b.
SubmitHttp(b) ==
    /\ stage[b] = "queued"
    /\ stage' = [stage EXCEPT ![b] = "open"]
    /\ place' = [t \in Transfers |->
                   IF Of[t] = b /\ Kind[t] = "http" THEN "http" ELSE place[t]]
    /\ UNCHANGED <<owner, flagVars, cancelled, countVars, resultVars, loopVars,
                   engineVars>>

\* karu_batch::next returns a completion.  A call that times out or that has
\* to wait changes nothing.
BatchNext(b) ==
    /\ stage[b] = "open"
    /\ \E p \in ready \cap PartsOf(b) :
         /\ ready' = ready \ {p}
         /\ taken' = taken \cup {p}
    /\ UNCHANGED <<transferVars, stage, cancelled, countVars, ended, loopVars,
                   engineVars>>

\* karu_batch::next returns KARU_END.
BatchEnd(b) ==
    /\ stage[b] = "open"
    /\ ready \cap PartsOf(b) = {}
    /\ pending_parts[b] = 0 \/ cancelled[b]
    /\ ended' = ended \cup {b}
    /\ UNCHANGED <<transferVars, stage, cancelled, countVars, ready, taken,
                   loopVars, engineVars>>

\* Mutant: cancel returns early when every part has its completion.
CancelCheckParts(b) ==
    /\ stage[b] = "open"
    /\ IF pending_parts[b] = 0
       THEN /\ cancelled' = [cancelled EXCEPT ![b] = TRUE]
            /\ stage' = [stage EXCEPT ![b] = "freed"]
       ELSE /\ stage' = [stage EXCEPT ![b] = "cancel"]
            /\ UNCHANGED cancelled
    /\ UNCHANGED <<transferVars, countVars, resultVars, loopVars, engineVars>>

\* Engine::cancel, first critical section: nothing live, nothing to do.
CancelCheck(b) ==
    /\ stage[b] = "open"
    /\ IF live_transfers[b] = 0
       THEN /\ cancelled' = [cancelled EXCEPT ![b] = TRUE]
            /\ stage' = [stage EXCEPT ![b] = "freed"]
       ELSE /\ stage' = [stage EXCEPT ![b] = "cancel"]
            /\ UNCHANGED cancelled
    /\ UNCHANGED <<transferVars, countVars, resultVars, loopVars, engineVars>>

CancelMark(b) ==
    /\ stage[b] = "cancel"
    /\ stage' = [stage EXCEPT ![b] = "marked"]
    /\ cancelled' = [cancelled EXCEPT ![b] = TRUE]
    /\ UNCHANGED <<transferVars, countVars, resultVars, loopVars, engineVars>>

\* Under queue_mutex_.
CancelQueues(b) ==
    /\ stage[b] = "marked"
    /\ stage' = [stage EXCEPT ![b] = "queuesScanned"]
    /\ DiscardAll(b, TransfersOf(b) \cap (At("file") \cup At("credential")))
    /\ UNCHANGED <<flagVars, cancelled, pending_parts, transfers_finished,
                   resultVars, loopVars, engineVars>>

\* Under http_mutex_.
CancelHttp(b) ==
    /\ stage[b] = "queuesScanned"
    /\ stage' = [stage EXCEPT ![b] = "httpScanned"]
    /\ DiscardAll(b, TransfersOf(b) \cap At("http"))
    /\ UNCHANGED <<flagVars, cancelled, pending_parts, transfers_finished,
                   resultVars, loopVars, engineVars>>

\* Each loop reads only its own flag, so storing them all is one step.
CancelFlag(b) ==
    /\ stage[b] = "httpScanned"
    /\ stage' = [stage EXCEPT ![b] = "waiting"]
    /\ cancellation_pending' = [l \in Loops |-> TRUE]
    /\ UNCHANGED <<transferVars, cancelled, countVars, resultVars, lpc, todo,
                   engineVars>>

\* The wait for live_transfers == 0 is over: karu_batch_free destroys the
\* batch and the caller may release its buffers.
CancelReturn(b) ==
    /\ stage[b] = "waiting"
    /\ live_transfers[b] = 0
    /\ stage' = [stage EXCEPT ![b] = "freed"]
    /\ UNCHANGED <<transferVars, cancelled, countVars, resultVars, loopVars,
                   engineVars>>

cancel(b) == \/ CancelMark(b) \/ CancelQueues(b) \/ CancelHttp(b)
             \/ CancelFlag(b) \/ CancelReturn(b)

\* The client lets go of the engine; open batches keep it alive.
ClientFree ==
    /\ client
    /\ \A b \in Batches : stage[b] \notin {"counted", "queued"}
    /\ client' = FALSE
    /\ UNCHANGED <<transferVars, stage, cancelled, countVars, resultVars,
                   loopVars, stop, exited>>

\* The last owner of the engine is gone: ~Engine runs stop_workers.
StopWorkers ==
    /\ ~client
    /\ ~stop
    /\ \A b \in Batches : stage[b] \in {"new", "freed"}
    /\ stop' = TRUE
    /\ UNCHANGED <<transferVars, stage, cancelled, countVars, resultVars,
                   loopVars, client, exited>>

submit(b) == SubmitQueue(b) \/ SubmitHttp(b)
-----------------------------------------------------------------------------
(***************************************************************************)
(* Engine::file_loop.                                                      *)
(***************************************************************************)
FileTake(w) ==
    /\ w \notin exited
    /\ Idle(w)
    /\ \E t \in At("file") : Move(t, "fileHeld", w)
    /\ UNCHANGED <<restVars, live_transfers, loopVars>>

\* A cancelled transfer is dropped; no memory and no file end it at once.
FileOpen(w) ==
    /\ \E t \in OwnedIn(w, {"fileHeld"}) :
         IF Cancelled(t)
         THEN discard_transfer(t)
         ELSE /\ \E p \in {"fileRead", "count"} : Move(t, p, w)
              /\ UNCHANGED live_transfers
    /\ UNCHANGED <<restVars, loopVars>>

\* Mutant: a cancelled read is dropped without transfer_finished.
FileReadDoneSilently(w) ==
    /\ \E t \in OwnedIn(w, {"fileRead"}) :
         /\ IF Cancelled(t) THEN Move(t, "gone", Nobody) ELSE Move(t, "count", w)
         /\ UNCHANGED live_transfers
    /\ UNCHANGED <<restVars, loopVars>>

\* The read loop has ended, for whichever reason.
FileReadDone(w) ==
    /\ \E t \in OwnedIn(w, {"fileRead"}) :
         IF Cancelled(t)
         THEN discard_transfer(t)
         ELSE Move(t, "count", w) /\ UNCHANGED live_transfers
    /\ UNCHANGED <<restVars, loopVars>>

\* A file worker leaves only when its queue is empty.
FileExit(w) ==
    /\ stop
    /\ w \notin exited
    /\ Idle(w)
    /\ At("file") = {}
    /\ exited' = exited \cup {w}
    /\ UNCHANGED <<transferVars, stage, cancelled, countVars, resultVars,
                   loopVars, client, stop>>

FinishOwned(th) == \E t \in OwnedIn(th, {"count", "deliver"}) : finish_transfer(t)

file_loop(w) == \/ FileTake(w) \/ FileOpen(w) \/ FileReadDone(w)
                \/ FileExit(w) \/ FinishOwned(w)

(***************************************************************************)
(* Engine::credential_loop.                                                *)
(***************************************************************************)
CredTake(w) ==
    /\ ~stop
    /\ Idle(w)
    /\ \E t \in At("credential") : Move(t, "credHeld", w)
    /\ UNCHANGED <<restVars, live_transfers, loopVars>>

\* Mutant: a cancelled lookup is dropped without transfer_finished.
CredCheckSilently(w) ==
    /\ \E t \in OwnedIn(w, {"credHeld"}) :
         /\ IF Cancelled(t) THEN Move(t, "gone", Nobody) ELSE Move(t, "lookup", w)
         /\ UNCHANGED live_transfers
    /\ UNCHANGED <<restVars, loopVars>>

CredCheck(w) ==
    /\ \E t \in OwnedIn(w, {"credHeld"}) :
         IF Cancelled(t)
         THEN discard_transfer(t)
         ELSE Move(t, "lookup", w) /\ UNCHANGED live_transfers
    /\ UNCHANGED <<restVars, loopVars>>

\* resolve_credentials has returned credentials, and the batch may have been
\* cancelled meanwhile; a deadline that has passed finishes the transfer.
CredResolved(w) ==
    /\ \E t \in OwnedIn(w, {"lookup"}) :
         IF Cancelled(t)
         THEN discard_transfer(t) /\ UNCHANGED credentials_ready
         ELSE \/ /\ Move(t, "credReady", w)
                 /\ credentials_ready' = [credentials_ready EXCEPT ![t] = TRUE]
                 /\ UNCHANGED live_transfers
              \/ /\ Move(t, "count", w)
                 /\ UNCHANGED <<live_transfers, credentials_ready>>
    /\ UNCHANGED <<attempt, region_retried, credentials_retried, stage,
                   cancelled, pending_parts, transfers_finished, resultVars,
                   loopVars, engineVars>>

\* resolve_credentials has failed or thrown.
CredFailed(w) ==
    /\ \E t \in OwnedIn(w, {"lookup"}) : Move(t, "count", w)
    /\ UNCHANGED <<restVars, live_transfers, loopVars>>

\* Under http_mutex_.
queue_http(w) ==
    /\ \E t \in OwnedIn(w, {"credReady"}) :
         IF stop
         THEN discard_transfer(t)
         ELSE Move(t, "http", Nobody) /\ UNCHANGED live_transfers
    /\ UNCHANGED <<restVars, loopVars>>

\* Mutant: a credential worker notices stop_ only when it is given work.
CredExitWithWork(w) ==
    /\ stop
    /\ w \notin exited
    /\ Idle(w)
    /\ At("credential") # {}
    /\ exited' = exited \cup {w}
    /\ UNCHANGED <<transferVars, stage, cancelled, countVars, resultVars,
                   loopVars, client, stop>>

CredExit(w) ==
    /\ stop
    /\ w \notin exited
    /\ Idle(w)
    /\ exited' = exited \cup {w}
    /\ UNCHANGED <<transferVars, stage, cancelled, countVars, resultVars,
                   loopVars, client, stop>>

credential_loop(w) == \/ CredTake(w) \/ CredCheck(w) \/ CredResolved(w)
                      \/ CredFailed(w) \/ queue_http(w) \/ CredExit(w)
                      \/ FinishOwned(w)
-----------------------------------------------------------------------------
(***************************************************************************)
(* Engine::io_loop, phase by phase.  A loop goes on only when it has       *)
(* finished the transfer it holds.                                         *)
(***************************************************************************)
InPhase(l, phase) == lpc[l] = phase /\ Idle(l)
Enter(l, phase) == lpc' = [lpc EXCEPT ![l] = phase]
Visit(l, S) == todo' = [todo EXCEPT ![l] = S]

\* How many transfers take_http moves: what fits beside those the loop
\* already has in a slot or waiting for one.
Quota(l) ==
    LET room == Limit[l] - Cardinality(OwnedIn(l, Slots \cup {"pending"}))
        queued == Cardinality(At("http"))
    IN  IF room < 0 THEN 0 ELSE IF room < queued THEN room ELSE queued

take_http(l) ==
    /\ InPhase(l, "take")
    /\ ~stop
    /\ \E S \in SUBSET At("http") :
         /\ Cardinality(S) = Quota(l)
         /\ place' = [t \in Transfers |-> IF t \in S THEN "pending" ELSE place[t]]
         /\ owner' = [t \in Transfers |-> IF t \in S THEN l ELSE owner[t]]
    /\ Enter(l, "cancellation")
    /\ UNCHANGED <<restVars, live_transfers, todo, cancellation_pending>>

\* cancellation_pending.exchange(false)
LoopCancellation(l) ==
    /\ InPhase(l, "cancellation")
    /\ cancellation_pending' = [cancellation_pending EXCEPT ![l] = FALSE]
    /\ IF cancellation_pending[l]
       THEN Enter(l, "discard") /\ Visit(l, OwnedIn(l, Registered))
       ELSE Enter(l, "retries") /\ UNCHANGED todo
    /\ UNCHANGED <<transferVars, stage, cancelled, countVars, resultVars,
                   engineVars>>

\* Mutant: a discarded transfer stays in the container that is scanned.
DiscardWithoutErase(l) ==
    /\ InPhase(l, "discard")
    /\ \E t \in todo[l] :
         /\ Visit(l, IF Cancelled(t) THEN todo[l] ELSE todo[l] \ {t})
         /\ IF Cancelled(t)
            THEN discard_transfer(t)
            ELSE UNCHANGED <<place, owner, live_transfers>>
    /\ UNCHANGED <<restVars, lpc, cancellation_pending>>

\* discard_cancelled_http, one transfer of pending, resolving, retries or
\* active at a time.
discard_cancelled_http(l) ==
    /\ InPhase(l, "discard")
    /\ \E t \in todo[l] :
         /\ Visit(l, todo[l] \ {t})
         /\ IF Cancelled(t)
            THEN discard_transfer(t)
            ELSE UNCHANGED <<place, owner, live_transfers>>
    /\ UNCHANGED <<restVars, lpc, cancellation_pending>>

\* Mutant: the flag is reset after the pass instead of exchanged before it.
DiscardDoneResets(l) ==
    /\ InPhase(l, "discard")
    /\ todo[l] = {}
    /\ Enter(l, "retries")
    /\ cancellation_pending' = [cancellation_pending EXCEPT ![l] = FALSE]
    /\ UNCHANGED <<transferVars, stage, cancelled, countVars, resultVars, todo,
                   engineVars>>

DiscardDone(l) ==
    /\ InPhase(l, "discard")
    /\ todo[l] = {}
    /\ Enter(l, "retries")
    /\ UNCHANGED <<transferVars, stage, cancelled, countVars, resultVars, todo,
                   cancellation_pending, engineVars>>

\* Retries that are due join pending; then the resolving queue is taken over.
LoopRetries(l) ==
    /\ InPhase(l, "retries")
    /\ place' = [t \in Transfers |->
                   IF t \in OwnedIn(l, {"due"}) THEN "pending" ELSE place[t]]
    /\ Enter(l, "resolving")
    /\ Visit(l, OwnedIn(l, {"resolving", "lookedUp"}))
    /\ UNCHANGED <<owner, restVars, live_transfers, cancellation_pending>>

\* start_transfer(prepared): an expired deadline or a failure to set the
\* request up ends the transfer; one still without an address goes on waiting.
LoopResolving(l) ==
    /\ InPhase(l, "resolving")
    /\ \E t \in todo[l] :
         /\ Visit(l, todo[l] \ {t})
         /\ IF Cancelled(t)
            THEN discard_transfer(t)
            ELSE /\ \E p \in {"count", IF place[t] = "lookedUp" THEN "active"
                                                              ELSE place[t]} :
                      Move(t, p, l)
                 /\ UNCHANGED live_transfers
    /\ UNCHANGED <<restVars, lpc, cancellation_pending>>

ResolvingDone(l) ==
    /\ InPhase(l, "resolving")
    /\ todo[l] = {}
    /\ Enter(l, "start")
    /\ UNCHANGED <<transferVars, stage, cancelled, countVars, resultVars, todo,
                   cancellation_pending, engineVars>>

\* Mutants: transfers that wait for an address take no slot; one slot is lost.
HasRoomBesideActive(l) == Cardinality(OwnedIn(l, {"active", "done"})) < Limit[l]
HasRoomOffByOne(l) == Cardinality(OwnedIn(l, Slots)) + 1 < Limit[l]

HasRoom(l) == Cardinality(OwnedIn(l, Slots)) < Limit[l]

\* Where start_transfer leaves a transfer: finished with an error, waiting
\* for an address, or given to libcurl.  A cloud transfer without credentials
\* is the code's internal error.
StartOutcomes(t) ==
    IF Cloud(t) /\ ~credentials_ready[t]
    THEN {"count"}
    ELSE {"count", "resolving", "active"}

start_transfer(l) ==
    /\ InPhase(l, "start")
    /\ HasRoom(l)
    /\ \E t \in OwnedIn(l, {"pending"}) :
         IF Cancelled(t)
         THEN discard_transfer(t)
         ELSE /\ \E p \in StartOutcomes(t) : Move(t, p, l)
              /\ UNCHANGED live_transfers
    /\ UNCHANGED <<restVars, loopVars>>

StartDone(l) ==
    /\ InPhase(l, "start")
    /\ ~HasRoom(l) \/ OwnedIn(l, {"pending"}) = {}
    /\ Enter(l, "perform")
    /\ UNCHANGED <<transferVars, stage, cancelled, countVars, resultVars, todo,
                   cancellation_pending, engineVars>>

\* curl_multi_perform: its answers are the Answer steps.
Perform(l) ==
    /\ InPhase(l, "perform")
    /\ Enter(l, "messages")
    /\ UNCHANGED <<transferVars, stage, cancelled, countVars, resultVars, todo,
                   cancellation_pending, engineVars>>

\* curl_multi_perform reports an error: every active transfer fails.
PerformError(l) ==
    /\ InPhase(l, "perform")
    /\ Enter(l, "fail")
    /\ Visit(l, OwnedIn(l, {"active", "done"}))
    /\ UNCHANGED <<transferVars, stage, cancelled, countVars, resultVars,
                   cancellation_pending, engineVars>>

FailActive(l) ==
    /\ InPhase(l, "fail")
    /\ \E t \in todo[l] : Visit(l, todo[l] \ {t}) /\ Move(t, "count", l)
    /\ UNCHANGED <<restVars, live_transfers, lpc, cancellation_pending>>

FailDone(l) ==
    /\ InPhase(l, "fail")
    /\ todo[l] = {}
    /\ Enter(l, "messages")
    /\ UNCHANGED <<transferVars, stage, cancelled, countVars, resultVars, todo,
                   cancellation_pending, engineVars>>

(***************************************************************************)
(* The messages of curl_multi_info_read.                                   *)
(***************************************************************************)

\* Success, an expired deadline, or a failure nothing may correct.
MessageFinish(l) ==
    /\ InPhase(l, "messages")
    /\ \E t \in OwnedIn(l, {"done"}) : Move(t, "count", l)
    /\ UNCHANGED <<restVars, live_transfers, loopVars>>

\* S3 names another region: one more signed request, outside the budget.
MessageRegion(l) ==
    /\ InPhase(l, "messages")
    /\ \E t \in OwnedIn(l, {"done"}) :
         /\ Kind[t] = "s3"
         /\ ~region_retried[t]
         /\ Move(t, "pending", l)
         /\ region_retried' = [region_retried EXCEPT ![t] = TRUE]
    /\ UNCHANGED <<attempt, credentials_retried, credentials_ready, stage,
                   cancelled, countVars, resultVars, loopVars, engineVars>>

\* The credentials have expired: one fresh lookup, outside the budget.
MessageRefresh(l) ==
    /\ InPhase(l, "messages")
    /\ \E t \in OwnedIn(l, {"done"}) :
         /\ Cloud(t)
         /\ ~credentials_retried[t]
         /\ Move(t, "credential", Nobody)
         /\ credentials_retried' = [credentials_retried EXCEPT ![t] = TRUE]
         /\ credentials_ready' = [credentials_ready EXCEPT ![t] = FALSE]
    /\ UNCHANGED <<attempt, region_retried, stage, cancelled, countVars,
                   resultVars, loopVars, engineVars>>

\* Mutant: one attempt too many.
MessageRetryOnceMore(l) ==
    /\ InPhase(l, "messages")
    /\ \E t \in OwnedIn(l, {"done"}) :
         /\ attempt[t] < MaxAttempts
         /\ attempt' = [attempt EXCEPT ![t] = @ + 1]
         /\ \E p \in {"retries", "count"} : Move(t, p, l)
    /\ UNCHANGED <<region_retried, credentials_retried, credentials_ready,
                   stage, cancelled, countVars, resultVars, loopVars,
                   engineVars>>

\* An ordinary retry, unless the deadline leaves no time to wait for it.
MessageRetry(l) ==
    /\ InPhase(l, "messages")
    /\ \E t \in OwnedIn(l, {"done"}) :
         /\ attempt[t] + 1 < MaxAttempts
         /\ attempt' = [attempt EXCEPT ![t] = @ + 1]
         /\ \E p \in {"retries", "count"} : Move(t, p, l)
    /\ UNCHANGED <<region_retried, credentials_retried, credentials_ready,
                   stage, cancelled, countVars, resultVars, loopVars,
                   engineVars>>

\* No message is left; the poll that follows always returns, so the loop is
\* back at the top.
MessagesDone(l) ==
    /\ InPhase(l, "messages")
    /\ OwnedIn(l, {"done"}) = {}
    /\ Enter(l, "take")
    /\ UNCHANGED <<transferVars, stage, cancelled, countVars, resultVars, todo,
                   cancellation_pending, engineVars>>

\* After stop_ whatever the loop still has is discarded.
LoopExit(l) ==
    /\ InPhase(l, "take")
    /\ stop
    /\ Enter(l, "exited")
    /\ exited' = exited \cup {l}
    /\ place' = [t \in Transfers |->
                   IF t \in OwnedIn(l, Registered) THEN "gone" ELSE place[t]]
    /\ live_transfers' = [b \in Batches |-> live_transfers[b] -
                   Cardinality(TransfersOf(b) \cap OwnedIn(l, Registered))]
    /\ UNCHANGED <<owner, flagVars, stage, cancelled, pending_parts,
                   transfers_finished, resultVars, todo, cancellation_pending,
                   client, stop>>

io_loop(l) ==
    \/ take_http(l) \/ LoopCancellation(l) \/ discard_cancelled_http(l)
    \/ DiscardDone(l) \/ LoopRetries(l) \/ LoopResolving(l) \/ ResolvingDone(l)
    \/ start_transfer(l) \/ StartDone(l) \/ Perform(l) \/ PerformError(l)
    \/ FailActive(l) \/ FailDone(l) \/ MessageFinish(l) \/ MessageRegion(l)
    \/ MessageRefresh(l) \/ MessageRetry(l) \/ MessagesDone(l) \/ LoopExit(l)
    \/ FinishOwned(l)
-----------------------------------------------------------------------------
(***************************************************************************)
(* What happens to a registered transfer outside the code of the loop.     *)
(***************************************************************************)
Ripen(t, from, to) ==
    /\ place[t] = from
    /\ place' = [place EXCEPT ![t] = to]
    /\ UNCHANGED <<owner, restVars, live_transfers, loopVars>>

Answer(t) == Ripen(t, "active", "done")             \* libcurl is done with t
LookupAnswered(t) == Ripen(t, "resolving", "lookedUp")  \* HostResolver::entry
RetryDue(t) == Ripen(t, "retries", "due")           \* Retry::due has passed

\* ~Engine has joined every thread.
Terminated == exited = Threads /\ UNCHANGED vars

Next ==
    \/ \E b \in Batches : \/ SubmitCount(b) \/ submit(b) \/ BatchNext(b)
                          \/ BatchEnd(b) \/ CancelCheck(b) \/ cancel(b)
    \/ ClientFree
    \/ StopWorkers
    \/ \E w \in FileWorkers : file_loop(w)
    \/ \E w \in CredWorkers : credential_loop(w)
    \/ \E l \in Loops : io_loop(l)
    \/ \E t \in Transfers : Answer(t) \/ LookupAnswered(t) \/ RetryDue(t)
    \/ Terminated

Spec == Init /\ [][Next]_vars

\* The threads of karu run, and a call of the caller goes on once begun.
KaruFairness ==
    /\ \A b \in Batches : WF_vars(submit(b)) /\ WF_vars(cancel(b))
    /\ WF_vars(StopWorkers)
    /\ \A w \in FileWorkers : WF_vars(file_loop(w))
    /\ \A w \in CredWorkers : WF_vars(credential_loop(w))
    /\ \A l \in Loops : WF_vars(io_loop(l))
    /\ \A t \in Transfers : WF_vars(LookupAnswered(t)) /\ WF_vars(RetryDue(t))

\* Every exchange libcurl carries ends: with an answer, at the request
\* deadline, or at the connect and low-speed limits set by configure.
NetworkFairness == \A t \in Transfers : WF_vars(Answer(t))

FairSpec == Spec /\ KaruFairness /\ NetworkFairness

\* The same threads, with servers that may never answer.
SilentNetworkSpec == Spec /\ KaruFairness
-----------------------------------------------------------------------------
(***************************************************************************)
(* Properties.                                                             *)
(***************************************************************************)

\* Every variable has its type; in particular the unsigned counters of the
\* batch never fall below zero and a pass of a loop visits only transfers
\* that the loop owns.
TypeOK ==
    /\ place \in [Transfers -> Places]
    /\ owner \in [Transfers -> Threads \cup {Nobody}]
    /\ attempt \in [Transfers -> 0 .. MaxAttempts - 1]
    /\ region_retried \in [Transfers -> BOOLEAN]
    /\ credentials_retried \in [Transfers -> BOOLEAN]
    /\ credentials_ready \in [Transfers -> BOOLEAN]
    /\ stage \in [Batches -> Stages]
    /\ live_transfers \in [Batches -> Nat]
    /\ pending_parts \in [Batches -> Nat]
    /\ cancelled \in [Batches -> BOOLEAN]
    /\ transfers_finished \in [Batches -> Nat]
    /\ ready \in SUBSET Parts
    /\ taken \in SUBSET Parts
    /\ ended \in SUBSET Batches
    /\ lpc \in [Loops -> Phases]
    /\ todo \in [Loops -> SUBSET Transfers]
    /\ cancellation_pending \in [Loops -> BOOLEAN]
    /\ client \in BOOLEAN
    /\ stop \in BOOLEAN
    /\ exited \in SUBSET Threads

\* The transfers of b that some queue, worker or loop still has.
Alive(b) == {t \in TransfersOf(b) : place[t] # "gone"}

\* live_transfers counts the transfers that still exist, from the moment
\* submit has set it until the batch is destroyed: no path of a worker, of a
\* loop or of cancel drops a transfer without telling the batch, or tells it
\* twice.
LiveCount == \A b \in Batches :
    stage[b] # "new" => live_transfers[b] = Cardinality(Alive(b))

\* Where the transfers are that the current pass of a loop may still visit.
PassPlaces(phase) ==
    IF phase = "discard" THEN Registered
    ELSE IF phase = "resolving" THEN {"resolving", "lookedUp"}
    ELSE IF phase = "fail" THEN {"active", "done"}
    ELSE {}

\* Every container has what its owner believes to be in it: a registered
\* transfer belongs to a loop; a pass visits only transfers that its loop still
\* has, whatever the callers, the workers and the other loops do meanwhile;
\* and a transfer leaves the plan only through the submit of its batch.
PlacesAgree ==
    /\ \A t \in Transfers :
         /\ place[t] \in Registered => owner[t] \in Loops
         /\ place[t] = "none" <=> stage[Of[t]] = "new"
         /\ stage[Of[t]] = "counted" => place[t] = "plan"
         /\ stage[Of[t]] = "queued" /\ Kind[t] = "http" => place[t] = "plan"
    /\ \A l \in Loops : \A t \in todo[l] :
         owner[t] = l /\ place[t] \in PassPlaces(lpc[l])

\* When karu_batch_free has returned, no thread and no queue has a transfer
\* of the batch: nobody touches the destroyed batch or the buffers the caller
\* may have released (engine.cpp:1013, karu.h:300).
FreedIsReleased == \A b \in Batches :
    stage[b] = "freed" => Alive(b) = {}

\* Whoever has received the last completion of a batch reads the final number
\* of finished transfers from karu_batch_get_stats (engine.cpp:441).
LastResultSeesCount == \A b \in Batches :
    /\ stage[b] # "new"
    /\ PartsOf(b) \subseteq taken
    => transfers_finished[b] = Cardinality(TransfersOf(b))

\* A loop never has more transfers in a slot than its share of the client's
\* concurrency, however retries, corrections and lookups come back.
SlotLimit == \A l \in Loops : Cardinality(OwnedIn(l, Slots)) <= Limit[l]

\* Once cancel waits, a loop that has a transfer of the batch in resolving,
\* retries or active will look at it: its flag is still set, or the pass that
\* consumed the flag has not reached the transfer yet.  Without this the wait
\* could only end by luck.
WaitIsNoticed == \A t \in Transfers :
    /\ stage[Of[t]] = "waiting"
    /\ place[t] \in Registered \ {"pending"}
    => \/ cancellation_pending[owner[t]]
       \/ lpc[owner[t]] = "discard" /\ t \in todo[owner[t]]

\* The engine implements the contract of a batch: seen through the mapping
\* below, every step of a worker, loop or caller is a step of BatchContract
\* or changes nothing the caller can see.
Contract == INSTANCE BatchContract WITH
    phase <- [b \in Batches |->
                IF stage[b] \in {"new", "freed"} THEN stage[b] ELSE "open"],
    held <- {b \in Batches : stage[b] # "new" /\ Alive(b) # {}},
    complete <- ready,
    received <- taken

ImplementsContract == Contract!Spec

\* karu_batch_free always returns, whatever the batch's transfers are doing.
FreeReturns == \A b \in Batches : stage[b] = "cancel" ~> stage[b] = "freed"

\* Every range of an open batch gets its completion, unless the caller frees
\* the batch first: no transfer is left in a queue nobody serves.
EverythingCompletes == \A b \in Batches :
    stage[b] = "open" ~> (pending_parts[b] = 0 \/ stage[b] # "open")

\* karu_batch_free "cancels pending work and waits for active workers to
\* release the buffers" (karu.h:300): it does not wait for a server.
FreeNeedsNoServer == \A b \in Batches :
    stage[b] = "waiting" ~> stage[b] = "freed"

\* ~Engine joins all its threads.
StopJoins == stop ~> exited = Threads
=============================================================================
