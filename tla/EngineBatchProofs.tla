------------------------- MODULE EngineBatchProofs -------------------------
(***************************************************************************)
(* What the engine promises the owner of a batch, proved from the          *)
(* inductive invariant of EngineProofs: the contract of module             *)
(* BatchContract, the statistics that come with the last completion, the   *)
(* slots of a loop, and that a cancellation is noticed.                    *)
(***************************************************************************)
EXTENDS EngineProofs

Done == ready \cup taken

\* The counters are exact and completions are where they belong: no range of a
\* batch that is not submitted has one, pending_parts counts the ranges that
\* have none, and a transfer delivers all its ranges between its count and its
\* end, or none.
PartsCounted ==
    /\ \A p \in Done : stage[BatchOf[p]] # "new"
    /\ \A b \in Batches : stage[b] # "new" =>
         pending_parts[b] = Cardinality(PartsOf(b) \ Done)
TransfersWhole ==
    \A t \in Transfers :
        /\ place[t] \notin {"deliver", "gone"} => PartsIn(t) \cap Done = {}
        /\ place[t] = "gone" => PartsIn(t) \subseteq Done \/ PartsIn(t) \cap Done = {}
Counted(b) ==
    {t \in TransfersOf(b) : \/ place[t] = "deliver"
                            \/ place[t] = "gone" /\ PartsIn(t) \subseteq Done}
FinishedCount ==
    \A b \in Batches : transfers_finished[b] = Cardinality(Counted(b))

\* A batch is marked when cancel begins its scans and not before, and the engine
\* is stopped when no batch is left.
CancelAgrees ==
    \A b \in Batches :
        /\ cancelled[b] => stage[b] \notin {"new", "counted", "queued", "open", "cancel"}
        /\ stage[b] \in {"marked", "queuesScanned", "httpScanned", "waiting"}
              => cancelled[b]
StopAgrees ==
    stop => ~client /\ \A b \in Batches : stage[b] \in {"new", "freed"}

ResultInv ==
    /\ Inv /\ CancelAgrees /\ StopAgrees /\ PartsCounted /\ TransfersWhole
    /\ FinishedCount

-----------------------------------------------------------------------------
(***************************************************************************)
(* What a step of a worker, of a loop or of the environment looks like.    *)
(***************************************************************************)

\* It leaves alone what belongs to the callers, and their results too unless it
\* is one of the first two steps of finish_transfer.
Quiet == UNCHANGED <<stage, cancelled, client, stop, pending_parts,
                     transfers_finished, ready, taken, ended>>

\* It carries one transfer t to place p, with owner th.  Only FinishDrop takes
\* up a transfer that delivers.  A loop gives a slot to a transfer that had one,
\* or when it has room to a pending one that is not cancelled.
Carried(t, p, th) ==
    /\ place'[t] = p /\ owner'[t] = th
    /\ \A u \in Transfers \ {t} : place'[u] = place[u] /\ owner'[u] = owner[u]
    /\ place[t] \notin {"none", "plan", "gone"}
    /\ place[t] = "deliver" => p = "gone" /\ PartsIn(t) \subseteq Done
    /\ p \notin {"none", "plan", "deliver"}
    /\ p \in Registered \ {"pending"} =>
         /\ th = owner[t]
         /\ \/ /\ place[t] \in Registered \ {"pending"}
               /\ p \in Slots => place[t] \in Slots
            \/ place[t] = "pending" /\ ~Cancelled(t) /\ HasRoom(th)

\* It moves a share of http_queue_, or the retries that are due, to pending.
Gathered(S) ==
    /\ \A t \in S : place[t] \in {"http", "due"} /\ place'[t] = "pending"
    /\ \A t \in Transfers \ S : place'[t] = place[t] /\ owner'[t] = owner[t]

Work ==
    \/ \E t \in Transfers : FinishCount(t) \/ Deliver(t)
    \/ /\ Quiet
       /\ \/ UNCHANGED <<place, owner>>
          \/ \E t \in Transfers, p \in Places, th \in Threads \cup {Nobody} :
                Carried(t, p, th)
          \/ \E S \in SUBSET Transfers : Gathered(S)
          \/ \E l \in Loops : LoopExit(l)

\* A move to a place that is not a loop's.
LEMMA CarriedMove ==
  ASSUME TypeOK, NEW t \in Transfers, NEW p \in Places,
         NEW th \in Threads \cup {Nobody}, Move(t, p, th),
         place[t] \notin {"none", "plan", "gone", "deliver"},
         p \notin {"none", "plan", "deliver"} \cup (Registered \ {"pending"})
  PROVE  Carried(t, p, th)
BY DEF TypeOK, Move, Carried

LEMMA CarriedDiscard ==
  ASSUME TypeOK, NEW t \in Transfers, discard_transfer(t),
         place[t] \notin {"none", "plan", "gone"},
         place[t] = "deliver" => PartsIn(t) \subseteq Done
  PROVE  \E p \in Places, th \in Threads \cup {Nobody} : Carried(t, p, th)
<1>1. "gone" \in Places /\ "gone" \notin Registered
  BY DEF Places, Registered, Slots
<1>2. Carried(t, "gone", Nobody)
  BY <1>1 DEF TypeOK, discard_transfer, Move, Carried
<1> QED
  BY <1>1, <1>2

\* finish_transfer, by whichever thread has the transfer.
LEMMA WorkFinish ==
  ASSUME Inv, NEW t \in Transfers, finish_transfer(t)
  PROVE  Work
<1>1. CASE FinishDrop(t)
  <2>1. /\ place[t] = "deliver" /\ discard_transfer(t) /\ Quiet
        /\ PartsIn(t) \subseteq Done
    BY <1>1 DEF FinishDrop, restVars, resultVars, engineVars, Quiet, Done
  <2>2. \E p \in Places, th \in Threads \cup {Nobody} : Carried(t, p, th)
    BY <2>1, CarriedDiscard DEF Inv
  <2> QED
    BY <2>1, <2>2 DEF Work
<1> QED
  BY <1>1 DEF finish_transfer, Work

\* A file worker.
LEMMA WorkFile ==
  ASSUME Inv, NEW w \in FileWorkers, file_loop(w)
  PROVE  Work
<1> USE DEF restVars, flagVars, transferVars, countVars, resultVars, loopVars,
        engineVars
<1>0. TypeOK /\ w \in Threads \cup {Nobody} /\ Nobody \in Threads \cup {Nobody}
  BY DEF Inv, Threads
<1>9. {"fileHeld", "fileRead", "credHeld", "lookup", "credReady", "count",
       "http", "gone"} \subseteq Places \ Registered
  BY DEF Places, Held, Queued, Registered, Slots
<1>1. CASE FileTake(w)
  <2>1. Quiet
    BY <1>1 DEF FileTake, Quiet
  <2>2. PICK t \in Transfers :
           /\ place[t] = "file"
           /\ Move(t, "fileHeld", w)
    BY <1>1 DEF FileTake, OwnedIn, At
  <2>3. \E p \in Places, th \in Threads \cup {Nobody} : Carried(t, p, th)
    BY <1>0, <1>9, <2>2, CarriedMove
  <2> QED
    BY <2>1, <2>3 DEF Work
<1>2. CASE FileOpen(w)
  <2>1. Quiet
    BY <1>2 DEF FileOpen, Quiet
  <2>2. PICK t \in Transfers :
           /\ place[t] = "fileHeld"
           /\ \/ discard_transfer(t)
              \/ Move(t, "fileRead", w)
              \/ Move(t, "count", w)
    BY <1>2 DEF FileOpen, OwnedIn, At
  <2>3. \E p \in Places, th \in Threads \cup {Nobody} : Carried(t, p, th)
    BY <1>0, <1>9, <2>2, CarriedMove, CarriedDiscard
  <2> QED
    BY <2>1, <2>3 DEF Work
<1>3. CASE FileReadDone(w)
  <2>1. Quiet
    BY <1>3 DEF FileReadDone, Quiet
  <2>2. PICK t \in Transfers :
           /\ place[t] = "fileRead"
           /\ \/ discard_transfer(t)
              \/ Move(t, "count", w)
    BY <1>3 DEF FileReadDone, OwnedIn, At
  <2>3. \E p \in Places, th \in Threads \cup {Nobody} : Carried(t, p, th)
    BY <1>0, <1>9, <2>2, CarriedMove, CarriedDiscard
  <2> QED
    BY <2>1, <2>3 DEF Work
<1>4. CASE FileExit(w)
  BY <1>4 DEF FileExit, Work, Quiet
<1>5. CASE FinishOwned(w)
  BY <1>5, WorkFinish DEF FinishOwned, OwnedIn
<1> QED
  BY <1>1, <1>2, <1>3, <1>4, <1>5 DEF file_loop

\* A credential worker.
LEMMA WorkCredential ==
  ASSUME Inv, NEW w \in CredWorkers, credential_loop(w)
  PROVE  Work
<1> USE DEF restVars, flagVars, transferVars, countVars, resultVars, loopVars,
        engineVars
<1>0. TypeOK /\ w \in Threads \cup {Nobody} /\ Nobody \in Threads \cup {Nobody}
  BY DEF Inv, Threads
<1>9. {"fileHeld", "fileRead", "credHeld", "lookup", "credReady", "count",
       "http", "gone"} \subseteq Places \ Registered
  BY DEF Places, Held, Queued, Registered, Slots
<1>1. CASE CredTake(w)
  <2>1. Quiet
    BY <1>1 DEF CredTake, Quiet
  <2>2. PICK t \in Transfers :
           /\ place[t] = "credential"
           /\ Move(t, "credHeld", w)
    BY <1>1 DEF CredTake, OwnedIn, At
  <2>3. \E p \in Places, th \in Threads \cup {Nobody} : Carried(t, p, th)
    BY <1>0, <1>9, <2>2, CarriedMove
  <2> QED
    BY <2>1, <2>3 DEF Work
<1>2. CASE CredCheck(w)
  <2>1. Quiet
    BY <1>2 DEF CredCheck, Quiet
  <2>2. PICK t \in Transfers :
           /\ place[t] = "credHeld"
           /\ \/ discard_transfer(t)
              \/ Move(t, "lookup", w)
    BY <1>2 DEF CredCheck, OwnedIn, At
  <2>3. \E p \in Places, th \in Threads \cup {Nobody} : Carried(t, p, th)
    BY <1>0, <1>9, <2>2, CarriedMove, CarriedDiscard
  <2> QED
    BY <2>1, <2>3 DEF Work
<1>3. CASE CredResolved(w)
  <2>1. Quiet
    BY <1>3 DEF CredResolved, Quiet
  <2>2. PICK t \in Transfers :
           /\ place[t] = "lookup"
           /\ \/ discard_transfer(t)
              \/ Move(t, "credReady", w)
              \/ Move(t, "count", w)
    BY <1>3 DEF CredResolved, OwnedIn, At
  <2>3. \E p \in Places, th \in Threads \cup {Nobody} : Carried(t, p, th)
    BY <1>0, <1>9, <2>2, CarriedMove, CarriedDiscard
  <2> QED
    BY <2>1, <2>3 DEF Work
<1>4. CASE CredFailed(w)
  <2>1. Quiet
    BY <1>4 DEF CredFailed, Quiet
  <2>2. PICK t \in Transfers :
           /\ place[t] = "lookup"
           /\ Move(t, "count", w)
    BY <1>4 DEF CredFailed, OwnedIn, At
  <2>3. \E p \in Places, th \in Threads \cup {Nobody} : Carried(t, p, th)
    BY <1>0, <1>9, <2>2, CarriedMove
  <2> QED
    BY <2>1, <2>3 DEF Work
<1>5. CASE queue_http(w)
  <2>1. Quiet
    BY <1>5 DEF queue_http, Quiet
  <2>2. PICK t \in Transfers :
           /\ place[t] = "credReady"
           /\ \/ discard_transfer(t)
              \/ Move(t, "http", Nobody)
    BY <1>5 DEF queue_http, OwnedIn, At
  <2>3. \E p \in Places, th \in Threads \cup {Nobody} : Carried(t, p, th)
    BY <1>0, <1>9, <2>2, CarriedMove, CarriedDiscard
  <2> QED
    BY <2>1, <2>3 DEF Work
<1>6. CASE CredExit(w)
  BY <1>6 DEF CredExit, Work, Quiet
<1>7. CASE FinishOwned(w)
  BY <1>7, WorkFinish DEF FinishOwned, OwnedIn
<1> QED
  BY <1>1, <1>2, <1>3, <1>4, <1>5, <1>6, <1>7 DEF credential_loop

\* An I/O loop that only changes its phase.
LEMMA WorkPhases ==
  ASSUME NEW l \in Loops,
         \/ LoopCancellation(l) \/ DiscardDone(l) \/ ResolvingDone(l)
         \/ StartDone(l) \/ Perform(l) \/ PerformError(l) \/ FailDone(l)
         \/ MessagesDone(l)
  PROVE  Quiet /\ UNCHANGED <<place, owner>>
<1> USE DEF transferVars, countVars, resultVars, engineVars, Quiet
<1> QED
  BY DEF LoopCancellation, DiscardDone, ResolvingDone, StartDone, Perform,
         PerformError, FailDone, MessagesDone

\* An I/O loop that visits one transfer of a pass.
LEMMA WorkVisits ==
  ASSUME Inv, NEW l \in Loops,
         discard_cancelled_http(l) \/ LoopResolving(l) \/ FailActive(l)
  PROVE  Work
<1> USE DEF restVars, flagVars, transferVars, countVars, resultVars, loopVars,
        engineVars
<1>0. TypeOK /\ l \in Threads \cup {Nobody} /\ "count" \in Places \ Registered
  BY DEF Inv, Threads, Places, Held, Registered, Slots
<1>1. Quiet
  BY DEF discard_cancelled_http, LoopResolving, FailActive, Quiet
<1>2. \A t \in todo[l] :
         /\ t \in Transfers /\ owner[t] = l /\ place[t] \in Registered
         /\ lpc[l] = "resolving" => place[t] \in {"resolving", "lookedUp"}
  BY DEF Inv, TypeOK, PlacesAgree, PassPlaces, Registered, Slots
<1>3. \A t \in Transfers : place[t] \in Registered =>
         place[t] \notin {"none", "plan", "gone", "deliver"}
  BY DEF Registered, Slots
<1>4. CASE discard_cancelled_http(l)
  <2>1. PICK t \in todo[l] : discard_transfer(t) \/ UNCHANGED <<place, owner>>
    BY <1>4 DEF discard_cancelled_http
  <2> QED
    BY <1>0, <1>1, <1>2, <1>3, <2>1, CarriedDiscard DEF Work
<1>5. CASE LoopResolving(l)
  <2>1. PICK t \in todo[l] :
           \/ discard_transfer(t)
           \/ \E p \in {"count", IF place[t] = "lookedUp" THEN "active"
                                                          ELSE place[t]} :
                 Move(t, p, l)
    BY <1>5 DEF LoopResolving
  <2>2. t \in Transfers /\ owner[t] = l /\ place[t] \in {"resolving", "lookedUp"}
    BY <1>2, <1>5 DEF LoopResolving, InPhase
  <2>3. CASE discard_transfer(t)
    BY <1>0, <1>1, <2>2, <2>3, CarriedDiscard DEF Work
  <2>4. CASE Move(t, "count", l)
    BY <1>0, <1>1, <2>2, <2>4, CarriedMove DEF Work
  <2>5. ASSUME NEW p \in {"resolving", "active"}, Move(t, p, l)
        PROVE  Work
    <3>1. p \in Places /\ p \in Slots /\ place[t] \in Slots /\ Slots \subseteq Registered
      BY <2>2 DEF Places, Registered, Slots
    <3>2. Carried(t, p, l)
      BY <1>0, <2>2, <2>5, <3>1 DEF Carried, Move, TypeOK, Slots
    <3> QED
      BY <1>0, <1>1, <2>2, <3>1, <3>2 DEF Work
  <2> QED
    BY <2>1, <2>2, <2>3, <2>4, <2>5
<1>6. CASE FailActive(l)
  <2>1. PICK t \in todo[l] : Move(t, "count", l)
    BY <1>6 DEF FailActive
  <2> QED
    BY <1>0, <1>1, <1>2, <1>3, <2>1, CarriedMove DEF Work
<1> QED
  BY <1>4, <1>5, <1>6

\* An I/O loop that takes one transfer out of a container.
LEMMA WorkMoves ==
  ASSUME Inv, NEW l \in Loops,
         \/ start_transfer(l) \/ MessageFinish(l) \/ MessageRegion(l)
         \/ MessageRefresh(l) \/ MessageRetry(l)
  PROVE  Work
<1> USE DEF restVars, flagVars, transferVars, countVars, resultVars, loopVars,
        engineVars
<1>0. /\ TypeOK /\ l \in Threads \cup {Nobody}
      /\ {"count", "credential"} \subseteq Places \ Registered
      /\ {"active", "resolving", "retries", "pending"} \subseteq Places \cap Registered
  BY DEF Inv, Threads, Places, Held, Queued, Registered, Slots
<1>1. Quiet
  BY DEF start_transfer, MessageFinish, MessageRegion, MessageRefresh,
         MessageRetry, Quiet
<1>2. CASE start_transfer(l)
  <2>1. PICK t \in Transfers :
           /\ owner[t] = l /\ place[t] = "pending"
           /\ \/ discard_transfer(t)
              \/ ~Cancelled(t) /\ \E p \in StartOutcomes(t) : Move(t, p, l)
    BY <1>2 DEF start_transfer, OwnedIn
  <2>2. CASE discard_transfer(t)
    BY <1>0, <1>1, <2>1, <2>2, CarriedDiscard DEF Work
  <2>3. ASSUME ~Cancelled(t), NEW p \in {"count", "resolving", "active"},
               Move(t, p, l)
        PROVE  Work
    <3>1. HasRoom(l) /\ p \in Places
      BY <1>0, <1>2 DEF start_transfer
    <3>2. Carried(t, p, l)
      BY <1>0, <2>1, <2>3, <3>1 DEF Carried, Move, TypeOK
    <3> QED
      BY <1>0, <1>1, <3>1, <3>2 DEF Work
  <2> QED
    BY <2>1, <2>2, <2>3 DEF StartOutcomes
<1>3. CASE MessageFinish(l) \/ MessageRegion(l) \/ MessageRefresh(l) \/ MessageRetry(l)
  <2>1. PICK t \in Transfers :
           /\ owner[t] = l /\ place[t] = "done"
           /\ \/ \E p \in {"count", "pending", "retries"} : Move(t, p, l)
              \/ Move(t, "credential", Nobody)
    BY <1>3 DEF MessageFinish, MessageRegion, MessageRefresh, MessageRetry, OwnedIn
  <2>2. ASSUME NEW p \in {"count", "pending"}, Move(t, p, l) PROVE Work
    BY <1>0, <1>1, <2>1, <2>2, CarriedMove DEF Work
  <2>3. CASE Move(t, "credential", Nobody)
    BY <1>0, <1>1, <2>1, <2>3, CarriedMove DEF Work
  <2>4. CASE Move(t, "retries", l)
    <3>1. Carried(t, "retries", l)
      BY <1>0, <2>1, <2>4 DEF Carried, Move, TypeOK, Slots, Registered
    <3> QED
      BY <1>0, <1>1, <3>1 DEF Work
  <2> QED
    BY <2>1, <2>2, <2>3, <2>4
<1> QED
  BY <1>2, <1>3

\* An I/O loop.
LEMMA WorkLoop ==
  ASSUME Inv, NEW l \in Loops, io_loop(l)
  PROVE  Work
<1> USE DEF restVars, flagVars, transferVars, countVars, resultVars, loopVars,
        engineVars
<1>1. CASE take_http(l)
  <2>1. PICK S \in SUBSET At("http") :
           /\ place' = [t \in Transfers |-> IF t \in S THEN "pending" ELSE place[t]]
           /\ owner' = [t \in Transfers |-> IF t \in S THEN l ELSE owner[t]]
    BY <1>1 DEF take_http
  <2>2. S \in SUBSET Transfers /\ Gathered(S)
    BY <2>1 DEF At, Gathered
  <2> QED
    BY <1>1, <2>2 DEF take_http, Quiet, Work
<1>2. CASE LoopRetries(l)
  <2> DEFINE S == OwnedIn(l, {"due"})
  <2>1. /\ place' = [t \in Transfers |-> IF t \in S THEN "pending" ELSE place[t]]
        /\ UNCHANGED owner
    BY <1>2 DEF LoopRetries
  <2>2. S \in SUBSET Transfers /\ Gathered(S)
    BY <2>1 DEF OwnedIn, Gathered
  <2> QED
    BY <1>2, <2>2 DEF LoopRetries, Quiet, Work
<1>3. CASE LoopExit(l)
  BY <1>3 DEF LoopExit, Quiet, Work
<1>4. CASE FinishOwned(l)
  BY <1>4, WorkFinish DEF FinishOwned, OwnedIn
<1>5. CASE \/ LoopCancellation(l) \/ DiscardDone(l) \/ ResolvingDone(l)
           \/ StartDone(l) \/ Perform(l) \/ PerformError(l) \/ FailDone(l)
           \/ MessagesDone(l)
  BY <1>5, WorkPhases DEF Work
<1> QED
  BY <1>1, <1>2, <1>3, <1>4, <1>5, WorkVisits, WorkMoves DEF io_loop

\* libcurl, the resolver and the clock.
LEMMA WorkRipen ==
  ASSUME Inv, NEW t \in Transfers,
         Answer(t) \/ LookupAnswered(t) \/ RetryDue(t)
  PROVE  Work
<1> USE DEF restVars, flagVars, transferVars, countVars, resultVars, loopVars,
        engineVars
<1>1. PICK from, to :
         /\ Ripen(t, from, to)
         /\ \/ from = "active" /\ to = "done"
            \/ from = "resolving" /\ to = "lookedUp"
            \/ from = "retries" /\ to = "due"
  BY DEF Answer, LookupAnswered, RetryDue
<1>2. /\ place[t] = from
      /\ place' = [place EXCEPT ![t] = to]
      /\ UNCHANGED owner /\ Quiet
  BY <1>1 DEF Ripen, Quiet
<1>3. to \in Places /\ owner[t] \in Threads \cup {Nobody}
  BY <1>1 DEF Inv, TypeOK, Places, Registered, Slots
<1>4. Carried(t, to, owner[t])
  BY <1>1, <1>2 DEF Carried, Inv, TypeOK, Slots, Registered
<1> QED
  BY <1>2, <1>3, <1>4 DEF Work

\* Whatever is not a step of a caller or of shutdown is such a step.
LEMMA WorkShape ==
  ASSUME Inv,
         \/ \E w \in FileWorkers : file_loop(w)
         \/ \E w \in CredWorkers : credential_loop(w)
         \/ \E l \in Loops : io_loop(l)
         \/ \E t \in Transfers : Answer(t) \/ LookupAnswered(t) \/ RetryDue(t)
         \/ Terminated \/ UNCHANGED vars
  PROVE  Work
<1>1. CASE Terminated \/ UNCHANGED vars
  BY <1>1 DEF Terminated, vars, transferVars, countVars, resultVars, engineVars,
              Work, Quiet
<1> QED
  BY <1>1, WorkFile, WorkCredential, WorkLoop, WorkRipen
-----------------------------------------------------------------------------
(***************************************************************************)
(* Results.                                                                *)
(***************************************************************************)

\* Every transfer of the plan has a range, every range one transfer at most.
LEMMA PartsSeparate ==
  /\ \A t \in Transfers : PartsIn(t) # {} /\ PartsIn(t) \subseteq PartsOf(Of[t])
  /\ \A t, u \in Transfers : \A p \in PartsIn(t) : p \in PartsIn(u) => t = u
  /\ \A t \in Transfers : \A b \in Batches : PartsIn(t) \cap Immediate(b) = {}
BY PlanAssumption, SetsAssumption DEF PartsIn, PartsOf, Immediate

\* A batch has finitely many ranges.
LEMMA PartsFinite ==
  ASSUME NEW S \in SUBSET Parts
  PROVE  IsFiniteSet(S) /\ Cardinality(S) \in Nat
BY SetsAssumption, FS_Subset, FS_CardinalityType

\* Transfer t stays, moves on before its count, or ends after its deliveries.
Proceeds(t) ==
    \/ place'[t] = place[t]
    \/ place[t] \notin {"deliver", "gone"} /\ place'[t] # "deliver"
    \/ place[t] = "deliver" /\ place'[t] = "gone" /\ PartsIn(t) \subseteq Done

\* A step that completes nothing and counts nothing.
LEMMA ResultKept ==
  ASSUME ResultInv, Inv', Done' = Done,
         UNCHANGED <<pending_parts, transfers_finished>>,
         \A b \in Batches : stage'[b] = "new" <=> stage[b] = "new",
         \A t \in Transfers : Proceeds(t),
         CancelAgrees', StopAgrees'
  PROVE  ResultInv'
<1>1. PartsCounted'
  <2>1. \A p \in Done : BatchOf[p] \in Batches
    BY PlanAssumption DEF ResultInv, Inv, TypeOK, Done
  <2> QED
    BY <2>1 DEF ResultInv, PartsCounted
<1>2. TransfersWhole'
  BY DEF ResultInv, TransfersWhole, Proceeds
<1>3. \A b \in Batches : Counted(b)' = Counted(b)
  <2>1. ASSUME NEW t \in Transfers
        PROVE  (place[t] = "deliver" \/ (place[t] = "gone" /\ PartsIn(t) \subseteq Done))
           <=> (place'[t] = "deliver" \/ (place'[t] = "gone" /\ PartsIn(t) \subseteq Done))
    <3>1. PartsIn(t) \cap Done = {} => ~(PartsIn(t) \subseteq Done)
      BY PartsSeparate
    <3> QED
      BY <3>1 DEF ResultInv, TransfersWhole, Proceeds
  <2> QED
    BY <2>1 DEF Counted, TransfersOf
<1>4. FinishedCount'
  BY <1>3 DEF ResultInv, FinishedCount
<1> QED
  BY <1>1, <1>2, <1>4 DEF ResultInv

\* The transfer is counted before its first completion (finish_transfer).
LEMMA ResultCount ==
  ASSUME ResultInv, Inv', NEW t \in Transfers, FinishCount(t)
  PROVE  ResultInv'
<1> USE PlanAssumption DEF resultVars, engineVars, loopVars
<1>1. /\ place[t] = "count" /\ place'[t] = "deliver"
      /\ \A u \in Transfers \ {t} : place'[u] = place[u]
      /\ transfers_finished' = [transfers_finished EXCEPT ![Of[t]] = @ + 1]
      /\ UNCHANGED <<stage, cancelled, client, stop, pending_parts, ready, taken>>
  BY DEF FinishCount, Move, ResultInv, Inv, TypeOK
<1>2. Done' = Done
  BY <1>1 DEF Done
<1>3. CancelAgrees' /\ StopAgrees' /\ PartsCounted' /\ TransfersWhole'
  BY <1>1, <1>2 DEF ResultInv, CancelAgrees, StopAgrees, PartsCounted, TransfersWhole
<1>4. ASSUME NEW b \in Batches
      PROVE  transfers_finished'[b] = Cardinality(Counted(b)')
  <2>1. transfers_finished[b] = Cardinality(Counted(b))
    BY DEF ResultInv, FinishedCount
  <2>2. CASE b # Of[t]
    <3>1. Counted(b)' = Counted(b)
      BY <1>1, <1>2, <2>2 DEF Counted, TransfersOf
    <3> QED
      BY <1>1, <2>1, <2>2, <3>1 DEF ResultInv, Inv, TypeOK
  <2>3. CASE b = Of[t]
    <3>1. Counted(b)' = Counted(b) \cup {t} /\ t \notin Counted(b)
      BY <1>1, <1>2, <2>3 DEF Counted, TransfersOf
    <3>2. IsFiniteSet(Counted(b))
      BY AliveFinite DEF Counted
    <3>3. Cardinality(Counted(b)') = Cardinality(Counted(b)) + 1
      BY <3>1, <3>2, FS_AddElement
    <3> QED
      BY <1>1, <2>1, <2>3, <3>3 DEF ResultInv, Inv, TypeOK
  <2> QED
    BY <2>2, <2>3
<1> QED
  BY <1>3, <1>4 DEF ResultInv, FinishedCount

\* One completion, of a range that had none (karu_batch::push).
LEMMA ResultDeliver ==
  ASSUME ResultInv, Inv', NEW t \in Transfers, Deliver(t)
  PROVE  ResultInv'
<1> USE PlanAssumption DEF resultVars, engineVars, loopVars, transferVars
<1>1. PICK p \in PartsIn(t) \ Done :
         /\ ready' = ready \cup {p}
         /\ pending_parts' = [pending_parts EXCEPT ![Of[t]] = Decrement(@)]
  BY DEF Deliver, Done
<1>2. /\ place[t] = "deliver"
      /\ UNCHANGED <<place, stage, cancelled, client, stop, transfers_finished, taken>>
  BY DEF Deliver
<1>3. Done' = Done \cup {p}
  BY <1>1, <1>2 DEF Done
<1> DEFINE b == Of[t]
<1>4. /\ b \in Batches /\ stage[b] # "new" /\ BatchOf[p] = b /\ p \in PartsOf(b)
      /\ \A c \in Batches \ {b} : p \notin PartsOf(c)
  BY <1>2, PartsSeparate DEF ResultInv, Inv, PlacesAgree, PartsOf
<1> HIDE DEF b
<1>5. \A u \in Transfers \ {t} : p \notin PartsIn(u)
  BY <1>1, PartsSeparate
<1>6. CancelAgrees' /\ StopAgrees'
  BY <1>2 DEF ResultInv, CancelAgrees, StopAgrees
<1>7. PartsCounted'
  <2>1. \A q \in Done' : stage'[BatchOf[q]] # "new"
    BY <1>2, <1>3, <1>4 DEF ResultInv, PartsCounted
  <2>2. pending_parts'[b] = Cardinality(PartsOf(b) \ Done')
    <3> DEFINE Open == PartsOf(b) \ Done
    <3>1. pending_parts[b] = Cardinality(Open) /\ p \in Open
      BY <1>1, <1>4 DEF ResultInv, PartsCounted
    <3>2. IsFiniteSet(Open) /\ Cardinality(Open) \in Nat
      BY PartsFinite DEF PartsOf
    <3>3. PartsOf(b) \ Done' = Open \ {p}
      BY <1>3
    <3> HIDE DEF Open
    <3>4. Cardinality(Open \ {p}) = Cardinality(Open) - 1
      BY <3>1, <3>2, FS_RemoveElement
    <3>5. Cardinality(Open) # 0
      BY <3>1, <3>2, FS_EmptySet
    <3>6. pending_parts'[b] = Decrement(pending_parts[b])
      BY <1>1, <1>4 DEF ResultInv, Inv, TypeOK, b
    <3>7. Decrement(Cardinality(Open)) = Cardinality(Open) - 1
      BY <3>2, <3>5 DEF Decrement
    <3> QED
      BY <3>1, <3>3, <3>4, <3>6, <3>7
  <2>3. ASSUME NEW c \in Batches \ {b}
        PROVE  /\ PartsOf(c) \ Done' = PartsOf(c) \ Done
               /\ pending_parts'[c] = pending_parts[c]
    BY <1>1, <1>3, <1>4 DEF ResultInv, Inv, TypeOK, b
  <2>4. ASSUME NEW c \in Batches, stage'[c] # "new"
        PROVE  pending_parts'[c] = Cardinality(PartsOf(c) \ Done')
    <3>1. pending_parts[c] = Cardinality(PartsOf(c) \ Done)
      BY <1>2, <2>4 DEF ResultInv, PartsCounted
    <3> QED
      BY <2>2, <2>3, <3>1
  <2> QED
    BY <2>1, <2>4 DEF PartsCounted
<1>8. TransfersWhole'
  BY <1>2, <1>3, <1>5 DEF ResultInv, TransfersWhole
<1>9. \A c \in Batches : Counted(c)' = Counted(c)
  BY <1>2, <1>3, <1>5 DEF Counted, TransfersOf
<1>10. FinishedCount'
  BY <1>2, <1>9 DEF ResultInv, FinishedCount
<1> QED
  BY <1>6, <1>7, <1>8, <1>10 DEF ResultInv

\* Workers, loops and the environment keep the results.
LEMMA ResultWork ==
  ASSUME ResultInv, Inv', Work
  PROVE  ResultInv'
<1>1. CASE \E t \in Transfers : FinishCount(t) \/ Deliver(t)
  BY <1>1, ResultCount, ResultDeliver
<1>2. CASE Quiet /\ \A t \in Transfers : Proceeds(t)
  <2>1. Done' = Done /\ CancelAgrees' /\ StopAgrees'
    BY <1>2 DEF Quiet, Done, ResultInv, CancelAgrees, StopAgrees
  <2> QED
    BY <1>2, <2>1, ResultKept DEF Quiet
<1>3. ASSUME NEW t \in Transfers, NEW p, NEW th, Carried(t, p, th)
      PROVE  \A u \in Transfers : Proceeds(u)
  BY <1>3 DEF Carried, Proceeds
<1>4. ASSUME NEW S \in SUBSET Transfers, Gathered(S)
      PROVE  \A u \in Transfers : Proceeds(u)
  BY <1>4 DEF Gathered, Proceeds
<1>5. ASSUME NEW l \in Loops, LoopExit(l)
      PROVE  \A u \in Transfers : Proceeds(u)
  BY <1>5 DEF LoopExit, OwnedIn, Proceeds, Registered, Slots
<1>6. UNCHANGED place => \A u \in Transfers : Proceeds(u)
  BY DEF Proceeds
<1> QED
  BY <1>1, <1>2, <1>3, <1>4, <1>5, <1>6 DEF Work

\* submit counts the ranges of the batch and completes those the plan rejects,
\* before anybody else knows of the batch.
LEMMA ResultSubmit ==
  ASSUME ResultInv, Inv', NEW b \in Batches, SubmitCount(b)
  PROVE  ResultInv'
<1> USE PlanAssumption DEF loopVars, engineVars
<1> DEFINE I == Immediate(b)
<1>1. /\ client /\ stage[b] = "new"
      /\ stage' = [stage EXCEPT ![b] = "counted"]
      /\ pending_parts' = [pending_parts EXCEPT
                             ![b] = Cardinality(PartsOf(b)) - Cardinality(I)]
      /\ ready' = ready \cup I
      /\ place' = [t \in Transfers |-> IF Of[t] = b THEN "plan" ELSE place[t]]
      /\ UNCHANGED <<cancelled, client, stop, transfers_finished, taken>>
  BY DEF SubmitCount
<1>2. /\ I \subseteq PartsOf(b) /\ PartsOf(b) \cap Done = {}
      /\ \A c \in Batches \ {b} : PartsOf(c) \cap I = {}
      /\ \A t \in Transfers : PartsIn(t) \cap I = {}
  <2>1. PartsOf(b) \cap Done = {}
    BY <1>1 DEF ResultInv, PartsCounted, PartsOf
  <2> QED
    BY <2>1, PartsSeparate DEF Immediate, PartsOf
<1> HIDE DEF I
<1>3. Done' = Done \cup I
  BY <1>1 DEF Done
<1>4. \A c \in Batches : stage'[c] = IF c = b THEN "counted" ELSE stage[c]
  BY <1>1 DEF ResultInv, Inv, TypeOK
<1>5. \A t \in Transfers : /\ place'[t] = IF Of[t] = b THEN "plan" ELSE place[t]
                           /\ Of[t] = b => place[t] = "none"
  BY <1>1 DEF ResultInv, Inv, PlacesAgree
<1>6. CancelAgrees' /\ StopAgrees'
  BY <1>1, <1>4 DEF ResultInv, CancelAgrees, StopAgrees
<1>7. PartsCounted'
  <2>1. ASSUME NEW p \in Done' PROVE stage'[BatchOf[p]] # "new"
    <3>1. p \in Parts /\ BatchOf[p] \in Batches
      BY DEF Done, Inv, TypeOK
    <3> QED
      BY <1>2, <1>3, <1>4, <3>1 DEF ResultInv, PartsCounted, PartsOf
  <2>2. pending_parts'[b] = Cardinality(PartsOf(b) \ Done')
    <3>1. IsFiniteSet(PartsOf(b))
      BY PartsFinite DEF PartsOf
    <3>2. Cardinality(PartsOf(b) \ I) =
            Cardinality(PartsOf(b)) - Cardinality(PartsOf(b) \cap I)
      BY <3>1, FS_Difference
    <3>3. PartsOf(b) \cap I = I /\ PartsOf(b) \ Done' = PartsOf(b) \ I
      BY <1>2, <1>3
    <3>4. pending_parts'[b] = Cardinality(PartsOf(b)) - Cardinality(I)
      BY <1>1 DEF ResultInv, Inv, TypeOK
    <3> QED
      BY <3>2, <3>3, <3>4
  <2>3. ASSUME NEW c \in Batches, stage'[c] # "new"
        PROVE  pending_parts'[c] = Cardinality(PartsOf(c) \ Done')
    <3>1. CASE c # b
      <4>1. PartsOf(c) \ Done' = PartsOf(c) \ Done
        BY <1>2, <1>3, <3>1
      <4>2. pending_parts'[c] = pending_parts[c]
        BY <1>1, <3>1 DEF ResultInv, Inv, TypeOK
      <4> QED
        BY <1>4, <2>3, <3>1, <4>1, <4>2 DEF ResultInv, PartsCounted
    <3> QED
      BY <2>2, <3>1
  <2> QED
    BY <2>1, <2>3 DEF PartsCounted
<1>8. TransfersWhole'
  <2>1. \A t \in Transfers : PartsIn(t) \cap Done' = PartsIn(t) \cap Done
    BY <1>2, <1>3
  <2> QED
    BY <1>3, <1>5, <2>1 DEF ResultInv, TransfersWhole
<1>9. \A c \in Batches : Counted(c)' = Counted(c)
  <2>1. \A t \in Transfers : PartsIn(t) \subseteq Done' <=> PartsIn(t) \subseteq Done
    BY <1>2, <1>3
  <2> QED
    BY <1>5, <2>1 DEF Counted, TransfersOf
<1>10. FinishedCount'
  BY <1>1, <1>9 DEF ResultInv, FinishedCount
<1> QED
  BY <1>6, <1>7, <1>8, <1>10 DEF ResultInv

\* The other steps of the callers complete nothing.
LEMMA ResultCaller ==
  ASSUME ResultInv, Inv', NEW b \in Batches,
         submit(b) \/ BatchNext(b) \/ BatchEnd(b) \/ CancelCheck(b) \/ cancel(b)
  PROVE  ResultInv'
<1> USE PlanAssumption DEF flagVars, transferVars, countVars, resultVars,
        loopVars, engineVars
<1>0. TypeOK /\ PlacesAgree
  BY DEF ResultInv, Inv
<1>1. CASE submit(b)
  <2>1. PICK next \in {"queued", "open"} :
           /\ stage[b] \in {"counted", "queued"}
           /\ stage' = [stage EXCEPT ![b] = next]
    BY <1>1 DEF submit, SubmitQueue, SubmitHttp
  <2>2. /\ UNCHANGED <<cancelled, client, stop, pending_parts,
                       transfers_finished, ready, taken>>
        /\ \A t \in Transfers : place'[t] = place[t]
                                \/ (place[t] = "plan" /\ place'[t] \in Queued)
    <3>1. CASE SubmitQueue(b)
      BY <1>0, <3>1 DEF SubmitQueue, PlacesAgree, Queued
    <3>2. CASE SubmitHttp(b)
      BY <1>0, <3>2 DEF SubmitHttp, PlacesAgree, Queued
    <3> QED
      BY <1>1, <3>1, <3>2 DEF submit
  <2>3. \A c \in Batches : stage'[c] = IF c = b THEN next ELSE stage[c]
    BY <1>0, <2>1 DEF TypeOK
  <2>4. CancelAgrees' /\ StopAgrees'
    BY <2>1, <2>2, <2>3 DEF ResultInv, CancelAgrees, StopAgrees
  <2>5. \A t \in Transfers : Proceeds(t)
    BY <2>2 DEF Proceeds, Queued
  <2> QED
    BY <2>1, <2>2, <2>3, <2>4, <2>5, ResultKept DEF Done
<1>2. CASE BatchNext(b)
  <2>1. UNCHANGED <<place, stage, cancelled, client, stop, pending_parts,
                    transfers_finished>>
    BY <1>2 DEF BatchNext
  <2>2. Done' = Done
    BY <1>2 DEF BatchNext, Done
  <2>3. CancelAgrees' /\ StopAgrees'
    BY <2>1 DEF ResultInv, CancelAgrees, StopAgrees
  <2> QED
    BY <2>1, <2>2, <2>3, ResultKept DEF Proceeds
<1>3. CASE BatchEnd(b)
  <2>1. UNCHANGED <<place, stage, cancelled, client, stop, pending_parts,
                    transfers_finished, ready, taken>>
    BY <1>3 DEF BatchEnd
  <2>2. CancelAgrees' /\ StopAgrees'
    BY <2>1 DEF ResultInv, CancelAgrees, StopAgrees
  <2> QED
    BY <2>1, <2>2, ResultKept DEF Proceeds, Done
<1>4. CASE CancelCheck(b)
  <2>1. PICK next \in {"freed", "cancel"} :
           /\ stage[b] = "open"
           /\ stage' = [stage EXCEPT ![b] = next]
           /\ \/ next = "freed" /\ cancelled' = [cancelled EXCEPT ![b] = TRUE]
              \/ next = "cancel" /\ UNCHANGED cancelled
    BY <1>4 DEF CancelCheck
  <2>2. UNCHANGED <<place, client, stop, pending_parts, transfers_finished,
                    ready, taken>>
    BY <1>4 DEF CancelCheck
  <2>3. \A c \in Batches : /\ stage'[c] = IF c = b THEN next ELSE stage[c]
                           /\ c # b => cancelled'[c] = cancelled[c]
    BY <1>0, <2>1 DEF TypeOK
  <2>4. CancelAgrees'
    BY <2>1, <2>3 DEF ResultInv, CancelAgrees
  <2>5. StopAgrees'
    BY <2>1, <2>2, <2>3 DEF ResultInv, StopAgrees
  <2> QED
    BY <2>1, <2>2, <2>3, <2>4, <2>5, ResultKept DEF Proceeds, Done
<1>5. CASE CancelMark(b)
  <2>1. /\ stage[b] = "cancel"
        /\ stage' = [stage EXCEPT ![b] = "marked"]
        /\ cancelled' = [cancelled EXCEPT ![b] = TRUE]
        /\ UNCHANGED <<place, client, stop, pending_parts, transfers_finished,
                       ready, taken>>
    BY <1>5 DEF CancelMark
  <2>2. \A c \in Batches : /\ stage'[c] = IF c = b THEN "marked" ELSE stage[c]
                           /\ cancelled'[b]
                           /\ c # b => cancelled'[c] = cancelled[c]
    BY <1>0, <2>1 DEF TypeOK
  <2>3. CancelAgrees'
    BY <2>2 DEF ResultInv, CancelAgrees
  <2>4. StopAgrees'
    BY <2>1, <2>2 DEF ResultInv, StopAgrees
  <2> QED
    BY <2>1, <2>2, <2>3, <2>4, ResultKept DEF Proceeds, Done
<1>6. CASE CancelFlag(b)
  <2>1. /\ stage[b] = "httpScanned"
        /\ stage' = [stage EXCEPT ![b] = "waiting"]
        /\ UNCHANGED <<place, cancelled, client, stop, pending_parts,
                       transfers_finished, ready, taken>>
    BY <1>6 DEF CancelFlag
  <2>2. \A c \in Batches : stage'[c] = IF c = b THEN "waiting" ELSE stage[c]
    BY <1>0, <2>1 DEF TypeOK
  <2>3. CancelAgrees' /\ StopAgrees'
    BY <2>1, <2>2 DEF ResultInv, CancelAgrees, StopAgrees
  <2> QED
    BY <2>1, <2>2, <2>3, ResultKept DEF Done, Proceeds
<1>7. CASE CancelReturn(b)
  <2>1. /\ stage[b] = "waiting"
        /\ stage' = [stage EXCEPT ![b] = "freed"]
        /\ UNCHANGED <<place, cancelled, client, stop, pending_parts,
                       transfers_finished, ready, taken>>
    BY <1>7 DEF CancelReturn
  <2>2. \A c \in Batches : stage'[c] = IF c = b THEN "freed" ELSE stage[c]
    BY <1>0, <2>1 DEF TypeOK
  <2>3. CancelAgrees' /\ StopAgrees'
    BY <2>1, <2>2 DEF ResultInv, CancelAgrees, StopAgrees
  <2> QED
    BY <2>1, <2>2, <2>3, ResultKept DEF Done, Proceeds
<1>8. CASE CancelQueues(b) \/ CancelHttp(b)
  <2>1. PICK next \in {"queuesScanned", "httpScanned"} :
           /\ stage[b] \in {"marked", "queuesScanned"}
           /\ stage' = [stage EXCEPT ![b] = next]
    BY <1>8 DEF CancelQueues, CancelHttp
  <2>2. /\ UNCHANGED <<cancelled, client, stop, pending_parts,
                       transfers_finished, ready, taken>>
        /\ \A t \in Transfers :
              place'[t] = place[t] \/ (place[t] \in Queued /\ place'[t] = "gone")
    BY <1>8 DEF CancelQueues, CancelHttp, DiscardAll, At, Queued
  <2>3. \A c \in Batches : stage'[c] = IF c = b THEN next ELSE stage[c]
    BY <1>0, <2>1 DEF TypeOK
  <2>4. CancelAgrees' /\ StopAgrees'
    BY <2>1, <2>2, <2>3 DEF ResultInv, CancelAgrees, StopAgrees
  <2>5. \A t \in Transfers : Proceeds(t)
    BY <2>2 DEF Proceeds, Queued
  <2> QED
    BY <2>1, <2>2, <2>3, <2>4, <2>5, ResultKept DEF Done
<1> QED
  BY <1>1, <1>2, <1>3, <1>4, <1>5, <1>6, <1>7, <1>8 DEF cancel

\* The client goes, and the engine after the last batch.
LEMMA ResultClose ==
  ASSUME ResultInv, Inv', ClientFree \/ StopWorkers
  PROVE  ResultInv'
<1> USE DEF flagVars, transferVars, countVars, resultVars, loopVars, engineVars
<1>1. UNCHANGED <<place, stage, cancelled, pending_parts, transfers_finished,
                  ready, taken>>
  BY DEF ClientFree, StopWorkers
<1>2. CancelAgrees'
  BY <1>1 DEF ResultInv, CancelAgrees
<1>3. StopAgrees'
  BY DEF ClientFree, StopWorkers, ResultInv, StopAgrees
<1> QED
  BY <1>1, <1>2, <1>3, ResultKept DEF Done, Proceeds

\* An engine without a batch.
LEMMA ResultInit == Init => ResultInv
<1> SUFFICES ASSUME Init PROVE ResultInv
  OBVIOUS
<1>1. Inv
  BY InvInit
<1>2. Done = {}
  BY DEF Init, Done
<1>3. CancelAgrees /\ StopAgrees /\ PartsCounted /\ TransfersWhole
  BY <1>2 DEF Init, CancelAgrees, StopAgrees, PartsCounted, TransfersWhole
<1>4. \A b \in Batches : Counted(b) = {}
  BY DEF Init, Counted, TransfersOf
<1>5. FinishedCount
  BY <1>4, FS_EmptySet DEF Init, FinishedCount
<1> QED
  BY <1>1, <1>3, <1>5 DEF ResultInv

\* Every step keeps the results of every batch exact.
LEMMA ResultNext == ResultInv /\ [Next]_vars => ResultInv'
<1> SUFFICES ASSUME ResultInv, [Next]_vars PROVE ResultInv'
  OBVIOUS
<1>1. Inv /\ Inv'
  BY InvNext DEF ResultInv
<1>2. CASE \E b \in Batches : \/ SubmitCount(b) \/ submit(b) \/ BatchNext(b)
                              \/ BatchEnd(b) \/ CancelCheck(b) \/ cancel(b)
  BY <1>1, <1>2, ResultSubmit, ResultCaller
<1>3. CASE ClientFree \/ StopWorkers
  BY <1>1, <1>3, ResultClose
<1>4. CASE \/ \E w \in FileWorkers : file_loop(w)
           \/ \E w \in CredWorkers : credential_loop(w)
           \/ \E l \in Loops : io_loop(l)
           \/ \E t \in Transfers : Answer(t) \/ LookupAnswered(t) \/ RetryDue(t)
           \/ Terminated \/ UNCHANGED vars
  BY <1>1, <1>4, WorkShape, ResultWork
<1> QED
  BY <1>2, <1>3, <1>4 DEF Next

\* The results of every batch are exact in every reachable state.
LEMMA ResultAlways == Spec => []ResultInv
<1>1. Init => ResultInv
  BY ResultInit
<1>2. ResultInv /\ [Next]_vars => ResultInv'
  BY ResultNext
<1> QED
  BY <1>1, <1>2, PTL DEF Spec

\* Whoever has the last completion of a batch reads the final number of finished
\* transfers: each is counted before its first completion is published
\* (finish_transfer), however workers and loops interleave.
THEOREM LastResultIsCounted == Spec => []LastResultSeesCount
<1>1. ResultInv => LastResultSeesCount
  <2> SUFFICES ASSUME ResultInv, NEW b \in Batches, PartsOf(b) \subseteq taken
               PROVE  transfers_finished[b] = Cardinality(TransfersOf(b))
    BY DEF LastResultSeesCount
  <2>1. \A t \in TransfersOf(b) : t \in Counted(b)
    <3> SUFFICES ASSUME NEW t \in TransfersOf(b) PROVE t \in Counted(b)
      OBVIOUS
    <3>1. t \in Transfers /\ Of[t] = b
      BY DEF TransfersOf
    <3>2. PartsIn(t) # {} /\ PartsIn(t) \subseteq Done
      BY <3>1, PartsSeparate DEF Done
    <3>3. place[t] \in {"deliver", "gone"}
      BY <3>1, <3>2 DEF ResultInv, TransfersWhole
    <3> QED
      BY <3>1, <3>2, <3>3 DEF Counted
  <2>2. Counted(b) = TransfersOf(b)
    BY <2>1 DEF Counted
  <2> QED
    BY <2>2 DEF ResultInv, FinishedCount
<1> QED
  BY <1>1, ResultAlways, PTL
-----------------------------------------------------------------------------
(***************************************************************************)
(* The contract of a batch.                                                *)
(***************************************************************************)

\* The refinement mapping of Contract.
Phase == [b \in Batches |->
            IF stage[b] \in {"new", "freed"} THEN stage[b] ELSE "open"]
Holding == {b \in Batches : stage[b] # "new" /\ Alive(b) # {}}

\* What a caller sees of a batch whose stage changes.
LEMMA PhaseChange ==
  ASSUME NEW b \in Batches, NEW st, NEW ph,
         \A c \in Batches : stage'[c] = IF c = b THEN st ELSE stage[c],
         ph = IF st \in {"new", "freed"} THEN st ELSE "open"
  PROVE  Phase' = [Phase EXCEPT ![b] = ph]
<1>1. \A c \in Batches : Phase'[c] = IF c = b THEN ph ELSE Phase[c]
  BY DEF Phase
<1>2. /\ Phase = [c \in Batches |-> Phase[c]]
      /\ Phase' = [c \in Batches |-> Phase'[c]]
  BY Zenon DEF Phase
<1> QED
  BY <1>1, <1>2

\* A step that at most lets go of the buffers of one batch.
LEMMA ContractQuiet ==
  ASSUME NEW b \in Batches, Phase' = Phase, UNCHANGED <<ready, taken, ended>>,
         \A c \in Batches : stage'[c] = "new" <=> stage[c] = "new",
         \A c \in Batches \ {b} : Alive(c)' = Alive(c),
         Alive(b)' \subseteq Alive(b)
  PROVE  [Contract!Next]_(Contract!vars)
<1>1. CASE Holding' = Holding
  BY <1>1 DEF Contract!vars, Phase, Holding
<1>2. CASE Holding' # Holding
  <2>1. b \in Holding /\ Holding' = Holding \ {b}
    BY <1>2 DEF Holding
  <2>2. Contract!Release(b)
    BY <2>1 DEF Contract!Release, Phase, Holding
  <2> QED
    BY <2>2 DEF Contract!Next
<1> QED
  BY <1>1, <1>2

\* Workers, loops and the environment.
LEMMA ContractWork ==
  ASSUME ResultInv, ResultInv', Work
  PROVE  [Contract!Next]_(Contract!vars)
<1> USE PlanAssumption DEF resultVars, engineVars, loopVars, transferVars
<1>0. TypeOK
  BY DEF ResultInv, Inv
<1>1. ASSUME NEW t \in Transfers, FinishCount(t)
      PROVE  [Contract!Next]_(Contract!vars)
  <2>1. UNCHANGED <<stage, ready, taken, ended>>
    BY <1>1 DEF FinishCount
  <2>2. \A u \in Transfers : place'[u] = "gone" <=> place[u] = "gone"
    BY <1>0, <1>1 DEF FinishCount, Move, TypeOK
  <2>3. \A c \in Batches : Alive(c)' = Alive(c)
    BY <2>2 DEF Alive, TransfersOf
  <2> QED
    BY <2>1, <2>3, ContractQuiet DEF Phase
<1>2. ASSUME NEW t \in Transfers, Deliver(t)
      PROVE  [Contract!Next]_(Contract!vars)
  <2>1. PICK p \in PartsIn(t) \ (ready \cup taken) : ready' = ready \cup {p}
    BY <1>2 DEF Deliver
  <2>2. /\ place[t] = "deliver" /\ UNCHANGED <<place, stage, taken, ended>>
    BY <1>2 DEF Deliver
  <2>3. p \in Parts /\ BatchOf[p] = Of[t] /\ Of[t] \in Batches
    BY <2>1, PartsSeparate DEF PartsIn, PartsOf
  <2>4. t \in Alive(Of[t])
    BY <2>2 DEF Alive, TransfersOf
  <2>5. stage[Of[t]] \notin {"new", "freed"}
    BY <2>2, <2>3, <2>4 DEF ResultInv, Inv, PlacesAgree, FreedIsReleased
  <2>6. Phase[BatchOf[p]] = "open" /\ BatchOf[p] \in Holding
    BY <2>3, <2>4, <2>5 DEF Phase, Holding
  <2>7. Phase' = Phase /\ Holding' = Holding
    BY <2>2 DEF Phase, Holding, Alive
  <2>8. Contract!Complete(p)
    BY <2>1, <2>2, <2>6, <2>7 DEF Contract!Complete, Phase, Holding
  <2> QED
    BY <2>3, <2>8 DEF Contract!Next
<1>3. CASE Quiet
  <2>1. Phase' = Phase /\ UNCHANGED <<stage, stop, ready, taken, ended>>
    BY <1>3 DEF Quiet, Phase
  <2>2. CASE \E t \in Transfers, p \in Places, th \in Threads \cup {Nobody} :
                Carried(t, p, th)
    <3>1. PICK t \in Transfers :
             /\ place[t] # "gone"
             /\ \A u \in Transfers \ {t} : place'[u] = place[u]
      BY <2>2 DEF Carried
    <3>2. Of[t] \in Batches
      OBVIOUS
    <3>3. \A c \in Batches \ {Of[t]} : Alive(c)' = Alive(c)
      BY <3>1 DEF Alive, TransfersOf
    <3>4. Alive(Of[t])' \subseteq Alive(Of[t])
      BY <3>1 DEF Alive, TransfersOf
    <3> QED
      BY <2>1, <3>2, <3>3, <3>4, ContractQuiet
  <2>3. CASE UNCHANGED <<place, owner>> \/ \E S \in SUBSET Transfers : Gathered(S)
    <3>1. \A t \in Transfers : place'[t] = "gone" <=> place[t] = "gone"
      BY <2>3 DEF Gathered
    <3>2. \A c \in Batches : Alive(c)' = Alive(c)
      BY <3>1 DEF Alive, TransfersOf
    <3>3. Holding' = Holding
      BY <2>1, <3>2 DEF Holding
    <3> QED
      BY <2>1, <3>3 DEF Contract!vars, Phase, Holding
  <2>4. CASE \E l \in Loops : LoopExit(l)
    <3>1. stop /\ \A b \in Batches : stage[b] \in {"new", "freed"}
      BY <2>4 DEF LoopExit, ResultInv, StopAgrees
    <3>2. Holding = {}
      BY <3>1 DEF Holding, ResultInv, Inv, FreedIsReleased
    <3>3. Holding' = {}
      BY <2>1, <3>1 DEF Holding, ResultInv, Inv, FreedIsReleased
    <3> QED
      BY <2>1, <3>2, <3>3 DEF Contract!vars, Phase, Holding
  <2>5. Work => \/ \E t \in Transfers : FinishCount(t) \/ Deliver(t)
                \/ UNCHANGED <<place, owner>>
                \/ \E t \in Transfers, p \in Places, th \in Threads \cup {Nobody} :
                      Carried(t, p, th)
                \/ \E S \in SUBSET Transfers : Gathered(S)
                \/ \E l \in Loops : LoopExit(l)
    BY DEF Work
  <2> QED
    BY <1>1, <1>2, <2>2, <2>3, <2>4, <2>5
<1> QED
  BY <1>1, <1>2, <1>3 DEF Work

\* submit, next and free, one critical section at a time.
LEMMA ContractCaller ==
  ASSUME ResultInv, ResultInv', NEW b \in Batches,
         \/ SubmitCount(b) \/ submit(b) \/ BatchNext(b) \/ BatchEnd(b)
         \/ CancelCheck(b) \/ cancel(b)
  PROVE  [Contract!Next]_(Contract!vars)
<1> USE PlanAssumption DEF flagVars, transferVars, countVars, resultVars,
        loopVars, engineVars
<1>0. TypeOK /\ PlacesAgree
  BY DEF ResultInv, Inv
<1>1. CASE SubmitCount(b)
  <2>1. /\ stage[b] = "new"
        /\ stage' = [stage EXCEPT ![b] = "counted"]
        /\ ready' = ready \cup Immediate(b)
        /\ place' = [t \in Transfers |-> IF Of[t] = b THEN "plan" ELSE place[t]]
        /\ UNCHANGED <<taken, ended>>
    BY <1>1 DEF SubmitCount
  <2>2. \A c \in Batches : stage'[c] = IF c = b THEN "counted" ELSE stage[c]
    BY <1>0, <2>1 DEF TypeOK
  <2>8. Phase[b] = "new"
    BY <2>1 DEF Phase
  <2>3. Phase[b] = "new" /\ Phase' = [Phase EXCEPT ![b] = "open"]
    BY <2>2, <2>8, PhaseChange
  <2>4. \A c \in Batches \ {b} : Alive(c)' = Alive(c)
    BY <2>1 DEF Alive, TransfersOf
  <2>5. Holding' \in {Holding, Holding \cup {b}}
    BY <2>1, <2>2, <2>4 DEF Holding
  <2>6. Immediate(b) \in SUBSET Contract!Ranges(b)
    BY DEF Immediate, PartsOf, Contract!Ranges
  <2>7. Contract!Submit(b)
    BY <2>1, <2>3, <2>5, <2>6 DEF Contract!Submit, Phase, Holding
  <2> QED
    BY <2>7 DEF Contract!Next
<1>2. CASE submit(b)
  <2>1. PICK next \in {"queued", "open"} :
           /\ stage[b] \in {"counted", "queued"}
           /\ stage' = [stage EXCEPT ![b] = next]
    BY <1>2 DEF submit, SubmitQueue, SubmitHttp
  <2>2. UNCHANGED <<ready, taken, ended>>
    BY <1>2 DEF submit, SubmitQueue, SubmitHttp
  <2>3. \A t \in Transfers : place'[t] = "gone" <=> place[t] = "gone"
    <3>1. CASE SubmitQueue(b)
      BY <1>0, <3>1 DEF SubmitQueue, PlacesAgree
    <3>2. CASE SubmitHttp(b)
      BY <1>0, <3>2 DEF SubmitHttp, PlacesAgree
    <3> QED
      BY <1>2, <3>1, <3>2 DEF submit
  <2>4. \A c \in Batches : Alive(c)' = Alive(c)
    BY <2>3 DEF Alive, TransfersOf
  <2>5. \A c \in Batches : stage'[c] = IF c = b THEN next ELSE stage[c]
    BY <1>0, <2>1 DEF TypeOK
  <2>6. Phase' = Phase
    BY <2>1, <2>5 DEF Phase
  <2> QED
    BY <2>1, <2>2, <2>4, <2>5, <2>6, ContractQuiet
<1>3. CASE BatchNext(b)
  <2>1. PICK p \in ready \cap PartsOf(b) :
           ready' = ready \ {p} /\ taken' = taken \cup {p}
    BY <1>3 DEF BatchNext
  <2>2. stage[b] = "open" /\ UNCHANGED <<stage, place, ended>>
    BY <1>3 DEF BatchNext
  <2>3. p \in Parts /\ BatchOf[p] = b /\ Phase[b] = "open"
    BY <2>1, <2>2 DEF PartsOf, Phase
  <2>4. Phase' = Phase /\ Holding' = Holding
    BY <2>2 DEF Phase, Holding, Alive
  <2>5. Contract!Receive(p)
    BY <2>1, <2>2, <2>3, <2>4 DEF Contract!Receive, Phase, Holding
  <2> QED
    BY <2>3, <2>5 DEF Contract!Next
<1>4. CASE BatchEnd(b)
  <2>1. /\ stage[b] = "open" /\ ready \cap PartsOf(b) = {}
        /\ pending_parts[b] = 0 \/ cancelled[b]
        /\ ended' = ended \cup {b}
        /\ UNCHANGED <<stage, place, ready, taken>>
    BY <1>4 DEF BatchEnd
  <2>2. pending_parts[b] = 0
    BY <2>1 DEF ResultInv, CancelAgrees
  <2>3. Cardinality(PartsOf(b) \ Done) = 0
    BY <2>1, <2>2 DEF ResultInv, PartsCounted
  <2>4. PartsOf(b) \ Done = {}
    <3>1. IsFiniteSet(PartsOf(b) \ Done)
      BY PartsFinite DEF PartsOf
    <3> QED
      BY <2>3, <3>1, FS_EmptySet
  <2>5. Contract!Ranges(b) \subseteq taken
    BY <2>1, <2>4 DEF Done, Contract!Ranges, PartsOf
  <2>6. Phase[b] = "open" /\ Phase' = Phase /\ Holding' = Holding
    BY <2>1 DEF Phase, Holding, Alive
  <2>7. Contract!End(b)
    BY <2>1, <2>5, <2>6 DEF Contract!End, Phase, Holding
  <2> QED
    BY <2>7 DEF Contract!Next
<1>5. ASSUME stage[b] \notin {"new", "freed"}, UNCHANGED <<place, ready, taken, ended>>,
             stage' = [stage EXCEPT ![b] = "freed"]
      PROVE  [Contract!Next]_(Contract!vars)
  <2>1. \A c \in Batches : stage'[c] = IF c = b THEN "freed" ELSE stage[c]
    BY <1>0, <1>5 DEF TypeOK
  <2>2. \A c \in Batches : Alive(c)' = Alive(c)
    BY <1>5 DEF Alive
  <2>3. Alive(b) = {}
    BY <2>1, <2>2 DEF ResultInv, Inv, FreedIsReleased
  <2>4. b \notin Holding /\ Holding' = Holding
    BY <1>5, <2>1, <2>2, <2>3 DEF Holding
  <2>7. Phase[b] = "open"
    BY <1>5 DEF Phase
  <2>5. Phase[b] = "open" /\ Phase' = [Phase EXCEPT ![b] = "freed"]
    BY <2>1, <2>7, PhaseChange
  <2>6. Contract!Free(b)
    BY <1>5, <2>4, <2>5 DEF Contract!Free, Phase, Holding
  <2> QED
    BY <2>6 DEF Contract!Next
<1>6. ASSUME NEW next, next \notin {"new", "freed"}, stage[b] \notin {"new", "freed"},
             stage' = [stage EXCEPT ![b] = next],
             UNCHANGED <<ready, taken, ended>>,
             \A t \in Transfers : \/ place'[t] = place[t]
                                  \/ Of[t] = b /\ place'[t] = "gone"
      PROVE  [Contract!Next]_(Contract!vars)
  <2>1. \A c \in Batches : stage'[c] = IF c = b THEN next ELSE stage[c]
    BY <1>0, <1>6 DEF TypeOK
  <2>2. Phase' = Phase
    BY <1>6, <2>1 DEF Phase
  <2>3. \A c \in Batches \ {b} : Alive(c)' = Alive(c)
    BY <1>6 DEF Alive, TransfersOf
  <2>4. Alive(b)' \subseteq Alive(b)
    BY <1>6 DEF Alive, TransfersOf
  <2> QED
    BY <1>6, <2>1, <2>2, <2>3, <2>4, ContractQuiet
<1>7. CASE CancelCheck(b)
  <2>1. /\ stage[b] = "open" /\ UNCHANGED <<place, ready, taken, ended>>
        /\ \/ stage' = [stage EXCEPT ![b] = "freed"]
           \/ stage' = [stage EXCEPT ![b] = "cancel"]
    BY <1>7 DEF CancelCheck
  <2> QED
    BY <1>5, <1>6, <2>1
<1>8. CASE CancelReturn(b)
  BY <1>5, <1>8 DEF CancelReturn
<1>9. CASE CancelMark(b) \/ CancelFlag(b)
  BY <1>6, <1>9 DEF CancelMark, CancelFlag
<1>10. CASE CancelQueues(b) \/ CancelHttp(b)
  <2>1. /\ stage[b] \in {"marked", "queuesScanned"}
        /\ UNCHANGED <<ready, taken, ended>>
        /\ \/ stage' = [stage EXCEPT ![b] = "queuesScanned"]
           \/ stage' = [stage EXCEPT ![b] = "httpScanned"]
    BY <1>10 DEF CancelQueues, CancelHttp
  <2>2. \A t \in Transfers : \/ place'[t] = place[t]
                             \/ Of[t] = b /\ place'[t] = "gone"
    BY <1>10 DEF CancelQueues, CancelHttp, DiscardAll, TransfersOf
  <2> QED
    BY <1>6, <2>1, <2>2
<1> QED
  BY <1>1, <1>2, <1>3, <1>4, <1>7, <1>8, <1>9, <1>10 DEF cancel

\* Every step of the engine is a step of the contract or invisible to callers.
LEMMA ContractNext ==
  ResultInv /\ ResultInv' /\ [Next]_vars => [Contract!Next]_(Contract!vars)
<1> SUFFICES ASSUME ResultInv, ResultInv', [Next]_vars
             PROVE  [Contract!Next]_(Contract!vars)
  OBVIOUS
<1>1. Inv
  BY DEF ResultInv
<1>2. CASE \E b \in Batches : \/ SubmitCount(b) \/ submit(b) \/ BatchNext(b)
                              \/ BatchEnd(b) \/ CancelCheck(b) \/ cancel(b)
  BY <1>2, ContractCaller
<1>3. CASE ClientFree \/ StopWorkers
  <2>1. UNCHANGED <<stage, place, ready, taken, ended>>
    BY <1>3 DEF ClientFree, StopWorkers, transferVars, resultVars
  <2> QED
    BY <2>1 DEF Contract!vars, Alive
<1>4. CASE \/ \E w \in FileWorkers : file_loop(w)
           \/ \E w \in CredWorkers : credential_loop(w)
           \/ \E l \in Loops : io_loop(l)
           \/ \E t \in Transfers : Answer(t) \/ LookupAnswered(t) \/ RetryDue(t)
           \/ Terminated \/ UNCHANGED vars
  BY <1>1, <1>4, WorkShape, ContractWork
<1> QED
  BY <1>2, <1>3, <1>4 DEF Next

\* The engine implements the contract of a batch: a range is completed once and
\* only while the engine holds the buffers, KARU_END comes after the last
\* completion, and a batch is destroyed only when its buffers are released.
THEOREM ContractImplemented == Spec => ImplementsContract
<1>1. Init => Contract!Init
  <2> SUFFICES ASSUME Init PROVE Contract!Init
    OBVIOUS
  <2>1. Phase = [b \in Batches |-> "new"] /\ Holding = {}
    BY DEF Init, Phase, Holding
  <2> QED
    BY <2>1 DEF Init, Contract!Init, Phase, Holding
<1>2. ResultInv /\ ResultInv' /\ [Next]_vars => [Contract!Next]_(Contract!vars)
  BY ContractNext
<1> QED
  BY <1>1, <1>2, ResultAlways, PTL DEF Spec, ImplementsContract, Contract!Spec
-----------------------------------------------------------------------------
(***************************************************************************)
(* The slots of a loop, and the flag of a cancellation.                     *)
(***************************************************************************)
Waits == Registered \ {"pending"}

\* No transfer gets a slot.
LEMMA SlotsShrink ==
  ASSUME SlotLimit,
         \A t \in Transfers : place'[t] \in Slots =>
             place[t] \in Slots /\ owner'[t] = owner[t]
  PROVE  SlotLimit'
<1> SUFFICES ASSUME NEW l \in Loops
             PROVE  Cardinality(OwnedIn(l, Slots)') <= Limit[l]
  BY DEF SlotLimit, OwnedIn
<1>1. OwnedIn(l, Slots)' \subseteq OwnedIn(l, Slots)
  BY DEF OwnedIn
<1>2. IsFiniteSet(OwnedIn(l, Slots))
  BY SetsAssumption, FS_Subset DEF OwnedIn
<1>3. /\ Cardinality(OwnedIn(l, Slots)') <= Cardinality(OwnedIn(l, Slots))
      /\ Cardinality(OwnedIn(l, Slots)') \in Nat
      /\ Cardinality(OwnedIn(l, Slots)) \in Nat
  BY <1>1, <1>2, FS_Subset, FS_CardinalityType
<1> QED
  BY <1>3, OptionsAssumption DEF SlotLimit

\* A transfer t gets a slot of a loop that has room.
LEMMA SlotTaken ==
  ASSUME SlotLimit, NEW t \in Transfers, NEW m \in Loops, HasRoom(m),
         owner'[t] = m,
         \A u \in Transfers \ {t} : place'[u] = place[u] /\ owner'[u] = owner[u]
  PROVE  SlotLimit'
<1> SUFFICES ASSUME NEW l \in Loops
             PROVE  Cardinality(OwnedIn(l, Slots)') <= Limit[l]
  BY DEF SlotLimit, OwnedIn
<1>1. IsFiniteSet(OwnedIn(l, Slots))
  BY SetsAssumption, FS_Subset DEF OwnedIn
<1>2. Cardinality(OwnedIn(l, Slots)) \in Nat /\ Limit[l] \in Nat
  BY <1>1, FS_CardinalityType, OptionsAssumption
<1>3. CASE l = m
  <2>1. OwnedIn(l, Slots)' \subseteq OwnedIn(l, Slots) \cup {t}
    BY DEF OwnedIn
  <2>2. /\ IsFiniteSet(OwnedIn(l, Slots) \cup {t})
        /\ Cardinality(OwnedIn(l, Slots) \cup {t}) <= Cardinality(OwnedIn(l, Slots)) + 1
        /\ Cardinality(OwnedIn(l, Slots) \cup {t}) \in Nat
    <3>1. IsFiniteSet(OwnedIn(l, Slots) \cup {t})
      BY <1>1, FS_AddElement
    <3>2. Cardinality(OwnedIn(l, Slots) \cup {t}) \in Nat
      BY <3>1, FS_CardinalityType
    <3>3. \/ Cardinality(OwnedIn(l, Slots) \cup {t}) = Cardinality(OwnedIn(l, Slots))
          \/ Cardinality(OwnedIn(l, Slots) \cup {t}) = Cardinality(OwnedIn(l, Slots)) + 1
      BY <1>1, FS_AddElement
    <3> QED
      BY <1>2, <3>1, <3>2, <3>3
  <2>3. /\ Cardinality(OwnedIn(l, Slots)') <= Cardinality(OwnedIn(l, Slots) \cup {t})
        /\ Cardinality(OwnedIn(l, Slots)') \in Nat
    BY <2>1, <2>2, FS_Subset, FS_CardinalityType
  <2> QED
    BY <1>2, <1>3, <2>2, <2>3 DEF HasRoom
<1>4. CASE l # m
  <2>1. OwnedIn(l, Slots)' \subseteq OwnedIn(l, Slots)
    BY <1>4 DEF OwnedIn
  <2>2. /\ Cardinality(OwnedIn(l, Slots)') <= Cardinality(OwnedIn(l, Slots))
        /\ Cardinality(OwnedIn(l, Slots)') \in Nat
    BY <1>1, <2>1, FS_Subset, FS_CardinalityType
  <2> QED
    BY <1>2, <2>2 DEF SlotLimit
<1> QED
  BY <1>3, <1>4

\* Workers and loops: only start_transfer gives a slot to a transfer that had
\* none, and it looks for room first.
LEMMA SlotsWork ==
  ASSUME Inv, SlotLimit, Work
  PROVE  SlotLimit'
<1>0. TypeOK /\ PlacesAgree
  BY DEF Inv
<1>1. ASSUME NEW t \in Transfers, FinishCount(t) \/ Deliver(t)
      PROVE  SlotLimit'
  <2>1. \A u \in Transfers : place'[u] \in Slots =>
            place[u] \in Slots /\ owner'[u] = owner[u]
    BY <1>0, <1>1 DEF FinishCount, Deliver, Move, TypeOK, Slots, transferVars
  <2> QED
    BY <2>1, SlotsShrink
<1>2. CASE UNCHANGED <<place, owner>>
  BY <1>2, SlotsShrink
<1>3. ASSUME NEW t \in Transfers, NEW p \in Places, NEW th \in Threads \cup {Nobody},
             Carried(t, p, th)
      PROVE  SlotLimit'
  <2>1. CASE p \in Slots /\ place[t] \notin Slots
    <3>1. /\ th = owner[t] /\ place[t] = "pending" /\ HasRoom(th) /\ owner'[t] = th
          /\ \A u \in Transfers \ {t} : place'[u] = place[u] /\ owner'[u] = owner[u]
      BY <1>3, <2>1 DEF Carried, Registered, Slots
    <3>2. th \in Loops
      BY <1>0, <3>1 DEF PlacesAgree, Registered
    <3> QED
      BY <3>1, <3>2, SlotTaken
  <2>2. CASE p \notin Slots \/ place[t] \in Slots
    <3>1. \A u \in Transfers : place'[u] \in Slots =>
              place[u] \in Slots /\ owner'[u] = owner[u]
      BY <1>3, <2>2 DEF Carried, Registered, Slots
    <3> QED
      BY <3>1, SlotsShrink
  <2> QED
    BY <2>1, <2>2
<1>4. ASSUME NEW S \in SUBSET Transfers, Gathered(S)
      PROVE  SlotLimit'
  <2>1. \A u \in Transfers : place'[u] \in Slots =>
            place[u] \in Slots /\ owner'[u] = owner[u]
    BY <1>4 DEF Gathered, Slots
  <2> QED
    BY <2>1, SlotsShrink
<1>5. ASSUME NEW l \in Loops, LoopExit(l)
      PROVE  SlotLimit'
  <2>1. \A u \in Transfers : place'[u] \in Slots =>
            place[u] \in Slots /\ owner'[u] = owner[u]
    BY <1>5 DEF LoopExit, Slots
  <2> QED
    BY <2>1, SlotsShrink
<1> QED
  BY <1>1, <1>2, <1>3, <1>4, <1>5 DEF Work

\* What a caller does to a transfer: it gives it to a queue or takes it out of
\* one, and never touches one that a loop has.
LEMMA CallerPlaces ==
  ASSUME NEW b \in Batches,
         \/ SubmitCount(b) \/ submit(b) \/ BatchNext(b) \/ BatchEnd(b)
         \/ CancelCheck(b) \/ cancel(b)
  PROVE  /\ \A t \in Transfers : place'[t] \in Registered => place'[t] = place[t]
         /\ UNCHANGED <<owner, lpc, todo>>
<1> USE DEF transferVars, loopVars, Registered, Slots
<1>1. CASE SubmitCount(b)
  BY <1>1 DEF SubmitCount
<1>2. CASE submit(b)
  BY <1>2 DEF submit, SubmitQueue, SubmitHttp
<1>3. CASE BatchNext(b) \/ BatchEnd(b) \/ CancelCheck(b)
  BY <1>3 DEF BatchNext, BatchEnd, CancelCheck
<1>4. CASE CancelMark(b) \/ CancelFlag(b) \/ CancelReturn(b)
  BY <1>4 DEF CancelMark, CancelFlag, CancelReturn
<1>5. CASE CancelQueues(b) \/ CancelHttp(b)
  BY <1>5 DEF CancelQueues, CancelHttp, DiscardAll
<1> QED
  BY <1>1, <1>2, <1>3, <1>4, <1>5 DEF cancel

\* Only cancel's own step, which sets every flag, makes a batch wait.
LEMMA CallerWaits ==
  ASSUME TypeOK, NEW b \in Batches,
         \/ SubmitCount(b) \/ submit(b) \/ BatchNext(b) \/ BatchEnd(b)
         \/ CancelCheck(b) \/ cancel(b)
  PROVE  \/ cancellation_pending' = [l \in Loops |-> TRUE]
         \/ /\ UNCHANGED cancellation_pending
            /\ \A c \in Batches : stage'[c] = "waiting" => stage[c] = "waiting"
<1> USE DEF loopVars, TypeOK
<1>1. CASE SubmitCount(b) \/ submit(b)
  BY <1>1 DEF SubmitCount, submit, SubmitQueue, SubmitHttp
<1>2. CASE BatchNext(b) \/ BatchEnd(b) \/ CancelCheck(b)
  BY <1>2 DEF BatchNext, BatchEnd, CancelCheck
<1>3. CASE CancelFlag(b)
  BY <1>3 DEF CancelFlag
<1>4. CASE CancelMark(b) \/ CancelReturn(b) \/ CancelQueues(b) \/ CancelHttp(b)
  BY <1>4 DEF CancelMark, CancelReturn, CancelQueues, CancelHttp
<1> QED
  BY <1>1, <1>2, <1>3, <1>4 DEF cancel

\* The flag and the pass of loop l are its own: only the exchange lowers the
\* flag, and a pass that has begun ends only when it has nothing to visit.
FlagStays(l) ==
    /\ cancellation_pending'[l] = cancellation_pending[l]
    /\ lpc[l] = "discard" /\ todo[l] # {} =>
         lpc'[l] = "discard" /\ todo'[l] = todo[l]

LEMMA FlagSteps ==
  ASSUME TypeOK, NEW l \in Loops, NEW m \in Loops, io_loop(m)
  PROVE  \/ m = l /\ (LoopCancellation(l) \/ discard_cancelled_http(l))
         \/ FlagStays(l)
<1> USE DEF loopVars, InPhase, FlagStays
<1>1. CASE LoopCancellation(m)
  BY <1>1 DEF LoopCancellation, Enter, Visit, TypeOK
<1>2. CASE discard_cancelled_http(m)
  BY <1>2 DEF discard_cancelled_http, Visit, TypeOK
<1>3. CASE \/ DiscardDone(m) \/ ResolvingDone(m) \/ StartDone(m) \/ Perform(m)
           \/ FailDone(m) \/ MessagesDone(m)
  BY <1>3 DEF DiscardDone, ResolvingDone, StartDone, Perform, FailDone,
              MessagesDone, Enter, TypeOK
<1>4. CASE take_http(m) \/ LoopRetries(m) \/ PerformError(m) \/ LoopExit(m)
  BY <1>4 DEF take_http, LoopRetries, PerformError, LoopExit, Enter, Visit, TypeOK
<1>5. CASE LoopResolving(m) \/ FailActive(m)
  BY <1>5 DEF LoopResolving, FailActive, Visit, TypeOK
<1>6. CASE \/ start_transfer(m) \/ MessageFinish(m) \/ MessageRegion(m)
           \/ MessageRefresh(m) \/ MessageRetry(m)
  BY <1>6 DEF start_transfer, MessageFinish, MessageRegion, MessageRefresh,
              MessageRetry
<1>7. CASE FinishOwned(m)
  BY <1>7 DEF FinishOwned, finish_transfer, FinishCount, Deliver, FinishDrop
<1> QED
  BY <1>1, <1>2, <1>3, <1>4, <1>5, <1>6, <1>7 DEF io_loop

LEMMA FlagRest ==
  ASSUME NEW l \in Loops,
         \/ \E w \in FileWorkers : file_loop(w)
         \/ \E w \in CredWorkers : credential_loop(w)
         \/ \E t \in Transfers : Answer(t) \/ LookupAnswered(t) \/ RetryDue(t)
         \/ Terminated \/ UNCHANGED vars
  PROVE  FlagStays(l)
<1> USE DEF loopVars
<1> SUFFICES UNCHANGED <<lpc, todo, cancellation_pending>>
  BY DEF FlagStays
<1>1. ASSUME NEW t \in Transfers, finish_transfer(t)
      PROVE  UNCHANGED <<lpc, todo, cancellation_pending>>
  BY <1>1 DEF finish_transfer, FinishCount, Deliver, FinishDrop
<1>2. ASSUME NEW w \in FileWorkers, file_loop(w)
      PROVE  UNCHANGED <<lpc, todo, cancellation_pending>>
  BY <1>1, <1>2 DEF file_loop, FileTake, FileOpen, FileReadDone, FileExit,
                    FinishOwned, OwnedIn
<1>3. ASSUME NEW w \in CredWorkers, credential_loop(w)
      PROVE  UNCHANGED <<lpc, todo, cancellation_pending>>
  BY <1>1, <1>3 DEF credential_loop, CredTake, CredCheck, CredResolved,
                    CredFailed, queue_http, CredExit, FinishOwned, OwnedIn
<1>4. CASE \E t \in Transfers : Answer(t) \/ LookupAnswered(t) \/ RetryDue(t)
  BY <1>4 DEF Answer, LookupAnswered, RetryDue, Ripen
<1>5. CASE Terminated \/ UNCHANGED vars
  BY <1>5 DEF Terminated, vars
<1> QED
  BY <1>2, <1>3, <1>4, <1>5

\* A transfer of a cancelled batch that waits with a loop after a step of a
\* worker or a loop waited with that loop before it.
LEMMA WaitsBefore ==
  ASSUME TypeOK, CancelAgrees, Work, NEW t \in Transfers,
         stage'[Of[t]] = "waiting", place'[t] \in Waits
  PROVE  /\ stage[Of[t]] = "waiting" /\ place[t] \in Waits
         /\ owner'[t] = owner[t]
<1>0. Of[t] \in Batches
  BY PlanAssumption
<1> USE DEF Waits, Registered, Slots
<1>1. ASSUME NEW u \in Transfers, FinishCount(u) \/ Deliver(u)
      PROVE  stage' = stage /\ place[t] \in Waits /\ owner'[t] = owner[t]
  BY <1>1 DEF FinishCount, Deliver, Move, TypeOK, transferVars
<1>2. CASE Quiet
  <2>1. stage[Of[t]] = "waiting" /\ Cancelled(t)
    BY <1>0, <1>2 DEF Quiet, CancelAgrees, Cancelled
  <2>2. CASE UNCHANGED <<place, owner>>
    BY <2>1, <2>2
  <2>3. ASSUME NEW u \in Transfers, NEW p \in Places,
               NEW th \in Threads \cup {Nobody}, Carried(u, p, th)
        PROVE  place[t] \in Waits /\ owner'[t] = owner[t]
    BY <2>1, <2>3 DEF Carried
  <2>4. ASSUME NEW S \in SUBSET Transfers, Gathered(S)
        PROVE  place[t] \in Waits /\ owner'[t] = owner[t]
    BY <2>4 DEF Gathered
  <2>5. CASE \E l \in Loops : LoopExit(l)
    BY <2>1, <2>5 DEF LoopExit
  <2>6. Work => \/ \E u \in Transfers : FinishCount(u) \/ Deliver(u)
                \/ UNCHANGED <<place, owner>>
                \/ \E u \in Transfers, p \in Places, th \in Threads \cup {Nobody} :
                      Carried(u, p, th)
                \/ \E S \in SUBSET Transfers : Gathered(S)
                \/ \E l \in Loops : LoopExit(l)
    BY DEF Work
  <2> QED
    BY <1>1, <2>1, <2>2, <2>3, <2>4, <2>5, <2>6
<1> QED
  BY <1>1, <1>2 DEF Work

\* Between its flag and the end of its pass a loop cannot lose sight of a
\* transfer that cancel waits for.
LEMMA NoticedByLoop ==
  ASSUME Inv, CancelAgrees, WaitIsNoticed,
         \/ \E w \in FileWorkers : file_loop(w)
         \/ \E w \in CredWorkers : credential_loop(w)
         \/ \E l \in Loops : io_loop(l)
         \/ \E t \in Transfers : Answer(t) \/ LookupAnswered(t) \/ RetryDue(t)
         \/ Terminated \/ UNCHANGED vars
  PROVE  WaitIsNoticed'
<1>0. TypeOK /\ PlacesAgree /\ Work
  BY WorkShape DEF Inv
<1> SUFFICES ASSUME NEW t \in Transfers, stage'[Of[t]] = "waiting",
                    place'[t] \in Waits
             PROVE  \/ cancellation_pending'[owner'[t]]
                    \/ lpc'[owner'[t]] = "discard" /\ t \in todo'[owner'[t]]
  BY DEF WaitIsNoticed, Waits
<1>1. /\ stage[Of[t]] = "waiting" /\ place[t] \in Waits
      /\ owner'[t] = owner[t]
  BY <1>0, WaitsBefore
<1>2. PICK l \in Loops : owner[t] = l
  BY <1>0, <1>1 DEF PlacesAgree, Waits
<1>3. \/ cancellation_pending[l]
      \/ lpc[l] = "discard" /\ t \in todo[l]
  BY <1>1, <1>2 DEF WaitIsNoticed, Waits
<1>4. \/ LoopCancellation(l) \/ discard_cancelled_http(l) \/ FlagStays(l)
  BY <1>0, FlagSteps, FlagRest
<1>5. CASE LoopCancellation(l)
  <2>1. lpc[l] = "cancellation" /\ cancellation_pending[l]
    BY <1>3, <1>5 DEF LoopCancellation, InPhase
  <2>2. lpc'[l] = "discard" /\ todo'[l] = OwnedIn(l, Registered)
    BY <1>0, <1>5, <2>1 DEF LoopCancellation, Enter, Visit, TypeOK
  <2> QED
    BY <1>1, <1>2, <2>2 DEF OwnedIn, Waits
<1>6. CASE discard_cancelled_http(l)
  <2>1. PICK u \in todo[l] : /\ todo' = [todo EXCEPT ![l] = todo[l] \ {u}]
                             /\ Cancelled(u) => discard_transfer(u)
    BY <1>6 DEF discard_cancelled_http, Visit
  <2>2. UNCHANGED <<lpc, cancellation_pending>>
    BY <1>6 DEF discard_cancelled_http
  <2>3. u # t
    <3>1. SUFFICES ASSUME u = t PROVE FALSE
      OBVIOUS
    <3>2. Cancelled(t)
      BY <1>1, PlanAssumption DEF CancelAgrees, Cancelled
    <3>3. place'[t] = "gone"
      BY <1>0, <2>1, <3>1, <3>2 DEF discard_transfer, Move, TypeOK
    <3> QED
      BY <3>3 DEF Waits, Registered, Slots
  <2>4. todo'[l] = todo[l] \ {u}
    BY <1>0, <2>1 DEF TypeOK
  <2> QED
    BY <1>1, <1>2, <1>3, <2>2, <2>3, <2>4
<1>7. CASE FlagStays(l)
  BY <1>1, <1>2, <1>3, <1>7 DEF FlagStays
<1> QED
  BY <1>4, <1>5, <1>6, <1>7

LEMMA NoticedByCaller ==
  ASSUME Inv, WaitIsNoticed, NEW b \in Batches,
         \/ SubmitCount(b) \/ submit(b) \/ BatchNext(b) \/ BatchEnd(b)
         \/ CancelCheck(b) \/ cancel(b)
  PROVE  WaitIsNoticed'
<1>1. /\ \A t \in Transfers : place'[t] \in Registered => place'[t] = place[t]
      /\ UNCHANGED <<owner, lpc, todo>>
  BY CallerPlaces
<1>2. \A t \in Transfers : place[t] \in Registered => owner[t] \in Loops
  BY DEF Inv, PlacesAgree
<1>3. CASE cancellation_pending' = [l \in Loops |-> TRUE]
  BY <1>1, <1>2, <1>3 DEF WaitIsNoticed
<1>4. CASE /\ UNCHANGED cancellation_pending
           /\ \A c \in Batches : stage'[c] = "waiting" => stage[c] = "waiting"
  <2>1. \A t \in Transfers : Of[t] \in Batches
    BY PlanAssumption
  <2> QED
    BY <1>1, <1>4, <2>1 DEF WaitIsNoticed
<1> QED
  BY <1>3, <1>4, CallerWaits DEF Inv

LoopInv == ResultInv /\ SlotLimit /\ WaitIsNoticed

LEMMA LoopNext == LoopInv /\ [Next]_vars => LoopInv'
<1> SUFFICES ASSUME LoopInv, [Next]_vars
             PROVE  LoopInv'
  OBVIOUS
<1>1. ResultInv' /\ Inv /\ CancelAgrees
  BY ResultNext DEF LoopInv, ResultInv
<1>2. CASE \E b \in Batches : \/ SubmitCount(b) \/ submit(b) \/ BatchNext(b)
                              \/ BatchEnd(b) \/ CancelCheck(b) \/ cancel(b)
  <2>1. PICK b \in Batches : \/ SubmitCount(b) \/ submit(b) \/ BatchNext(b)
                             \/ BatchEnd(b) \/ CancelCheck(b) \/ cancel(b)
    BY <1>2
  <2>2. /\ \A t \in Transfers : place'[t] \in Registered => place'[t] = place[t]
        /\ UNCHANGED owner
    BY <2>1, CallerPlaces
  <2>3. SlotLimit'
    BY <2>2, SlotsShrink DEF LoopInv, Registered
  <2>4. WaitIsNoticed'
    BY <1>1, <2>1, NoticedByCaller DEF LoopInv
  <2> QED
    BY <1>1, <2>3, <2>4 DEF LoopInv
<1>3. CASE ClientFree \/ StopWorkers
  <2>1. UNCHANGED <<stage, place, owner, lpc, todo, cancellation_pending>>
    BY <1>3 DEF ClientFree, StopWorkers, transferVars, loopVars
  <2> QED
    BY <1>1, <2>1 DEF LoopInv, SlotLimit, WaitIsNoticed, OwnedIn
<1>4. CASE \/ \E w \in FileWorkers : file_loop(w)
           \/ \E w \in CredWorkers : credential_loop(w)
           \/ \E l \in Loops : io_loop(l)
           \/ \E t \in Transfers : Answer(t) \/ LookupAnswered(t) \/ RetryDue(t)
           \/ Terminated \/ UNCHANGED vars
  <2>1. SlotLimit'
    BY <1>1, <1>4, WorkShape, SlotsWork DEF LoopInv
  <2>2. WaitIsNoticed'
    BY <1>1, <1>4, NoticedByLoop DEF LoopInv
  <2> QED
    BY <1>1, <2>1, <2>2 DEF LoopInv
<1> QED
  BY <1>2, <1>3, <1>4 DEF Next

LEMMA LoopAlways == Spec => []LoopInv
<1>1. Init => LoopInv
  <2> SUFFICES ASSUME Init PROVE LoopInv
    OBVIOUS
  <2>1. \A l \in Loops : OwnedIn(l, Slots) = {}
    BY DEF Init, OwnedIn, Slots
  <2>2. SlotLimit
    BY <2>1, FS_EmptySet, OptionsAssumption DEF SlotLimit
  <2>3. WaitIsNoticed
    BY DEF Init, WaitIsNoticed, Registered, Slots
  <2> QED
    BY <2>2, <2>3, ResultInit DEF LoopInv
<1> QED
  BY <1>1, LoopNext, PTL DEF Spec

\* A loop never carries more transfers than its share of the concurrency: a slot
\* is given only after the count of resolving, active and finished ones.
THEOREM SlotsKept == Spec => []SlotLimit
<1>1. LoopInv => SlotLimit
  BY DEF LoopInv
<1> QED
  BY <1>1, LoopAlways, PTL

\* The wait of cancel rests on no luck: every loop that has a transfer of the
\* batch still has its flag up, or its pass has yet to reach the transfer.
THEOREM WaitNoticed == Spec => []WaitIsNoticed
<1>1. LoopInv => WaitIsNoticed
  BY DEF LoopInv
<1> QED
  BY <1>1, LoopAlways, PTL
=============================================================================
