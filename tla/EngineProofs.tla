---------------------------- MODULE EngineProofs ----------------------------
(***************************************************************************)
(* Proofs about Engine, for every set of batches, transfers, parts, loops  *)
(* and workers and every value of the limits.                              *)
(***************************************************************************)
EXTENDS Engine, FiniteSetTheorems, TLAPS

\* The inductive invariant behind FreedIsReleased: the batch is destroyed when
\* live_transfers is zero, so the counter must be exact (LiveCount), which it
\* is only because a transfer is dropped by the thread that has it
\* (PlacesAgree).
Inv == TypeOK /\ PlacesAgree /\ LiveCount /\ FreedIsReleased

-----------------------------------------------------------------------------
(***************************************************************************)
(* What a step does to live_transfers.                                     *)
(***************************************************************************)

\* The counters of a batch are unsigned and never wrap around.
LEMMA DecrementType ==
  ASSUME NEW n \in Nat
  PROVE  Decrement(n) \in Nat
  BY DEF Decrement

\* A batch has finitely many transfers, so its live ones can be counted.
LEMMA AliveFinite ==
  ASSUME NEW b \in Batches, NEW S \in SUBSET TransfersOf(b)
  PROVE  IsFiniteSet(S) /\ Cardinality(S) \in Nat
<1>1. S \in SUBSET Transfers
  BY DEF TransfersOf
<1>2. QED
  BY <1>1, SetsAssumption, FS_Subset, FS_CardinalityType

\* A step that destroys no transfer and leaves live_transfers alone keeps the
\* counter exact; it may destroy a batch whose counter is zero.
LEMMA LiveKept ==
  ASSUME Inv,
         \A t \in Transfers : place'[t] = "gone" <=> place[t] = "gone",
         live_transfers' = live_transfers,
         \A b \in Batches : stage'[b] # "new" => stage[b] # "new",
         \A b \in Batches :
            stage'[b] = "freed" => stage[b] = "freed" \/ live_transfers[b] = 0
  PROVE  LiveCount' /\ FreedIsReleased'
<1>1. \A b \in Batches : Alive(b)' = Alive(b)
  BY DEF Alive, TransfersOf
<1>2. LiveCount'
  BY <1>1 DEF Inv, LiveCount
<1>3. ASSUME NEW b \in Batches, stage'[b] = "freed"
      PROVE  Alive(b)' = {}
  <2>1. CASE stage[b] = "freed"
    BY <1>1, <2>1 DEF Inv, FreedIsReleased
  <2>2. CASE live_transfers[b] = 0
    <3>1. stage[b] # "new"
      BY <1>3
    <3>2. Cardinality(Alive(b)) = 0
      BY <2>2, <3>1 DEF Inv, LiveCount
    <3>3. IsFiniteSet(Alive(b))
      BY AliveFinite DEF Alive
    <3>4. QED
      BY <1>1, <3>2, <3>3, FS_EmptySet
  <2>3. QED
    BY <1>3, <2>1, <2>2
<1>4. QED
  BY <1>2, <1>3 DEF FreedIsReleased

\* A step that destroys live transfers of one batch and takes their number off
\* its counter keeps the counter exact.
LEMMA LiveDropped ==
  ASSUME Inv, NEW b \in Batches, NEW S \in SUBSET Alive(b), stage[b] # "new",
         \A t \in Transfers :
            place'[t] = "gone" <=> place[t] = "gone" \/ t \in S,
         live_transfers' =
            [live_transfers EXCEPT ![b] = @ - Cardinality(S)],
         \A c \in Batches : stage'[c] # "new" => stage[c] # "new",
         \A c \in Batches : stage'[c] = "freed" => stage[c] = "freed"
  PROVE  /\ LiveCount'
         /\ FreedIsReleased'
         /\ live_transfers' \in [Batches -> Nat]
<1>1. \A c \in Batches : Alive(c)' = Alive(c) \ S
  BY DEF Alive, TransfersOf
<1>2. \A c \in Batches : c # b => Alive(c) \ S = Alive(c)
  BY DEF Alive, TransfersOf
<1>3. live_transfers \in [Batches -> Nat]
  BY DEF Inv, TypeOK
<1>4. /\ Cardinality(Alive(b) \ S) = live_transfers[b] - Cardinality(S)
      /\ Cardinality(Alive(b) \ S) \in Nat
  <2>1. IsFiniteSet(Alive(b)) /\ live_transfers[b] = Cardinality(Alive(b))
    BY AliveFinite DEF Alive, Inv, LiveCount
  <2>2. Alive(b) \cap S = S
    OBVIOUS
  <2>3. /\ IsFiniteSet(Alive(b) \ S)
        /\ Cardinality(Alive(b) \ S) =
              Cardinality(Alive(b)) - Cardinality(Alive(b) \cap S)
    BY <2>1, FS_Difference
  <2>4. Cardinality(Alive(b) \ S) \in Nat
    BY <2>3, FS_CardinalityType
  <2>5. QED
    BY <2>1, <2>2, <2>3, <2>4
<1>5. live_transfers' \in [Batches -> Nat]
  BY <1>3, <1>4
<1>6. LiveCount'
  <2>1. \A c \in Batches : stage[c] # "new" =>
                              live_transfers[c] = Cardinality(Alive(c))
    BY DEF Inv, LiveCount
  <2>2. live_transfers'[b] = Cardinality(Alive(b)')
    BY <1>1, <1>3, <1>4
  <2>3. \A c \in Batches : c # b => /\ live_transfers'[c] = live_transfers[c]
                                    /\ Alive(c)' = Alive(c)
    BY <1>1, <1>2, <1>3
  <2>4. QED
    BY <2>1, <2>2, <2>3 DEF LiveCount
<1>7. FreedIsReleased'
  BY <1>1 DEF Inv, FreedIsReleased
<1>8. QED
  BY <1>5, <1>6, <1>7

\* discard_transfer on a transfer that exists.
LEMMA LiveDiscarded ==
  ASSUME Inv, NEW t \in Transfers, place[t] \notin {"none", "gone"},
         discard_transfer(t), stage' = stage
  PROVE  LiveCount' /\ FreedIsReleased'
<1> DEFINE b == Of[t]
<1>1. b \in Batches /\ stage[b] # "new"
  BY PlanAssumption DEF Inv, PlacesAgree
<1>2. {t} \in SUBSET Alive(b)
  BY DEF Alive, TransfersOf
<1>3. Cardinality({t}) = 1
  BY FS_Singleton
<1>4. live_transfers[b] > 0 /\ live_transfers \in [Batches -> Nat]
  <2>1. live_transfers[b] = Cardinality(Alive(b)) /\ IsFiniteSet(Alive(b))
    BY <1>1, AliveFinite DEF Inv, LiveCount, Alive
  <2>2. Cardinality(Alive(b)) # 0
    BY <1>2, <2>1, FS_EmptySet
  <2>3. live_transfers \in [Batches -> Nat]
    BY DEF Inv, TypeOK
  <2>4. QED
    BY <1>1, <2>1, <2>2, <2>3
<1>5. live_transfers' = [live_transfers EXCEPT ![b] = @ - Cardinality({t})]
  BY <1>1, <1>3, <1>4 DEF discard_transfer, Decrement
<1>6. \A u \in Transfers : place'[u] = "gone" <=> place[u] = "gone" \/ u \in {t}
  BY DEF discard_transfer, Move, Inv, TypeOK
<1>7. QED
  <2> HIDE DEF b
  <2>1. QED
    BY <1>1, <1>2, <1>5, <1>6, LiveDropped

\* A transfer that goes from one place to another, neither of them the end.
LEMMA LiveMoved ==
  ASSUME Inv, NEW t \in Transfers, place[t] # "gone", NEW p, p # "gone", NEW th,
         Move(t, p, th), live_transfers' = live_transfers, stage' = stage
  PROVE  LiveCount' /\ FreedIsReleased'
<1>1. \A u \in Transfers : place'[u] = "gone" <=> place[u] = "gone"
  BY DEF Move, Inv, TypeOK
<1>2. QED
  BY <1>1, LiveKept

-----------------------------------------------------------------------------
(***************************************************************************)
(* The invariant holds initially and every step keeps it.                  *)
(***************************************************************************)
\* An engine without a batch (Engine::Engine).
LEMMA InvInit == Init => Inv
<1> SUFFICES ASSUME Init PROVE Inv
  OBVIOUS
<1>1. TypeOK
  <2>1. client \in BOOLEAN /\ stop \in BOOLEAN
    BY Zenon DEF Init
  <2>2. 0 \in 0 .. MaxAttempts - 1
    BY OptionsAssumption
  <2>3. "none" \in Places /\ "new" \in Stages /\ "take" \in Phases
    BY DEF Places, Stages, Phases
  <2>4. QED
    BY <2>1, <2>2, <2>3 DEF Init, TypeOK
<1>2. PlacesAgree
  BY PlanAssumption DEF Init, PlacesAgree, Registered, Slots
<1>3. LiveCount /\ FreedIsReleased
  BY DEF Init, LiveCount, FreedIsReleased
<1>4. QED
  BY <1>1, <1>2, <1>3 DEF Inv

\* A pass visits registered transfers of its own loop, and outside a pass
\* there is nothing left to visit.
LEMMA NotVisited ==
  ASSUME PlacesAgree, NEW t \in Transfers, NEW l \in Loops,
         \/ place[t] \notin Registered
         \/ owner[t] # l
         \/ lpc[l] \notin {"discard", "resolving", "fail"}
  PROVE  t \notin todo[l]
  BY DEF PlacesAgree, PassPlaces, Registered, Slots

\* A transfer that goes from one place to another, or to its end.
LEMMA PlacesMoved ==
  ASSUME TypeOK, PlacesAgree, NEW t \in Transfers,
         place[t] \notin {"none", "plan"},
         NEW p \in Places, p \notin {"none", "plan"}, NEW th,
         p \in Registered => th \in Loops,
         Move(t, p, th), stage' = stage, lpc' = lpc,
         \A l \in Loops : todo'[l] \subseteq todo[l] /\ t \notin todo'[l]
  PROVE  PlacesAgree'
<1>1. /\ \A u \in Transfers \ {t} : place'[u] = place[u] /\ owner'[u] = owner[u]
      /\ place'[t] = p /\ owner'[t] = th
  BY DEF Move, TypeOK
<1>2. /\ stage[Of[t]] \notin {"new", "counted"}
      /\ ~(stage[Of[t]] = "queued" /\ Kind[t] = "http")
  BY DEF PlacesAgree
<1>3. \A u \in Transfers :
         /\ place'[u] \in Registered => owner'[u] \in Loops
         /\ place'[u] = "none" <=> stage'[Of[u]] = "new"
         /\ stage'[Of[u]] = "counted" => place'[u] = "plan"
         /\ stage'[Of[u]] = "queued" /\ Kind[u] = "http" => place'[u] = "plan"
  BY <1>1, <1>2 DEF PlacesAgree
<1>4. ASSUME NEW l \in Loops, NEW u \in todo'[l]
      PROVE  owner'[u] = l /\ place'[u] \in PassPlaces(lpc'[l])
  <2>1. u \in todo[l] /\ u # t /\ u \in Transfers
    BY DEF TypeOK
  <2>2. QED
    BY <1>1, <2>1 DEF PlacesAgree
<1>5. QED
  BY <1>3, <1>4 DEF PlacesAgree, PassPlaces, Registered, Slots

\* The types of what a move or a discard changes.
PlaceType ==
    /\ place \in [Transfers -> Places]
    /\ owner \in [Transfers -> Threads \cup {Nobody}]
    /\ live_transfers \in [Batches -> Nat]

\* One transfer is moved and stays alive; its loop, if any, has visited it.
LEMMA InvMoved ==
  ASSUME Inv, NEW t \in Transfers, place[t] \notin {"none", "plan", "gone"},
         NEW p \in Places, p \notin {"none", "plan", "gone"},
         NEW th \in Threads \cup {Nobody},
         p \in Registered => th \in Loops,
         Move(t, p, th), UNCHANGED <<live_transfers, stage, lpc>>,
         \A l \in Loops : todo'[l] \subseteq todo[l] /\ t \notin todo'[l]
  PROVE  PlaceType' /\ PlacesAgree' /\ LiveCount' /\ FreedIsReleased'
<1>1. PlaceType'
  BY DEF PlaceType, Inv, TypeOK, Move
<1>2. PlacesAgree'
  BY PlacesMoved DEF Inv
<1>3. LiveCount' /\ FreedIsReleased'
  BY LiveMoved
<1>4. QED
  BY <1>1, <1>2, <1>3

\* One transfer is discarded; its loop, if any, has visited it.
LEMMA InvDiscarded ==
  ASSUME Inv, NEW t \in Transfers, place[t] \notin {"none", "plan", "gone"},
         discard_transfer(t), UNCHANGED <<stage, lpc>>,
         \A l \in Loops : todo'[l] \subseteq todo[l] /\ t \notin todo'[l]
  PROVE  PlaceType' /\ PlacesAgree' /\ LiveCount' /\ FreedIsReleased'
<1>0. PlaceType'
  <2>1. Of[t] \in Batches /\ live_transfers \in [Batches -> Nat]
    BY PlanAssumption DEF Inv, TypeOK
  <2>2. Decrement(live_transfers[Of[t]]) \in Nat
    BY <2>1, DecrementType
  <2>3. live_transfers' \in [Batches -> Nat]
    BY <2>1, <2>2 DEF discard_transfer
  <2>4. QED
    BY <2>3 DEF PlaceType, Inv, TypeOK, discard_transfer, Move, Places
<1>1. PlacesAgree'
  <2>1. Move(t, "gone", Nobody)
    BY DEF discard_transfer
  <2>2. QED
    BY <2>1, PlacesMoved DEF Inv, Places, Registered, Slots
<1>2. LiveCount' /\ FreedIsReleased'
  BY LiveDiscarded
<1>3. QED
  BY <1>0, <1>1, <1>2

\* finish_transfer, by whichever thread has the transfer.
LEMMA InvFinish ==
  ASSUME Inv, NEW t \in Transfers, finish_transfer(t)
  PROVE  Inv'
<1> USE PlanAssumption DEF restVars, flagVars, transferVars, countVars,
        resultVars, loopVars, engineVars
<1>0. TypeOK /\ PlacesAgree
  BY DEF Inv
<1>1. CASE FinishCount(t)
  <2>1. /\ place[t] = "count"
        /\ Move(t, "deliver", owner[t])
        /\ UNCHANGED <<live_transfers, stage, lpc, todo>>
    BY <1>1 DEF FinishCount
  <2>2. owner[t] \in Threads \cup {Nobody}
    BY <1>0 DEF TypeOK
  <2>3. PlaceType' /\ PlacesAgree' /\ LiveCount' /\ FreedIsReleased'
    BY <1>0, <2>1, <2>2, NotVisited, InvMoved
       DEF Places, Held, Registered, Slots
  <2>4. TypeOK'
    BY <1>0, <1>1, <2>3 DEF FinishCount, PlaceType, TypeOK
  <2>5. QED
    BY <2>3, <2>4 DEF Inv
<1>2. CASE Deliver(t)
  <2>1. UNCHANGED <<place, owner, live_transfers, stage, lpc, todo>>
    BY <1>2 DEF Deliver
  <2>2. TypeOK'
    BY <1>0, <1>2, DecrementType DEF Deliver, TypeOK, PartsIn
  <2>3. PlacesAgree'
    BY <1>0, <2>1 DEF PlacesAgree
  <2>4. LiveCount' /\ FreedIsReleased'
    BY <2>1, LiveKept
  <2>5. QED
    BY <2>2, <2>3, <2>4 DEF Inv
<1>3. CASE FinishDrop(t)
  <2>1. /\ place[t] = "deliver"
        /\ discard_transfer(t)
        /\ UNCHANGED <<stage, lpc, todo>>
    BY <1>3 DEF FinishDrop
  <2>2. PlaceType' /\ PlacesAgree' /\ LiveCount' /\ FreedIsReleased'
    BY <1>0, <2>1, NotVisited, InvDiscarded DEF Registered, Slots
  <2>3. TypeOK'
    BY <1>0, <1>3, <2>2 DEF FinishDrop, PlaceType, TypeOK
  <2>4. QED
    BY <2>2, <2>3 DEF Inv
<1>4. QED
  BY <1>1, <1>2, <1>3 DEF finish_transfer

\* Every step of a file worker.
LEMMA InvFile ==
  ASSUME Inv, NEW w \in FileWorkers, file_loop(w)
  PROVE  Inv'
<1> USE PlanAssumption DEF restVars, flagVars, transferVars, countVars,
        resultVars, loopVars, engineVars
<1>0. TypeOK /\ PlacesAgree
  BY DEF Inv
<1>1. CASE FileTake(w)
  <2>1. PICK t \in Transfers :
           /\ place[t] = "file"
           /\ Move(t, "fileHeld", w) /\ UNCHANGED live_transfers
    BY <1>1 DEF FileTake, OwnedIn, At
  <2>2. UNCHANGED <<stage, lpc, todo>>
    BY <1>1 DEF FileTake
  <2>3. \A l \in Loops : todo'[l] \subseteq todo[l] /\ t \notin todo'[l]
    BY <1>0, <2>1, <2>2, NotVisited DEF Registered, Slots
  <2>4. PlaceType' /\ PlacesAgree' /\ LiveCount' /\ FreedIsReleased'
    BY <2>1, <2>2, <2>3, InvMoved
       DEF Places, Held, Queued, Registered, Slots, Threads
  <2>5. TypeOK'
    BY <1>0, <1>1, <2>4 DEF FileTake, PlaceType, TypeOK
  <2>6. QED
    BY <2>4, <2>5 DEF Inv
<1>2. CASE FileOpen(w)
  <2>1. PICK t \in Transfers :
           /\ place[t] = "fileHeld"
           /\ \/ discard_transfer(t)
              \/ Move(t, "fileRead", w) /\ UNCHANGED live_transfers
              \/ Move(t, "count", w) /\ UNCHANGED live_transfers
    BY <1>2 DEF FileOpen, OwnedIn, At
  <2>2. UNCHANGED <<stage, lpc, todo>>
    BY <1>2 DEF FileOpen
  <2>3. \A l \in Loops : todo'[l] \subseteq todo[l] /\ t \notin todo'[l]
    BY <1>0, <2>1, <2>2, NotVisited DEF Registered, Slots
  <2>4. PlaceType' /\ PlacesAgree' /\ LiveCount' /\ FreedIsReleased'
    BY <2>1, <2>2, <2>3, InvMoved, InvDiscarded
       DEF Places, Held, Queued, Registered, Slots, Threads
  <2>5. TypeOK'
    BY <1>0, <1>2, <2>4 DEF FileOpen, PlaceType, TypeOK
  <2>6. QED
    BY <2>4, <2>5 DEF Inv
<1>3. CASE FileReadDone(w)
  <2>1. PICK t \in Transfers :
           /\ place[t] = "fileRead"
           /\ \/ discard_transfer(t)
              \/ Move(t, "count", w) /\ UNCHANGED live_transfers
    BY <1>3 DEF FileReadDone, OwnedIn, At
  <2>2. UNCHANGED <<stage, lpc, todo>>
    BY <1>3 DEF FileReadDone
  <2>3. \A l \in Loops : todo'[l] \subseteq todo[l] /\ t \notin todo'[l]
    BY <1>0, <2>1, <2>2, NotVisited DEF Registered, Slots
  <2>4. PlaceType' /\ PlacesAgree' /\ LiveCount' /\ FreedIsReleased'
    BY <2>1, <2>2, <2>3, InvMoved, InvDiscarded
       DEF Places, Held, Queued, Registered, Slots, Threads
  <2>5. TypeOK'
    BY <1>0, <1>3, <2>4 DEF FileReadDone, PlaceType, TypeOK
  <2>6. QED
    BY <2>4, <2>5 DEF Inv
<1>4. CASE FileExit(w)
  <2>1. UNCHANGED <<place, owner, live_transfers, stage, lpc, todo>>
    BY <1>4 DEF FileExit
  <2>2. TypeOK'
    BY <1>0, <1>4 DEF FileExit, TypeOK, Threads
  <2>3. PlacesAgree'
    BY <1>0, <2>1 DEF PlacesAgree
  <2>4. LiveCount' /\ FreedIsReleased'
    BY <2>1, LiveKept
  <2>5. QED
    BY <2>2, <2>3, <2>4 DEF Inv
<1>5. CASE FinishOwned(w)
  BY <1>5, InvFinish DEF FinishOwned, OwnedIn
<1>6. QED
  BY <1>1, <1>2, <1>3, <1>4, <1>5 DEF file_loop

\* Every step of a credential worker.
LEMMA InvCredential ==
  ASSUME Inv, NEW w \in CredWorkers, credential_loop(w)
  PROVE  Inv'
<1> USE PlanAssumption DEF restVars, flagVars, transferVars, countVars,
        resultVars, loopVars, engineVars
<1>0. TypeOK /\ PlacesAgree
  BY DEF Inv
<1>1. CASE CredTake(w)
  <2>1. PICK t \in Transfers :
           /\ place[t] = "credential"
           /\ Move(t, "credHeld", w) /\ UNCHANGED live_transfers
    BY <1>1 DEF CredTake, OwnedIn, At
  <2>2. UNCHANGED <<stage, lpc, todo>>
    BY <1>1 DEF CredTake
  <2>3. \A l \in Loops : todo'[l] \subseteq todo[l] /\ t \notin todo'[l]
    BY <1>0, <2>1, <2>2, NotVisited DEF Registered, Slots
  <2>4. PlaceType' /\ PlacesAgree' /\ LiveCount' /\ FreedIsReleased'
    BY <2>1, <2>2, <2>3, InvMoved
       DEF Places, Held, Queued, Registered, Slots, Threads
  <2>5. TypeOK'
    BY <1>0, <1>1, <2>4 DEF CredTake, PlaceType, TypeOK
  <2>6. QED
    BY <2>4, <2>5 DEF Inv
<1>2. CASE CredCheck(w)
  <2>1. PICK t \in Transfers :
           /\ place[t] = "credHeld"
           /\ \/ discard_transfer(t)
              \/ Move(t, "lookup", w) /\ UNCHANGED live_transfers
    BY <1>2 DEF CredCheck, OwnedIn, At
  <2>2. UNCHANGED <<stage, lpc, todo>>
    BY <1>2 DEF CredCheck
  <2>3. \A l \in Loops : todo'[l] \subseteq todo[l] /\ t \notin todo'[l]
    BY <1>0, <2>1, <2>2, NotVisited DEF Registered, Slots
  <2>4. PlaceType' /\ PlacesAgree' /\ LiveCount' /\ FreedIsReleased'
    BY <2>1, <2>2, <2>3, InvMoved, InvDiscarded
       DEF Places, Held, Queued, Registered, Slots, Threads
  <2>5. TypeOK'
    BY <1>0, <1>2, <2>4 DEF CredCheck, PlaceType, TypeOK
  <2>6. QED
    BY <2>4, <2>5 DEF Inv
<1>3. CASE CredResolved(w)
  <2>1. PICK t \in Transfers :
           /\ place[t] = "lookup"
           /\ \/ discard_transfer(t)
              \/ Move(t, "credReady", w) /\ UNCHANGED live_transfers
              \/ Move(t, "count", w) /\ UNCHANGED live_transfers
    BY <1>3 DEF CredResolved, OwnedIn, At
  <2>2. UNCHANGED <<stage, lpc, todo>>
    BY <1>3 DEF CredResolved
  <2>3. \A l \in Loops : todo'[l] \subseteq todo[l] /\ t \notin todo'[l]
    BY <1>0, <2>1, <2>2, NotVisited DEF Registered, Slots
  <2>4. PlaceType' /\ PlacesAgree' /\ LiveCount' /\ FreedIsReleased'
    BY <2>1, <2>2, <2>3, InvMoved, InvDiscarded
       DEF Places, Held, Queued, Registered, Slots, Threads
  <2>5. TypeOK'
    BY <1>0, <1>3, <2>4 DEF CredResolved, PlaceType, TypeOK
  <2>6. QED
    BY <2>4, <2>5 DEF Inv
<1>4. CASE CredFailed(w)
  <2>1. PICK t \in Transfers :
           /\ place[t] = "lookup"
           /\ Move(t, "count", w) /\ UNCHANGED live_transfers
    BY <1>4 DEF CredFailed, OwnedIn, At
  <2>2. UNCHANGED <<stage, lpc, todo>>
    BY <1>4 DEF CredFailed
  <2>3. \A l \in Loops : todo'[l] \subseteq todo[l] /\ t \notin todo'[l]
    BY <1>0, <2>1, <2>2, NotVisited DEF Registered, Slots
  <2>4. PlaceType' /\ PlacesAgree' /\ LiveCount' /\ FreedIsReleased'
    BY <2>1, <2>2, <2>3, InvMoved
       DEF Places, Held, Queued, Registered, Slots, Threads
  <2>5. TypeOK'
    BY <1>0, <1>4, <2>4 DEF CredFailed, PlaceType, TypeOK
  <2>6. QED
    BY <2>4, <2>5 DEF Inv
<1>5. CASE queue_http(w)
  <2>1. PICK t \in Transfers :
           /\ place[t] = "credReady"
           /\ \/ discard_transfer(t)
              \/ Move(t, "http", Nobody) /\ UNCHANGED live_transfers
    BY <1>5 DEF queue_http, OwnedIn, At
  <2>2. UNCHANGED <<stage, lpc, todo>>
    BY <1>5 DEF queue_http
  <2>3. \A l \in Loops : todo'[l] \subseteq todo[l] /\ t \notin todo'[l]
    BY <1>0, <2>1, <2>2, NotVisited DEF Registered, Slots
  <2>4. PlaceType' /\ PlacesAgree' /\ LiveCount' /\ FreedIsReleased'
    BY <2>1, <2>2, <2>3, InvMoved, InvDiscarded
       DEF Places, Held, Queued, Registered, Slots, Threads
  <2>5. TypeOK'
    BY <1>0, <1>5, <2>4 DEF queue_http, PlaceType, TypeOK
  <2>6. QED
    BY <2>4, <2>5 DEF Inv
<1>6. CASE CredExit(w)
  <2>1. UNCHANGED <<place, owner, live_transfers, stage, lpc, todo>>
    BY <1>6 DEF CredExit
  <2>2. TypeOK'
    BY <1>0, <1>6 DEF CredExit, TypeOK, Threads
  <2>3. PlacesAgree'
    BY <1>0, <2>1 DEF PlacesAgree
  <2>4. LiveCount' /\ FreedIsReleased'
    BY <2>1, LiveKept
  <2>5. QED
    BY <2>2, <2>3, <2>4 DEF Inv
<1>7. CASE FinishOwned(w)
  BY <1>7, InvFinish DEF FinishOwned, OwnedIn
<1>8. QED
  BY <1>1, <1>2, <1>3, <1>4, <1>5, <1>6, <1>7 DEF credential_loop

\* A step of the caller or of the environment that moves no transfer.
LEMMA InvStill ==
  ASSUME Inv, UNCHANGED <<place, owner, live_transfers, lpc, todo>>,
         TypeOK',
         \A b \in Batches : stage'[b] = "new" <=> stage[b] = "new",
         \A b \in Batches : stage'[b] \in {"counted", "queued"} => stage'[b] = stage[b],
         \A b \in Batches :
            stage'[b] = "freed" => stage[b] = "freed" \/ live_transfers[b] = 0
  PROVE  Inv'
<1>1. PlacesAgree'
  BY PlanAssumption DEF Inv, PlacesAgree
<1>2. LiveCount' /\ FreedIsReleased'
  BY LiveKept
<1>3. QED
  BY <1>1, <1>2 DEF Inv

\* Engine::submit and the steps of the caller that leave the transfers alone.
LEMMA InvCaller ==
  ASSUME Inv, NEW b \in Batches,
         \/ SubmitCount(b) \/ submit(b) \/ BatchNext(b) \/ BatchEnd(b)
         \/ CancelCheck(b)
  PROVE  Inv'
<1> USE PlanAssumption DEF restVars, flagVars, transferVars, countVars,
        resultVars, loopVars, engineVars
<1>0. TypeOK /\ PlacesAgree
  BY DEF Inv
<1>1. CASE SubmitCount(b)
  <2>1. /\ stage[b] = "new"
        /\ stage' = [stage EXCEPT ![b] = "counted"]
        /\ live_transfers' =
              [live_transfers EXCEPT ![b] = Cardinality(TransfersOf(b))]
        /\ place' = [t \in Transfers |-> IF Of[t] = b THEN "plan" ELSE place[t]]
        /\ UNCHANGED <<owner, lpc, todo>>
    BY <1>1 DEF SubmitCount
  <2>2. Cardinality(TransfersOf(b)) \in Nat
    BY AliveFinite
  <2>3. Cardinality(PartsOf(b)) - Cardinality(Immediate(b)) \in Nat
    <3>1. PartsOf(b) \in SUBSET Parts /\ Immediate(b) \in SUBSET PartsOf(b)
      BY DEF PartsOf, Immediate
    <3>2. IsFiniteSet(PartsOf(b))
      BY <3>1, SetsAssumption, FS_Subset
    <3>3. /\ Cardinality(PartsOf(b)) \in Nat
          /\ Cardinality(Immediate(b)) \in Nat
          /\ Cardinality(Immediate(b)) <= Cardinality(PartsOf(b))
      BY <3>1, <3>2, FS_Subset, FS_CardinalityType
    <3>4. QED
      BY <3>3
  <2>4. TypeOK'
    <3>1. ready' \in SUBSET Parts
      BY <1>0, <1>1 DEF SubmitCount, TypeOK, Immediate, PartsOf
    <3>2. place' \in [Transfers -> Places] /\ stage' \in [Batches -> Stages]
      BY <1>0, <2>1 DEF TypeOK, Places, Stages
    <3>3. QED
      BY <1>0, <1>1, <2>2, <2>3, <3>1, <3>2 DEF SubmitCount, TypeOK
  <2>5. PlacesAgree'
    <3>1. \A t \in Transfers : Of[t] = b => place[t] = "none"
      BY <1>0, <2>1 DEF PlacesAgree
    <3>2. \A c \in Batches : stage'[c] = IF c = b THEN "counted" ELSE stage[c]
      BY <1>0, <2>1 DEF TypeOK
    <3>3. \A t \in Transfers :
             place'[t] = IF Of[t] = b THEN "plan" ELSE place[t]
      BY <2>1
    <3>4. \A l \in Loops : \A t \in todo[l] : Of[t] # b /\ t \in Transfers
      BY <1>0, <3>1 DEF TypeOK, PlacesAgree, PassPlaces, Registered, Slots
    <3>5. QED
      BY <1>0, <2>1, <3>2, <3>3, <3>4 DEF PlacesAgree, Registered, Slots
  <2>6. \A c \in Batches : c # b => Alive(c)' = Alive(c)
    BY <2>1 DEF Alive, TransfersOf
  <2>7. Alive(b)' = TransfersOf(b)
    BY <2>1 DEF Alive, TransfersOf
  <2>8. LiveCount' /\ FreedIsReleased'
    BY <1>0, <2>1, <2>6, <2>7 DEF Inv, TypeOK, LiveCount, FreedIsReleased
  <2>9. QED
    BY <2>4, <2>5, <2>8 DEF Inv
<1>2. CASE SubmitQueue(b)
  <2>1. /\ stage[b] = "counted"
        /\ stage' = [stage EXCEPT ![b] = "queued"]
        /\ UNCHANGED <<owner, live_transfers, lpc, todo>>
    BY <1>2 DEF SubmitQueue
  <2>2. /\ \A t \in Transfers : Of[t] # b => place'[t] = place[t]
        /\ \A t \in Transfers : Of[t] = b =>
              place'[t] = IF Kind[t] = "file" THEN "file"
                          ELSE IF Cloud(t) THEN "credential" ELSE "plan"
    BY <1>0, <1>2, <2>1 DEF SubmitQueue, PlacesAgree
  <2>3. TypeOK'
    <3>1. place' \in [Transfers -> Places] /\ stage' \in [Batches -> Stages]
      BY <1>0, <1>2, <2>1 DEF SubmitQueue, TypeOK, Places, Queued, Stages
    <3>2. QED
      BY <1>0, <1>2, <3>1 DEF SubmitQueue, TypeOK
  <2>4. \A c \in Batches : stage'[c] = IF c = b THEN "queued" ELSE stage[c]
    BY <1>0, <2>1 DEF TypeOK
  <2>5. PlacesAgree'
    <3>1. \A l \in Loops : \A t \in todo[l] :
             t \in Transfers /\ place[t] \in Registered
      BY <1>0 DEF TypeOK, PlacesAgree, PassPlaces, Registered, Slots
    <3>2. \A l \in Loops : \A t \in todo[l] : place'[t] = place[t]
      BY <1>0, <2>1, <2>2, <3>1 DEF PlacesAgree, Registered, Slots
    <3>3. \A t \in Transfers : place'[t] \in Registered => place[t] \in Registered
      BY <2>2 DEF Registered, Slots
    <3>4. \A t \in Transfers :
             /\ place'[t] = "none" <=> stage'[Of[t]] = "new"
             /\ stage'[Of[t]] = "counted" => place'[t] = "plan"
             /\ stage'[Of[t]] = "queued" /\ Kind[t] = "http" => place'[t] = "plan"
      BY <1>0, <2>1, <2>2, <2>4 DEF PlacesAgree, Cloud
    <3>5. QED
      BY <1>0, <2>1, <3>2, <3>3, <3>4 DEF PlacesAgree
  <2>6. \A t \in Transfers : place'[t] = "gone" <=> place[t] = "gone"
    BY <1>0, <2>1, <2>2 DEF PlacesAgree
  <2>7. LiveCount' /\ FreedIsReleased'
    BY <2>1, <2>4, <2>6, LiveKept
  <2>8. QED
    BY <2>3, <2>5, <2>7 DEF Inv
<1>3. CASE SubmitHttp(b)
  <2>1. /\ stage[b] = "queued"
        /\ stage' = [stage EXCEPT ![b] = "open"]
        /\ UNCHANGED <<owner, live_transfers, lpc, todo>>
    BY <1>3 DEF SubmitHttp
  <2>2. /\ \A t \in Transfers : Of[t] # b => place'[t] = place[t]
        /\ \A t \in Transfers : Of[t] = b =>
              place'[t] = IF Kind[t] = "http" THEN "http" ELSE place[t]
    BY <1>0, <1>3, <2>1 DEF SubmitHttp, PlacesAgree
  <2>3. TypeOK'
    <3>1. place' \in [Transfers -> Places] /\ stage' \in [Batches -> Stages]
      BY <1>0, <1>3, <2>1 DEF SubmitHttp, TypeOK, Places, Queued, Stages
    <3>2. QED
      BY <1>0, <1>3, <3>1 DEF SubmitHttp, TypeOK
  <2>4. \A c \in Batches : stage'[c] = IF c = b THEN "open" ELSE stage[c]
    BY <1>0, <2>1 DEF TypeOK
  <2>5. PlacesAgree'
    <3>1. \A l \in Loops : \A t \in todo[l] :
             t \in Transfers /\ place[t] \in Registered
      BY <1>0 DEF TypeOK, PlacesAgree, PassPlaces, Registered, Slots
    <3>2. \A l \in Loops : \A t \in todo[l] : place'[t] = place[t]
      BY <1>0, <2>1, <2>2, <3>1 DEF PlacesAgree, Registered, Slots
    <3>3. \A t \in Transfers : place'[t] \in Registered => place[t] \in Registered
      BY <2>2 DEF Registered, Slots
    <3>4. \A t \in Transfers :
             /\ place'[t] = "none" <=> stage'[Of[t]] = "new"
             /\ stage'[Of[t]] = "counted" => place'[t] = "plan"
             /\ stage'[Of[t]] = "queued" /\ Kind[t] = "http" => place'[t] = "plan"
      BY <1>0, <2>1, <2>2, <2>4 DEF PlacesAgree, Cloud
    <3>5. QED
      BY <1>0, <2>1, <3>2, <3>3, <3>4 DEF PlacesAgree
  <2>6. \A t \in Transfers : place'[t] = "gone" <=> place[t] = "gone"
    BY <1>0, <2>1, <2>2 DEF PlacesAgree
  <2>7. LiveCount' /\ FreedIsReleased'
    BY <2>1, <2>4, <2>6, LiveKept
  <2>8. QED
    BY <2>3, <2>5, <2>7 DEF Inv
<1>4. CASE BatchNext(b)
  <2>1. TypeOK'
    BY <1>0, <1>4 DEF BatchNext, TypeOK, PartsOf
  <2>2. QED
    BY <1>4, <2>1, InvStill DEF BatchNext
<1>5. CASE BatchEnd(b)
  <2>1. TypeOK'
    BY <1>0, <1>5 DEF BatchEnd, TypeOK
  <2>2. QED
    BY <1>5, <2>1, InvStill DEF BatchEnd
<1>6. CASE CancelCheck(b)
  <2>1. stage[b] = "open"
    BY <1>6 DEF CancelCheck
  <2>2. \/ stage' = [stage EXCEPT ![b] = "cancel"]
        \/ stage' = [stage EXCEPT ![b] = "freed"] /\ live_transfers[b] = 0
    BY <1>6 DEF CancelCheck
  <2>3. TypeOK'
    <3>1. stage' \in [Batches -> Stages]
      BY <1>0, <2>2 DEF TypeOK, Stages
    <3>2. cancelled' \in [Batches -> BOOLEAN]
      BY <1>0, <1>6 DEF CancelCheck, TypeOK
    <3> QED
      BY <1>0, <1>6, <3>1, <3>2 DEF CancelCheck, TypeOK
  <2>4. \A c \in Batches :
           /\ c # b => stage'[c] = stage[c]
           /\ \/ stage'[b] = "cancel"
              \/ stage'[b] = "freed" /\ live_transfers[b] = 0
    BY <1>0, <2>2 DEF TypeOK
  <2>5. UNCHANGED <<place, owner, live_transfers, lpc, todo>>
    BY <1>6 DEF CancelCheck
  <2>6. QED
    BY <2>1, <2>3, <2>4, <2>5, InvStill
<1>7. QED
  BY <1>1, <1>2, <1>3, <1>4, <1>5, <1>6 DEF submit

\* Engine::cancel takes the transfers of a batch that are in some queues.
LEMMA InvScan ==
  ASSUME Inv, NEW b \in Batches, NEW S \in SUBSET TransfersOf(b),
         \A t \in S : place[t] \in Queued,
         NEW next \in {"queuesScanned", "httpScanned"},
         stage[b] \notin {"new", "counted", "queued"},
         stage' = [stage EXCEPT ![b] = next],
         DiscardAll(b, S),
         UNCHANGED <<flagVars, cancelled, pending_parts, transfers_finished,
                     resultVars, loopVars, engineVars>>
  PROVE  Inv'
<1> USE PlanAssumption DEF restVars, flagVars, transferVars, countVars,
        resultVars, loopVars, engineVars
<1>0. TypeOK /\ PlacesAgree
  BY DEF Inv
<1>1. \A c \in Batches : stage'[c] = IF c = b THEN next ELSE stage[c]
  BY <1>0 DEF TypeOK
<1>2. \A t \in Transfers : place'[t] = IF t \in S THEN "gone" ELSE place[t]
  BY DEF DiscardAll
<1>3. LiveCount' /\ FreedIsReleased' /\ live_transfers' \in [Batches -> Nat]
  <2>1. S \in SUBSET Alive(b)
    BY DEF Alive, TransfersOf, Queued
  <2>2. \A t \in Transfers : place'[t] = "gone" <=> place[t] = "gone" \/ t \in S
    BY <1>2
  <2>3. live_transfers' = [live_transfers EXCEPT ![b] = @ - Cardinality(S)]
    BY DEF DiscardAll
  <2>4. /\ \A c \in Batches : stage'[c] # "new" => stage[c] # "new"
        /\ \A c \in Batches : stage'[c] = "freed" => stage[c] = "freed"
    BY <1>1
  <2>5. QED
    BY <2>1, <2>2, <2>3, <2>4, LiveDropped
<1>4. TypeOK'
  <2>1. place' \in [Transfers -> Places] /\ UNCHANGED owner
    BY <1>0 DEF DiscardAll, TypeOK, Places
  <2>2. stage' \in [Batches -> Stages]
    BY <1>0 DEF TypeOK, Stages
  <2>3. QED
    BY <1>0, <1>3, <2>1, <2>2 DEF TypeOK
<1>5. PlacesAgree'
  <2>1. \A t \in S : t \in Transfers /\ Of[t] = b
    BY DEF TransfersOf
  <2>2. \A l \in Loops : \A t \in todo[l] : t \in Transfers /\ t \notin S
    <3>1. \A t \in S : place[t] \notin Registered
      BY DEF Registered, Slots, Queued
    <3>2. \A l \in Loops : todo[l] \subseteq Transfers
      BY <1>0 DEF TypeOK
    <3>3. QED
      BY <1>0, <3>1, <3>2, NotVisited
  <2>3. UNCHANGED <<owner, lpc, todo>>
    BY DEF DiscardAll
  <2>4. \A t \in Transfers :
           /\ place'[t] \in Registered => owner'[t] \in Loops
           /\ place'[t] = "none" <=> stage'[Of[t]] = "new"
           /\ stage'[Of[t]] = "counted" => place'[t] = "plan"
           /\ stage'[Of[t]] = "queued" /\ Kind[t] = "http" => place'[t] = "plan"
    BY <1>0, <1>1, <1>2, <2>1, <2>3 DEF PlacesAgree, Registered, Slots
  <2>5. QED
    BY <1>0, <1>2, <2>2, <2>3, <2>4 DEF PlacesAgree, TypeOK
<1>6. QED
  BY <1>3, <1>4, <1>5 DEF Inv

\* Engine::cancel after its first critical section.
LEMMA InvCancel ==
  ASSUME Inv, NEW b \in Batches, cancel(b)
  PROVE  Inv'
<1> USE PlanAssumption DEF restVars, flagVars, transferVars, countVars,
        resultVars, loopVars, engineVars
<1>0. TypeOK /\ PlacesAgree
  BY DEF Inv
<1>1. CASE CancelMark(b)
  <2>1. /\ stage[b] = "cancel"
        /\ stage' = [stage EXCEPT ![b] = "marked"]
        /\ UNCHANGED <<place, owner, live_transfers, lpc, todo>>
    BY <1>1 DEF CancelMark
  <2>2. TypeOK'
    BY <1>0, <1>1 DEF CancelMark, TypeOK, Stages
  <2>3. \A c \in Batches : stage'[c] = IF c = b THEN "marked" ELSE stage[c]
    BY <1>0, <2>1 DEF TypeOK
  <2>4. QED
    BY <2>1, <2>2, <2>3, InvStill
<1>2. CASE CancelFlag(b)
  <2>1. /\ stage[b] = "httpScanned"
        /\ stage' = [stage EXCEPT ![b] = "waiting"]
        /\ UNCHANGED <<place, owner, live_transfers, lpc, todo>>
    BY <1>2 DEF CancelFlag
  <2>2. TypeOK'
    BY <1>0, <1>2 DEF CancelFlag, TypeOK, Stages
  <2>3. \A c \in Batches : stage'[c] = IF c = b THEN "waiting" ELSE stage[c]
    BY <1>0, <2>1 DEF TypeOK
  <2>4. QED
    BY <2>1, <2>2, <2>3, InvStill
<1>3. CASE CancelReturn(b)
  <2>1. /\ stage[b] = "waiting"
        /\ stage' = [stage EXCEPT ![b] = "freed"]
        /\ live_transfers[b] = 0
        /\ UNCHANGED <<place, owner, live_transfers, lpc, todo>>
    BY <1>3 DEF CancelReturn
  <2>2. TypeOK'
    BY <1>0, <1>3 DEF CancelReturn, TypeOK, Stages
  <2>3. \A c \in Batches : stage'[c] = IF c = b THEN "freed" ELSE stage[c]
    BY <1>0, <2>1 DEF TypeOK
  <2>4. QED
    BY <2>1, <2>2, <2>3, InvStill
<1>4. CASE CancelQueues(b)
  <2> DEFINE S == TransfersOf(b) \cap (At("file") \cup At("credential"))
  <2>1. /\ S \in SUBSET TransfersOf(b)
        /\ \A t \in S : place[t] \in Queued
    BY DEF At, Queued
  <2>2. /\ stage[b] = "marked"
        /\ stage' = [stage EXCEPT ![b] = "queuesScanned"]
        /\ DiscardAll(b, S)
        /\ UNCHANGED <<flagVars, cancelled, pending_parts, transfers_finished,
                       resultVars, loopVars, engineVars>>
    BY <1>4 DEF CancelQueues
  <2> HIDE DEF S
  <2>3. QED
    BY <2>1, <2>2, InvScan
<1>5. CASE CancelHttp(b)
  <2> DEFINE S == TransfersOf(b) \cap At("http")
  <2>1. /\ S \in SUBSET TransfersOf(b)
        /\ \A t \in S : place[t] \in Queued
    BY DEF At, Queued
  <2>2. /\ stage[b] = "queuesScanned"
        /\ stage' = [stage EXCEPT ![b] = "httpScanned"]
        /\ DiscardAll(b, S)
        /\ UNCHANGED <<flagVars, cancelled, pending_parts, transfers_finished,
                       resultVars, loopVars, engineVars>>
    BY <1>5 DEF CancelHttp
  <2> HIDE DEF S
  <2>3. QED
    BY <2>1, <2>2, InvScan
<1>6. QED
  BY <1>1, <1>2, <1>3, <1>4, <1>5 DEF cancel

\* The client goes, and the engine after its last owner.
LEMMA InvClose ==
  ASSUME Inv, ClientFree \/ StopWorkers
  PROVE  Inv'
<1> USE PlanAssumption DEF restVars, flagVars, transferVars, countVars,
        resultVars, loopVars, engineVars
<1>0. TypeOK /\ PlacesAgree
  BY DEF Inv
<1>1. CASE ClientFree
  <2>1. client' \in BOOLEAN
    BY <1>1, Zenon DEF ClientFree
  <2>2. TypeOK'
    BY <1>0, <1>1, <2>1 DEF ClientFree, TypeOK
  <2>3. QED
    BY <1>1, <2>2, InvStill DEF ClientFree
<1>2. CASE StopWorkers
  <2>1. stop' \in BOOLEAN
    BY <1>2, Zenon DEF StopWorkers
  <2>2. TypeOK'
    BY <1>0, <1>2, <2>1 DEF StopWorkers, TypeOK
  <2>3. QED
    BY <1>2, <2>2, InvStill DEF StopWorkers
<1>3. QED
  BY <1>1, <1>2

\* libcurl, the resolver and the clock make a registered transfer ripe.
LEMMA InvRipen ==
  ASSUME Inv, NEW t \in Transfers,
         Answer(t) \/ LookupAnswered(t) \/ RetryDue(t)
  PROVE  Inv'
<1> USE PlanAssumption DEF restVars, flagVars, transferVars, countVars,
        resultVars, loopVars, engineVars
<1>0. TypeOK /\ PlacesAgree
  BY DEF Inv
<1>1. PICK from, to :
         /\ Ripen(t, from, to)
         /\ \/ from = "active" /\ to = "done"
            \/ from = "resolving" /\ to = "lookedUp"
            \/ from = "retries" /\ to = "due"
  BY DEF Answer, LookupAnswered, RetryDue
<1>2. /\ place[t] = from
      /\ place' = [place EXCEPT ![t] = to]
      /\ UNCHANGED <<owner, live_transfers, stage, lpc, todo>>
  BY <1>1 DEF Ripen
<1>3. TypeOK'
  <2>1. place' \in [Transfers -> Places]
    BY <1>0, <1>1, <1>2 DEF TypeOK, Places, Registered, Slots
  <2>2. QED
    BY <1>0, <1>1, <2>1 DEF Ripen, TypeOK
<1>4. \A u \in Transfers :
         /\ u # t => place'[u] = place[u]
         /\ place'[t] = to
  BY <1>0, <1>2 DEF TypeOK
<1>5. PlacesAgree'
  BY <1>0, <1>1, <1>2, <1>4 DEF TypeOK, PlacesAgree, PassPlaces, Registered,
                                Slots
<1>6. LiveCount' /\ FreedIsReleased'
  BY <1>1, <1>2, <1>4, LiveKept
<1>7. QED
  BY <1>3, <1>5, <1>6 DEF Inv

\* A loop enters another phase, with a pass over transfers it has.
LEMMA InvPhase ==
  ASSUME Inv, TypeOK', NEW l \in Loops,
         UNCHANGED <<place, owner, live_transfers, stage>>,
         \A m \in Loops \ {l} : lpc'[m] = lpc[m] /\ todo'[m] = todo[m],
         \A t \in todo'[l] : owner[t] = l /\ place[t] \in PassPlaces(lpc'[l])
  PROVE  Inv'
<1>1. \A m \in Loops : \A t \in todo'[m] :
         owner'[t] = m /\ place'[t] \in PassPlaces(lpc'[m])
  BY DEF Inv, PlacesAgree
<1>2. PlacesAgree'
  BY <1>1 DEF Inv, PlacesAgree, PassPlaces, Registered, Slots
<1>3. LiveCount' /\ FreedIsReleased'
  BY LiveKept
<1>4. QED
  BY <1>2, <1>3 DEF Inv

\* The steps of a loop between two passes.
LEMMA InvLoopPhases ==
  ASSUME Inv, NEW l \in Loops,
         \/ LoopCancellation(l) \/ DiscardDone(l) \/ ResolvingDone(l)
         \/ StartDone(l) \/ Perform(l) \/ PerformError(l) \/ FailDone(l)
         \/ MessagesDone(l)
  PROVE  Inv'
<1> USE PlanAssumption DEF restVars, flagVars, transferVars, countVars,
        resultVars, loopVars, engineVars
<1>0. TypeOK /\ PlacesAgree
  BY DEF Inv
<1> USE DEF InPhase, Enter, Visit
<1>1. lpc[l] \notin {"discard", "resolving", "fail"} => todo[l] = {}
  BY <1>0, NotVisited DEF TypeOK
<1>2. OwnedIn(l, Registered) \subseteq Transfers
  BY DEF OwnedIn
<1>3. CASE LoopCancellation(l)
  <2>1. TypeOK'
    BY <1>0, <1>3 DEF LoopCancellation, TypeOK, Phases, OwnedIn
  <2>2. \A m \in Loops \ {l} : lpc'[m] = lpc[m] /\ todo'[m] = todo[m]
    BY <1>0, <1>3 DEF LoopCancellation, TypeOK
  <2>3. \A t \in todo'[l] : owner[t] = l /\ place[t] \in PassPlaces(lpc'[l])
    BY <1>0, <1>1, <1>3 DEF LoopCancellation, TypeOK, PassPlaces, OwnedIn
  <2>4. QED
    BY <1>3, <2>1, <2>2, <2>3, InvPhase DEF LoopCancellation
<1>4. CASE DiscardDone(l)
  <2>1. TypeOK'
    BY <1>0, <1>4 DEF DiscardDone, TypeOK, Phases, OwnedIn
  <2>2. \A m \in Loops \ {l} : lpc'[m] = lpc[m] /\ todo'[m] = todo[m]
    BY <1>0, <1>4 DEF DiscardDone, TypeOK
  <2>3. \A t \in todo'[l] : owner[t] = l /\ place[t] \in PassPlaces(lpc'[l])
    BY <1>0, <1>1, <1>4 DEF DiscardDone, TypeOK, PassPlaces, OwnedIn
  <2>4. QED
    BY <1>4, <2>1, <2>2, <2>3, InvPhase DEF DiscardDone
<1>5. CASE ResolvingDone(l)
  <2>1. TypeOK'
    BY <1>0, <1>5 DEF ResolvingDone, TypeOK, Phases, OwnedIn
  <2>2. \A m \in Loops \ {l} : lpc'[m] = lpc[m] /\ todo'[m] = todo[m]
    BY <1>0, <1>5 DEF ResolvingDone, TypeOK
  <2>3. \A t \in todo'[l] : owner[t] = l /\ place[t] \in PassPlaces(lpc'[l])
    BY <1>0, <1>1, <1>5 DEF ResolvingDone, TypeOK, PassPlaces, OwnedIn
  <2>4. QED
    BY <1>5, <2>1, <2>2, <2>3, InvPhase DEF ResolvingDone
<1>6. CASE StartDone(l)
  <2>1. TypeOK'
    BY <1>0, <1>6 DEF StartDone, TypeOK, Phases, OwnedIn
  <2>2. \A m \in Loops \ {l} : lpc'[m] = lpc[m] /\ todo'[m] = todo[m]
    BY <1>0, <1>6 DEF StartDone, TypeOK
  <2>3. \A t \in todo'[l] : owner[t] = l /\ place[t] \in PassPlaces(lpc'[l])
    BY <1>0, <1>1, <1>6 DEF StartDone, TypeOK, PassPlaces, OwnedIn
  <2>4. QED
    BY <1>6, <2>1, <2>2, <2>3, InvPhase DEF StartDone
<1>7. CASE Perform(l)
  <2>1. TypeOK'
    BY <1>0, <1>7 DEF Perform, TypeOK, Phases, OwnedIn
  <2>2. \A m \in Loops \ {l} : lpc'[m] = lpc[m] /\ todo'[m] = todo[m]
    BY <1>0, <1>7 DEF Perform, TypeOK
  <2>3. \A t \in todo'[l] : owner[t] = l /\ place[t] \in PassPlaces(lpc'[l])
    BY <1>0, <1>1, <1>7 DEF Perform, TypeOK, PassPlaces, OwnedIn
  <2>4. QED
    BY <1>7, <2>1, <2>2, <2>3, InvPhase DEF Perform
<1>8. CASE PerformError(l)
  <2>1. TypeOK'
    BY <1>0, <1>8 DEF PerformError, TypeOK, Phases, OwnedIn
  <2>2. \A m \in Loops \ {l} : lpc'[m] = lpc[m] /\ todo'[m] = todo[m]
    BY <1>0, <1>8 DEF PerformError, TypeOK
  <2>3. \A t \in todo'[l] : owner[t] = l /\ place[t] \in PassPlaces(lpc'[l])
    BY <1>0, <1>1, <1>8 DEF PerformError, TypeOK, PassPlaces, OwnedIn
  <2>4. QED
    BY <1>8, <2>1, <2>2, <2>3, InvPhase DEF PerformError
<1>9. CASE FailDone(l)
  <2>1. TypeOK'
    BY <1>0, <1>9 DEF FailDone, TypeOK, Phases, OwnedIn
  <2>2. \A m \in Loops \ {l} : lpc'[m] = lpc[m] /\ todo'[m] = todo[m]
    BY <1>0, <1>9 DEF FailDone, TypeOK
  <2>3. \A t \in todo'[l] : owner[t] = l /\ place[t] \in PassPlaces(lpc'[l])
    BY <1>0, <1>1, <1>9 DEF FailDone, TypeOK, PassPlaces, OwnedIn
  <2>4. QED
    BY <1>9, <2>1, <2>2, <2>3, InvPhase DEF FailDone
<1>10. CASE MessagesDone(l)
  <2>1. TypeOK'
    BY <1>0, <1>10 DEF MessagesDone, TypeOK, Phases, OwnedIn
  <2>2. \A m \in Loops \ {l} : lpc'[m] = lpc[m] /\ todo'[m] = todo[m]
    BY <1>0, <1>10 DEF MessagesDone, TypeOK
  <2>3. \A t \in todo'[l] : owner[t] = l /\ place[t] \in PassPlaces(lpc'[l])
    BY <1>0, <1>1, <1>10 DEF MessagesDone, TypeOK, PassPlaces, OwnedIn
  <2>4. QED
    BY <1>10, <2>1, <2>2, <2>3, InvPhase DEF MessagesDone
<1>11. QED
  BY <1>3, <1>4, <1>5, <1>6, <1>7, <1>8, <1>9, <1>10

\* The steps of a loop that take one transfer out of a container.
LEMMA InvLoopMoves ==
  ASSUME Inv, NEW l \in Loops,
         \/ start_transfer(l) \/ MessageFinish(l) \/ MessageRegion(l)
         \/ MessageRefresh(l) \/ MessageRetry(l)
  PROVE  Inv'
<1> USE PlanAssumption DEF restVars, flagVars, transferVars, countVars,
        resultVars, loopVars, engineVars
<1>0. TypeOK /\ PlacesAgree
  BY DEF Inv
<1> USE DEF InPhase
<1>1. PICK t \in Transfers :
         /\ place[t] \in {"pending", "done"}
         /\ \/ discard_transfer(t)
            \/ \E p \in {"count", "resolving", "active", "pending", "retries"} :
                  Move(t, p, l) /\ UNCHANGED live_transfers
            \/ Move(t, "credential", Nobody) /\ UNCHANGED live_transfers
         /\ owner[t] = l
         /\ lpc[l] \in {"start", "messages"}
  <2>1. CASE start_transfer(l)
    BY <2>1 DEF start_transfer, OwnedIn, StartOutcomes
  <2>2. CASE MessageFinish(l)
    BY <2>2 DEF MessageFinish, OwnedIn
  <2>3. CASE MessageRegion(l)
    BY <2>3 DEF MessageRegion, OwnedIn
  <2>4. CASE MessageRefresh(l)
    BY <2>4 DEF MessageRefresh, OwnedIn
  <2>5. CASE MessageRetry(l)
    BY <2>5 DEF MessageRetry, OwnedIn
  <2>6. QED
    BY <2>1, <2>2, <2>3, <2>4, <2>5
<1>2. UNCHANGED <<stage, lpc, todo>>
  BY DEF start_transfer, MessageFinish, MessageRegion, MessageRefresh,
         MessageRetry
<1>3. \A m \in Loops : todo'[m] \subseteq todo[m] /\ t \notin todo'[m]
  <2>1. \A m \in Loops : owner[t] # m \/ lpc[m] \in {"start", "messages"}
    BY <1>1
  <2>2. QED
    BY <1>0, <1>2, <2>1, NotVisited
<1>4. PlaceType' /\ PlacesAgree' /\ LiveCount' /\ FreedIsReleased'
  <2>1. CASE discard_transfer(t)
    BY <1>1, <1>2, <1>3, <2>1, InvDiscarded
  <2>2. ASSUME NEW p \in {"count", "resolving", "active", "pending", "retries"},
               Move(t, p, l), UNCHANGED live_transfers
        PROVE  PlaceType' /\ PlacesAgree' /\ LiveCount' /\ FreedIsReleased'
    <3>1. p \in Places /\ p \notin {"none", "plan", "gone"} /\ l \in Threads
      BY DEF Places, Held, Registered, Slots, Threads
    <3>2. QED
      BY <1>1, <1>2, <1>3, <2>2, <3>1, InvMoved
  <2>3. CASE Move(t, "credential", Nobody) /\ UNCHANGED live_transfers
    <3>1. "credential" \in Places /\ "credential" \notin Registered
      BY DEF Places, Queued, Registered, Slots
    <3>2. QED
      BY <1>1, <1>2, <1>3, <2>3, <3>1, InvMoved
  <2>4. QED
    BY <1>1, <2>1, <2>2, <2>3
<1>5. TypeOK'
  <2>1. CASE start_transfer(l)
    BY <1>0, <1>4, <2>1 DEF start_transfer, PlaceType, TypeOK
  <2>2. CASE MessageFinish(l)
    BY <1>0, <1>4, <2>2 DEF MessageFinish, PlaceType, TypeOK
  <2>3. CASE MessageRegion(l)
    BY <1>0, <1>4, <2>3 DEF MessageRegion, PlaceType, TypeOK
  <2>4. CASE MessageRefresh(l)
    BY <1>0, <1>4, <2>4 DEF MessageRefresh, PlaceType, TypeOK
  <2>5. CASE MessageRetry(l)
    <3>1. attempt' \in [Transfers -> 0 .. MaxAttempts - 1]
      <4>1. PICK u \in Transfers : /\ attempt[u] + 1 < MaxAttempts
                                   /\ attempt' = [attempt EXCEPT ![u] = @ + 1]
        BY <2>5 DEF MessageRetry, OwnedIn
      <4>2. attempt \in [Transfers -> 0 .. MaxAttempts - 1]
        BY <1>0 DEF TypeOK
      <4>3. attempt[u] + 1 \in 0 .. MaxAttempts - 1
        BY <4>1, <4>2, OptionsAssumption
      <4>4. QED
        BY <4>1, <4>2, <4>3
    <3>2. QED
      BY <1>0, <1>4, <2>5, <3>1 DEF MessageRetry, PlaceType, TypeOK
  <2>6. QED
    BY <2>1, <2>2, <2>3, <2>4, <2>5
<1>6. QED
  BY <1>4, <1>5 DEF Inv

\* The steps of a loop that visit one transfer of a pass.
LEMMA InvLoopVisits ==
  ASSUME Inv, NEW l \in Loops,
         discard_cancelled_http(l) \/ LoopResolving(l) \/ FailActive(l)
  PROVE  Inv'
<1> USE PlanAssumption DEF restVars, flagVars, transferVars, countVars,
        resultVars, loopVars, engineVars
<1>0. TypeOK /\ PlacesAgree
  BY DEF Inv
<1> USE DEF InPhase, Visit
<1>1. PICK t \in todo[l] :
         /\ todo' = [todo EXCEPT ![l] = todo[l] \ {t}]
         /\ \/ discard_transfer(t)
            \/ UNCHANGED <<place, owner, live_transfers>>
            \/ \E p \in {"count", "active", "resolving"} :
                  Move(t, p, l) /\ UNCHANGED live_transfers
  <2>1. CASE discard_cancelled_http(l)
    BY <2>1 DEF discard_cancelled_http
  <2>2. CASE LoopResolving(l)
    <3>1. PICK t \in todo[l] :
             /\ todo' = [todo EXCEPT ![l] = todo[l] \ {t}]
             /\ \/ discard_transfer(t)
                \/ \E p \in {"count", IF place[t] = "lookedUp" THEN "active"
                                                               ELSE place[t]} :
                      Move(t, p, l) /\ UNCHANGED live_transfers
      BY <2>2 DEF LoopResolving
    <3>2. place[t] \in {"resolving", "lookedUp"}
      BY <1>0, <2>2 DEF LoopResolving, PlacesAgree, PassPlaces
    <3>3. \/ discard_transfer(t)
          \/ \E p \in {"count", "active", "resolving"} :
                Move(t, p, l) /\ UNCHANGED live_transfers
      <4>1. CASE place[t] = "resolving"
        BY <3>1, <4>1
      <4>2. CASE place[t] = "lookedUp"
        BY <3>1, <4>2
      <4>3. QED
        BY <3>2, <4>1, <4>2
    <3>4. QED
      BY <3>1, <3>3
  <2>3. CASE FailActive(l)
    BY <2>3 DEF FailActive
  <2>4. QED
    BY <2>1, <2>2, <2>3
<1>2. UNCHANGED <<stage, lpc>>
  BY DEF discard_cancelled_http, LoopResolving, FailActive
<1>3. t \in Transfers /\ owner[t] = l /\ place[t] \in Registered
  BY <1>0 DEF TypeOK, PlacesAgree, PassPlaces, Registered, Slots
<1>4. place[t] \notin {"none", "plan", "gone"}
  BY <1>3 DEF Registered, Slots
<1>5. /\ \A m \in Loops : m # l => todo'[m] = todo[m]
      /\ todo'[l] = todo[l] \ {t}
  BY <1>0, <1>1 DEF TypeOK
<1>6. \A m \in Loops : todo'[m] \subseteq todo[m] /\ t \notin todo'[m]
  <2>1. \A m \in Loops : m # l => t \notin todo[m]
    BY <1>0, <1>3, NotVisited
  <2>2. ASSUME NEW m \in Loops
        PROVE  todo'[m] \subseteq todo[m] /\ t \notin todo'[m]
    <3>1. CASE m = l
      <4>1. todo'[l] = todo[l] \ {t}
        BY <1>5
      <4>2. todo'[l] \subseteq todo[l] /\ t \notin todo'[l]
        BY <4>1
      <4>3. QED
        BY <3>1, <4>2
    <3>2. CASE m # l
      BY <1>5, <2>1, <3>2
    <3>3. QED
      BY <3>1, <3>2
  <2>3. QED
    BY <2>2
<1>7. PlaceType' /\ PlacesAgree' /\ LiveCount' /\ FreedIsReleased'
  <2>1. CASE discard_transfer(t)
    BY <1>2, <1>3, <1>4, <1>6, <2>1, InvDiscarded
  <2>2. CASE UNCHANGED <<place, owner, live_transfers>>
    <3>1. PlaceType'
      BY <1>0, <2>2 DEF PlaceType, TypeOK
    <3>2. PlacesAgree'
      BY <1>0, <1>2, <1>6, <2>2 DEF PlacesAgree, PassPlaces, Registered, Slots
    <3>3. LiveCount' /\ FreedIsReleased'
      BY <1>2, <2>2, LiveKept
    <3>4. QED
      BY <3>1, <3>2, <3>3
  <2>3. ASSUME NEW p \in {"count", "active", "resolving"},
               Move(t, p, l), UNCHANGED live_transfers
        PROVE  PlaceType' /\ PlacesAgree' /\ LiveCount' /\ FreedIsReleased'
    <3>1. p \in Places /\ p \notin {"none", "plan", "gone"} /\ l \in Threads
      BY DEF Places, Held, Registered, Slots, Threads
    <3>2. QED
      BY <1>2, <1>3, <1>4, <1>6, <2>3, <3>1, InvMoved
  <2>4. QED
    BY <1>1, <2>1, <2>2, <2>3
<1>8. TypeOK'
  <2>1. todo' \in [Loops -> SUBSET Transfers]
    BY <1>0, <1>1 DEF TypeOK
  <2>2. QED
    BY <1>0, <1>7, <2>1
       DEF discard_cancelled_http, LoopResolving, FailActive, PlaceType, TypeOK
<1>9. QED
  BY <1>7, <1>8 DEF Inv

\* The steps of a loop that take over several transfers at once: a share of
\* http_queue_, or the retries that are due.
LEMMA InvLoopTakes ==
  ASSUME Inv, NEW l \in Loops, take_http(l) \/ LoopRetries(l)
  PROVE  Inv'
<1> USE PlanAssumption DEF restVars, flagVars, transferVars, countVars,
        resultVars, loopVars, engineVars
<1>0. TypeOK /\ PlacesAgree
  BY DEF Inv
<1> USE DEF InPhase, Enter, Visit
<1>1. PICK S \in SUBSET Transfers :
         /\ \A t \in S : place[t] = "http" \/ (place[t] = "due" /\ owner[t] = l)
         /\ place' = [t \in Transfers |-> IF t \in S THEN "pending" ELSE place[t]]
         /\ \A t \in Transfers : owner'[t] = IF t \in S THEN l ELSE owner[t]
         /\ owner' \in [Transfers -> Threads \cup {Nobody}]
  <2>1. CASE take_http(l)
    <3>1. PICK S \in SUBSET At("http") :
             /\ place' = [t \in Transfers |->
                            IF t \in S THEN "pending" ELSE place[t]]
             /\ owner' = [t \in Transfers |-> IF t \in S THEN l ELSE owner[t]]
      BY <2>1 DEF take_http
    <3>2. S \in SUBSET Transfers /\ \A t \in S : place[t] = "http"
      BY <3>1 DEF At
    <3>3. /\ owner' \in [Transfers -> Threads \cup {Nobody}]
          /\ \A t \in Transfers : owner'[t] = IF t \in S THEN l ELSE owner[t]
      BY <1>0, <3>1 DEF TypeOK, Threads
    <3>4. QED
      BY <3>1, <3>2, <3>3
  <2>2. CASE LoopRetries(l)
    <3> DEFINE S == OwnedIn(l, {"due"})
    <3>1. /\ place' = [t \in Transfers |->
                         IF t \in S THEN "pending" ELSE place[t]]
          /\ UNCHANGED owner
      BY <2>2 DEF LoopRetries
    <3>2. /\ S \in SUBSET Transfers
          /\ \A t \in S : place[t] = "due" /\ owner[t] = l
      BY DEF OwnedIn
    <3> HIDE DEF S
    <3>3. /\ owner' \in [Transfers -> Threads \cup {Nobody}]
          /\ \A t \in Transfers : owner'[t] = IF t \in S THEN l ELSE owner[t]
      BY <1>0, <3>1, <3>2 DEF TypeOK
    <3>4. QED
      BY <3>1, <3>2, <3>3
  <2>3. QED
    BY <2>1, <2>2
<1>2. \A t \in Transfers : place'[t] = IF t \in S THEN "pending" ELSE place[t]
  BY <1>1
<1>3. UNCHANGED <<live_transfers, stage>>
  BY DEF take_http, LoopRetries
<1>4. /\ \A m \in Loops \ {l} : lpc'[m] = lpc[m] /\ todo'[m] = todo[m]
      /\ \A t \in todo'[l] : /\ owner[t] = l
                             /\ place[t] \in {"resolving", "lookedUp"}
                             /\ t \in Transfers
                             /\ lpc'[l] = "resolving"
  <2>1. lpc[l] \in {"take", "retries"}
    BY DEF take_http, LoopRetries
  <2>2. todo[l] = {}
    BY <1>0, <2>1, NotVisited DEF TypeOK
  <2>3. CASE take_http(l)
    BY <1>0, <2>2, <2>3 DEF take_http, TypeOK
  <2>4. CASE LoopRetries(l)
    BY <1>0, <2>4 DEF LoopRetries, TypeOK, OwnedIn
  <2>5. QED
    BY <2>3, <2>4
<1>5. TypeOK'
  <2>1. place' \in [Transfers -> Places]
    BY <1>0, <1>1 DEF TypeOK, Places, Registered
  <2>2. CASE take_http(l)
    BY <1>0, <1>1, <2>1, <2>2 DEF take_http, TypeOK, Phases
  <2>3. CASE LoopRetries(l)
    BY <1>0, <1>1, <2>1, <2>3 DEF LoopRetries, TypeOK, Phases, OwnedIn
  <2>4. QED
    BY <2>2, <2>3
<1>6. PlacesAgree'
  <2>1. \A t \in Transfers :
           /\ place'[t] \in Registered => owner'[t] \in Loops
           /\ place'[t] = "none" <=> stage'[Of[t]] = "new"
           /\ stage'[Of[t]] = "counted" => place'[t] = "plan"
           /\ stage'[Of[t]] = "queued" /\ Kind[t] = "http" => place'[t] = "plan"
    BY <1>0, <1>1, <1>2, <1>3 DEF PlacesAgree, Registered, Slots
  <2>2. ASSUME NEW m \in Loops \ {l}, NEW t \in todo'[m]
        PROVE  owner'[t] = m /\ place'[t] \in PassPlaces(lpc'[m])
    <3>1. /\ t \in todo[m] /\ t \in Transfers /\ lpc'[m] = lpc[m]
          /\ owner[t] = m /\ place[t] \in PassPlaces(lpc[m])
      BY <1>0, <1>4, <2>2 DEF TypeOK, PlacesAgree
    <3>2. t \notin S
      <4>1. place[t] # "http"
        BY <3>1 DEF PassPlaces, Registered, Slots
      <4>2. QED
        BY <1>1, <2>2, <3>1, <4>1
    <3>3. QED
      BY <1>1, <1>2, <3>1, <3>2
  <2>3. \A t \in todo'[l] : owner'[t] = l /\ place'[t] \in PassPlaces(lpc'[l])
    BY <1>1, <1>2, <1>4 DEF PassPlaces
  <2>4. \A m \in Loops : \A t \in todo'[m] :
           owner'[t] = m /\ place'[t] \in PassPlaces(lpc'[m])
    BY <2>2, <2>3
  <2>5. QED
    BY <2>1, <2>4 DEF PlacesAgree, PassPlaces, Registered, Slots
<1>7. LiveCount' /\ FreedIsReleased'
  <2>1. \A t \in Transfers : place'[t] = "gone" <=> place[t] = "gone"
    BY <1>1, <1>2
  <2>2. QED
    BY <1>3, <2>1, LiveKept
<1>8. QED
  BY <1>5, <1>6, <1>7 DEF Inv

\* A loop leaves after stop_ and discards what it still has, of any batch.
LEMMA InvLoopExit ==
  ASSUME Inv, NEW l \in Loops, LoopExit(l)
  PROVE  Inv'
<1> USE PlanAssumption DEF restVars, flagVars, transferVars, countVars,
        resultVars, loopVars, engineVars
<1>0. TypeOK /\ PlacesAgree /\ LiveCount /\ FreedIsReleased
  BY DEF Inv
<1> USE DEF InPhase, Enter
<1> DEFINE R == OwnedIn(l, Registered)
<1>1. /\ R \in SUBSET Transfers
      /\ \A t \in R : place[t] \in Registered /\ owner[t] = l
  BY DEF OwnedIn
<1>2. /\ lpc[l] = "take"
      /\ lpc' = [lpc EXCEPT ![l] = "exited"]
      /\ place' = [t \in Transfers |-> IF t \in R THEN "gone" ELSE place[t]]
      /\ live_transfers' = [b \in Batches |->
            live_transfers[b] - Cardinality(TransfersOf(b) \cap R)]
      /\ UNCHANGED <<owner, stage, todo>>
  BY DEF LoopExit
<1> HIDE DEF R
<1>3. \A b \in Batches : Alive(b)' = Alive(b) \ R
  BY <1>1, <1>2 DEF Alive, TransfersOf
<1>4. ASSUME NEW b \in Batches
      PROVE  /\ live_transfers'[b] \in Nat
             /\ stage[b] # "new" => live_transfers'[b] = Cardinality(Alive(b)')
  <2>1. live_transfers[b] \in Nat
    BY <1>0 DEF TypeOK
  <2>2. live_transfers'[b] = live_transfers[b] - Cardinality(TransfersOf(b) \cap R)
    BY <1>2
  <2>3. CASE stage[b] = "new"
    <3>1. TransfersOf(b) \cap R = {}
      BY <1>0, <1>1, <2>3 DEF TransfersOf, PlacesAgree, Registered, Slots
    <3>2. Cardinality(TransfersOf(b) \cap R) = 0
      BY <3>1, FS_EmptySet
    <3>3. QED
      BY <2>1, <2>2, <2>3, <3>2
  <2>4. CASE stage[b] # "new"
    <3>1. TransfersOf(b) \cap R = Alive(b) \cap R
      BY <1>1 DEF Alive, TransfersOf, Registered, Slots
    <3>2. IsFiniteSet(Alive(b))
      BY AliveFinite DEF Alive
    <3>3. live_transfers[b] = Cardinality(Alive(b))
      BY <1>0, <2>4 DEF LiveCount
    <3>4. /\ IsFiniteSet(Alive(b) \ R)
          /\ Cardinality(Alive(b) \ R) =
                Cardinality(Alive(b)) - Cardinality(Alive(b) \cap R)
      BY <3>2, FS_Difference
    <3>5. Cardinality(Alive(b) \ R) \in Nat
      BY <3>4, FS_CardinalityType
    <3>6. QED
      BY <1>3, <2>2, <3>1, <3>3, <3>4, <3>5
  <2>5. QED
    BY <2>3, <2>4
<1>5. TypeOK'
  <2>1. live_transfers' \in [Batches -> Nat]
    BY <1>2, <1>4
  <2>2. place' \in [Transfers -> Places] /\ lpc' \in [Loops -> Phases]
    BY <1>0, <1>2 DEF TypeOK, Places, Phases
  <2>3. QED
    BY <1>0, <2>1, <2>2 DEF LoopExit, TypeOK, Threads
<1>6. LiveCount' /\ FreedIsReleased'
  BY <1>0, <1>2, <1>3, <1>4 DEF LiveCount, FreedIsReleased
<1>7. PlacesAgree'
  <2>1. \A t \in Transfers : place'[t] = IF t \in R THEN "gone" ELSE place[t]
    BY <1>2
  <2>2. \A t \in Transfers :
           /\ place'[t] \in Registered => owner'[t] \in Loops
           /\ place'[t] = "none" <=> stage'[Of[t]] = "new"
           /\ stage'[Of[t]] = "counted" => place'[t] = "plan"
           /\ stage'[Of[t]] = "queued" /\ Kind[t] = "http" => place'[t] = "plan"
    BY <1>0, <1>1, <1>2, <2>1 DEF PlacesAgree, Registered, Slots
  <2>3. todo[l] = {}
    BY <1>0, <1>2, NotVisited DEF TypeOK
  <2>4. ASSUME NEW m \in Loops, NEW t \in todo'[m]
        PROVE  owner'[t] = m /\ place'[t] \in PassPlaces(lpc'[m])
    <3>1. t \in todo[m] /\ m # l
      BY <1>2, <2>3, <2>4
    <3>2. t \in Transfers /\ lpc'[m] = lpc[m]
      BY <1>0, <1>2, <3>1 DEF TypeOK
    <3>3. owner[t] = m /\ place[t] \in PassPlaces(lpc[m])
      BY <1>0, <3>1 DEF PlacesAgree
    <3>4. t \notin R
      BY <1>1, <3>1, <3>3
    <3>5. QED
      BY <1>2, <2>1, <3>2, <3>3, <3>4
  <2>5. QED
    BY <2>2, <2>4 DEF PlacesAgree, PassPlaces, Registered, Slots
<1>8. QED
  BY <1>5, <1>6, <1>7 DEF Inv

\* Every step of an I/O loop.
LEMMA InvLoop ==
  ASSUME Inv, NEW l \in Loops, io_loop(l)
  PROVE  Inv'
<1>1. CASE FinishOwned(l)
  BY <1>1, InvFinish DEF FinishOwned, OwnedIn
<1>2. QED
  BY <1>1, InvLoopPhases, InvLoopMoves, InvLoopVisits, InvLoopTakes,
     InvLoopExit DEF io_loop

\* Every step of the engine, its callers and its environment keeps Inv.
LEMMA InvNext == Inv /\ [Next]_vars => Inv'
<1> SUFFICES ASSUME Inv, [Next]_vars PROVE Inv'
  OBVIOUS
<1>1. CASE UNCHANGED vars
  <2>1. UNCHANGED <<place, owner, live_transfers, stage, lpc, todo>>
    BY <1>1 DEF vars, transferVars, countVars, loopVars
  <2>2. TypeOK'
    BY <1>1 DEF Inv, TypeOK, vars, transferVars, flagVars, countVars,
                resultVars, loopVars, engineVars
  <2>3. QED
    BY <2>1, <2>2, InvStill
<1>2. CASE \E b \in Batches : \/ SubmitCount(b) \/ submit(b) \/ BatchNext(b)
                              \/ BatchEnd(b) \/ CancelCheck(b) \/ cancel(b)
  BY <1>2, InvCaller, InvCancel
<1>3. CASE ClientFree \/ StopWorkers
  BY <1>3, InvClose
<1>4. CASE \E w \in FileWorkers : file_loop(w)
  BY <1>4, InvFile
<1>5. CASE \E w \in CredWorkers : credential_loop(w)
  BY <1>5, InvCredential
<1>6. CASE \E l \in Loops : io_loop(l)
  BY <1>6, InvLoop
<1>7. CASE \E t \in Transfers : Answer(t) \/ LookupAnswered(t) \/ RetryDue(t)
  BY <1>7, InvRipen
<1>8. CASE Terminated
  BY <1>1, <1>8 DEF Terminated
<1>9. QED
  BY <1>1, <1>2, <1>3, <1>4, <1>5, <1>6, <1>7, <1>8 DEF Next

-----------------------------------------------------------------------------
(***************************************************************************)
(* Theorems.                                                               *)
(***************************************************************************)

\* The inductive invariant holds in every reachable state.
LEMMA InvAlways == Spec => []Inv
<1>1. Init => Inv
  BY InvInit
<1>2. Inv /\ [Next]_vars => Inv'
  BY InvNext
<1>3. QED
  BY <1>1, <1>2, PTL DEF Spec

\* Every variable keeps its type: no counter of a batch falls below zero, a
\* transfer uses at most MaxAttempts ordinary attempts, and a pass of a loop
\* visits only transfers.
THEOREM TypeCorrect == Spec => []TypeOK
<1>1. Inv => TypeOK
  BY DEF Inv
<1>2. QED
  BY <1>1, InvAlways, PTL

\* Every container has what its owner believes to be in it, however the
\* callers, the workers and the loops interleave.
THEOREM PlacesCorrect == Spec => []PlacesAgree
<1>1. Inv => PlacesAgree
  BY DEF Inv
<1>2. QED
  BY <1>1, InvAlways, PTL

\* live_transfers is exact: no path of a worker, of a loop or of cancel drops
\* a transfer without telling its batch, or tells it twice.
THEOREM LiveCountCorrect == Spec => []LiveCount
<1>1. Inv => LiveCount
  BY DEF Inv
<1>2. QED
  BY <1>1, InvAlways, PTL

\* When karu_batch_free has returned, no thread and no queue has a transfer of
\* the batch, so nobody touches the destroyed batch or the caller's buffers.
THEOREM FreeIsSafe == Spec => []FreedIsReleased
<1>1. Inv => FreedIsReleased
  BY DEF Inv
<1>2. QED
  BY <1>1, InvAlways, PTL
=============================================================================
