---------------------------- MODULE WakeupsProofs ---------------------------
(***************************************************************************)
(* The two ways in which an I/O loop may wait for ever, for every number   *)
(* of loops, producers, hosts and transfers.                               *)
(***************************************************************************)
EXTENDS IdleWake, Resolver, FiniteSetTheorems, TLAPS

(***************************************************************************)
(* NoLostWakeup of module IdleWake.                                        *)
(*                                                                         *)
(* The argument counts.  A producer that queues n transfers sets out to    *)
(* wake n loops; call each of these intentions a call.  A loop asleep with *)
(* its bit set is reached by the calls of the producers that have still to *)
(* read the bits, or that have read its bit.  As long as a loop sleeps     *)
(* with its bit set, every queued transfer is covered either by a call     *)
(* that can still reach this loop or by a taker: a loop with room whose    *)
(* bit is not set, and which therefore looks at the queue before it        *)
(* sleeps.                                                                 *)
(***************************************************************************)

TypeOK ==
    /\ http_backlog \in Nat
    /\ idle_loops \in SUBSET Loops
    /\ added \in Nat
    /\ ppc \in [Producers -> {"outside", "queued", "waking", "claimed"}]
    /\ count \in [Producers -> 0 .. MaxAdd]
    /\ idle \in [Producers -> SUBSET Loops]
    /\ target \in [Producers -> SUBSET Loops]
    /\ lpc \in [Loops -> {"top", "decide", "announce", "recheck", "poll",
                          "polled", "exited"}]
    /\ active \in [Loops -> Nat]
    /\ announced \in [Loops -> BOOLEAN]
    /\ blocking \in [Loops -> BOOLEAN]
    /\ woken \in [Loops -> BOOLEAN]
    /\ stop_ \in BOOLEAN

\* A producer has a target exactly between clearing a bit and waking the loop.
ClaimsAgree ==
    \A p \in Producers :
        /\ ppc[p] = "outside" => count[p] = 0
        /\ ppc[p] # "claimed" => target[p] = {}
        /\ ppc[p] = "claimed" => count[p] > 0

\* A loop whose bit is set has room and has announced itself; no loop has more
\* transfers than slots.
BitsAgree ==
    \A l \in Loops :
        /\ l \in idle_loops => announced[l] /\ Room(l)
        /\ announced[l] => lpc[l] \in {"recheck", "poll", "polled"}
        /\ lpc[l] = "announce" => Room(l)
        /\ active[l] <= Limit[l]

\* On its way to sleep, or asleep.
Dozing(l) ==
    /\ lpc[l] = "recheck" \/ (lpc[l] = "poll" /\ blocking[l])
    /\ ~woken[l]

\* A loop with room sleeps without its bit only until the producer that cleared
\* the bit wakes it.
SleepersAgree ==
    \A l \in Loops :
        Dozing(l) /\ Room(l) /\ l \notin idle_loops
            => \E p \in Producers : ppc[p] = "claimed" /\ l \in target[p]

\* The calls of producer p that can still reach loop l.
Left(p) == IF ppc[p] = "claimed" THEN count[p] - 1 ELSE count[p]
Reaches(p, l) == ppc[p] = "queued" \/ l \in idle[p]
Calls(l) ==
    {c \in Producers \X (1 .. MaxAdd) : Reaches(c[1], l) /\ c[2] <= Left(c[1])}

\* The loops that look at the queue before they sleep.
Takers == {l \in Loops : l \notin idle_loops /\ lpc[l] # "announce" /\ Room(l)}

BacklogIsCovered ==
    \A l \in idle_loops :
        Asleep(l) => http_backlog <= Cardinality(Calls(l)) + Cardinality(Takers)

Inv == TypeOK /\ ClaimsAgree /\ BitsAgree /\ SleepersAgree /\ BacklogIsCovered
-----------------------------------------------------------------------------
(***************************************************************************)
(* The bookkeeping of bits, claims and sleepers.                           *)
(***************************************************************************)

\* What the claims, bits and sleepers agree on; the count comes later.
Books == TypeOK /\ ClaimsAgree /\ BitsAgree /\ SleepersAgree

\* The engine starts with no producer at work and every loop at its top.
LEMMA InvInit == Init => Inv
<1> SUFFICES ASSUME Init PROVE Inv
  OBVIOUS
<1> USE DEF Init
<1>0. 0 \in 0 .. MaxAdd
  BY IdleAssumption
<1>1. TypeOK
  BY <1>0 DEF TypeOK
<1>2. ClaimsAgree /\ BitsAgree /\ SleepersAgree
  BY IdleAssumption
     DEF ClaimsAgree, BitsAgree, SleepersAgree, Dozing, Room
<1>3. BacklogIsCovered
  BY DEF BacklogIsCovered
<1> QED
  BY <1>1, <1>2, <1>3 DEF Inv

\* A producer that queues, reads the bits, claims one, wakes its loop or leaves
\* (queue_http and wake_idle_loops) keeps the books.
LEMMA BooksProducer ==
  ASSUME Books, NEW p \in Producers, Queue(p) \/ wake_idle_loops(p)
  PROVE  Books'
<1> USE IdleAssumption DEF Books, producerVars, loopVars
<1>1. CASE Queue(p)
  <2>1. TypeOK'
    <3>1. PICK n \in 1 .. MaxAdd :
             /\ added' = added + n
             /\ http_backlog' = http_backlog + n
             /\ count' = [count EXCEPT ![p] = n]
      BY <1>1 DEF Queue
    <3>2. n \in 0 .. MaxAdd /\ n \in Nat
      BY <3>1
    <3> QED
      BY <1>1, <3>1, <3>2 DEF Queue, TypeOK
  <2>2. ClaimsAgree' /\ BitsAgree'
    BY <1>1 DEF Queue, TypeOK, ClaimsAgree, BitsAgree, Room
  <2>3. SleepersAgree'
    BY <1>1 DEF Queue, TypeOK, SleepersAgree, Dozing, Room
  <2> QED
    BY <2>1, <2>2, <2>3
<1>2. CASE ReadIdle(p)
  <2>1. TypeOK'
    BY <1>2 DEF ReadIdle, TypeOK
  <2>2. ClaimsAgree' /\ BitsAgree'
    BY <1>2 DEF ReadIdle, TypeOK, ClaimsAgree, BitsAgree, Room
  <2>3. SleepersAgree'
    BY <1>2 DEF ReadIdle, TypeOK, SleepersAgree, Dozing, Room
  <2> QED
    BY <2>1, <2>2, <2>3
<1>3. CASE Claim(p)
  <2> DEFINE l == Lowest(idle[p])
  <2> HIDE DEF l
  <2>1. /\ ppc[p] = "waking" /\ count[p] > 0
        /\ idle' = [idle EXCEPT ![p] = @ \ {l}]
        /\ idle_loops' = idle_loops \ {l}
        /\ UNCHANGED <<http_backlog, added, count, loopVars, woken, stop_>>
        /\ \/ /\ l \in idle_loops
              /\ ppc' = [ppc EXCEPT ![p] = "claimed"]
              /\ target' = [target EXCEPT ![p] = {l}]
           \/ l \notin idle_loops /\ UNCHANGED <<ppc, target>>
    BY <1>3 DEF Claim, l
  <2>2. TypeOK'
    <3>1. idle' \in [Producers -> SUBSET Loops]
      BY <2>1 DEF TypeOK
    <3>2. l \in idle_loops => {l} \in SUBSET Loops
      BY DEF TypeOK
    <3>3. target' \in [Producers -> SUBSET Loops]
      BY <2>1, <3>2 DEF TypeOK
    <3> QED
      BY <2>1, <3>1, <3>3 DEF TypeOK
  <2>3. ClaimsAgree'
    BY <2>1 DEF TypeOK, ClaimsAgree
  <2>4. BitsAgree'
    BY <2>1 DEF TypeOK, BitsAgree, Room
  <2>5. SleepersAgree'
    BY <2>1 DEF TypeOK, SleepersAgree, Dozing, Room
  <2> QED
    BY <2>2, <2>3, <2>4, <2>5
<1>4. CASE Wakeup(p)
  <2>1. TypeOK'
    BY <1>4 DEF Wakeup, TypeOK, ClaimsAgree
  <2>2. ClaimsAgree' /\ BitsAgree'
    BY <1>4 DEF Wakeup, TypeOK, ClaimsAgree, BitsAgree, Room
  <2>3. SleepersAgree'
    <3> SUFFICES ASSUME NEW l \in Loops,
                        (Dozing(l) /\ Room(l) /\ l \notin idle_loops)'
                 PROVE  (\E q \in Producers : ppc[q] = "claimed" /\ l \in target[q])'
      BY DEF SleepersAgree
    <3>1. l \notin target[p] /\ ~woken[l]
      BY <1>4 DEF Wakeup, Dozing, TypeOK
    <3>2. Dozing(l) /\ Room(l) /\ l \notin idle_loops
      BY <1>4, <3>1 DEF Wakeup, Dozing, Room
    <3>3. PICK q \in Producers : ppc[q] = "claimed" /\ l \in target[q]
      BY <3>2 DEF SleepersAgree
    <3>4. q # p
      BY <3>1, <3>3
    <3> QED
      BY <1>4, <3>3, <3>4 DEF Wakeup, TypeOK
  <2> QED
    BY <2>1, <2>2, <2>3
<1>5. CASE Leave(p)
  <2>1. TypeOK'
    BY <1>5 DEF Leave, TypeOK
  <2>2. ClaimsAgree' /\ BitsAgree'
    BY <1>5 DEF Leave, TypeOK, ClaimsAgree, BitsAgree, Room
  <2>3. SleepersAgree'
    BY <1>5 DEF Leave, TypeOK, SleepersAgree, Dozing, Room
  <2> QED
    BY <2>1, <2>2, <2>3
<1> QED
  BY <1>1, <1>2, <1>3, <1>4, <1>5 DEF wake_idle_loops

\* A loop that takes, decides, announces itself, looks again, polls, retracts
\* its bit or exits (io_loop), and a transfer that ends, keep the books.
LEMMA BooksLoop ==
  ASSUME Books, NEW l \in Loops, io_loop(l) \/ TransferEnds(l)
  PROVE  Books'
<1> USE IdleAssumption DEF Books, producerVars, loopVars
<1>1. CASE Take(l)
  <2> DEFINE room == Limit[l] - active[l]
             n == IF room < http_backlog THEN room ELSE http_backlog
  <2>1. /\ active' = [active EXCEPT ![l] = @ + n]
        /\ http_backlog' = http_backlog - n
    BY <1>1 DEF Take
  <2>2. active[l] + n \in Nat /\ http_backlog - n \in Nat
    BY DEF TypeOK
  <2> HIDE DEF n
  <2>3. TypeOK'
    BY <1>1, <2>1, <2>2 DEF Take, TypeOK
  <2>4. lpc[l] = "top" /\ ~announced[l] /\ l \notin idle_loops /\ lpc'[l] = "decide"
    BY <1>1 DEF Take, TypeOK, BitsAgree
  <2>5. \A m \in Loops \ {l} : active'[m] = active[m] /\ lpc'[m] = lpc[m]
    BY <1>1, <2>1 DEF Take, TypeOK
  <2>6. ClaimsAgree'
    BY <1>1 DEF Take, ClaimsAgree
  <2>7. BitsAgree'
    BY <1>1, <2>4, <2>5 DEF Take, TypeOK, BitsAgree, Room
  <2>8. SleepersAgree'
    BY <1>1, <2>4, <2>5 DEF Take, SleepersAgree, Dozing, Room
  <2> QED
    BY <2>3, <2>6, <2>7, <2>8
<1>2. CASE Decide(l)
  <2>1. TypeOK'
    BY <1>2 DEF Decide, TypeOK
  <2>2. ClaimsAgree' /\ BitsAgree'
    BY <1>2 DEF Decide, TypeOK, ClaimsAgree, BitsAgree, Room
  <2>3. SleepersAgree'
    BY <1>2 DEF Decide, TypeOK, SleepersAgree, Dozing, Room
  <2> QED
    BY <2>1, <2>2, <2>3
<1>3. CASE Announce(l)
  <2>1. TypeOK'
    BY <1>3 DEF Announce, TypeOK
  <2>2. ClaimsAgree' /\ BitsAgree'
    BY <1>3 DEF Announce, TypeOK, ClaimsAgree, BitsAgree, Room
  <2>3. SleepersAgree'
    BY <1>3 DEF Announce, TypeOK, SleepersAgree, Dozing, Room
  <2> QED
    BY <2>1, <2>2, <2>3
<1>4. CASE Recheck(l)
  <2>1. TypeOK'
    BY <1>4 DEF Recheck, TypeOK
  <2>2. ClaimsAgree' /\ BitsAgree'
    BY <1>4 DEF Recheck, TypeOK, ClaimsAgree, BitsAgree, Room
  <2>3. SleepersAgree'
    BY <1>4 DEF Recheck, TypeOK, SleepersAgree, Dozing, Room
  <2> QED
    BY <2>1, <2>2, <2>3
<1>5. CASE Poll(l)
  <2>1. TypeOK'
    BY <1>5 DEF Poll, TypeOK
  <2>2. ClaimsAgree' /\ BitsAgree'
    BY <1>5 DEF Poll, TypeOK, ClaimsAgree, BitsAgree, Room
  <2>3. SleepersAgree'
    BY <1>5 DEF Poll, TypeOK, SleepersAgree, Dozing, Room
  <2> QED
    BY <2>1, <2>2, <2>3
<1>6. CASE Retract(l)
  <2>1. TypeOK'
    BY <1>6 DEF Retract, TypeOK
  <2>2. ClaimsAgree' /\ BitsAgree'
    BY <1>6 DEF Retract, TypeOK, ClaimsAgree, BitsAgree, Room
  <2>3. SleepersAgree'
    BY <1>6 DEF Retract, TypeOK, SleepersAgree, Dozing, Room
  <2> QED
    BY <2>1, <2>2, <2>3
<1>7. CASE Exit(l)
  <2>1. TypeOK'
    BY <1>7 DEF Exit, TypeOK
  <2>2. ClaimsAgree' /\ BitsAgree'
    BY <1>7 DEF Exit, TypeOK, ClaimsAgree, BitsAgree, Room
  <2>3. SleepersAgree'
    BY <1>7 DEF Exit, TypeOK, SleepersAgree, Dozing, Room
  <2> QED
    BY <2>1, <2>2, <2>3
<1>8. CASE TransferEnds(l)
  <2>1. TypeOK'
    BY <1>8 DEF TransferEnds, TypeOK
  <2>2. ClaimsAgree' /\ BitsAgree'
    BY <1>8 DEF TransferEnds, TypeOK, ClaimsAgree, BitsAgree, Room
  <2>3. SleepersAgree'
    BY <1>8 DEF TransferEnds, TypeOK, SleepersAgree, Dozing, Room
  <2> QED
    BY <2>1, <2>2, <2>3
<1> QED
  BY <1>1, <1>2, <1>3, <1>4, <1>5, <1>6, <1>7, <1>8 DEF io_loop

\* Taking transfers out of the queue (cancel), shutting down (stop_workers) and
\* stuttering keep the books.
LEMMA BooksRest ==
  ASSUME Books, Erase \/ StopWorkers \/ wake_loops \/ Joined \/ UNCHANGED vars
  PROVE  Books'
<1> USE IdleAssumption DEF Books, producerVars, loopVars
<1>1. CASE Erase
  <2>1. TypeOK'
    BY <1>1 DEF Erase, TypeOK
  <2> QED
    BY <1>1, <2>1
    DEF Erase, ClaimsAgree, BitsAgree, SleepersAgree, Dozing, Room
<1>2. CASE StopWorkers
  BY <1>2
  DEF StopWorkers, TypeOK, ClaimsAgree, BitsAgree, SleepersAgree, Dozing, Room
<1>3. CASE wake_loops
  <2> DEFINE l == Lowest(unwoken)
  <2> HIDE DEF l
  <2>1. /\ woken' = [woken EXCEPT ![l] = TRUE]
        /\ UNCHANGED <<http_backlog, idle_loops, added, producerVars, loopVars,
                       stop_>>
    BY <1>3 DEF wake_loops, l
  <2>2. TypeOK'
    BY <2>1 DEF TypeOK
  <2>3. ClaimsAgree' /\ BitsAgree'
    BY <2>1 DEF ClaimsAgree, BitsAgree, Room
  <2>4. SleepersAgree'
    BY <2>1 DEF TypeOK, SleepersAgree, Dozing, Room
  <2> QED
    BY <2>2, <2>3, <2>4
<1>4. CASE Joined \/ UNCHANGED vars
  BY <1>4
  DEF Joined, vars, TypeOK, ClaimsAgree, BitsAgree, SleepersAgree, Dozing, Room
<1> QED
  BY <1>1, <1>2, <1>3, <1>4
-----------------------------------------------------------------------------
(***************************************************************************)
(* The count.                                                              *)
(***************************************************************************)

\* Sets of calls and of loops are finite.
LEMMA CallsFinite ==
  ASSUME NEW S \in SUBSET (Producers \X (1 .. MaxAdd))
  PROVE  IsFiniteSet(S) /\ Cardinality(S) \in Nat
<1>1. IsFiniteSet(1 .. MaxAdd)
  BY IdleAssumption, FS_Interval
<1>2. IsFiniteSet(Producers \X (1 .. MaxAdd))
  BY <1>1, IdleAssumption, FS_Product
<1> QED
  BY <1>2, FS_Subset, FS_CardinalityType

LEMMA LoopsFinite ==
  ASSUME NEW S \in SUBSET Loops
  PROVE  IsFiniteSet(S) /\ Cardinality(S) \in Nat
BY IdleAssumption, FS_Subset, FS_CardinalityType

\* A finite set without one of its members is smaller by one.
LEMMA OneLess ==
  ASSUME NEW S, IsFiniteSet(S), Cardinality(S) \in Nat, NEW x \in S
  PROVE  Cardinality(S \ {x}) = Cardinality(S) - 1
BY FS_RemoveElement

\* What the books say of the two sets of the count.
LEMMA CountTypes ==
  ASSUME NEW l
  PROVE  /\ IsFiniteSet(Calls(l)) /\ Cardinality(Calls(l)) \in Nat
         /\ IsFiniteSet(Takers) /\ Cardinality(Takers) \in Nat
         /\ IsFiniteSet(Calls(l)') /\ Cardinality(Calls(l)') \in Nat
         /\ IsFiniteSet(Takers') /\ Cardinality(Takers') \in Nat
<1>1. /\ Calls(l) \in SUBSET (Producers \X (1 .. MaxAdd))
      /\ Calls(l)' \in SUBSET (Producers \X (1 .. MaxAdd))
  BY DEF Calls
<1>2. Takers \in SUBSET Loops /\ Takers' \in SUBSET Loops
  BY DEF Takers
<1> QED
  BY <1>1, <1>2, CallsFinite, LoopsFinite

\* No transfer is queued, and no call or taker is lost: the rest are covered.
LEMMA StillCovered ==
  ASSUME Books, Books', NEW l,
         http_backlog <= Cardinality(Calls(l)) + Cardinality(Takers),
         http_backlog' <= http_backlog,
         Calls(l) \subseteq Calls(l)', Takers \subseteq Takers'
  PROVE  http_backlog' <= Cardinality(Calls(l)') + Cardinality(Takers')
<1>1. /\ IsFiniteSet(Calls(l)') /\ IsFiniteSet(Takers')
      /\ Cardinality(Calls(l)) \in Nat /\ Cardinality(Calls(l)') \in Nat
      /\ Cardinality(Takers) \in Nat /\ Cardinality(Takers') \in Nat
  BY CountTypes
<1>2. Cardinality(Calls(l)) <= Cardinality(Calls(l)')
  BY <1>1, FS_Subset
<1>3. Cardinality(Takers) <= Cardinality(Takers')
  BY <1>1, FS_Subset
<1>4. http_backlog \in Nat /\ http_backlog' \in Nat
  BY DEF Books, TypeOK
<1> QED
  BY <1>1, <1>2, <1>3, <1>4

\* n transfers are queued with n calls, which reach every loop that sleeps with
\* its bit set: the producer has still to read the bits (queue_http).
LEMMA CoveredQueue ==
  ASSUME Books, Books', BacklogIsCovered, NEW p \in Producers, Queue(p)
  PROVE  BacklogIsCovered'
<1> SUFFICES ASSUME NEW l \in idle_loops', Asleep(l)'
             PROVE  http_backlog' <= Cardinality(Calls(l)') + Cardinality(Takers')
  BY DEF BacklogIsCovered
<1> USE IdleAssumption DEF loopVars
<1>1. l \in idle_loops /\ Asleep(l)
  BY DEF Queue, Asleep
<1>2. PICK n \in 1 .. MaxAdd :
        http_backlog' = http_backlog + n /\ count' = [count EXCEPT ![p] = n]
  BY DEF Queue
<1> DEFINE New == {p} \X (1 .. n)
<1>3. Calls(l) \cup New \subseteq Calls(l)'
  <2>1. \A q \in Producers \ {p} :
          (Reaches(q, l) <=> Reaches(q, l)') /\ Left(q)' = Left(q)
    BY <1>2 DEF Queue, Books, TypeOK, Reaches, Left
  <2>2. Left(p) = 0 /\ Left(p)' = n /\ Reaches(p, l)'
    BY <1>2 DEF Queue, Books, TypeOK, ClaimsAgree, Reaches, Left
  <2>3. ASSUME NEW c \in Calls(l) PROVE c \in Calls(l)'
    <3>1. c[1] \in Producers \ {p}
      BY <2>2 DEF Calls
    <3> QED
      BY <2>1, <3>1 DEF Calls
  <2>4. ASSUME NEW c \in New PROVE c \in Calls(l)'
    BY <2>2 DEF Calls
  <2> QED
    BY <2>3, <2>4
<1>4. Calls(l) \cap New = {}
  <2>1. Left(p) = 0
    BY DEF Queue, Books, TypeOK, ClaimsAgree, Left
  <2> QED
    BY <2>1 DEF Calls
<1>5. IsFiniteSet(New) /\ Cardinality(New) = n
  <2>1. IsFiniteSet({p}) /\ Cardinality({p}) = 1
    BY FS_Singleton
  <2>2. IsFiniteSet(1 .. n) /\ Cardinality(1 .. n) = n
    BY FS_Interval
  <2>3. IsFiniteSet({p} \X (1 .. n))
        /\ Cardinality({p} \X (1 .. n)) = Cardinality({p}) * Cardinality(1 .. n)
    BY <2>1, <2>2, FS_Product
  <2> QED
    BY <2>1, <2>2, <2>3
<1> HIDE DEF New
<1>6. /\ IsFiniteSet(Calls(l)) /\ Cardinality(Calls(l)) \in Nat
      /\ IsFiniteSet(Calls(l)') /\ Cardinality(Calls(l)') \in Nat
      /\ Cardinality(Takers) \in Nat
  BY CountTypes
<1>7. Cardinality(Calls(l) \cup New) = Cardinality(Calls(l)) + n
  <2>1. Cardinality(Calls(l) \cap New) = 0
    BY <1>4, FS_EmptySet
  <2>2. Cardinality(Calls(l) \cup New) =
          Cardinality(Calls(l)) + Cardinality(New) - Cardinality(Calls(l) \cap New)
    BY <1>5, <1>6, FS_Union
  <2> QED
    BY <1>5, <1>6, <2>1, <2>2
<1>8. Cardinality(Calls(l) \cup New) <= Cardinality(Calls(l)')
  BY <1>3, <1>6, FS_Subset
<1>9. Takers' = Takers
  BY DEF Queue, Takers, Room
<1>10. http_backlog <= Cardinality(Calls(l)) + Cardinality(Takers)
  BY <1>1 DEF BacklogIsCovered
<1>11. http_backlog \in Nat
  BY DEF Books, TypeOK
<1> QED
  BY <1>2, <1>6, <1>7, <1>8, <1>9, <1>10, <1>11

\* A call that clears a bit is spent, and the loop it found becomes a taker; one
\* that finds the bit cleared already is not spent (wake_idle_loops).
LEMMA CoveredClaim ==
  ASSUME Books, Books', BacklogIsCovered, NEW p \in Producers, Claim(p)
  PROVE  BacklogIsCovered'
<1> SUFFICES ASSUME NEW l \in idle_loops', Asleep(l)'
             PROVE  http_backlog' <= Cardinality(Calls(l)') + Cardinality(Takers')
  BY DEF BacklogIsCovered
<1> USE IdleAssumption DEF loopVars
<1> DEFINE m == Lowest(idle[p])
<1> HIDE DEF m
<1>1. /\ ppc[p] = "waking" /\ count[p] > 0
      /\ idle' = [idle EXCEPT ![p] = @ \ {m}]
      /\ idle_loops' = idle_loops \ {m}
      /\ UNCHANGED <<http_backlog, added, count, loopVars, woken>>
      /\ \/ m \in idle_loops /\ ppc' = [ppc EXCEPT ![p] = "claimed"]
         \/ m \notin idle_loops /\ UNCHANGED ppc
  BY DEF Claim, m
<1>2. l \in idle_loops /\ l # m /\ Asleep(l)
  BY <1>1 DEF Asleep
<1>3. http_backlog <= Cardinality(Calls(l)) + Cardinality(Takers)
  BY <1>2 DEF BacklogIsCovered
<1>4. \A q \in Producers : Reaches(q, l) <=> Reaches(q, l)'
  BY <1>1, <1>2 DEF Books, TypeOK, Reaches
<1>5. \A q \in Producers \ {p} : Left(q)' = Left(q)
  BY <1>1 DEF Books, TypeOK, Left
<1>6. CASE m \notin idle_loops
  <2>1. Left(p)' = Left(p)
    BY <1>1, <1>6 DEF Left
  <2>2. Calls(l)' = Calls(l)
    BY <1>4, <1>5, <2>1 DEF Calls
  <2>3. Takers' = Takers
    BY <1>1, <1>6 DEF Takers, Room
  <2> QED
    BY <1>1, <1>3, <2>2, <2>3
<1>7. CASE m \in idle_loops
  <2> DEFINE spent == <<p, count[p]>>
  <2>1. Left(p) = count[p] /\ Left(p)' = count[p] - 1
    BY <1>1, <1>7 DEF Books, TypeOK, Left
  <2>2. Calls(l) \ {spent} \subseteq Calls(l)'
    <3> SUFFICES ASSUME NEW c \in Calls(l), c # spent
                 PROVE  c \in Calls(l)'
      OBVIOUS
    <3>1. /\ c[1] \in Producers /\ c[2] \in 1 .. MaxAdd /\ c = <<c[1], c[2]>>
          /\ Reaches(c[1], l) /\ c[2] <= Left(c[1])
          /\ c \in Producers \X (1 .. MaxAdd)
      BY DEF Calls
    <3>2. CASE c[1] # p
      BY <1>4, <1>5, <3>1, <3>2 DEF Calls
    <3>3. CASE c[1] = p
      <4>1. c[2] # count[p]
        BY <3>1, <3>3
      <4>2. c[2] \in Nat /\ count[p] \in Nat /\ c[2] <= count[p]
        BY <2>1, <3>1, <3>3 DEF Books, TypeOK
      <4>3. c[2] <= Left(p)'
        BY <2>1, <4>1, <4>2
      <4> QED
        BY <1>4, <3>1, <3>3, <4>3 DEF Calls
    <3> QED
      BY <3>2, <3>3
  <2>3. m \in Loops /\ Room(m) /\ lpc[m] # "announce"
    BY <1>7 DEF Books, TypeOK, BitsAgree
  <2>4. Takers' = Takers \cup {m} /\ m \notin Takers
    BY <1>1, <1>7, <2>3 DEF Takers, Room
  <2>5. /\ IsFiniteSet(Calls(l)) /\ Cardinality(Calls(l)) \in Nat
        /\ IsFiniteSet(Calls(l)') /\ Cardinality(Calls(l)') \in Nat
        /\ IsFiniteSet(Takers) /\ Cardinality(Takers) \in Nat
    BY CountTypes
  <2>6. Cardinality(Takers') = Cardinality(Takers) + 1
    BY <2>4, <2>5, FS_AddElement
  <2> HIDE DEF spent
  <2>7. Cardinality(Calls(l) \ {spent}) >= Cardinality(Calls(l)) - 1
    <3>1. Cardinality(Calls(l) \ {spent}) = IF spent \in Calls(l)
            THEN Cardinality(Calls(l)) - 1 ELSE Cardinality(Calls(l))
      BY <2>5, FS_RemoveElement
    <3> QED
      BY <2>5, <3>1
  <2>8. Cardinality(Calls(l) \ {spent}) <= Cardinality(Calls(l)')
    BY <2>2, <2>5, FS_Subset
  <2>9. Cardinality(Calls(l) \ {spent}) \in Nat
    BY <2>5, FS_RemoveElement, FS_CardinalityType
  <2>10. http_backlog \in Nat /\ http_backlog' = http_backlog
    BY <1>1 DEF Books, TypeOK
  <2> QED
    BY <1>3, <2>5, <2>6, <2>7, <2>8, <2>9, <2>10
<1> QED
  BY <1>6, <1>7

\* The other steps of wake_idle_loops spend no call: one that reads the bits
\* finds those of the sleeping loops, and one that leaves has no call left.
LEMMA CoveredProducer ==
  ASSUME Books, Books', BacklogIsCovered, NEW p \in Producers,
         Queue(p) \/ wake_idle_loops(p)
  PROVE  BacklogIsCovered'
<1> USE IdleAssumption DEF loopVars
<1>1. CASE ReadIdle(p) \/ Wakeup(p) \/ Leave(p)
  <2> SUFFICES ASSUME NEW l \in idle_loops', Asleep(l)'
               PROVE  http_backlog' <= Cardinality(Calls(l)') + Cardinality(Takers')
    BY DEF BacklogIsCovered
  <2>1. UNCHANGED <<idle_loops, lpc, active, blocking, http_backlog>>
    BY <1>1 DEF ReadIdle, Wakeup, Leave
  <2>2. l \in idle_loops /\ Asleep(l)
    BY <1>1, <2>1 DEF Asleep, ReadIdle, Wakeup, Leave, Books, TypeOK
  <2>3. \A q \in Producers \ {p} :
          (Reaches(q, l) <=> Reaches(q, l)') /\ Left(q)' = Left(q)
    BY <1>1 DEF ReadIdle, Wakeup, Leave, Books, TypeOK, Reaches, Left
  <2>7. Calls(l) \subseteq Calls(l)'
    <3>1. CASE ReadIdle(p)
      <4>1. Reaches(p, l)' /\ Left(p)' = Left(p)
        BY <2>2, <3>1 DEF ReadIdle, Books, TypeOK, Reaches, Left
      <4> QED
        BY <2>3, <4>1 DEF Calls
    <3>2. CASE Wakeup(p)
      <4>1. (Reaches(p, l) <=> Reaches(p, l)') /\ Left(p)' = Left(p)
        BY <3>2 DEF Wakeup, Books, TypeOK, Reaches, Left
      <4> QED
        BY <2>3, <4>1 DEF Calls
    <3>3. CASE Leave(p)
      <4>1. Reaches(p, l) => Left(p) = 0
        BY <3>3 DEF Leave, Reaches, Left
      <4>2. \A c \in Calls(l) : c[1] \in Producers \ {p}
        BY <4>1 DEF Calls
      <4> QED
        BY <2>3, <4>2 DEF Calls
    <3> QED
      BY <1>1, <3>1, <3>2, <3>3
  <2>8. Takers' = Takers
    BY <2>1 DEF Takers, Room
  <2> QED
    BY <2>1, <2>2, <2>7, <2>8, StillCovered DEF BacklogIsCovered, Books, TypeOK
<1> QED
  BY <1>1, CoveredQueue, CoveredClaim DEF wake_idle_loops

\* A loop that takes transfers either empties the queue, or it had room for at
\* least one transfer and takes as many as make it full (take_http).
LEMMA CoveredTake ==
  ASSUME Books, Books', BacklogIsCovered, NEW m \in Loops, Take(m)
  PROVE  BacklogIsCovered'
<1> SUFFICES ASSUME NEW l \in idle_loops', Asleep(l)'
             PROVE  http_backlog' <= Cardinality(Calls(l)') + Cardinality(Takers')
  BY DEF BacklogIsCovered
<1> USE IdleAssumption DEF loopVars, producerVars
<1>1. l # m /\ l \in idle_loops /\ Asleep(l)
  BY DEF Take, Asleep, Books, TypeOK
<1>2. Calls(l)' = Calls(l)
  BY DEF Take, Calls, Reaches, Left
<1>3. /\ Cardinality(Calls(l)) \in Nat
      /\ IsFiniteSet(Takers) /\ Cardinality(Takers) \in Nat
      /\ IsFiniteSet(Takers') /\ Cardinality(Takers') \in Nat
  BY CountTypes
<1>4. http_backlog <= Cardinality(Calls(l)) + Cardinality(Takers)
  BY <1>1 DEF BacklogIsCovered
<1> DEFINE room == Limit[m] - active[m]
<1>5. room \in Int /\ http_backlog \in Nat /\ http_backlog' \in Nat
  BY DEF Books, TypeOK
<1>6. CASE http_backlog <= room
  <2>1. http_backlog' = 0
    BY <1>5, <1>6 DEF Take
  <2> QED
    BY <1>2, <1>3, <2>1
<1>7. CASE room < http_backlog /\ room <= 0
  <2>1. Takers \subseteq Takers'
    <3>1. m \notin Takers
      BY <1>5, <1>7 DEF Takers, Room, Books, TypeOK
    <3>2. \A k \in Loops \ {m} : active'[k] = active[k] /\ lpc'[k] = lpc[k]
      BY DEF Take, Books, TypeOK
    <3> QED
      BY <3>1, <3>2 DEF Take, Takers, Room
  <2>2. http_backlog' = http_backlog - room
    BY <1>7 DEF Take
  <2>3. room = 0
    BY <1>7 DEF Books, TypeOK, BitsAgree
  <2> QED
    BY <1>1, <1>2, <1>4, <1>5, <2>1, <2>2, <2>3, StillCovered
<1>8. CASE room < http_backlog /\ 0 < room
  <2>1. http_backlog' = http_backlog - room
    BY <1>8 DEF Take
  <2>2. m \in Takers
    <3>1. Room(m)
      BY <1>8 DEF Room, Books, TypeOK
    <3> QED
      BY <3>1 DEF Takers, Take, Books, TypeOK, BitsAgree
  <2>3. Takers \ {m} \subseteq Takers'
    <3>1. \A k \in Loops \ {m} : active'[k] = active[k] /\ lpc'[k] = lpc[k]
      BY DEF Take, Books, TypeOK
    <3> QED
      BY <3>1 DEF Take, Takers, Room
  <2>4. Cardinality(Takers \ {m}) = Cardinality(Takers) - 1
    BY <1>3, <2>2, OneLess
  <2>5. Cardinality(Takers \ {m}) <= Cardinality(Takers')
    BY <1>3, <2>3, FS_Subset
  <2> HIDE DEF room
  <2> QED
    BY <1>2, <1>3, <1>4, <1>5, <1>8, <2>1, <2>4, <2>5
<1> QED
  BY <1>5, <1>6, <1>7, <1>8

\* The other steps of a loop add takers, or find the queue empty: a loop goes
\* to sleep with its bit set only when it has read an empty queue since.
LEMMA CoveredLoop ==
  ASSUME Books, Books', BacklogIsCovered, NEW m \in Loops,
         io_loop(m) \/ TransferEnds(m)
  PROVE  BacklogIsCovered'
<1>1. CASE Take(m)
  BY <1>1, CoveredTake
<1> SUFFICES ASSUME ~Take(m), NEW l \in idle_loops', Asleep(l)'
             PROVE  http_backlog' <= Cardinality(Calls(l)') + Cardinality(Takers')
  BY <1>1 DEF BacklogIsCovered
<1> USE IdleAssumption DEF loopVars, producerVars
<1>0. \/ http_backlog' # 0
      \/ http_backlog' <= Cardinality(Calls(l)') + Cardinality(Takers')
  BY CountTypes
<1>2. CASE Decide(m)
  <2>1. l \in idle_loops /\ l # m /\ Asleep(l)
    BY <1>2 DEF Decide, Asleep, Books, TypeOK, BitsAgree
  <2>2. Calls(l)' = Calls(l) /\ http_backlog' = http_backlog
    BY <1>2 DEF Decide, Calls, Reaches, Left
  <2>3. http_backlog # 0 => Takers \subseteq Takers'
    BY <1>2 DEF Decide, Takers, Room, Books, TypeOK
  <2> QED
    BY <1>0, <2>1, <2>2, <2>3, StillCovered DEF BacklogIsCovered, Books, TypeOK
<1>3. CASE Recheck(m)
  <2>1. l \in idle_loops /\ (l # m => Asleep(l)) /\ (l = m => http_backlog = 0)
    BY <1>3 DEF Recheck, Asleep, Books, TypeOK
  <2>2. Calls(l)' = Calls(l) /\ http_backlog' = http_backlog
    BY <1>3 DEF Recheck, Calls, Reaches, Left
  <2>3. Takers \subseteq Takers'
    BY <1>3 DEF Recheck, Takers, Room, Books, TypeOK
  <2> QED
    BY <1>0, <2>1, <2>2, <2>3, StillCovered DEF BacklogIsCovered, Books, TypeOK
<1>4. CASE Announce(m)
  <2>1. l \in idle_loops /\ Asleep(l)
    BY <1>4 DEF Announce, Asleep, Books, TypeOK, BitsAgree
  <2>2. Calls(l)' = Calls(l) /\ http_backlog' = http_backlog
    BY <1>4 DEF Announce, Calls, Reaches, Left
  <2>3. Takers \subseteq Takers'
    BY <1>4 DEF Announce, Takers, Room, Books, TypeOK, BitsAgree
  <2> QED
    BY <2>1, <2>2, <2>3, StillCovered DEF BacklogIsCovered, Books, TypeOK
<1>5. CASE Poll(m)
  <2>1. l \in idle_loops /\ Asleep(l)
    BY <1>5 DEF Poll, Asleep, Books, TypeOK, BitsAgree
  <2>2. Calls(l)' = Calls(l) /\ http_backlog' = http_backlog
    BY <1>5 DEF Poll, Calls, Reaches, Left
  <2>3. Takers \subseteq Takers'
    BY <1>5 DEF Poll, Takers, Room, Books, TypeOK, BitsAgree
  <2> QED
    BY <2>1, <2>2, <2>3, StillCovered DEF BacklogIsCovered, Books, TypeOK
<1>6. CASE Retract(m)
  <2>1. l \in idle_loops /\ Asleep(l)
    BY <1>6 DEF Retract, Asleep, Books, TypeOK, BitsAgree
  <2>2. Calls(l)' = Calls(l) /\ http_backlog' = http_backlog
    BY <1>6 DEF Retract, Calls, Reaches, Left
  <2>3. Takers \subseteq Takers'
    BY <1>6 DEF Retract, Takers, Room, Books, TypeOK, BitsAgree
  <2> QED
    BY <2>1, <2>2, <2>3, StillCovered DEF BacklogIsCovered, Books, TypeOK
<1>7. CASE Exit(m)
  <2>1. l \in idle_loops /\ Asleep(l)
    BY <1>7 DEF Exit, Asleep, Books, TypeOK, BitsAgree
  <2>2. Calls(l)' = Calls(l) /\ http_backlog' = http_backlog
    BY <1>7 DEF Exit, Calls, Reaches, Left
  <2>3. Takers \subseteq Takers'
    BY <1>7 DEF Exit, Takers, Room, Books, TypeOK, BitsAgree
  <2> QED
    BY <2>1, <2>2, <2>3, StillCovered DEF BacklogIsCovered, Books, TypeOK
<1>8. CASE TransferEnds(m)
  <2>1. l \in idle_loops /\ Asleep(l)
    BY <1>8 DEF TransferEnds, Asleep, Books, TypeOK, BitsAgree
  <2>2. Calls(l)' = Calls(l) /\ http_backlog' = http_backlog
    BY <1>8 DEF TransferEnds, Calls, Reaches, Left
  <2>3. Takers \subseteq Takers'
    BY <1>8 DEF TransferEnds, Takers, Room, Books, TypeOK, BitsAgree
  <2> QED
    BY <2>1, <2>2, <2>3, StillCovered DEF BacklogIsCovered, Books, TypeOK
<1> QED
  BY <1>2, <1>3, <1>4, <1>5, <1>6, <1>7, <1>8 DEF io_loop

\* Cancelling queued transfers, shutting down and stuttering add no transfer and
\* put no loop to sleep.
LEMMA CoveredRest ==
  ASSUME Books, Books', BacklogIsCovered,
         Erase \/ StopWorkers \/ wake_loops \/ Joined \/ UNCHANGED vars
  PROVE  BacklogIsCovered'
<1> SUFFICES ASSUME NEW l \in idle_loops', Asleep(l)'
             PROVE  http_backlog' <= Cardinality(Calls(l)') + Cardinality(Takers')
  BY DEF BacklogIsCovered
<1> USE IdleAssumption DEF loopVars, producerVars
<1>1. /\ UNCHANGED <<idle_loops, loopVars, producerVars>>
      /\ http_backlog' <= http_backlog
      /\ woken' = woken \/ \E k : woken' = [woken EXCEPT ![k] = TRUE]
  <2>1. CASE wake_loops
    <3>1. \E k : woken' = [woken EXCEPT ![k] = TRUE]
      BY <2>1 DEF wake_loops
    <3>2. http_backlog' = http_backlog /\ http_backlog \in Nat
      BY <2>1 DEF wake_loops, Books, TypeOK
    <3>3. UNCHANGED <<idle_loops, loopVars, producerVars>>
      BY <2>1 DEF wake_loops
    <3>4. http_backlog' <= http_backlog
      BY <3>2
    <3> QED
      BY <3>1, <3>3, <3>4, Zenon
  <2> QED
    BY <2>1 DEF Erase, StopWorkers, Joined, vars, Books, TypeOK
<1>2. l \in idle_loops /\ Asleep(l)
  BY <1>1 DEF Asleep, Books, TypeOK
<1>3. Calls(l)' = Calls(l)
  BY <1>1 DEF Calls, Reaches, Left
<1>4. Takers' = Takers
  BY <1>1 DEF Takers, Room
<1> QED
  BY <1>1, <1>2, <1>3, <1>4, StillCovered DEF BacklogIsCovered
-----------------------------------------------------------------------------
\* Every step of a producer, of a loop and of shutdown preserves the invariant.
LEMMA InvNext == Inv /\ [Next]_vars => Inv'
<1> SUFFICES ASSUME Inv, [Next]_vars PROVE Inv'
  OBVIOUS
<1>1. Books /\ BacklogIsCovered
  BY DEF Inv, Books
<1>2. CASE \E p \in Producers : Queue(p) \/ wake_idle_loops(p)
  BY <1>1, <1>2, BooksProducer, CoveredProducer DEF Inv, Books
<1>3. CASE \E l \in Loops : io_loop(l) \/ TransferEnds(l)
  BY <1>1, <1>3, BooksLoop, CoveredLoop DEF Inv, Books
<1>4. CASE Erase \/ StopWorkers \/ wake_loops \/ Joined \/ UNCHANGED vars
  BY <1>1, <1>4, BooksRest, CoveredRest DEF Inv, Books
<1> QED
  BY <1>2, <1>3, <1>4 DEF Next

\* With no producer at work there are no calls, and with every loop asleep there
\* are no takers: nothing is queued.
LEMMA InvEnough == Inv => NoLostWakeup
<1> SUFFICES ASSUME Inv, http_backlog > 0,
                    NEW l \in Loops, Asleep(l), Room(l),
                    \A p \in Producers : ppc[p] = "outside",
                    \A k \in Loops : Asleep(k)
             PROVE  FALSE
  BY DEF NoLostWakeup
<1>1. \A k \in Loops : Room(k) => k \in idle_loops
  BY DEF Inv, SleepersAgree, Dozing, Asleep
<1>2. Takers = {}
  BY <1>1 DEF Takers
<1>3. Calls(l) = {}
  BY DEF Calls, Left, Inv, ClaimsAgree
<1>4. http_backlog <= Cardinality(Calls(l)) + Cardinality(Takers)
  BY <1>1 DEF Inv, BacklogIsCovered
<1> QED
  BY <1>2, <1>3, <1>4, FS_EmptySet DEF Inv, TypeOK

\* "Either the producer sees the bit and wakes us, or we see its queued work
\* before polling" (engine.cpp, io_loop): for any number of loops, producers and
\* transfers, a queue with work in it is never left to loops that all sleep
\* while one of them has room and nobody is on its way to wake it.
THEOREM WakeupsAreNotLost == Spec => []NoLostWakeup
<1>1. Init => Inv
  BY InvInit
<1>2. Inv /\ [Next]_vars => Inv'
  BY InvNext
<1>3. Inv => NoLostWakeup
  BY InvEnough
<1> QED
  BY <1>1, <1>2, <1>3, PTL DEF Spec

-----------------------------------------------------------------------------
(***************************************************************************)
(* The host resolver, with every limit of its map: a host is looked up     *)
(* once at a time, and the detached thread leaves the engine alone after   *)
(* stop().                                                                 *)
(***************************************************************************)
ResolverTypeOK ==
    /\ hosts \in SUBSET Hosts
    /\ looking \in [Hosts -> BOOLEAN]
    /\ addresses \in [Hosts -> BOOLEAN]
    /\ queue \in Seq(Hosts)
    /\ worker \in {"none", "idle", "lookup", "answer", "exited"}
    /\ host \in Hosts \cup {NoHost}
    /\ mutex \in BOOLEAN /\ stopped \in BOOLEAN /\ late \in BOOLEAN
    /\ for \in [Transfers -> Hosts]

\* The worker keeps the mutex exactly while it stores an answer, and it found
\* the resolver running when it took it; it has a host in hand during a lookup.
WorkerAgrees ==
    /\ mutex <=> worker = "answer"
    /\ mutex => ~stopped
    /\ host # NoHost <=> worker = "lookup"
    /\ ~late

Waiting(h) == \E i \in DOMAIN queue : queue[i] = h

\* A host is in the queue at most once, not while the worker has it, and until
\* stop() it is there exactly when its entry in the map says so.
QueueAgrees ==
    /\ \A i, j \in DOMAIN queue : queue[i] = queue[j] => i = j
    /\ \A i \in DOMAIN queue : queue[i] # host
    /\ \A h \in Hosts : looking[h] => h \in hosts
    /\ ~stopped => \A h \in Hosts : looking[h] <=> Waiting(h) \/ host = h

ResolverInv == ResolverTypeOK /\ WorkerAgrees /\ QueueAgrees
-----------------------------------------------------------------------------
\* What becomes of the positions of a queue.
LEMMA Appended ==
  ASSUME NEW q \in Seq(Hosts), NEW h \in Hosts
  PROVE  /\ Append(q, h) \in Seq(Hosts)
         /\ DOMAIN Append(q, h) = DOMAIN q \cup {Len(q) + 1}
         /\ Len(q) + 1 \notin DOMAIN q
         /\ Append(q, h)[Len(q) + 1] = h
         /\ \A i \in DOMAIN q : Append(q, h)[i] = q[i]
OBVIOUS

LEMMA Removed ==
  ASSUME NEW q \in Seq(Hosts), q # <<>>
  PROVE  /\ Tail(q) \in Seq(Hosts)
         /\ 1 \in DOMAIN q /\ Head(q) = q[1]
         /\ \A i \in DOMAIN Tail(q) : /\ i + 1 \in DOMAIN q /\ i + 1 # 1
                                      /\ Tail(q)[i] = q[i + 1]
         /\ \A j \in DOMAIN q \ {1} : j - 1 \in DOMAIN Tail(q)
         /\ DOMAIN Tail(q) \subseteq Int /\ DOMAIN q \subseteq Int
<1>1. Tail(q) \in Seq(Hosts) /\ Len(Tail(q)) = Len(q) - 1
  OBVIOUS
<1>2. /\ DOMAIN q = 1 .. Len(q) /\ Len(q) \in Nat /\ Len(q) > 0
      /\ DOMAIN Tail(q) = 1 .. Len(q) - 1
  BY <1>1
<1>3. \A i \in 1 .. Len(q) - 1 : Tail(q)[i] = q[i + 1]
  BY <1>2
<1> QED
  BY <1>1, <1>2, <1>3

\* A step that leaves the queue and the worker alone, and the marks of the
\* hosts that are wanted.
LEMMA QueueStill ==
  ASSUME ResolverInv, UNCHANGED <<queue, worker, host, mutex, stopped, late, looking>>,
         hosts' \in SUBSET Hosts, \A h \in Hosts : looking[h] => h \in hosts',
         addresses' \in [Hosts -> BOOLEAN], for' \in [Transfers -> Hosts]
  PROVE  ResolverInv'
<1>1. ResolverTypeOK'
  BY DEF ResolverInv, ResolverTypeOK
<1>2. WorkerAgrees'
  BY DEF ResolverInv, WorkerAgrees
<1>3. QueueAgrees'
  BY DEF ResolverInv, QueueAgrees, Waiting
<1> QED
  BY <1>1, <1>2, <1>3 DEF ResolverInv

\* entry() that asks for no lookup.
LEMMA InvEntry ==
  ASSUME ResolverInv, NEW t \in Transfers, Go(t) \/ AskFails(t) \/ Wait(t) \/ Another(t)
  PROVE  ResolverInv'
<1> USE DEF hostVars, workerVars
<1>1. CASE Bypass(t) \/ Pass(t) \/ GoOn(t) \/ Wait(t)
  <2>1. UNCHANGED <<queue, worker, host, mutex, stopped, late, looking, hosts,
                    addresses, for>>
    BY <1>1 DEF Bypass, Pass, GoOn, Wait
  <2> QED
    BY <2>1, QueueStill DEF ResolverInv, ResolverTypeOK, QueueAgrees
<1>2. CASE Refuse(t)
  <2>1. /\ UNCHANGED <<queue, worker, host, mutex, stopped, late, addresses, for>>
        /\ hosts' = hosts \ Evicted(for[t])
        /\ looking' = [h \in Hosts |-> looking[h] /\ h \notin Evicted(for[t])]
    BY <1>2 DEF Refuse
  <2>2. \A h \in Hosts : looking[h] => h \notin Evicted(for[t])
    BY DEF Evicted, Evictable
  <2>3. looking' = looking
    BY <2>1, <2>2 DEF ResolverInv, ResolverTypeOK
  <2> QED
    BY <2>1, <2>2, <2>3, QueueStill DEF ResolverInv, ResolverTypeOK, QueueAgrees
<1>3. CASE AskFails(t)
  <2>1. /\ UNCHANGED <<queue, worker, host, mutex, stopped, late, looking,
                       addresses, for>>
        /\ hosts' = (hosts \ Evicted(for[t])) \cup {for[t]}
    BY <1>3 DEF AskFails
  <2>2. \A h \in Hosts : looking[h] => h \notin Evicted(for[t])
    BY DEF Evicted, Evictable
  <2> QED
    BY <2>1, <2>2, QueueStill DEF ResolverInv, ResolverTypeOK, QueueAgrees
<1>4. CASE Another(t)
  <2>1. /\ UNCHANGED <<queue, worker, host, mutex, stopped, late, looking, hosts,
                       addresses>>
        /\ for' \in [Transfers -> Hosts]
    BY <1>4 DEF Another, ResolverInv, ResolverTypeOK
  <2> QED
    BY <2>1, QueueStill DEF ResolverInv, ResolverTypeOK, QueueAgrees
<1> QED
  BY <1>1, <1>2, <1>3, <1>4 DEF Go

\* entry() that asks for one: the host's mark is down, so it is neither in the
\* queue nor in the worker's hands.
LEMMA InvAsk ==
  ASSUME ResolverInv, NEW t \in Transfers, Ask(t)
  PROVE  ResolverInv'
<1> DEFINE h == for[t]
<1>0. h \in Hosts /\ ResolverTypeOK /\ WorkerAgrees /\ QueueAgrees
  BY DEF ResolverInv, ResolverTypeOK
<1>1. /\ ~mutex /\ ~stopped /\ Wanted(h)
      /\ hosts' = (hosts \ Evicted(h)) \cup {h}
      /\ looking' = [k \in Hosts |-> k = h \/ (looking[k] /\ k \notin Evicted(h))]
      /\ addresses' = [addresses EXCEPT ![h] = @ /\ h \in hosts]
      /\ queue' = Append(queue, h)
      /\ worker' = IF worker = "none" THEN "idle" ELSE worker
      /\ UNCHANGED <<host, mutex, stopped, for, late>>
  BY DEF Ask
<1>2. ~looking[h] /\ ~Waiting(h) /\ host # h
  BY <1>0, <1>1 DEF Wanted, QueueAgrees
<1>3. \A k \in Hosts : /\ looking[k] => k \notin Evicted(h)
                       /\ looking'[k] <=> k = h \/ looking[k]
  BY <1>1 DEF Evicted, Evictable
<1>4. ResolverTypeOK'
  BY <1>0, <1>1, Appended DEF ResolverTypeOK
<1>5. WorkerAgrees'
  BY <1>0, <1>1 DEF WorkerAgrees, ResolverTypeOK
<1>6. /\ DOMAIN queue' = DOMAIN queue \cup {Len(queue) + 1}
      /\ Len(queue) + 1 \notin DOMAIN queue
      /\ queue'[Len(queue) + 1] = h
      /\ \A i \in DOMAIN queue : queue'[i] = queue[i] /\ queue[i] # h
  BY <1>0, <1>1, <1>2, Appended DEF ResolverTypeOK, Waiting
<1>7. \A k \in Hosts : Waiting(k)' <=> Waiting(k) \/ k = h
  BY <1>6 DEF Waiting
<1>8. QueueAgrees'
  <2>1. \A i, j \in DOMAIN queue' : queue'[i] = queue'[j] => i = j
    BY <1>0, <1>6 DEF QueueAgrees
  <2>2. \A i \in DOMAIN queue' : queue'[i] # host'
    BY <1>0, <1>1, <1>2, <1>6 DEF QueueAgrees
  <2>3. \A k \in Hosts : looking'[k] => k \in hosts'
    BY <1>0, <1>1, <1>3 DEF QueueAgrees
  <2>4. \A k \in Hosts : looking'[k] <=> Waiting(k)' \/ host' = k
    BY <1>0, <1>1, <1>3, <1>7 DEF QueueAgrees
  <2> QED
    BY <2>1, <2>2, <2>3, <2>4 DEF QueueAgrees
<1> QED
  BY <1>4, <1>5, <1>8 DEF ResolverInv

\* The worker takes the head of the queue.
LEMMA InvServe ==
  ASSUME ResolverInv, Serve
  PROVE  ResolverInv'
<1> USE DEF hostVars
<1>0. ResolverTypeOK /\ WorkerAgrees /\ QueueAgrees
  BY DEF ResolverInv
<1>1. /\ ~mutex /\ worker = "idle"
      /\ UNCHANGED <<hosts, looking, addresses, mutex, stopped, for, late>>
  BY DEF Serve
<1>2. CASE worker' = "exited" /\ UNCHANGED <<queue, host>>
  BY <1>0, <1>1, <1>2 DEF ResolverInv, ResolverTypeOK, WorkerAgrees, QueueAgrees,
                          Waiting
<1>3. CASE /\ ~stopped /\ queue # <<>> /\ worker' = "lookup"
           /\ host' = Head(queue) /\ queue' = Tail(queue)
  <2>1. /\ queue' \in Seq(Hosts)
        /\ 1 \in DOMAIN queue /\ host' = queue[1]
        /\ \A i \in DOMAIN queue' : /\ i + 1 \in DOMAIN queue /\ i + 1 # 1
                                    /\ queue'[i] = queue[i + 1]
        /\ \A j \in DOMAIN queue \ {1} : j - 1 \in DOMAIN queue'
        /\ DOMAIN queue' \subseteq Int /\ DOMAIN queue \subseteq Int
    BY <1>0, <1>3, Removed DEF ResolverTypeOK
  <2>2. host' \in Hosts /\ host = NoHost
    BY <1>0, <1>1, <2>1 DEF ResolverTypeOK, WorkerAgrees
  <2>3. ResolverTypeOK' /\ WorkerAgrees'
    BY <1>0, <1>1, <1>3, <2>1, <2>2, ResolverAssumption
       DEF ResolverTypeOK, WorkerAgrees
  <2>4. \A i, j \in DOMAIN queue' : queue'[i] = queue'[j] => i = j
    <3> SUFFICES ASSUME NEW i \in DOMAIN queue', NEW j \in DOMAIN queue',
                        queue'[i] = queue'[j]
                 PROVE  i = j
      OBVIOUS
    <3>1. i + 1 = j + 1
      BY <1>0, <2>1 DEF QueueAgrees
    <3>2. i \in Int /\ j \in Int
      BY <2>1
    <3> QED
      BY <3>1, <3>2
  <2>5. \A i \in DOMAIN queue' : queue'[i] # host'
    BY <1>0, <2>1 DEF QueueAgrees
  <2>6. \A h \in Hosts : Waiting(h) <=> Waiting(h)' \/ host' = h
    <3> SUFFICES ASSUME NEW h \in Hosts
                 PROVE  Waiting(h) <=> Waiting(h)' \/ host' = h
      OBVIOUS
    <3>1. ASSUME Waiting(h) PROVE Waiting(h)' \/ host' = h
      <4>1. PICK j \in DOMAIN queue : queue[j] = h
        BY <3>1 DEF Waiting
      <4>2. CASE j = 1
        BY <2>1, <4>1, <4>2
      <4>3. CASE j # 1
        <5>1. j - 1 \in DOMAIN queue' /\ j \in Int
          BY <2>1, <4>3
        <5>2. queue'[j - 1] = queue[(j - 1) + 1] /\ (j - 1) + 1 = j
          BY <2>1, <5>1
        <5> QED
          BY <4>1, <5>1, <5>2 DEF Waiting
      <4> QED
        BY <4>2, <4>3
    <3>2. ASSUME Waiting(h)' \/ host' = h PROVE Waiting(h)
      BY <2>1, <3>2 DEF Waiting
    <3> QED
      BY <3>1, <3>2
  <2>7. \A h \in Hosts : looking'[h] <=> Waiting(h)' \/ host' = h
    BY <1>0, <1>1, <1>3, <2>2, <2>6, ResolverAssumption DEF QueueAgrees
  <2>8. QueueAgrees'
    BY <1>0, <1>1, <2>4, <2>5, <2>7 DEF QueueAgrees
  <2> QED
    BY <2>3, <2>8 DEF ResolverInv
<1> QED
  BY <1>2, <1>3 DEF Serve

\* The lookup is over: before stop() its host has an entry that is marked, and
\* loses the mark; after stop() the thread exits without looking at the map.
LEMMA InvReturns ==
  ASSUME ResolverInv, LookupReturns
  PROVE  ResolverInv'
<1>0. ResolverTypeOK /\ WorkerAgrees /\ QueueAgrees
  BY DEF ResolverInv
<1>1. /\ worker = "lookup" /\ ~mutex /\ host' = NoHost
      /\ UNCHANGED <<hosts, queue, stopped, for, late>>
  BY DEF LookupReturns
<1>2. host \in Hosts /\ \A i \in DOMAIN queue : queue[i] # NoHost
  <2>1. \A i \in DOMAIN queue : queue[i] \in Hosts
    BY <1>0 DEF ResolverTypeOK
  <2> QED
    BY <1>0, <1>1, <2>1, ResolverAssumption DEF ResolverTypeOK, WorkerAgrees
<1>3. CASE stopped
  <2>1. worker' = "exited" /\ UNCHANGED <<mutex, looking, addresses>>
    BY <1>3 DEF LookupReturns
  <2> QED
    BY <1>0, <1>1, <1>2, <1>3, <2>1
       DEF ResolverInv, ResolverTypeOK, WorkerAgrees, QueueAgrees
<1>4. CASE ~stopped
  <2>1. host \in hosts
    BY <1>0, <1>2, <1>4 DEF QueueAgrees
  <2>2. PICK found \in BOOLEAN : /\ mutex' = TRUE /\ worker' = "answer"
                                 /\ looking' = [looking EXCEPT ![host] = FALSE]
                                 /\ addresses' = [addresses EXCEPT ![host] = found]
    BY <1>4, <2>1 DEF LookupReturns, Keep
  <2>3. ResolverTypeOK' /\ WorkerAgrees'
    BY <1>0, <1>1, <1>4, <2>2 DEF ResolverTypeOK, WorkerAgrees
  <2>4. \A h \in Hosts : looking'[h] <=> looking[h] /\ h # host
    BY <1>0, <2>2 DEF ResolverTypeOK
  <2>5. \A h \in Hosts : Waiting(h)' = Waiting(h) /\ (Waiting(h) => h # host)
    BY <1>0, <1>1 DEF Waiting, QueueAgrees
  <2>6. \A h \in Hosts : looking'[h] <=> Waiting(h)' \/ host' = h
    BY <1>0, <1>1, <1>2, <1>4, <2>4, <2>5, ResolverAssumption DEF QueueAgrees
  <2>7. QueueAgrees'
    BY <1>0, <1>1, <1>2, <2>4, <2>6 DEF QueueAgrees
  <2> QED
    BY <2>3, <2>7 DEF ResolverInv
<1> QED
  BY <1>3, <1>4

\* wake() under the mutex, stop(), and the clock.
LEMMA InvRest ==
  ASSUME ResolverInv, Wake \/ stop \/ Tick \/ UNCHANGED resolverVars
  PROVE  ResolverInv'
<1> USE DEF hostVars, workerVars
<1>0. ResolverTypeOK /\ WorkerAgrees /\ QueueAgrees
  BY DEF ResolverInv
<1>1. CASE Wake
  BY <1>0, <1>1 DEF Wake, ResolverInv, ResolverTypeOK, WorkerAgrees, QueueAgrees,
                    Waiting
<1>2. CASE stop
  <2>1. /\ ~mutex /\ stopped' = TRUE /\ queue' = <<>>
        /\ UNCHANGED <<hosts, looking, addresses, worker, host, mutex, for, late>>
    BY <1>2 DEF stop
  <2>2. queue' \in Seq(Hosts) /\ DOMAIN queue' = {}
    BY <2>1
  <2>3. ResolverTypeOK' /\ WorkerAgrees'
    BY <1>0, <2>1, <2>2 DEF ResolverTypeOK, WorkerAgrees
  <2>4. QueueAgrees'
    BY <1>0, <2>1, <2>2 DEF QueueAgrees
  <2> QED
    BY <2>3, <2>4 DEF ResolverInv
<1>3. CASE Tick \/ UNCHANGED resolverVars
  <2>1. UNCHANGED <<queue, worker, host, mutex, stopped, late, looking, hosts,
                    addresses, for>>
    BY <1>3 DEF Tick, resolverVars
  <2> QED
    BY <1>0, <2>1, QueueStill DEF ResolverTypeOK, QueueAgrees
<1> QED
  BY <1>1, <1>2, <1>3

LEMMA ResolverInvAlways == ResolverSpec => []ResolverInv
<1>1. ResolverInit => ResolverInv
  <2> SUFFICES ASSUME ResolverInit PROVE ResolverInv
    OBVIOUS
  <2>1. queue = <<>> /\ queue \in Seq(Hosts) /\ DOMAIN queue = {}
    BY DEF ResolverInit
  <2>2. ResolverTypeOK /\ WorkerAgrees
    BY <2>1 DEF ResolverInit, ResolverTypeOK, WorkerAgrees
  <2>3. QueueAgrees
    BY <2>1, ResolverAssumption DEF ResolverInit, QueueAgrees, Waiting
  <2> QED
    BY <2>2, <2>3 DEF ResolverInv
<1>2. ResolverInv /\ [ResolverNext]_resolverVars => ResolverInv'
  BY InvEntry, InvAsk, InvServe, InvReturns, InvRest DEF ResolverNext, entry
<1> QED
  BY <1>1, <1>2, PTL DEF ResolverSpec

\* The thread of the resolver never calls the wake callback after stop() has
\* returned: it takes the mutex, sees whether it was stopped, and calls before
\* it gives the mutex back.
THEOREM WorkerLeavesEngine == ResolverSpec => []NoWakeAfterStop
<1>1. ResolverInv => NoWakeAfterStop
  BY DEF ResolverInv, WorkerAgrees, NoWakeAfterStop
<1> QED
  BY <1>1, ResolverInvAlways, PTL

\* No host is asked for twice and none waits for a lookup that nobody will do,
\* whatever the map evicts while lookups are on their way.
THEOREM OneLookup == ResolverSpec => []LookedUpOnce
<1>1. ResolverInv => LookedUpOnce
  <2> SUFFICES ASSUME ResolverInv, ~stopped, NEW h \in Hosts
               PROVE  Times(h) = IF h \in hosts /\ looking[h] THEN 1 ELSE 0
    BY DEF LookedUpOnce
  <2> DEFINE P == {i \in DOMAIN queue : queue[i] = h}
  <2>1. looking[h] <=> Waiting(h) \/ host = h
    BY DEF ResolverInv, QueueAgrees
  <2>2. looking[h] => h \in hosts
    BY DEF ResolverInv, QueueAgrees
  <2>3. CASE Waiting(h)
    <3>1. PICK i \in DOMAIN queue : queue[i] = h
      BY <2>3 DEF Waiting
    <3>2. P = {i} /\ host # h
      BY <3>1 DEF ResolverInv, QueueAgrees
    <3>3. Cardinality(P) = 1
      BY <3>2, FS_Singleton
    <3> QED
      BY <2>1, <2>2, <2>3, <3>2, <3>3 DEF Times
  <2>4. CASE ~Waiting(h)
    <3>1. P = {}
      BY <2>4 DEF Waiting
    <3>2. Cardinality(P) = 0
      BY <3>1, FS_EmptySet
    <3> QED
      BY <2>1, <2>2, <2>4, <3>2 DEF Times
  <2> QED
    BY <2>3, <2>4
<1> QED
  BY <1>1, ResolverInvAlways, PTL
=============================================================================
