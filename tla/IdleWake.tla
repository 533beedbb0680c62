------------------------------ MODULE IdleWake ------------------------------
(***************************************************************************)
(* How a producer of HTTP transfers wakes an I/O loop that sleeps in       *)
(* curl_multi_poll (src/runtime/engine.cpp: queue_http, wake_idle_loops,   *)
(* take_http and the end of io_loop).                                      *)
(*                                                                         *)
(* Producers and loops share two sequentially consistent atomics: the      *)
(* length of http_queue_ and the set of idle loops.  Here a poll has NO    *)
(* timeout: it returns only when it is woken or when a transfer of its     *)
(* loop makes progress.  Whatever holds here does not rest on the 20, 50   *)
(* or 200 milliseconds after which the code polls again.                   *)
(***************************************************************************)
EXTENDS Integers, FiniteSets

CONSTANTS
    Loops,          \* loop indices 1 .. n, as in the bits of idle_loops_
    Producers,      \* threads in submit or queue_http
    Limit,          \* Limit[l]: the transfer slots of loop l
    MaxAdd,         \* bound: transfers one call adds
    MaxItems        \* bound: transfers added in a behaviour

ASSUME IdleAssumption ==
    /\ Loops \subseteq Nat /\ IsFiniteSet(Loops)
    /\ IsFiniteSet(Producers)
    /\ Limit \in [Loops -> Nat \ {0}]
    /\ MaxAdd \in Nat \ {0}
    /\ MaxItems \in Nat

VARIABLES
    http_backlog,   \* http_backlog_, always the length of http_queue_
    idle_loops,     \* idle_loops_, as a set
    added,          \* transfers added so far
    ppc,            \* ppc[p]: where producer p is
    count,          \* count[p]: loops it still wants to wake
    idle,           \* idle[p]: its copy of idle_loops_
    target,         \* target[p]: the loop whose bit it has just cleared
    lpc,            \* lpc[l]: where loop l is
    active,         \* active[l]: transfers in its slots
    announced,      \* announced[l]
    blocking,       \* blocking[l]: timeout_ms # 0
    woken,          \* woken[l]: the multi handle has something to report
    stop_,           \* stop_
    unwoken         \* the loops that stop_workers has not woken yet

producerVars == <<ppc, count, idle, target>>
loopVars == <<lpc, active, announced, blocking>>
vars == <<http_backlog, idle_loops, added, producerVars, loopVars, woken, stop_,
          unwoken>>

Lowest(S) == CHOOSE l \in S : \A m \in S : l <= m
Room(l) == active[l] < Limit[l]

Init ==
    /\ http_backlog = 0
    /\ idle_loops = {}
    /\ added = 0
    /\ ppc = [p \in Producers |-> "outside"]
    /\ count = [p \in Producers |-> 0]
    /\ idle = [p \in Producers |-> {}]
    /\ target = [p \in Producers |-> {}]
    /\ lpc = [l \in Loops |-> "top"]
    /\ active = [l \in Loops |-> 0]
    /\ announced = [l \in Loops |-> FALSE]
    /\ blocking = [l \in Loops |-> FALSE]
    /\ woken = [l \in Loops |-> FALSE]
    /\ stop_ = FALSE
    /\ unwoken = {}
-----------------------------------------------------------------------------
(***************************************************************************)
(* Producers.                                                              *)
(***************************************************************************)

\* Under http_mutex_: transfers are queued and the backlog is published.
Queue(p) ==
    /\ ppc[p] = "outside"
    /\ ~stop_
    /\ \E n \in 1 .. MaxAdd :
         /\ added + n <= MaxItems
         /\ added' = added + n
         /\ http_backlog' = http_backlog + n
         /\ count' = [count EXCEPT ![p] = n]
    /\ ppc' = [ppc EXCEPT ![p] = "queued"]
    /\ UNCHANGED <<idle_loops, idle, target, loopVars, woken, stop_, unwoken>>

\* wake_idle_loops reads the idle bits.
ReadIdle(p) ==
    /\ ppc[p] = "queued"
    /\ ppc' = [ppc EXCEPT ![p] = "waking"]
    /\ idle' = [idle EXCEPT ![p] = idle_loops]
    /\ UNCHANGED <<http_backlog, idle_loops, added, count, target, loopVars,
                   woken, stop_, unwoken>>

\* It claims the lowest bit it knows of; another producer or the loop itself
\* may have cleared that bit meanwhile.
Claim(p) ==
    /\ ppc[p] = "waking"
    /\ count[p] > 0
    /\ idle[p] # {}
    /\ LET l == Lowest(idle[p])
       IN  /\ idle' = [idle EXCEPT ![p] = @ \ {l}]
           /\ idle_loops' = idle_loops \ {l}
           /\ IF l \in idle_loops
              THEN /\ ppc' = [ppc EXCEPT ![p] = "claimed"]
                   /\ target' = [target EXCEPT ![p] = {l}]
              ELSE UNCHANGED <<ppc, target>>
    /\ UNCHANGED <<http_backlog, added, count, loopVars, woken, stop_, unwoken>>

\* Mutant: the loop whose bit was cleared is not woken.
WakeupForgotten(p) ==
    /\ ppc[p] = "claimed"
    /\ count' = [count EXCEPT ![p] = @ - 1]
    /\ target' = [target EXCEPT ![p] = {}]
    /\ ppc' = [ppc EXCEPT ![p] = "waking"]
    /\ UNCHANGED <<http_backlog, idle_loops, added, idle, loopVars, woken, stop_,
                   unwoken>>

\* curl_multi_wakeup: remembered until the next poll of the loop.
Wakeup(p) ==
    /\ ppc[p] = "claimed"
    /\ woken' = [l \in Loops |-> woken[l] \/ l \in target[p]]
    /\ count' = [count EXCEPT ![p] = @ - 1]
    /\ target' = [target EXCEPT ![p] = {}]
    /\ ppc' = [ppc EXCEPT ![p] = "waking"]
    /\ UNCHANGED <<http_backlog, idle_loops, added, idle, loopVars, stop_, unwoken>>

Leave(p) ==
    /\ ppc[p] = "waking"
    /\ count[p] = 0 \/ idle[p] = {}
    /\ ppc' = [ppc EXCEPT ![p] = "outside"]
    /\ count' = [count EXCEPT ![p] = 0]
    /\ idle' = [idle EXCEPT ![p] = {}]
    /\ UNCHANGED <<http_backlog, idle_loops, added, target, loopVars, woken,
                   stop_, unwoken>>

wake_idle_loops(p) == ReadIdle(p) \/ Claim(p) \/ Wakeup(p) \/ Leave(p)

\* cancel takes a batch's transfers out of http_queue_.
Erase ==
    /\ http_backlog > 0
    /\ \E n \in 0 .. http_backlog - 1 : http_backlog' = n
    /\ UNCHANGED <<idle_loops, added, producerVars, loopVars, woken, stop_, unwoken>>
-----------------------------------------------------------------------------
(***************************************************************************)
(* An I/O loop.                                                            *)
(***************************************************************************)

\* The loop looks at stop_ and takes what fits its slots (take_http).
Take(l) ==
    /\ lpc[l] = "top"
    /\ ~stop_
    /\ LET room == Limit[l] - active[l]
           n == IF room < http_backlog THEN room ELSE http_backlog
       IN  /\ active' = [active EXCEPT ![l] = @ + n]
           /\ http_backlog' = http_backlog - n
    /\ lpc' = [lpc EXCEPT ![l] = "decide"]
    /\ UNCHANGED <<idle_loops, added, producerVars, announced, blocking, woken,
                   stop_, unwoken>>

\* Work that can start now: the poll does not block.  Otherwise a loop with
\* room goes on to announce itself, and a full one sleeps.
Decide(l) ==
    /\ lpc[l] = "decide"
    /\ blocking' = [blocking EXCEPT ![l] = ~(Room(l) /\ http_backlog # 0)]
    /\ lpc' = [lpc EXCEPT ![l] = IF Room(l) /\ http_backlog = 0 THEN "announce"
                                                               ELSE "poll"]
    /\ UNCHANGED <<http_backlog, idle_loops, added, producerVars, active,
                   announced, woken, stop_, unwoken>>

\* The idle bit is published ...
Announce(l) ==
    /\ lpc[l] = "announce"
    /\ idle_loops' = idle_loops \cup {l}
    /\ announced' = [announced EXCEPT ![l] = TRUE]
    /\ lpc' = [lpc EXCEPT ![l] = "recheck"]
    /\ UNCHANGED <<http_backlog, added, producerVars, active, blocking, woken,
                   stop_, unwoken>>

\* Mutant: the backlog is not read again after the bit is published.
RecheckForgotten(l) ==
    /\ lpc[l] = "recheck"
    /\ lpc' = [lpc EXCEPT ![l] = "poll"]
    /\ UNCHANGED <<http_backlog, idle_loops, added, producerVars, active,
                   announced, blocking, woken, stop_, unwoken>>

\* ... and the backlog is read once more.
Recheck(l) ==
    /\ lpc[l] = "recheck"
    /\ blocking' = [blocking EXCEPT ![l] = http_backlog = 0]
    /\ lpc' = [lpc EXCEPT ![l] = "poll"]
    /\ UNCHANGED <<http_backlog, idle_loops, added, producerVars, active,
                   announced, woken, stop_, unwoken>>

Poll(l) ==
    /\ lpc[l] = "poll"
    /\ woken[l] \/ ~blocking[l]
    /\ woken' = [woken EXCEPT ![l] = FALSE]
    /\ blocking' = [blocking EXCEPT ![l] = FALSE]
    /\ lpc' = [lpc EXCEPT ![l] = "polled"]
    /\ UNCHANGED <<http_backlog, idle_loops, added, producerVars, active,
                   announced, stop_, unwoken>>

Retract(l) ==
    /\ lpc[l] = "polled"
    /\ idle_loops' = IF announced[l] THEN idle_loops \ {l} ELSE idle_loops
    /\ announced' = [announced EXCEPT ![l] = FALSE]
    /\ lpc' = [lpc EXCEPT ![l] = "top"]
    /\ UNCHANGED <<http_backlog, added, producerVars, active, blocking, woken,
                   stop_, unwoken>>

Exit(l) ==
    /\ lpc[l] = "top"
    /\ stop_
    /\ lpc' = [lpc EXCEPT ![l] = "exited"]
    /\ UNCHANGED <<http_backlog, idle_loops, added, producerVars, active,
                   announced, blocking, woken, stop_, unwoken>>

io_loop(l) == \/ Take(l) \/ Decide(l) \/ Announce(l) \/ Recheck(l) \/ Poll(l)
              \/ Retract(l) \/ Exit(l)

\* A transfer of the loop ends, which its poll reports.
TransferEnds(l) ==
    /\ active[l] > 0
    /\ active' = [active EXCEPT ![l] = @ - 1]
    /\ woken' = [woken EXCEPT ![l] = TRUE]
    /\ UNCHANGED <<http_backlog, idle_loops, added, producerVars, lpc,
                   announced, blocking, stop_, unwoken>>
-----------------------------------------------------------------------------
(***************************************************************************)
(* Shutdown.                                                               *)
(***************************************************************************)

\* The last batch is gone, and its transfers with it (FreedIsReleased of module
\* Engine); a producer may still be looking for a loop to wake.  stop_workers
\* publishes stop_ and then wakes every loop.
StopWorkers ==
    /\ ~stop_
    /\ http_backlog = 0 /\ \A l \in Loops : active[l] = 0
    /\ stop_' = TRUE
    /\ unwoken' = Loops
    /\ UNCHANGED <<http_backlog, idle_loops, added, producerVars, loopVars, woken>>

wake_loops ==
    /\ unwoken # {}
    /\ LET l == Lowest(unwoken)
       IN  /\ woken' = [woken EXCEPT ![l] = TRUE]
           /\ unwoken' = unwoken \ {l}
    /\ UNCHANGED <<http_backlog, idle_loops, added, producerVars, loopVars, stop_>>

Joined == (\A l \in Loops : lpc[l] = "exited") /\ UNCHANGED vars

Next ==
    \/ \E p \in Producers : Queue(p) \/ wake_idle_loops(p)
    \/ Erase
    \/ \E l \in Loops : io_loop(l) \/ TransferEnds(l)
    \/ StopWorkers \/ wake_loops \/ Joined

Spec == Init /\ [][Next]_vars

\* Threads run, and transfers end.
Fairness ==
    /\ \A p \in Producers : WF_vars(wake_idle_loops(p))
    /\ \A l \in Loops : WF_vars(io_loop(l)) /\ WF_vars(TransferEnds(l))
    /\ WF_vars(wake_loops)

FairSpec == Spec /\ Fairness
-----------------------------------------------------------------------------
(***************************************************************************)
(* Properties.                                                             *)
(***************************************************************************)

Asleep(l) == lpc[l] = "poll" /\ blocking[l] /\ ~woken[l]

\* "Either the producer sees the bit and wakes us, or we see its queued work
\* before polling" (engine.cpp:811): while transfers wait and a loop with room
\* is asleep, either a producer is still on its way to wake someone, or some
\* other loop is awake and will look at the queue before it sleeps.
NoLostWakeup ==
    /\ http_backlog > 0
    /\ \E l \in Loops : Asleep(l) /\ Room(l)
    => \/ \E p \in Producers : ppc[p] # "outside"
       \/ \E l \in Loops : ~Asleep(l)

\* Queued transfers are taken, without the help of a poll's timeout: the queue is
\* empty again and again.
BacklogIsTaken == []<>(http_backlog = 0)

=============================================================================
