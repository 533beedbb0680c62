------------------------------ MODULE Resolver ------------------------------
(***************************************************************************)
(* The host resolver (src/runtime/resolver.cpp): I/O loops ask for the     *)
(* addresses of a host before they start a transfer, one detached thread   *)
(* looks hosts up, and stop() leaves that thread to itself because a       *)
(* system lookup cannot be interrupted.                                    *)
(*                                                                         *)
(* Time is kept as ages and remaining times that stop at their limits, so  *)
(* it never runs out.  The clock that entry() reads before it takes the    *)
(* mutex is the one it uses under it.  What the addresses are and in which *)
(* order a transfer tries them is left out.                                *)
(***************************************************************************)
EXTENDS Integers, Sequences, FiniteSets

CONSTANTS
    Hosts,                  \* the hosts that transfers name
    Transfers,              \* the transfers that are started, again and again
    NoHost,                 \* the worker looks nothing up
    KeepAnswer,             \* kKeepAnswer
    WaitForFirstAnswer,     \* kWaitForFirstAnswer
    MaxHosts                \* kMaxHosts

ASSUME ResolverAssumption ==
    /\ NoHost \notin Hosts
    /\ KeepAnswer \in Nat \ {0} /\ WaitForFirstAnswer \in 1 .. KeepAnswer
    /\ MaxHosts \in Nat \ {0}

VARIABLES
    hosts,          \* the keys of the map of hosts
    looking,        \* looking[h]
    addresses,      \* addresses[h]: there are some
    left,           \* left[h]: time until `expires'
    waited,         \* waited[h]: time since `started'
    queue,          \* the hosts to look up
    worker,         \* "none", "idle", "lookup", "answer" or "exited"
    host,           \* the host the worker has in hand
    mutex,          \* whether the worker keeps the mutex between two steps
    enabled, stopped,
    resolving,      \* the transfers that wait for an answer
    for,            \* for[t]: the host of transfer t
    late            \* wake() was called after stop() had returned

hostVars == <<hosts, looking, addresses, left, waited>>
workerVars == <<queue, worker, host, mutex>>
resolverVars == <<hostVars, workerVars, enabled, stopped, resolving, for, late>>

ResolverInit ==
    /\ hosts = {}
    /\ looking = [h \in Hosts |-> FALSE]
    /\ addresses = [h \in Hosts |-> FALSE]
    /\ left = [h \in Hosts |-> 0]
    /\ waited = [h \in Hosts |-> 0]
    /\ queue = <<>>
    /\ worker = "none" /\ host = NoHost /\ mutex = FALSE
    /\ enabled = TRUE /\ stopped = FALSE
    /\ resolving = {}
    /\ for \in [Transfers -> Hosts]
    /\ late = FALSE
-----------------------------------------------------------------------------
(***************************************************************************)
(* HostResolver::entry, which start_transfer calls for a new transfer and  *)
(* for one that waits.                                                     *)
(***************************************************************************)

\* Mutant: a host that is being looked up is evicted.
EvictLooking == {h \in hosts : left[h] = 0}
\* When the map is full: the hosts that are erased.
Evictable == {h \in hosts : ~looking[h] /\ left[h] = 0}
Evicted(h) == IF h \notin hosts /\ Cardinality(hosts) >= MaxHosts THEN Evictable ELSE {}

\* The map stays full, so the host gets no entry.
Full(h) == h \notin hosts /\ Cardinality(hosts \ Evicted(h)) >= MaxHosts

Wanted(h) == h \notin hosts \/ (~looking[h] /\ left[h] = 0)

\* A transfer that goes on, and one that waits.
Goes(t) == resolving' = resolving \ {t}
Waits(t) == resolving' = resolving \cup {t}

\* The resolver is not used.
Bypass(t) ==
    /\ ~mutex
    /\ ~enabled \/ stopped
    /\ Goes(t)
    /\ UNCHANGED <<hostVars, workerVars, enabled, stopped, for, late>>

Refuse(t) ==
    /\ ~mutex /\ enabled /\ ~stopped
    /\ Full(for[t])
    /\ hosts' = hosts \ Evicted(for[t])
    /\ looking' = [h \in Hosts |-> looking[h] /\ h \notin Evicted(for[t])]
    /\ Goes(t)
    /\ UNCHANGED <<addresses, left, waited, workerVars, enabled, stopped,
                   for, late>>

\* A host that is new, or whose answer has expired: a lookup is asked for, by
\* the first of them a thread is started, and the transfer waits.
Ask(t) ==
    LET h == for[t]
    IN  /\ ~mutex /\ enabled /\ ~stopped
        /\ ~Full(h)
        /\ Wanted(h)
        /\ hosts' = (hosts \ Evicted(h)) \cup {h}
        /\ looking' = [k \in Hosts |-> k = h \/ (looking[k] /\ k \notin Evicted(h))]
        /\ addresses' = [addresses EXCEPT ![h] = @ /\ h \in hosts]
        /\ left' = [left EXCEPT ![h] = 0]
        /\ waited' = [waited EXCEPT ![h] = 0]
        /\ queue' = Append(queue, h)
        /\ worker' = IF worker = "none" THEN "idle" ELSE worker
        /\ Waits(t)
        /\ UNCHANGED <<host, mutex, enabled, stopped, for, late>>

\* The thread cannot be started: from now on libcurl resolves.
AskFails(t) ==
    LET h == for[t]
    IN  /\ ~mutex /\ enabled /\ ~stopped
        /\ ~Full(h)
        /\ Wanted(h)
        /\ worker = "none"
        /\ hosts' = (hosts \ Evicted(h)) \cup {h}
        /\ enabled' = FALSE
        /\ Goes(t)
        /\ UNCHANGED <<looking, addresses, left, waited, workerVars,
                       stopped, for, late>>

Known(t) == /\ ~mutex /\ enabled /\ ~stopped
            /\ for[t] \in hosts /\ ~Wanted(for[t])
Answered(t) == addresses[for[t]] /\ left[for[t]] > 0

\* There are addresses: they are passed to libcurl, or left out because a
\* recent transfer has passed them.
Pass(t) ==
    /\ Known(t)
    /\ Answered(t)
    /\ Goes(t)
    /\ UNCHANGED <<hostVars, workerVars, enabled, stopped, for, late>>

Wait(t) ==
    /\ Known(t)
    /\ ~Answered(t)
    /\ looking[for[t]] /\ waited[for[t]] < WaitForFirstAnswer
    /\ Waits(t)
    /\ UNCHANGED <<hostVars, workerVars, enabled, stopped, for, late>>

\* Mutant: the host is left to libcurl only when its lookup has ended.
LeaveFailedOnly(t) ==
    /\ Known(t)
    /\ ~Answered(t)
    /\ ~looking[for[t]]
    /\ Goes(t)
    /\ UNCHANGED <<hostVars, workerVars, enabled, stopped, for, late>>

\* The lookup has failed or takes too long: the host is left to libcurl.
GoOn(t) ==
    /\ Known(t)
    /\ ~Answered(t)
    /\ ~looking[for[t]] \/ waited[for[t]] >= WaitForFirstAnswer
    /\ Goes(t)
    /\ UNCHANGED <<hostVars, workerVars, enabled, stopped, for, late>>

Go(t) == Bypass(t) \/ Refuse(t) \/ Pass(t) \/ GoOn(t)
entry(t) == Go(t) \/ Ask(t) \/ AskFails(t) \/ Wait(t)

\* A transfer that has gone on makes room for one for another host.
Another(t) ==
    /\ t \notin resolving
    /\ \E h \in Hosts \ {for[t]} : for' = [for EXCEPT ![t] = h]
    /\ UNCHANGED <<hostVars, workerVars, enabled, stopped, resolving, late>>
-----------------------------------------------------------------------------
(***************************************************************************)
(* HostResolver::serve and HostResolver::stop.                             *)
(***************************************************************************)
Serve ==
    /\ ~mutex
    /\ worker = "idle"
    /\ \/ /\ stopped
          /\ worker' = "exited"
          /\ UNCHANGED <<queue, host>>
       \/ /\ ~stopped /\ queue # <<>>
          /\ worker' = "lookup"
          /\ host' = Head(queue)
          /\ queue' = Tail(queue)
    /\ UNCHANGED <<hostVars, mutex, enabled, stopped, resolving, for, late>>

\* What a lookup leaves in the host's entry; a failure is kept as long.
Keep(h, found) ==
    /\ looking' = [looking EXCEPT ![h] = FALSE]
    /\ addresses' = [addresses EXCEPT ![h] = found]
    /\ left' = [left EXCEPT ![h] = KeepAnswer]

\* Mutant: stop() is not looked at again when the lookup is over.
LookupReturnsRegardless ==
    /\ worker = "lookup"
    /\ ~mutex
    /\ mutex' = TRUE
    /\ worker' = "answer"
    /\ \E found \in BOOLEAN :
         IF host \in hosts THEN Keep(host, found) ELSE UNCHANGED <<looking, addresses, left>>
    /\ host' = NoHost
    /\ UNCHANGED <<hosts, waited, queue, enabled, stopped, resolving, for, late>>

\* The lookup is over, with addresses or without, perhaps after stop().
LookupReturns ==
    /\ worker = "lookup"
    /\ ~mutex
    /\ host' = NoHost
    /\ IF stopped
       THEN /\ worker' = "exited"
            /\ UNCHANGED <<mutex, looking, addresses, left>>
       ELSE /\ mutex' = TRUE
            /\ worker' = "answer"
            /\ \E found \in BOOLEAN :
                 IF host \in hosts THEN Keep(host, found)
                                   ELSE UNCHANGED <<looking, addresses, left>>
    /\ UNCHANGED <<hosts, waited, queue, enabled, stopped, resolving, for, late>>

\* wake(), which goes to the loops of the engine, under the mutex.
Wake ==
    /\ worker = "answer"
    /\ late' = (late \/ stopped)
    /\ mutex' = FALSE
    /\ worker' = "idle"
    /\ UNCHANGED <<hostVars, queue, host, enabled, stopped, resolving, for>>

\* stop(); when it returns, the engine and its loops go.
stop ==
    /\ ~mutex
    /\ ~stopped
    /\ stopped' = TRUE
    /\ queue' = <<>>
    /\ UNCHANGED <<hostVars, worker, host, mutex, enabled, resolving, for, late>>

\* Time passes; the worker keeps the mutex for less than a unit.
Tick ==
    /\ ~mutex
    /\ left' = [h \in Hosts |-> IF left[h] > 0 THEN left[h] - 1 ELSE 0]
    /\ waited' = [h \in Hosts |-> IF waited[h] < WaitForFirstAnswer THEN waited[h] + 1
                                                                   ELSE waited[h]]
    /\ UNCHANGED <<hosts, looking, addresses, workerVars, enabled, stopped,
                   resolving, for, late>>

ResolverNext ==
    \/ \E t \in Transfers : entry(t) \/ Another(t)
    \/ Serve \/ LookupReturns \/ Wake \/ stop \/ Tick

ResolverSpec == ResolverInit /\ [][ResolverNext]_resolverVars

\* A loop asks again for the transfers that wait, every 20 milliseconds at the
\* least, so it does not always miss the time, far longer than that, in which
\* one may go on; and time passes.  A lookup need never return.
ResolverFairness ==
    /\ \A t \in Transfers : /\ WF_resolverVars(t \in resolving /\ entry(t))
                           /\ SF_resolverVars(t \in resolving /\ Go(t))
    /\ WF_resolverVars(Tick)
    /\ WF_resolverVars(Wake)

ResolverFairSpec == ResolverSpec /\ ResolverFairness
-----------------------------------------------------------------------------
(***************************************************************************)
(* Properties.                                                             *)
(***************************************************************************)

Times(h) == Cardinality({i \in DOMAIN queue : queue[i] = h})
              + IF host = h THEN 1 ELSE 0

\* A host is marked as being looked up exactly while it is queued or in the
\* worker's hands, and it is there once: no host is asked for twice, and none
\* waits for a lookup that nobody will do.
LookedUpOnce == ~stopped =>
    \A h \in Hosts : Times(h) = IF h \in hosts /\ looking[h] THEN 1 ELSE 0

\* The wake callback, which refers to the engine, is never called once stop()
\* has returned, however late a system lookup does ("The worker owns its state
\* after shutdown", resolver.cpp:252).
NoWakeAfterStop == ~late

\* A transfer does not wait for ever, even for a lookup that never returns: again
\* and again it waits for none.
WaitEnds == \A t \in Transfers : []<>(t \notin resolving)
=============================================================================
