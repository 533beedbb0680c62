------------------------------ MODULE MCWaits ------------------------------
(***************************************************************************)
(* What a transfer may wait for before it is sent: an I/O loop's wake-up,  *)
(* its host's addresses, and credentials that somebody else loads.  The    *)
(* three share no state, so a behaviour is about one of them, `part', and  *)
(* the others stand still: the loops have been joined, the resolver is     *)
(* stopped, and nobody looks credentials up.                               *)
(***************************************************************************)
EXTENDS MCIdleWake, MCResolver, MCCredentialCache

VARIABLE part

waitsVars == <<part, vars, resolverVars, cacheVars>>

LoopsJoined ==
    /\ http_backlog = 0 /\ idle_loops = {} /\ added = 0
    /\ ppc = [p \in Producers |-> "outside"]
    /\ count = [p \in Producers |-> 0]
    /\ idle = [p \in Producers |-> {}]
    /\ target = [p \in Producers |-> {}]
    /\ lpc = [l \in Loops |-> "exited"]
    /\ active = [l \in Loops |-> 0]
    /\ announced = [l \in Loops |-> FALSE]
    /\ blocking = [l \in Loops |-> FALSE]
    /\ woken = [l \in Loops |-> FALSE]
    /\ stop_ = TRUE /\ unwoken = {}

ResolverStopped ==
    /\ hosts = {}
    /\ looking = [h \in Hosts |-> FALSE]
    /\ addresses = [h \in Hosts |-> FALSE]
    /\ left = [h \in Hosts |-> 0]
    /\ waited = [h \in Hosts |-> WaitForFirstAnswer]
    /\ queue = <<>>
    /\ worker = "none" /\ host = NoHost /\ mutex = FALSE
    /\ enabled = TRUE /\ stopped = TRUE
    /\ resolving = {}
    /\ for = [t \in Transfers |-> NoHost]
    /\ late = FALSE

WaitsInit ==
    \/ part = "wake-up" /\ Init /\ ResolverStopped /\ CacheInit
    \/ part = "resolver" /\ LoopsJoined /\ ResolverInit /\ CacheInit
    \/ part = "cache" /\ LoopsJoined /\ ResolverStopped /\ CacheInit

WaitsNext ==
    \/ part = "wake-up" /\ Next /\ UNCHANGED <<part, resolverVars, cacheVars>>
    \/ part = "resolver" /\ ResolverNext /\ UNCHANGED <<part, vars, cacheVars>>
    \/ part = "cache" /\ CacheNext /\ UNCHANGED <<part, vars, resolverVars>>

WaitsSpec ==
    WaitsInit /\ [][WaitsNext]_waitsVars /\ Fairness /\ ResolverFairness /\ CacheFairness
=============================================================================
