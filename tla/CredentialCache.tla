-------------------------- MODULE CredentialCache --------------------------
(***************************************************************************)
(* The credential cache of a client (src/credential_cache.cpp): lookups    *)
(* share one load per key, loaded credentials are kept until shortly       *)
(* before they expire, and an I/O loop invalidates the credentials that a  *)
(* server has rejected.                                                    *)
(*                                                                         *)
(* A load is a call of a provider or of the caller's credential callback.  *)
(* Loads are numbered in the order in which they begin; credentials are    *)
(* known by the load that brought them, so "older than the rejection" is a *)
(* fact about numbers.  What runs under mutex_ is one step, and a load     *)
(* runs without it.                                                        *)
(***************************************************************************)
EXTENDS Integers, FiniteSets

CONSTANTS
    Lookers,        \* the threads that look credentials up
    Paths,          \* the objects
    CustomPaths,    \* the objects whose provider has a callback
    Scopes,         \* cache prefixes, and scope keys of the configuration
    Scope,          \* Scope[p]: the scope key of a path without callback
    Covering,       \* Covering[p]: the cache prefixes that contain path p
    Size,           \* Size[s]: the length of prefix s
    NoScope,        \* the empty cache_prefix
    MaxLoads,       \* bound: loads in a behaviour
    MaxRejections,  \* bound: invalidations in a behaviour
    MaxTime,        \* bound: the last time the clock shows
    StaticTtl,      \* kStaticCredentialTtlSeconds
    Lifetimes       \* seconds that loaded credentials live; -1: no expiry

ASSUME CacheAssumption ==
    /\ IsFiniteSet(Lookers)
    /\ CustomPaths \subseteq Paths
    /\ NoScope \notin Scopes
    /\ Scope \in [Paths \ CustomPaths -> Scopes]
    /\ Covering \in [CustomPaths -> SUBSET Scopes]
    /\ Scopes \subseteq DOMAIN Size
    /\ MaxLoads \in Nat /\ MaxRejections \in Nat /\ MaxTime \in Nat
    /\ StaticTtl \in Nat \ {0}
    /\ Lifetimes \subseteq Nat \cup {-1}

VARIABLES
    entries,        \* entries_: records with distinct keys
    flights,        \* flights_: flights[k] is the load of key k, or NoLoad
    flight,         \* flight[n]: the Flight of load n
    loads,          \* how many loads have begun
    pc,             \* pc[th]: where lookup th is
    path,           \* path[th]: the object it is for
    checked_at,     \* checked_at[th]
    current,        \* current[th]: the load it performs or waits for
    loaded,         \* loaded[th]: what its load has brought
    got,            \* got[th]: what its lookup has returned, once it is idle
    clock,          \* the wall clock
    rejected,       \* rejected[p]: the loads before the last rejection for p
    avoid,          \* avoid[th]: rejected[path[th]] when the lookup began
    served,         \* the paths for which credentials have been returned
    rejections      \* how many invalidations there were

cacheVars == <<entries, flights, flight, loads, pc, path, checked_at, current,
               loaded, got, clock, rejected, avoid, served, rejections>>

NoLoad == 0
NoPath == CHOOSE p \in Paths : TRUE
Loads == 1 .. MaxLoads
\* std::numeric_limits<std::int64_t>::max(): later than every clock.
Forever == MaxTime + StaticTtl + 1

\* The key of a load: the exact path, or what the native provider depends on.
FlightKey(p) == IF p \in CustomPaths THEN <<"custom", p>> ELSE <<"native", Scope[p]>>
Keys == {FlightKey(p) : p \in Paths}

Failed(n) == [ok |-> FALSE, present |-> FALSE, load |-> n, expires |-> 0,
              scope |-> NoScope, at |-> 0]
Loaded(n, present, expires, scope, at) ==
    [ok |-> TRUE, present |-> present, load |-> n, expires |-> expires,
     scope |-> scope, at |-> at]

CacheInit ==
    /\ entries = {}
    /\ flights = [k \in Keys |-> NoLoad]
    /\ flight = [n \in Loads |-> [done |-> FALSE, invalidated |-> FALSE,
                                  result |-> Failed(n)]]
    /\ loads = 0
    /\ pc = [th \in Lookers |-> "idle"]
    /\ path = [th \in Lookers |-> NoPath]
    /\ checked_at = [th \in Lookers |-> 0]
    /\ current = [th \in Lookers |-> NoLoad]
    /\ loaded = [th \in Lookers |-> Failed(NoLoad)]
    /\ got = [th \in Lookers |-> Failed(NoLoad)]
    /\ clock = 1
    /\ rejected = [p \in Paths |-> {}]
    /\ avoid = [th \in Lookers |-> {}]
    /\ served = {}
    /\ rejections = 0
-----------------------------------------------------------------------------
(***************************************************************************)
(* When an entry may be used.                                              *)
(***************************************************************************)
Clamp(n, low, high) == IF n < low THEN low ELSE IF n > high THEN high ELSE n

refresh_time(expires, now, refresh_static) ==
    IF expires = 0 THEN IF refresh_static THEN now + StaticTtl ELSE Forever
    ELSE IF expires <= now THEN now
    ELSE LET margin == Clamp((expires - now) \div 10, 1, 60)
         IN  IF now + 1 > expires - margin THEN now + 1 ELSE expires - margin

reusable(entry, now) ==
    /\ now < entry.refresh
    /\ entry.expires = 0 \/ now < entry.expires

\* The entries that serve path p at a time.
Matching(p) ==
    IF p \in CustomPaths
    THEN {e \in entries : e.custom /\ e.scope \in Covering[p]}
    ELSE {e \in entries : ~e.custom /\ e.scope = Scope[p]}
Usable(p, now) == {e \in Matching(p) : reusable(e, now)}
\* find_reusable: the most specific of them.
Best(S) == {e \in S : \A f \in S : Size[f.scope] <= Size[e.scope]}
-----------------------------------------------------------------------------
(***************************************************************************)
(* CredentialCache::custom and CredentialCache::native.                    *)
(***************************************************************************)

\* The call begins: the clock is read before the lock is taken.  No call
\* begins that might need one load more than MaxLoads.
Lookup(th, p) ==
    /\ pc[th] = "idle"
    /\ loads + Cardinality({u \in Lookers : pc[u] = "enter"}) < MaxLoads
    /\ pc' = [pc EXCEPT ![th] = "enter"]
    /\ path' = [path EXCEPT ![th] = p]
    /\ checked_at' = [checked_at EXCEPT ![th] = clock]
    /\ avoid' = [avoid EXCEPT ![th] = rejected[p]]
    /\ got' = [got EXCEPT ![th] = Failed(NoLoad)]
    /\ UNCHANGED <<entries, flights, flight, loads, current, loaded, clock,
                   rejected, served, rejections>>

\* The call returns the credentials, and its locals are gone.
Return(th, result) ==
    /\ pc' = [pc EXCEPT ![th] = "idle"]
    /\ got' = [got EXCEPT ![th] = [result EXCEPT !.scope = NoScope]]
    /\ served' = IF result.ok THEN served \cup {path[th]} ELSE served
    /\ path' = [path EXCEPT ![th] = NoPath]
    /\ checked_at' = [checked_at EXCEPT ![th] = 0]
    /\ current' = [current EXCEPT ![th] = NoLoad]
    /\ loaded' = [loaded EXCEPT ![th] = Failed(NoLoad)]

Reuse(th) ==
    /\ pc[th] = "enter"
    /\ \E e \in Best(Usable(path[th], checked_at[th])) :
         Return(th, Loaded(e.load, TRUE, e.expires, e.scope, checked_at[th]))
    /\ UNCHANGED <<entries, flights, flight, loads, clock, rejected, avoid,
                   rejections>>

Miss(th) == pc[th] = "enter" /\ Usable(path[th], checked_at[th]) = {}

Join(th) ==
    /\ Miss(th)
    /\ flights[FlightKey(path[th])] # NoLoad
    /\ current' = [current EXCEPT ![th] = flights[FlightKey(path[th])]]
    /\ pc' = [pc EXCEPT ![th] = "wait"]
    /\ UNCHANGED <<entries, flights, flight, loads, path, checked_at, loaded,
                   got, clock, rejected, avoid, served, rejections>>

\* Mutant: a thread starts a load although one for its key is under way.
BeginAlways(th) ==
    /\ Miss(th)
    /\ loads' = loads + 1
    /\ flights' = [flights EXCEPT ![FlightKey(path[th])] = loads + 1]
    /\ current' = [current EXCEPT ![th] = loads + 1]
    /\ pc' = [pc EXCEPT ![th] = "load"]
    /\ UNCHANGED <<entries, flight, path, checked_at, loaded, got, clock,
                   rejected, avoid, served, rejections>>

Begin(th) ==
    /\ Miss(th)
    /\ flights[FlightKey(path[th])] = NoLoad
    /\ loads' = loads + 1
    /\ flights' = [flights EXCEPT ![FlightKey(path[th])] = loads + 1]
    /\ current' = [current EXCEPT ![th] = loads + 1]
    /\ pc' = [pc EXCEPT ![th] = "load"]
    /\ UNCHANGED <<entries, flight, path, checked_at, loaded, got, clock,
                   rejected, avoid, served, rejections>>

\* What the provider may bring: nothing, an anonymous answer, or credentials
\* that expire now, later or never.  load_credentials turns an exception into
\* an error; a cache_prefix that does not contain the path is one, too.
Expiry(life) == IF life = -1 THEN 0 ELSE clock + life
ScopesOf(p) == IF p \in CustomPaths THEN Covering[p] \cup {NoScope} ELSE {Scope[p]}
Brought(th) ==
    {Failed(current[th])} \cup
    (IF path[th] \in CustomPaths THEN {}
     ELSE {Loaded(current[th], FALSE, 0, Scope[path[th]], clock)}) \cup
    {Loaded(current[th], TRUE, Expiry(life), s, clock) :
        life \in Lifetimes, s \in ScopesOf(path[th])}

\* Credentials that have expired already are an error.
Accept(value) ==
    IF value.ok /\ value.expires # 0 /\ value.expires <= clock
    THEN Failed(value.load)
    ELSE value

Load(th) ==
    /\ pc[th] = "load"
    /\ \E value \in Brought(th) :
         loaded' = [loaded EXCEPT ![th] = Accept(value)]
    /\ pc' = [pc EXCEPT ![th] = "store"]
    /\ UNCHANGED <<entries, flights, flight, loads, path, checked_at, current,
                   got, clock, rejected, avoid, served, rejections>>

\* Mutant: the late result of an invalidated load is kept.
KeptThoughInvalidated(p, n, value) ==
    /\ value.ok
    /\ IF p \in CustomPaths THEN value.scope # NoScope ELSE value.present

\* Whether the result of load n becomes an entry.
Kept(p, n, value) ==
    /\ value.ok
    /\ IF p \in CustomPaths THEN value.scope # NoScope ELSE value.present
    /\ ~flight[n].invalidated

\* entries_.insert_or_assign
Insert(custom, value) ==
    {e \in entries : ~(e.custom = custom /\ e.scope = value.scope)} \cup
    {[custom |-> custom, scope |-> value.scope, load |-> value.load,
      expires |-> value.expires,
      refresh |-> refresh_time(value.expires, value.at, ~custom)]}

\* The result is for those who wait; without them the Flight is gone.
Waiters(n) == {th \in Lookers : pc[th] = "wait" /\ current[th] = n}
Completed(n, value) ==
    [flight EXCEPT ![n].done = TRUE, ![n].result = IF Waiters(n) = {} THEN @ ELSE value]

\* Mutant: a flight that has left flights_ is not completed.
StoreOnlyCurrent(th) ==
    LET n == current[th]
        key == FlightKey(path[th])
    IN  /\ pc[th] = "store"
        /\ entries' \in {entries} \cup
              (IF Kept(path[th], n, loaded[th])
               THEN {Insert(path[th] \in CustomPaths, loaded[th])} ELSE {})
        /\ flight' = IF flights[key] = n THEN Completed(n, loaded[th]) ELSE flight
        /\ flights' = IF flights[key] = n THEN [flights EXCEPT ![key] = NoLoad]
                                          ELSE flights
        /\ Return(th, loaded[th])
        /\ UNCHANGED <<loads, clock, rejected, avoid, rejections>>

\* An insertion may fail for want of memory; the waiters are told anyway.
Store(th) ==
    LET n == current[th]
        key == FlightKey(path[th])
    IN  /\ pc[th] = "store"
        /\ entries' \in {entries} \cup
              (IF Kept(path[th], n, loaded[th])
               THEN {Insert(path[th] \in CustomPaths, loaded[th])} ELSE {})
        /\ flight' = Completed(n, loaded[th])
        /\ flights' = IF flights[key] = n THEN [flights EXCEPT ![key] = NoLoad]
                                          ELSE flights
        /\ Return(th, loaded[th])
        /\ UNCHANGED <<loads, clock, rejected, avoid, rejections>>

\* ready.wait is over.  The last to wait lets go of the Flight.
Shared(th) ==
    LET n == current[th]
    IN  /\ pc[th] = "wait"
        /\ flight[n].done
        /\ flight' = [flight EXCEPT ![n].result = IF Waiters(n) = {th} THEN Failed(n) ELSE @]
        /\ Return(th, flight[n].result)
        /\ UNCHANGED <<entries, flights, loads, clock, rejected, avoid, rejections>>

\* CredentialCache::invalidate: a server has rejected credentials for p.
invalidate(p) ==
    LET n == flights[FlightKey(p)]
    IN  /\ p \in served
        /\ rejections < MaxRejections
        /\ rejections' = rejections + 1
        /\ rejected' = [rejected EXCEPT ![p] = 1 .. loads]
        /\ entries' = entries \ Matching(p)
        /\ flight' = IF n = NoLoad THEN flight
                     ELSE [flight EXCEPT ![n].invalidated = TRUE]
        /\ flights' = [flights EXCEPT ![FlightKey(p)] = NoLoad]
        /\ UNCHANGED <<loads, pc, path, checked_at, current, loaded, got, clock,
                       avoid, served>>

ClockTicks ==
    /\ clock < MaxTime
    /\ clock' = clock + 1
    /\ UNCHANGED <<entries, flights, flight, loads, pc, path, checked_at,
                   current, loaded, got, rejected, avoid, served, rejections>>

\* Nobody calls any more.
Quiet == (\A th \in Lookers : pc[th] = "idle") /\ UNCHANGED cacheVars

\* One call of custom or native once it has begun.
Proceed(th) == Reuse(th) \/ Join(th) \/ Begin(th) \/ Load(th) \/ Store(th) \/ Shared(th)

CacheNext ==
    \/ \E th \in Lookers : (\E p \in Paths : Lookup(th, p)) \/ Proceed(th)
    \/ \E p \in Paths : invalidate(p)
    \/ ClockTicks
    \/ Quiet

CacheSpec == CacheInit /\ [][CacheNext]_cacheVars

\* Every thread runs and every load comes back.
CacheFairness == \A th \in Lookers : WF_cacheVars(Proceed(th))

CacheFairSpec == CacheSpec /\ CacheFairness
-----------------------------------------------------------------------------
(***************************************************************************)
(* Properties.                                                             *)
(***************************************************************************)
\* Callers share a load: two loads for one key run at the same time only when
\* the older one has been invalidated (credential_cache.hpp: "Callers waiting
\* on the same lookup share its result").
SharedLoad == \A a, b \in Lookers :
    /\ a # b
    /\ pc[a] \in {"load", "store"} /\ pc[b] \in {"load", "store"}
    /\ FlightKey(path[a]) = FlightKey(path[b])
    => flight[current[a]].invalidated \/ flight[current[b]].invalidated

\* Once a server has rejected the credentials of a path, a lookup for it that
\* begins later gets nothing from a load that began earlier, neither from an
\* entry nor from a load still in flight (credential_cache.cpp:227).
RejectedNotReused == \A th \in Lookers :
    pc[th] = "idle" /\ got[th].ok => got[th].load \notin avoid[th]

\* Credentials that expire are handed out only while the clock, as the cache
\* last read it for them, is before their expiry.
HandedOutUnexpired == \A th \in Lookers :
    got[th].ok /\ got[th].expires # 0 => got[th].at < got[th].expires

\* What a lookup returns can be used: it was neither rejected before the lookup
\* began nor has it expired, whether it comes from an entry, from a load of its
\* own or from one it waited for (credential_cache.cpp:76, 227).
OnlyUsable == RejectedNotReused /\ HandedOutUnexpired

\* Every lookup returns: a failed load, an invalidation and an insertion that
\* runs out of memory strand no waiter.  (A thread that is not in a lookup is
\* idle: there is always a later moment at which it is.)
LookupEnds == \A th \in Lookers : []<>(pc[th] = "idle")
=============================================================================
