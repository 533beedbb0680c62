---------------------------- MODULE CacheProofs ----------------------------
(***************************************************************************)
(* Proofs about the credential cache, for every number of threads, objects *)
(* and scopes, and every bound of the model.                               *)
(*                                                                         *)
(* The argument follows a load.  As long as it is not invalidated, the map *)
(* of flights still has it under its key; and what the map has for a path  *)
(* is never older than the last rejection for this path.  So a load that   *)
(* may still be joined, or stored, is young enough for every path that can *)
(* meet it.  For callbacks this needs that no prefix covers two paths, or  *)
(* the load of one of them brings an entry for the other (the run          *)
(* CacheSiblings).                                                         *)
(***************************************************************************)
EXTENDS CredentialCache, FiniteSetTheorems, TLAPS

Results ==
    [ok : BOOLEAN, present : BOOLEAN, load : 0 .. MaxLoads, expires : Nat,
     scope : Scopes \cup {NoScope}, at : Nat]
Flights == [done : BOOLEAN, invalidated : BOOLEAN, result : Results]

Entry(e) == /\ e.custom \in BOOLEAN /\ e.scope \in Scopes
            /\ e.load \in Loads /\ e.expires \in Nat

CacheTypeOK ==
    /\ \A e \in entries : Entry(e)
    /\ flights \in [Keys -> 0 .. MaxLoads]
    /\ flight \in [Loads -> Flights]
    /\ loads \in 0 .. MaxLoads
    /\ pc \in [Lookers -> {"idle", "enter", "wait", "load", "store"}]
    /\ path \in [Lookers -> Paths \cup {NoPath}]
    /\ checked_at \in [Lookers -> Nat]
    /\ current \in [Lookers -> 0 .. MaxLoads]
    /\ loaded \in [Lookers -> Results]
    /\ got \in [Lookers -> Results]
    /\ clock \in Nat
    /\ rejected \in [Paths -> SUBSET Loads]
    /\ avoid \in [Lookers -> SUBSET Loads]

\* A call that has not begun its load has one in reserve.
Reserve == loads + Cardinality({u \in Lookers : pc[u] = "enter"}) <= MaxLoads

\* The threads that perform a load.
Loader(th) == pc[th] \in {"load", "store"}

LoadsAgree ==
    /\ \A n \in Loads : flight[n].result.load = n
    /\ \A n \in Loads : n > loads => ~flight[n].invalidated
    /\ \A k \in Keys : flights[k] <= loads
    /\ \A th \in Lookers : pc[th] # "idle" => path[th] \in Paths
    /\ \A th \in Lookers : Loader(th) \/ pc[th] = "wait" => current[th] \in 1 .. loads
    /\ \A a, b \in Lookers : a # b /\ Loader(a) /\ Loader(b) => current[a] # current[b]
    /\ \A th \in Lookers : Loader(th) /\ ~flight[current[th]].invalidated =>
           flights[FlightKey(path[th])] = current[th]

\* What a load has brought is its own, for a scope of its path, and unexpired.
Unexpired(value) == value.ok /\ value.expires # 0 => value.at < value.expires
BroughtAgrees ==
    /\ \A th \in Lookers : pc[th] = "store" =>
           /\ loaded[th].load = current[th]
           /\ loaded[th].ok =>
                IF path[th] \in CustomPaths
                THEN loaded[th].scope \in Covering[path[th]] \cup {NoScope}
                ELSE loaded[th].scope = Scope[path[th]]
           /\ Unexpired(loaded[th])
    /\ \A n \in Loads : Unexpired(flight[n].result)
    /\ \A th \in Lookers : Unexpired(got[th])

\* What can still reach a path is younger than the last rejection for it.
Young ==
    /\ \A p \in Paths : rejected[p] \subseteq 1 .. loads
    /\ \A p \in Paths : flights[FlightKey(p)] \notin rejected[p]
    /\ \A p \in Paths : \A e \in Matching(p) : e.load \notin rejected[p]
    /\ \A th \in Lookers : pc[th] # "idle" => avoid[th] \subseteq rejected[path[th]]
    /\ \A th \in Lookers : Loader(th) \/ pc[th] = "wait" => current[th] \notin avoid[th]
    /\ RejectedNotReused

CacheInv == CacheTypeOK /\ Reserve /\ LoadsAgree /\ BroughtAgrees

\* No prefix covers two objects of a callback.
Apart == \A p, q \in CustomPaths : p # q => Covering[p] \cap Covering[q] = {}

USE CacheAssumption

-----------------------------------------------------------------------------
(***************************************************************************)
(* Keys, results and calls that return.                                    *)
(***************************************************************************)
LEMMA KeyFacts ==
  ASSUME NEW p \in Paths
  PROVE  FlightKey(p) \in Keys
BY DEF Keys

LEMMA SameKey ==
  ASSUME NEW p \in Paths, NEW q \in Paths, FlightKey(p) = FlightKey(q)
  PROVE  /\ p \in CustomPaths => p = q
         /\ p \notin CustomPaths => q \notin CustomPaths /\ Scope[p] = Scope[q]
BY DEF FlightKey

LEMMA FailedIsResult ==
  ASSUME NEW n \in 0 .. MaxLoads
  PROVE  /\ Failed(n) \in Results /\ ~Failed(n).ok /\ Failed(n).load = n
         /\ Unexpired(Failed(n))
BY DEF Failed, Results, Unexpired

LEMMA LoadedIsResult ==
  ASSUME NEW n \in 0 .. MaxLoads, NEW present \in BOOLEAN, NEW expires \in Nat,
         NEW scope \in Scopes \cup {NoScope}, NEW at \in Nat
  PROVE  LET r == Loaded(n, present, expires, scope, at)
         IN  /\ r \in Results /\ r.ok /\ r.load = n /\ r.expires = expires
             /\ r.scope = scope /\ r.at = at /\ r.present = present
BY DEF Loaded, Results

LEMMA FlightFacts ==
  ASSUME CacheTypeOK, NEW n \in Loads
  PROVE  /\ flight[n] \in Flights /\ flight[n].result \in Results
         /\ flight[n].invalidated \in BOOLEAN /\ flight[n].done \in BOOLEAN
         /\ n \in 0 .. MaxLoads
BY DEF CacheTypeOK, Flights, Loads

\* The set of the calls that have a load in reserve.
Entering == {u \in Lookers : pc[u] = "enter"}

LEMMA EnteringIsFinite == IsFiniteSet(Entering) /\ Cardinality(Entering) \in Nat
<1>1. Entering \subseteq Lookers
  BY DEF Entering
<1>2. IsFiniteSet(Entering)
  BY <1>1, FS_Subset
<1> QED
  BY <1>2, FS_CardinalityType

LEMMA ReserveKept ==
  ASSUME CacheInv, loads' = loads, Entering' \subseteq Entering
  PROVE  Reserve'
<1>1. Cardinality(Entering') <= Cardinality(Entering) /\ IsFiniteSet(Entering')
  BY EnteringIsFinite, FS_Subset
<1>2. Cardinality(Entering') \in Nat
  BY <1>1, FS_CardinalityType
<1>3. loads \in Nat /\ loads + Cardinality(Entering) <= MaxLoads
  BY DEF CacheInv, CacheTypeOK, Reserve, Entering
<1>4. loads' + Cardinality(Entering') <= MaxLoads
  BY <1>1, <1>2, <1>3, EnteringIsFinite
<1> QED
  BY <1>4 DEF Reserve, Entering

LEMMA ReturnFacts ==
  ASSUME CacheTypeOK, NEW th \in Lookers, NEW result \in Results, Return(th, result)
  PROVE  /\ pc' \in [Lookers -> {"idle", "enter", "wait", "load", "store"}]
         /\ path' \in [Lookers -> Paths \cup {NoPath}]
         /\ checked_at' \in [Lookers -> Nat]
         /\ current' \in [Lookers -> 0 .. MaxLoads]
         /\ loaded' \in [Lookers -> Results]
         /\ got' \in [Lookers -> Results]
         /\ pc'[th] = "idle"
         /\ \A u \in Lookers \ {th} :
              /\ pc'[u] = pc[u] /\ path'[u] = path[u] /\ current'[u] = current[u]
              /\ loaded'[u] = loaded[u] /\ got'[u] = got[u]
         /\ got'[th].ok = result.ok /\ got'[th].load = result.load
         /\ got'[th].expires = result.expires /\ got'[th].at = result.at
<1>1. Failed(NoLoad) \in Results /\ 0 \in Nat /\ NoLoad \in 0 .. MaxLoads
  BY FailedIsResult DEF NoLoad
<1>2. LET g == [result EXCEPT !.scope = NoScope]
      IN  /\ g \in Results /\ g.ok = result.ok /\ g.load = result.load
          /\ g.expires = result.expires /\ g.at = result.at
  BY DEF Results
<1>3. /\ pc' \in [Lookers -> {"idle", "enter", "wait", "load", "store"}]
      /\ pc'[th] = "idle" /\ \A u \in Lookers \ {th} : pc'[u] = pc[u]
  BY DEF CacheTypeOK, Return
<1>4. /\ path' \in [Lookers -> Paths \cup {NoPath}]
      /\ \A u \in Lookers \ {th} : path'[u] = path[u]
  BY DEF CacheTypeOK, Return
<1>5. /\ current' \in [Lookers -> 0 .. MaxLoads] /\ checked_at' \in [Lookers -> Nat]
      /\ \A u \in Lookers \ {th} : current'[u] = current[u]
  BY <1>1 DEF CacheTypeOK, Return
<1>6. /\ loaded' \in [Lookers -> Results]
      /\ \A u \in Lookers \ {th} : loaded'[u] = loaded[u]
  BY <1>1 DEF CacheTypeOK, Return
<1>7. /\ got' \in [Lookers -> Results]
      /\ \A u \in Lookers \ {th} : got'[u] = got[u]
      /\ got'[th] = [result EXCEPT !.scope = NoScope]
  BY <1>2 DEF CacheTypeOK, Return
<1> QED
  BY <1>2, <1>3, <1>4, <1>5, <1>6, <1>7

\* A call that returns takes its own part of the invariant with it.
LEMMA ReturnKeeps ==
  ASSUME CacheInv, NEW th \in Lookers, NEW result \in Results, Return(th, result),
         Unexpired(result), UNCHANGED <<flights, loads, clock, rejected, avoid>>,
         flight' \in [Loads -> Flights],
         \A n \in Loads : /\ flight'[n].invalidated = flight[n].invalidated
                          /\ flight'[n].result \in {flight[n].result, Failed(n)},
         \A e \in entries' : Entry(e)
  PROVE  CacheInv'
<1>0. CacheTypeOK /\ LoadsAgree /\ BroughtAgrees
  BY DEF CacheInv
<1>1. CacheTypeOK'
  BY <1>0, ReturnFacts DEF CacheTypeOK
<1>2. Reserve'
  <2>1. Entering' \subseteq Entering
    BY <1>0, ReturnFacts DEF Entering
  <2> QED
    BY <2>1, ReserveKept
<1>3. \A u \in Lookers : Loader(u)' \/ pc'[u] = "wait" \/ pc'[u] # "idle" =>
        u # th /\ pc'[u] = pc[u] /\ path'[u] = path[u] /\ current'[u] = current[u]
               /\ loaded'[u] = loaded[u]
  BY <1>0, ReturnFacts DEF Loader
<1>4. LoadsAgree'
  <2>1. \A n \in Loads : flight'[n].result.load = n
    BY <1>0 DEF LoadsAgree, Failed
  <2>2. \A n \in Loads : n > loads' => ~flight'[n].invalidated
    BY <1>0 DEF LoadsAgree
  <2>3. ASSUME NEW u \in Lookers, Loader(u)', ~flight'[current'[u]].invalidated
        PROVE  flights'[FlightKey(path'[u])] = current'[u]
    <3>1. Loader(u) /\ path'[u] = path[u] /\ current'[u] = current[u]
      BY <1>3, <2>3 DEF Loader
    <3>2. current[u] \in Loads
      BY <1>0, <3>1 DEF LoadsAgree, Loads, CacheTypeOK
    <3> QED
      BY <1>0, <2>3, <3>1, <3>2 DEF LoadsAgree
  <2> QED
    BY <1>0, <1>3, <2>1, <2>2, <2>3 DEF LoadsAgree, Loader
<1>5. BroughtAgrees'
  <2>1. \A u \in Lookers : Unexpired(got[u])'
    <3> SUFFICES ASSUME NEW u \in Lookers PROVE Unexpired(got[u])'
      OBVIOUS
    <3>1. CASE u = th
      BY <1>0, <3>1, ReturnFacts DEF Unexpired
    <3>2. CASE u # th
      BY <1>0, <3>2, ReturnFacts DEF BroughtAgrees, Unexpired
    <3> QED
      BY <3>1, <3>2
  <2>2. \A n \in Loads : Unexpired(flight[n].result)'
    <3>1. \A n \in Loads : Unexpired(Failed(n)) /\ Unexpired(flight[n].result)
      BY <1>0 DEF BroughtAgrees, Unexpired, Failed
    <3> QED
      BY <3>1 DEF Unexpired
  <2>3. ASSUME NEW u \in Lookers, pc'[u] = "store"
        PROVE  /\ loaded'[u].load = current'[u]
               /\ loaded'[u].ok =>
                    IF path'[u] \in CustomPaths
                    THEN loaded'[u].scope \in Covering[path'[u]] \cup {NoScope}
                    ELSE loaded'[u].scope = Scope[path'[u]]
               /\ Unexpired(loaded[u])'
    BY <1>0, <1>3, <2>3 DEF BroughtAgrees, Unexpired
  <2> QED
    BY <2>1, <2>2, <2>3 DEF BroughtAgrees
<1> QED
  BY <1>1, <1>2, <1>4, <1>5 DEF CacheInv

-----------------------------------------------------------------------------
(***************************************************************************)
(* The steps of a lookup keep the books of the loads.                      *)
(***************************************************************************)
LEMMA LookupKeeps ==
  ASSUME CacheInv, NEW th \in Lookers, NEW p \in Paths, Lookup(th, p)
  PROVE  CacheInv'
<1>0. CacheTypeOK /\ LoadsAgree /\ BroughtAgrees /\ pc[th] = "idle"
  BY DEF CacheInv, Lookup
<1>1. /\ pc' \in [Lookers -> {"idle", "enter", "wait", "load", "store"}]
      /\ pc'[th] = "enter" /\ path'[th] = p
      /\ \A u \in Lookers \ {th} : pc'[u] = pc[u] /\ path'[u] = path[u] /\ got'[u] = got[u]
      /\ path' \in [Lookers -> Paths \cup {NoPath}]
      /\ checked_at' \in [Lookers -> Nat]
      /\ avoid' \in [Lookers -> SUBSET Loads]
  BY <1>0 DEF CacheTypeOK, Lookup
<1>2. got' \in [Lookers -> Results] /\ got'[th] = Failed(NoLoad)
  BY <1>0, FailedIsResult DEF CacheTypeOK, Lookup, NoLoad
<1>3. CacheTypeOK'
  BY <1>0, <1>1, <1>2 DEF CacheTypeOK, Lookup
<1>4. Reserve'
  <2>1. Entering' = Entering \cup {th} /\ th \notin Entering
    BY <1>0, <1>1 DEF Entering
  <2>2. Cardinality(Entering') = Cardinality(Entering) + 1
    BY <2>1, EnteringIsFinite, FS_AddElement
  <2>3. loads' = loads /\ loads \in Nat /\ loads + Cardinality(Entering) < MaxLoads
    BY <1>0 DEF Lookup, Entering, CacheTypeOK
  <2>4. loads' + Cardinality(Entering') <= MaxLoads
    BY <2>2, <2>3, EnteringIsFinite
  <2> QED
    BY <2>4 DEF Reserve, Entering
<1>5. LoadsAgree'
  BY <1>0, <1>1 DEF LoadsAgree, Loader, Lookup
<1>6. BroughtAgrees'
  <2>1. \A u \in Lookers : Unexpired(got[u])'
    BY <1>0, <1>1, <1>2, FailedIsResult DEF BroughtAgrees, Unexpired, NoLoad
  <2>2. \A u \in Lookers : pc'[u] = "store" =>
          /\ pc[u] = "store" /\ path'[u] = path[u] /\ loaded'[u] = loaded[u]
          /\ current'[u] = current[u]
    BY <1>0, <1>1 DEF Lookup
  <2> QED
    BY <1>0, <2>1, <2>2 DEF BroughtAgrees, Unexpired, Lookup
<1> QED
  BY <1>3, <1>4, <1>5, <1>6 DEF CacheInv

LEMMA ReuseKeeps ==
  ASSUME CacheInv, NEW th \in Lookers, Reuse(th)
  PROVE  CacheInv'
<1>0. CacheTypeOK
  BY DEF CacheInv
<1>1. PICK e \in Best(Usable(path[th], checked_at[th])) :
        Return(th, Loaded(e.load, TRUE, e.expires, e.scope, checked_at[th]))
  BY DEF Reuse
<1>2. e \in entries /\ reusable(e, checked_at[th])
  BY <1>1 DEF Best, Usable, Matching
<1>3. /\ e.load \in 0 .. MaxLoads /\ e.expires \in Nat
      /\ e.scope \in Scopes \cup {NoScope} /\ checked_at[th] \in Nat
  BY <1>0, <1>2 DEF CacheTypeOK, Entry, Loads
<1>4. LET r == Loaded(e.load, TRUE, e.expires, e.scope, checked_at[th])
      IN  r \in Results /\ Unexpired(r)
  <2> DEFINE r == Loaded(e.load, TRUE, e.expires, e.scope, checked_at[th])
  <2>1. r \in Results /\ r.expires = e.expires /\ r.at = checked_at[th]
    BY <1>3 DEF Loaded, Results
  <2>2. Unexpired(r)
    BY <1>2, <2>1 DEF Unexpired, reusable
  <2> QED
    BY <2>1, <2>2
<1> QED
  <2>1. flight' \in [Loads -> Flights] /\ flight' = flight
    BY <1>0 DEF Reuse, CacheTypeOK
  <2> QED
    BY <1>0, <1>1, <1>4, <2>1, ReturnKeeps DEF Reuse, CacheTypeOK

LEMMA JoinKeeps ==
  ASSUME CacheInv, NEW th \in Lookers, Join(th)
  PROVE  CacheInv'
<1>0. /\ CacheTypeOK /\ LoadsAgree /\ BroughtAgrees
      /\ pc[th] = "enter" /\ path[th] \in Paths
  BY DEF CacheInv, Join, Miss, LoadsAgree
<1>1. /\ flights[FlightKey(path[th])] \in 1 .. loads /\ loads \in 0 .. MaxLoads
  BY <1>0, KeyFacts DEF CacheTypeOK, LoadsAgree, Join, NoLoad
<1>2. /\ pc' \in [Lookers -> {"idle", "enter", "wait", "load", "store"}]
      /\ pc'[th] = "wait" /\ current'[th] = flights[FlightKey(path[th])]
      /\ current' \in [Lookers -> 0 .. MaxLoads]
      /\ \A u \in Lookers \ {th} : pc'[u] = pc[u] /\ current'[u] = current[u]
  BY <1>0, <1>1 DEF CacheTypeOK, Join
<1>3. CacheTypeOK'
  BY <1>0, <1>2 DEF CacheTypeOK, Join
<1>4. Reserve'
  <2>1. Entering' \subseteq Entering /\ loads' = loads
    BY <1>2 DEF Entering, Join
  <2> QED
    BY <2>1, ReserveKept
<1>5. LoadsAgree'
  BY <1>0, <1>1, <1>2 DEF LoadsAgree, Loader, Join
<1>6. BroughtAgrees'
  <2>1. \A u \in Lookers : pc'[u] = "store" => pc[u] = "store" /\ current'[u] = current[u]
    BY <1>2
  <2> QED
    BY <1>0, <2>1 DEF BroughtAgrees, Unexpired, Join
<1> QED
  BY <1>3, <1>4, <1>5, <1>6 DEF CacheInv

LEMMA BeginKeeps ==
  ASSUME CacheInv, NEW th \in Lookers, Begin(th)
  PROVE  CacheInv' /\ loads + 1 \in Loads
<1>0. /\ CacheTypeOK /\ LoadsAgree /\ BroughtAgrees
      /\ pc[th] = "enter" /\ path[th] \in Paths
  BY DEF CacheInv, Begin, Miss, LoadsAgree
<1> DEFINE n == loads + 1
           key == FlightKey(path[th])
<1>1. Entering' = Entering \ {th} /\ th \in Entering
  BY <1>0 DEF Entering, Begin, CacheTypeOK
<1>2. Cardinality(Entering') = Cardinality(Entering) - 1
  BY <1>1, EnteringIsFinite, FS_RemoveElement
<1>3. /\ loads \in Nat /\ loads + Cardinality(Entering) <= MaxLoads
      /\ Cardinality(Entering) # 0
  <2>1. Cardinality(Entering) # 0
    BY <1>1, EnteringIsFinite, FS_EmptySet
  <2>2. loads \in Nat /\ loads + Cardinality(Entering) <= MaxLoads
    BY DEF CacheInv, CacheTypeOK, Reserve, Entering
  <2> QED
    BY <2>1, <2>2
<1>4. n \in Loads /\ n \in 0 .. MaxLoads
  BY <1>3, EnteringIsFinite DEF Loads
<1>5. Reserve'
  <2>1. loads' + Cardinality(Entering') <= MaxLoads
    BY <1>2, <1>3, EnteringIsFinite DEF Begin
  <2> QED
    BY <2>1 DEF Reserve, Entering
<1>6. /\ pc' \in [Lookers -> {"idle", "enter", "wait", "load", "store"}]
      /\ pc'[th] = "load" /\ current'[th] = n /\ loads' = n
      /\ current' \in [Lookers -> 0 .. MaxLoads]
      /\ \A u \in Lookers \ {th} : pc'[u] = pc[u] /\ current'[u] = current[u]
  BY <1>0, <1>4 DEF CacheTypeOK, Begin
<1>7. /\ flights' \in [Keys -> 0 .. MaxLoads] /\ key \in Keys
      /\ flights'[key] = n /\ \A k \in Keys \ {key} : flights'[k] = flights[k]
  BY <1>0, <1>4, KeyFacts DEF CacheTypeOK, Begin
<1>8. CacheTypeOK'
  BY <1>0, <1>4, <1>6, <1>7 DEF CacheTypeOK, Begin
<1>9. LoadsAgree'
  <2>1. \A k \in Keys : flights'[k] <= loads'
    BY <1>0, <1>3, <1>6, <1>7 DEF CacheTypeOK, LoadsAgree
  <2>2. \A u \in Lookers : pc'[u] # "idle" => path'[u] \in Paths
    BY <1>0, <1>6 DEF LoadsAgree, Begin
  <2>3. \A u \in Lookers : Loader(u)' \/ pc'[u] = "wait" => current'[u] \in 1 .. loads'
    BY <1>0, <1>3, <1>6 DEF LoadsAgree, Loader
  <2>4. \A a, b \in Lookers : a # b /\ Loader(a)' /\ Loader(b)' => current'[a] # current'[b]
    BY <1>0, <1>3, <1>6 DEF LoadsAgree, Loader
  <2>5. ASSUME NEW u \in Lookers, Loader(u)', ~flight'[current'[u]].invalidated
        PROVE  flights'[FlightKey(path'[u])] = current'[u]
    <3>1. CASE u = th
      BY <1>6, <1>7, <3>1 DEF Begin
    <3>2. CASE u # th
      <4>1. /\ Loader(u) /\ current'[u] = current[u] /\ path'[u] = path[u]
            /\ flight' = flight
        BY <1>6, <2>5, <3>2 DEF Loader, Begin
      <4>2. /\ flights[FlightKey(path[u])] = current[u] /\ current[u] \in 1 .. loads
            /\ path[u] \in Paths
        BY <1>0, <2>5, <4>1 DEF LoadsAgree, Loader
      <4>3. FlightKey(path[u]) # key
        BY <1>0, <4>2 DEF Begin, NoLoad
      <4> QED
        BY <1>7, <4>1, <4>2, <4>3, KeyFacts
    <3> QED
      BY <3>1, <3>2
  <2>6. \A m \in Loads : m > loads' => ~flight'[m].invalidated
    BY <1>0, <1>3, <1>6 DEF LoadsAgree, Loads, Begin
  <2> QED
    BY <1>0, <2>1, <2>2, <2>3, <2>4, <2>5, <2>6 DEF LoadsAgree, Begin
<1>10. BroughtAgrees'
  <2>1. \A u \in Lookers : pc'[u] = "store" => pc[u] = "store" /\ current'[u] = current[u]
    BY <1>6
  <2> QED
    BY <1>0, <2>1 DEF BroughtAgrees, Unexpired, Begin
<1> QED
  BY <1>4, <1>5, <1>8, <1>9, <1>10 DEF CacheInv

\* What a provider brings belongs to its load and to a scope of its path.
LEMMA BroughtFacts ==
  ASSUME CacheInv, NEW th \in Lookers, pc[th] = "load", NEW v \in Brought(th)
  PROVE  LET value == Accept(v)
         IN  /\ value \in Results /\ value.load = current[th] /\ Unexpired(value)
             /\ value.ok => IF path[th] \in CustomPaths
                            THEN value.scope \in Covering[path[th]] \cup {NoScope}
                            ELSE value.scope = Scope[path[th]]
<1>0. /\ current[th] \in 0 .. MaxLoads /\ clock \in Nat /\ path[th] \in Paths
  BY DEF CacheInv, CacheTypeOK, LoadsAgree
<1>1. CASE v = Failed(current[th])
  <2>1. v \in Results /\ ~v.ok /\ v.load = current[th] /\ Unexpired(v)
    BY <1>0, <1>1, FailedIsResult
  <2> QED
    BY <2>1 DEF Accept
<1>2. ASSUME NEW present \in BOOLEAN, NEW expires \in Nat,
             NEW s \in ScopesOf(path[th]),
             v = Loaded(current[th], present, expires, s, clock)
      PROVE  LET value == Accept(v)
             IN  /\ value \in Results /\ value.load = current[th] /\ Unexpired(value)
                 /\ value.ok => IF path[th] \in CustomPaths
                                THEN value.scope \in Covering[path[th]] \cup {NoScope}
                                ELSE value.scope = Scope[path[th]]
  <2>1. /\ s \in Scopes \cup {NoScope}
        /\ IF path[th] \in CustomPaths THEN s \in Covering[path[th]] \cup {NoScope}
                                       ELSE s = Scope[path[th]]
    BY <1>0 DEF ScopesOf
  <2>2. /\ v \in Results /\ v.ok /\ v.load = current[th] /\ v.expires = expires
        /\ v.scope = s /\ v.at = clock
    BY <1>0, <1>2, <2>1, LoadedIsResult
  <2>3. CASE expires # 0 /\ expires <= clock
    <3>1. Accept(v) = Failed(current[th])
      BY <2>2, <2>3 DEF Accept
    <3> QED
      BY <1>0, <3>1, FailedIsResult
  <2>4. CASE ~(expires # 0 /\ expires <= clock)
    <3>1. Accept(v) = v
      BY <2>2, <2>4 DEF Accept
    <3> QED
      BY <1>0, <2>1, <2>2, <2>4, <3>1 DEF Unexpired
  <2> QED
    BY <2>3, <2>4
<1>3. CASE /\ path[th] \notin CustomPaths
           /\ v = Loaded(current[th], FALSE, 0, Scope[path[th]], clock)
  BY <1>2, <1>3 DEF ScopesOf
<1>4. CASE \E life \in Lifetimes,
              s \in ScopesOf(path[th]) :
              v = Loaded(current[th], TRUE, Expiry(life), s, clock)
  <2>1. PICK life \in Lifetimes,
             s \in ScopesOf(path[th]) :
             v = Loaded(current[th], TRUE, Expiry(life), s, clock)
    BY <1>4
  <2>2. Expiry(life) \in Nat
    BY <1>0 DEF Expiry
  <2> QED
    BY <1>2, <2>1, <2>2
<1>5. \/ v = Failed(current[th])
      \/ path[th] \notin CustomPaths /\ v = Loaded(current[th], FALSE, 0, Scope[path[th]], clock)
      \/ \E life \in Lifetimes, s \in ScopesOf(path[th]) :
           v = Loaded(current[th], TRUE, Expiry(life), s, clock)
  <2> DEFINE F(life, s) == Loaded(current[th], TRUE, Expiry(life), s, clock)
             N == Loaded(current[th], FALSE, 0, Scope[path[th]], clock)
             C == {F(life, s) : life \in Lifetimes, s \in ScopesOf(path[th])}
  <2>1. v \in {Failed(current[th])} \cup (IF path[th] \in CustomPaths THEN {} ELSE {N}) \cup C
    <3>1. Brought(th) = {Failed(current[th])} \cup
                        (IF path[th] \in CustomPaths THEN {} ELSE {N}) \cup C
      BY DEF Brought
    <3> HIDE DEF N, C
    <3> QED
      BY <3>1
  <2>2. ASSUME v \in C
        PROVE  \E life \in Lifetimes, s \in ScopesOf(path[th]) : v = F(life, s)
    <3> HIDE DEF F
    <3> QED
      BY <2>2
  <2> HIDE DEF N, C
  <2>3. v = Failed(current[th]) \/ (path[th] \notin CustomPaths /\ v = N) \/ v \in C
    BY <2>1
  <2> QED
    BY <2>2, <2>3 DEF N
<1> QED
  BY <1>1, <1>3, <1>4, <1>5

LEMMA LoadKeeps ==
  ASSUME CacheInv, NEW th \in Lookers, Load(th)
  PROVE  CacheInv'
<1>0. CacheTypeOK /\ LoadsAgree /\ BroughtAgrees /\ pc[th] = "load"
  BY DEF CacheInv, Load
<1>1. PICK v \in Brought(th) : loaded' = [loaded EXCEPT ![th] = Accept(v)]
  BY DEF Load
<1>2. /\ Accept(v) \in Results /\ Accept(v).load = current[th] /\ Unexpired(Accept(v))
      /\ Accept(v).ok => IF path[th] \in CustomPaths
                         THEN Accept(v).scope \in Covering[path[th]] \cup {NoScope}
                         ELSE Accept(v).scope = Scope[path[th]]
  BY <1>0, <1>1, BroughtFacts
<1>3. /\ loaded' \in [Lookers -> Results] /\ loaded'[th] = Accept(v)
      /\ pc' \in [Lookers -> {"idle", "enter", "wait", "load", "store"}]
      /\ pc'[th] = "store"
      /\ \A u \in Lookers \ {th} : pc'[u] = pc[u] /\ loaded'[u] = loaded[u]
  BY <1>0, <1>1, <1>2 DEF CacheTypeOK, Load
<1>4. CacheTypeOK'
  BY <1>0, <1>3 DEF CacheTypeOK, Load
<1>5. Reserve'
  <2>1. Entering' \subseteq Entering /\ loads' = loads
    BY <1>0, <1>3 DEF Entering, Load
  <2> QED
    BY <2>1, ReserveKept
<1>6. LoadsAgree'
  BY <1>0, <1>3 DEF LoadsAgree, Loader, Load
<1>7. BroughtAgrees'
  <2>1. ASSUME NEW u \in Lookers, pc'[u] = "store"
        PROVE  /\ loaded'[u].load = current'[u]
               /\ loaded'[u].ok =>
                    IF path'[u] \in CustomPaths
                    THEN loaded'[u].scope \in Covering[path'[u]] \cup {NoScope}
                    ELSE loaded'[u].scope = Scope[path'[u]]
               /\ Unexpired(loaded[u])'
    <3>1. path' = path /\ current' = current
      BY DEF Load
    <3>2. CASE u = th
      BY <1>2, <1>3, <3>1, <3>2 DEF Unexpired
    <3>3. CASE u # th
      BY <1>0, <1>3, <2>1, <3>1, <3>3 DEF BroughtAgrees, Unexpired
    <3> QED
      BY <3>2, <3>3
  <2> QED
    BY <1>0, <2>1 DEF BroughtAgrees, Unexpired, Load
<1> QED
  BY <1>4, <1>5, <1>6, <1>7 DEF CacheInv

LEMMA CompletedFacts ==
  ASSUME CacheTypeOK, NEW n \in Loads, NEW value \in Results, flight' = Completed(n, value)
  PROVE  /\ flight' \in [Loads -> Flights]
         /\ \A m \in Loads \ {n} : flight'[m] = flight[m]
         /\ flight'[n].invalidated = flight[n].invalidated
         /\ flight'[n].result \in {flight[n].result, value}
<1> DEFINE w == IF Waiters(n) = {} THEN flight[n].result ELSE value
<1>1. flight[n] \in Flights /\ w \in Results /\ w \in {flight[n].result, value}
  BY FlightFacts
<1> DEFINE f == [flight EXCEPT ![n].done = TRUE]
           v == IF Waiters(n) = {} THEN f[n].result ELSE value
<1>2. flight \in [Loads -> Flights]
  BY DEF CacheTypeOK
<1>3. /\ f[n] = [flight[n] EXCEPT !.done = TRUE] /\ DOMAIN f = Loads
      /\ \A m \in Loads \ {n} : f[m] = flight[m]
  BY <1>2
<1>4. /\ f[n] \in Flights /\ f[n].invalidated = flight[n].invalidated
      /\ f[n].result = flight[n].result
  BY <1>1, <1>3 DEF Flights
<1>5. flight' = [f EXCEPT ![n].result = v] /\ v = w
  BY <1>4 DEF Completed
<1> HIDE DEF f, v, w
<1>6. /\ flight'[n] = [f[n] EXCEPT !.result = w] /\ DOMAIN flight' = Loads
      /\ \A m \in Loads \ {n} : flight'[m] = flight[m]
      /\ flight' = [m \in Loads |-> flight'[m]]
  BY <1>3, <1>5
<1>7. /\ flight'[n] \in Flights /\ flight'[n].invalidated = flight[n].invalidated
      /\ flight'[n].result = w
  BY <1>1, <1>4, <1>6 DEF Flights
<1>8. flight' \in [Loads -> Flights]
  BY <1>2, <1>6, <1>7
<1> QED
  BY <1>1, <1>6, <1>7, <1>8

LEMMA SharedKeeps ==
  ASSUME CacheInv, NEW th \in Lookers, Shared(th)
  PROVE  CacheInv'
<1>1. current[th] \in Loads /\ CacheTypeOK /\ BroughtAgrees
  BY DEF CacheInv, CacheTypeOK, LoadsAgree, Shared, Loads
<1>2. flight[current[th]].result \in Results /\ Unexpired(flight[current[th]].result)
  BY <1>1, FlightFacts DEF BroughtAgrees
<1>3. /\ flight' \in [Loads -> Flights]
      /\ \A n \in Loads : /\ flight'[n].invalidated = flight[n].invalidated
                           /\ flight'[n].result \in {flight[n].result, Failed(n)}
  <2> DEFINE n == current[th]
             w == IF Waiters(n) = {th} THEN Failed(n) ELSE flight[n].result
  <2>1. /\ flight \in [Loads -> Flights] /\ flight[n] \in Flights
        /\ w \in Results /\ w \in {flight[n].result, Failed(n)}
    BY <1>1, FlightFacts, FailedIsResult DEF CacheTypeOK
  <2>2. flight' = [flight EXCEPT ![n] = [flight[n] EXCEPT !.result = w]]
    BY <2>1 DEF Shared
  <2> HIDE DEF w
  <2>3. LET f == [flight[n] EXCEPT !.result = w]
        IN  f \in Flights /\ f.invalidated = flight[n].invalidated /\ f.result = w
    BY <2>1 DEF Flights
  <2> QED
    BY <1>1, <2>1, <2>2, <2>3
<1> QED
  BY <1>1, <1>2, <1>3, ReturnKeeps DEF Shared, CacheTypeOK

\* What becomes an entry.
LEMMA InsertFacts ==
  ASSUME CacheInv, NEW th \in Lookers, pc[th] = "store", Kept(path[th], current[th], loaded[th]),
         NEW e \in Insert(path[th] \in CustomPaths, loaded[th])
  PROVE  \/ e \in entries
         \/ /\ Entry(e) /\ e.load = current[th]
            /\ e.custom <=> path[th] \in CustomPaths
            /\ path[th] \in CustomPaths => e.scope \in Covering[path[th]]
            /\ path[th] \notin CustomPaths => e.scope = Scope[path[th]]
<1> DEFINE custom == path[th] \in CustomPaths
           value == loaded[th]
<1>1. /\ path[th] \in Paths /\ current[th] \in Loads /\ value \in Results
      /\ value.load = current[th] /\ value.ok
      /\ custom => value.scope \in Covering[path[th]]
      /\ ~custom => value.scope = Scope[path[th]]
  BY DEF CacheInv, CacheTypeOK, LoadsAgree, Loader, BroughtAgrees, Kept, Loads
<1>2. value.scope \in Scopes /\ value.expires \in Nat
  BY <1>1 DEF Results
<1>3. CASE e \notin entries
  <2>1. e = [custom |-> custom, scope |-> value.scope, load |-> value.load,
             expires |-> value.expires,
             refresh |-> refresh_time(value.expires, value.at, ~custom)]
    BY <1>3 DEF Insert
  <2>2. /\ e.custom = custom /\ e.scope = value.scope /\ e.load = value.load
        /\ e.expires = value.expires
    BY <2>1
  <2>3. custom \in BOOLEAN
    OBVIOUS
  <2> QED
    BY <1>1, <1>2, <2>2, <2>3 DEF Entry
<1> QED
  BY <1>3

\* The flight of a load that ends, and the map without it.
LEMMA StoreFacts ==
  ASSUME CacheInv, NEW th \in Lookers, Store(th)
  PROVE  /\ pc[th] = "store" /\ path[th] \in Paths /\ current[th] \in Loads
         /\ current[th] \in 1 .. loads /\ loaded[th] \in Results
         /\ Return(th, loaded[th])
         /\ flight' \in [Loads -> Flights]
         /\ \A m \in Loads : /\ flight'[m].invalidated = flight[m].invalidated
                             /\ flight'[m].result \in {flight[m].result, loaded[th]}
                             /\ m # current[th] => flight'[m].result = flight[m].result
         /\ flights' \in [Keys -> 0 .. MaxLoads]
         /\ \A k \in Keys : /\ flights'[k] \in {flights[k], NoLoad}
                            /\ flights[k] # current[th] => flights'[k] = flights[k]
         /\ \/ entries' = entries
            \/ /\ Kept(path[th], current[th], loaded[th])
               /\ entries' = Insert(path[th] \in CustomPaths, loaded[th])
         /\ UNCHANGED <<loads, clock, rejected, avoid, rejections>>
<1>1. /\ pc[th] = "store" /\ path[th] \in Paths /\ current[th] \in Loads
      /\ current[th] \in 1 .. loads /\ loaded[th] \in Results /\ CacheTypeOK
  BY DEF CacheInv, CacheTypeOK, LoadsAgree, Loader, Store, Loads
<1>2. flight' = Completed(current[th], loaded[th])
  BY DEF Store
<1>3. /\ flight' \in [Loads -> Flights]
      /\ \A m \in Loads : /\ flight'[m].invalidated = flight[m].invalidated
                          /\ flight'[m].result \in {flight[m].result, loaded[th]}
                          /\ m # current[th] => flight'[m].result = flight[m].result
  BY <1>1, <1>2, CompletedFacts
<1>4. /\ flights' \in [Keys -> 0 .. MaxLoads]
      /\ \A k \in Keys : /\ flights'[k] \in {flights[k], NoLoad}
                         /\ flights[k] # current[th] => flights'[k] = flights[k]
  <2>1. CASE flights[FlightKey(path[th])] = current[th]
    <3>1. flights' = [flights EXCEPT ![FlightKey(path[th])] = NoLoad]
      BY <2>1 DEF Store
    <3> QED
      BY <1>1, <2>1, <3>1, KeyFacts DEF CacheTypeOK, NoLoad
  <2>2. CASE flights[FlightKey(path[th])] # current[th]
    BY <1>1, <2>2 DEF Store, CacheTypeOK
  <2> QED
    BY <2>1, <2>2
<1>5. \/ entries' = entries
      \/ /\ Kept(path[th], current[th], loaded[th])
         /\ entries' = Insert(path[th] \in CustomPaths, loaded[th])
  BY DEF Store
<1>6. Return(th, loaded[th]) /\ UNCHANGED <<loads, clock, rejected, avoid, rejections>>
  BY DEF Store
<1> QED
  BY <1>1, <1>3, <1>4, <1>5, <1>6

LEMMA StoreKeeps ==
  ASSUME CacheInv, NEW th \in Lookers, Store(th)
  PROVE  CacheInv'
<1>0. /\ CacheTypeOK /\ LoadsAgree /\ BroughtAgrees /\ pc[th] = "store"
      /\ current[th] \in Loads /\ loaded[th] \in Results /\ Return(th, loaded[th])
      /\ loads' = loads
  BY StoreFacts DEF CacheInv
<1>1. CacheTypeOK'
  <2>1. \A e \in entries' : Entry(e)
    BY <1>0, StoreFacts, InsertFacts DEF CacheTypeOK
  <2> QED
    BY <1>0, <2>1, StoreFacts, ReturnFacts DEF CacheTypeOK
<1>2. Reserve'
  <2>1. Entering' \subseteq Entering
    BY <1>0, ReturnFacts DEF Entering
  <2> QED
    BY <1>0, <2>1, ReserveKept
<1>3. \A u \in Lookers : Loader(u)' \/ pc'[u] = "wait" \/ pc'[u] # "idle" =>
        u # th /\ pc'[u] = pc[u] /\ path'[u] = path[u] /\ current'[u] = current[u]
               /\ loaded'[u] = loaded[u]
  BY <1>0, ReturnFacts DEF Loader
<1>4. LoadsAgree'
  <2>1. \A m \in Loads : flight'[m].result.load = m
    BY <1>0, StoreFacts DEF LoadsAgree, BroughtAgrees
  <2>2. \A m \in Loads : m > loads' => ~flight'[m].invalidated
    BY <1>0, StoreFacts DEF LoadsAgree
  <2>3. \A k \in Keys : flights'[k] <= loads'
    BY <1>0, StoreFacts DEF LoadsAgree, CacheTypeOK, NoLoad
  <2>4. ASSUME NEW u \in Lookers, Loader(u)', ~flight'[current'[u]].invalidated
        PROVE  flights'[FlightKey(path'[u])] = current'[u]
    <3>1. /\ u # th /\ Loader(u) /\ path'[u] = path[u] /\ current'[u] = current[u]
      BY <1>3, <2>4 DEF Loader
    <3>2. /\ path[u] \in Paths /\ current[u] # current[th] /\ current[u] \in 1 .. loads
      BY <1>0, <3>1 DEF LoadsAgree, Loader
    <3>3. ~flight[current[u]].invalidated
      BY <1>0, <2>4, <3>1, <3>2, StoreFacts DEF CacheTypeOK, Loads
    <3>4. flights[FlightKey(path[u])] = current[u]
      BY <1>0, <3>1, <3>3 DEF LoadsAgree
    <3> QED
      BY <3>1, <3>2, <3>4, StoreFacts, KeyFacts
  <2>5. /\ \A u \in Lookers : pc'[u] # "idle" => path'[u] \in Paths
        /\ \A u \in Lookers : Loader(u)' \/ pc'[u] = "wait" => current'[u] \in 1 .. loads'
    BY <1>0, <1>3 DEF LoadsAgree, Loader
  <2>6. \A a, b \in Lookers : a # b /\ Loader(a)' /\ Loader(b)' => current'[a] # current'[b]
    BY <1>0, <1>3 DEF LoadsAgree, Loader
  <2> QED
    BY <2>1, <2>2, <2>3, <2>4, <2>5, <2>6 DEF LoadsAgree
<1>5. BroughtAgrees'
  <2>1. Unexpired(loaded[th])
    BY <1>0 DEF BroughtAgrees
  <2>2. \A u \in Lookers : Unexpired(got[u])'
    <3> SUFFICES ASSUME NEW u \in Lookers PROVE Unexpired(got[u])'
      OBVIOUS
    <3>1. CASE u = th
      BY <1>0, <2>1, <3>1, ReturnFacts DEF Unexpired
    <3>2. CASE u # th
      BY <1>0, <3>2, ReturnFacts DEF BroughtAgrees, Unexpired
    <3> QED
      BY <3>1, <3>2
  <2>3. \A m \in Loads : Unexpired(flight[m].result)'
    BY <1>0, <2>1, StoreFacts DEF BroughtAgrees, Unexpired
  <2>4. ASSUME NEW u \in Lookers, pc'[u] = "store"
        PROVE  /\ loaded'[u].load = current'[u]
               /\ loaded'[u].ok =>
                    IF path'[u] \in CustomPaths
                    THEN loaded'[u].scope \in Covering[path'[u]] \cup {NoScope}
                    ELSE loaded'[u].scope = Scope[path'[u]]
               /\ Unexpired(loaded[u])'
    BY <1>0, <1>3, <2>4 DEF BroughtAgrees, Unexpired
  <2> QED
    BY <2>2, <2>3, <2>4 DEF BroughtAgrees
<1> QED
  BY <1>1, <1>2, <1>4, <1>5 DEF CacheInv

\* A rejection takes the load that the map has, and only this one.
LEMMA InvalidateFacts ==
  ASSUME CacheInv, NEW p \in Paths, invalidate(p)
  PROVE  /\ flight' \in [Loads -> Flights]
         /\ \A m \in Loads : /\ flight'[m].result = flight[m].result
                             /\ m # flights[FlightKey(p)] =>
                                  flight'[m].invalidated = flight[m].invalidated
                             /\ m = flights[FlightKey(p)] => flight'[m].invalidated
         /\ flights' \in [Keys -> 0 .. MaxLoads]
         /\ flights'[FlightKey(p)] = NoLoad
         /\ \A k \in Keys \ {FlightKey(p)} : flights'[k] = flights[k]
         /\ rejected' \in [Paths -> SUBSET Loads]
         /\ rejected'[p] = 1 .. loads
         /\ \A q \in Paths \ {p} : rejected'[q] = rejected[q]
         /\ entries' = entries \ Matching(p)
<1> DEFINE n == flights[FlightKey(p)]
<1>0. CacheTypeOK /\ FlightKey(p) \in Keys /\ n \in 0 .. MaxLoads
  BY KeyFacts DEF CacheInv, CacheTypeOK
<1>1. /\ flight' \in [Loads -> Flights]
      /\ \A m \in Loads : /\ flight'[m].result = flight[m].result
                          /\ m # n => flight'[m].invalidated = flight[m].invalidated
                          /\ m = n => flight'[m].invalidated
  <2>1. CASE n = NoLoad
    <3>1. flight' = flight
      BY <2>1 DEF invalidate
    <3> QED
      BY <1>0, <2>1, <3>1 DEF CacheTypeOK, Loads, NoLoad
  <2>2. CASE n # NoLoad
    <3>1. n \in Loads
      BY <1>0, <2>2 DEF Loads, NoLoad
    <3>2. flight' = [flight EXCEPT ![n].invalidated = TRUE]
      BY <2>2 DEF invalidate
    <3>3. /\ flight \in [Loads -> Flights] /\ flight[n] \in Flights
      BY <1>0, <3>1, FlightFacts DEF CacheTypeOK
    <3> HIDE DEF n
    <3>4. [flight[n] EXCEPT !.invalidated = TRUE] \in Flights
      BY <3>3 DEF Flights
    <3> QED
      BY <3>1, <3>2, <3>3, <3>4 DEF Flights
  <2> QED
    BY <2>1, <2>2
<1>2. /\ flights' \in [Keys -> 0 .. MaxLoads] /\ flights'[FlightKey(p)] = NoLoad
      /\ \A k \in Keys \ {FlightKey(p)} : flights'[k] = flights[k]
  BY <1>0 DEF CacheTypeOK, invalidate, NoLoad
<1>3. /\ rejected' \in [Paths -> SUBSET Loads] /\ rejected'[p] = 1 .. loads
      /\ \A q \in Paths \ {p} : rejected'[q] = rejected[q]
  <2>1. 1 .. loads \subseteq Loads
    BY <1>0 DEF CacheTypeOK, Loads
  <2> QED
    BY <1>0, <2>1 DEF CacheTypeOK, invalidate
<1> QED
  BY <1>1, <1>2, <1>3 DEF invalidate

LEMMA InvalidateKeeps ==
  ASSUME CacheInv, NEW p \in Paths, invalidate(p)
  PROVE  CacheInv'
<1>0. CacheTypeOK /\ LoadsAgree /\ BroughtAgrees
  BY DEF CacheInv
<1>1. UNCHANGED <<loads, pc, path, checked_at, current, loaded, got, clock, avoid>>
  BY DEF invalidate
<1>2. CacheTypeOK'
  BY <1>0, <1>1, InvalidateFacts DEF CacheTypeOK
<1>3. Reserve'
  BY <1>1 DEF CacheInv, Reserve
<1>4. LoadsAgree'
  <2>1. \A m \in Loads : m > loads' => ~flight'[m].invalidated
    <3> SUFFICES ASSUME NEW m \in Loads, m > loads PROVE ~flight'[m].invalidated
      BY <1>1
    <3>1. flights[FlightKey(p)] <= loads /\ loads \in Nat /\ flights[FlightKey(p)] \in Nat
      BY <1>0, KeyFacts DEF LoadsAgree, CacheTypeOK
    <3>2. m # flights[FlightKey(p)]
      BY <3>1 DEF Loads
    <3>3. flight'[m].invalidated = flight[m].invalidated
      BY <3>2, InvalidateFacts
    <3> QED
      BY <1>0, <3>3 DEF LoadsAgree
  <2>2. ASSUME NEW k \in Keys
        PROVE  flights'[k] <= loads'
    <3>1. flights'[k] = NoLoad \/ flights'[k] = flights[k]
      BY InvalidateFacts
    <3>2. flights[k] <= loads /\ loads \in Nat /\ loads' = loads
      BY <1>0, <1>1 DEF LoadsAgree, CacheTypeOK
    <3> QED
      BY <3>1, <3>2 DEF NoLoad
  <2>3. ASSUME NEW u \in Lookers, Loader(u)', ~flight'[current'[u]].invalidated
        PROVE  flights'[FlightKey(path'[u])] = current'[u]
    <3>1. /\ Loader(u) /\ path'[u] = path[u] /\ current'[u] = current[u]
          /\ path[u] \in Paths /\ current[u] \in Loads
      BY <1>0, <1>1, <2>3 DEF LoadsAgree, Loader, CacheTypeOK, Loads
    <3>2. current[u] # flights[FlightKey(p)] /\ ~flight[current[u]].invalidated
      BY <2>3, <3>1, InvalidateFacts
    <3>3. flights[FlightKey(path[u])] = current[u]
      BY <1>0, <3>1, <3>2 DEF LoadsAgree
    <3> QED
      BY <3>1, <3>2, <3>3, InvalidateFacts, KeyFacts
  <2>4. \A m \in Loads : flight'[m].result.load = m
    BY <1>0, InvalidateFacts DEF LoadsAgree
  <2> QED
    BY <1>0, <1>1, <2>1, <2>2, <2>3, <2>4 DEF LoadsAgree, Loader
<1>5. BroughtAgrees'
  BY <1>0, <1>1, InvalidateFacts DEF BroughtAgrees, Unexpired
<1> QED
  BY <1>2, <1>3, <1>4, <1>5 DEF CacheInv

LEMMA CacheStutters ==
  ASSUME CacheInv, clock' \in Nat,
         UNCHANGED <<entries, flights, flight, loads, pc, path, checked_at, current,
                     loaded, got, rejected, avoid>>
  PROVE  CacheInv'
<1>1. CacheTypeOK'
  BY DEF CacheInv, CacheTypeOK
<1>2. Reserve' /\ LoadsAgree' /\ BroughtAgrees'
  BY DEF CacheInv, Reserve, LoadsAgree, Loader, BroughtAgrees, Unexpired
<1> QED
  BY <1>1, <1>2 DEF CacheInv

LEMMA CacheStarts == CacheInit => CacheInv
<1> SUFFICES ASSUME CacheInit PROVE CacheInv
  OBVIOUS
<1>1. Failed(NoLoad) \in Results /\ NoLoad \in 0 .. MaxLoads /\ ~Failed(NoLoad).ok
  BY FailedIsResult DEF NoLoad
<1>2. ASSUME NEW n \in Loads
      PROVE  /\ flight[n] \in Flights /\ ~flight[n].invalidated
             /\ flight[n].result = Failed(n) /\ Failed(n).load = n /\ Unexpired(Failed(n))
  <2>1. n \in 0 .. MaxLoads
    BY DEF Loads
  <2>2. flight[n] = [done |-> FALSE, invalidated |-> FALSE, result |-> Failed(n)]
    BY DEF CacheInit
  <2> QED
    BY <2>1, <2>2, FailedIsResult DEF Flights
<1>3. flight \in [Loads -> Flights]
  <2>1. flight = [n \in Loads |-> [done |-> FALSE, invalidated |-> FALSE,
                                   result |-> Failed(n)]]
    BY DEF CacheInit
  <2>2. \A n \in Loads : [done |-> FALSE, invalidated |-> FALSE,
                          result |-> Failed(n)] \in Flights
    BY <1>2, <2>1
  <2> QED
    BY <2>1, <2>2
<1>4. CacheTypeOK
  BY <1>1, <1>3 DEF CacheTypeOK, CacheInit
<1>5. Entering = {}
  BY DEF Entering, CacheInit
<1>6. Reserve
  <2>1. Cardinality(Entering) = 0
    BY <1>5, FS_EmptySet
  <2> QED
    BY <2>1 DEF Reserve, Entering, CacheInit
<1>7. LoadsAgree
  BY <1>2 DEF LoadsAgree, Loader, CacheInit, NoLoad
<1>8. BroughtAgrees
  BY <1>1, <1>2 DEF BroughtAgrees, Unexpired, CacheInit
<1> QED
  BY <1>4, <1>6, <1>7, <1>8 DEF CacheInv

LEMMA CacheStep ==
  ASSUME CacheInv, [CacheNext]_cacheVars
  PROVE  CacheInv'
<1>1. ASSUME NEW th \in Lookers, NEW p \in Paths, Lookup(th, p)
      PROVE  CacheInv'
  BY <1>1, LookupKeeps
<1>2. ASSUME NEW th \in Lookers, Proceed(th)
      PROVE  CacheInv'
  BY <1>2, ReuseKeeps, JoinKeeps, BeginKeeps, LoadKeeps, StoreKeeps, SharedKeeps DEF Proceed
<1>3. ASSUME NEW p \in Paths, invalidate(p)
      PROVE  CacheInv'
  BY <1>3, InvalidateKeeps
<1>4. CASE ClockTicks
  BY <1>4, CacheStutters DEF ClockTicks, CacheInv, CacheTypeOK
<1>5. CASE UNCHANGED cacheVars
  BY <1>5, CacheStutters DEF cacheVars, CacheInv, CacheTypeOK
<1> QED
  BY <1>1, <1>2, <1>3, <1>4, <1>5 DEF CacheNext, Quiet

LEMMA CacheInvAlways == CacheSpec => []CacheInv
BY CacheStarts, CacheStep, PTL DEF CacheSpec

\* Two threads load for one key at the same time only after the older load was
\* invalidated.
THEOREM LoadsAreShared == CacheSpec => []SharedLoad
<1>1. CacheInv => SharedLoad
  BY DEF CacheInv, LoadsAgree, Loader, SharedLoad
<1> QED
  BY <1>1, CacheInvAlways, PTL

-----------------------------------------------------------------------------
(***************************************************************************)
(* What has been rejected is not met again.                                *)
(***************************************************************************)
LEMMA NoLoadIsYoung ==
  ASSUME Young, NEW p \in Paths
  PROVE  NoLoad \notin rejected[p]
BY DEF Young, NoLoad

\* A call returns what is young enough for it.
LEMMA YoungReturn ==
  ASSUME CacheInv, Young, NEW th \in Lookers, NEW result \in Results, Return(th, result),
         result.ok => result.load \notin avoid[th],
         UNCHANGED <<loads, rejected, avoid>>,
         \A p \in Paths : flights'[FlightKey(p)] \notin rejected[p],
         \A p \in Paths : \A e \in Matching(p)' : e.load \notin rejected[p]
  PROVE  Young'
<1>0. CacheTypeOK
  BY DEF CacheInv
<1>1. \A u \in Lookers : pc'[u] # "idle" =>
        u # th /\ pc'[u] = pc[u] /\ path'[u] = path[u] /\ current'[u] = current[u]
  BY <1>0, ReturnFacts
<1>2. \A u \in Lookers : pc'[u] # "idle" => avoid'[u] \subseteq rejected'[path'[u]]
  BY <1>1 DEF Young
<1>3. \A u \in Lookers : Loader(u)' \/ pc'[u] = "wait" => current'[u] \notin avoid'[u]
  BY <1>1 DEF Young, Loader
<1>4. RejectedNotReused'
  <2> SUFFICES ASSUME NEW u \in Lookers, pc'[u] = "idle", got'[u].ok
               PROVE  got'[u].load \notin avoid[u]
    BY DEF RejectedNotReused
  <2>1. CASE u = th
    BY <1>0, <2>1, ReturnFacts
  <2>2. CASE u # th
    BY <1>0, <2>2, ReturnFacts DEF Young, RejectedNotReused
  <2> QED
    BY <2>1, <2>2
<1> QED
  BY <1>2, <1>3, <1>4 DEF Young

LEMMA LookupYoung ==
  ASSUME CacheInv, Young, NEW th \in Lookers, NEW p \in Paths, Lookup(th, p)
  PROVE  Young'
<1>0. CacheTypeOK
  BY DEF CacheInv
<1>1. /\ pc'[th] = "enter" /\ path'[th] = p /\ avoid'[th] = rejected[p]
      /\ \A u \in Lookers \ {th} : /\ pc'[u] = pc[u] /\ path'[u] = path[u]
                                   /\ avoid'[u] = avoid[u] /\ got'[u] = got[u]
      /\ UNCHANGED <<entries, flights, loads, current, rejected>>
  BY <1>0 DEF CacheTypeOK, Lookup
<1>2. \A q \in Paths : Matching(q)' = Matching(q)
  BY <1>1 DEF Matching
<1>3. RejectedNotReused'
  BY <1>1 DEF Young, RejectedNotReused
<1>4. \A u \in Lookers : pc'[u] # "idle" => avoid'[u] \subseteq rejected'[path'[u]]
  BY <1>1 DEF Young
<1>5. \A u \in Lookers : Loader(u)' \/ pc'[u] = "wait" => current'[u] \notin avoid'[u]
  BY <1>1 DEF Young, Loader
<1> QED
  BY <1>1, <1>2, <1>3, <1>4, <1>5 DEF Young

LEMMA ReuseYoung ==
  ASSUME CacheInv, Young, NEW th \in Lookers, Reuse(th)
  PROVE  Young'
<1>0. CacheTypeOK /\ path[th] \in Paths /\ pc[th] = "enter"
  BY DEF CacheInv, LoadsAgree, Reuse
<1>1. PICK e \in Best(Usable(path[th], checked_at[th])) :
        Return(th, Loaded(e.load, TRUE, e.expires, e.scope, checked_at[th]))
  BY DEF Reuse
<1>2. e \in Matching(path[th]) /\ e \in entries
  BY <1>1 DEF Best, Usable, Matching
<1>3. e.load \notin avoid[th]
  BY <1>0, <1>2 DEF Young
<1>4. /\ e.load \in 0 .. MaxLoads /\ e.expires \in Nat
      /\ e.scope \in Scopes \cup {NoScope} /\ checked_at[th] \in Nat
  BY <1>0, <1>2 DEF CacheTypeOK, Entry, Loads
<1>5. LET r == Loaded(e.load, TRUE, e.expires, e.scope, checked_at[th])
      IN  r \in Results /\ r.load = e.load
  BY <1>4 DEF Loaded, Results
<1>6. UNCHANGED <<entries, flights, loads, rejected, avoid>>
  BY DEF Reuse
<1>7. /\ \A p \in Paths : flights'[FlightKey(p)] \notin rejected[p]
      /\ \A p \in Paths : \A f \in Matching(p)' : f.load \notin rejected[p]
  BY <1>6 DEF Young, Matching
<1> QED
  BY <1>1, <1>3, <1>5, <1>6, <1>7, YoungReturn

LEMMA JoinYoung ==
  ASSUME CacheInv, Young, NEW th \in Lookers, Join(th)
  PROVE  Young'
<1>0. CacheTypeOK /\ path[th] \in Paths /\ pc[th] = "enter"
  BY DEF CacheInv, LoadsAgree, Join, Miss
<1>1. /\ pc'[th] = "wait" /\ current'[th] = flights[FlightKey(path[th])]
      /\ \A u \in Lookers \ {th} : pc'[u] = pc[u] /\ current'[u] = current[u]
      /\ UNCHANGED <<entries, flights, loads, path, got, rejected, avoid>>
  BY <1>0 DEF CacheTypeOK, Join
<1>2. current'[th] \notin avoid[th]
  BY <1>0, <1>1 DEF Young
<1>3. \A q \in Paths : Matching(q)' = Matching(q)
  BY <1>1 DEF Matching
<1>4. RejectedNotReused'
  BY <1>1 DEF Young, RejectedNotReused
<1>5. /\ \A u \in Lookers : pc'[u] # "idle" => avoid'[u] \subseteq rejected'[path'[u]]
      /\ \A u \in Lookers : Loader(u)' \/ pc'[u] = "wait" => current'[u] \notin avoid'[u]
  BY <1>0, <1>1, <1>2 DEF Young, Loader
<1> QED
  BY <1>1, <1>3, <1>4, <1>5 DEF Young

LEMMA BeginYoung ==
  ASSUME CacheInv, Young, NEW th \in Lookers, Begin(th)
  PROVE  Young'
<1>0. CacheTypeOK /\ path[th] \in Paths /\ pc[th] = "enter" /\ loads \in Nat
  BY DEF CacheInv, CacheTypeOK, LoadsAgree, Begin, Miss
<1>1. /\ pc'[th] = "load" /\ current'[th] = loads + 1 /\ loads' = loads + 1
      /\ \A u \in Lookers \ {th} : pc'[u] = pc[u] /\ current'[u] = current[u]
      /\ \A k \in Keys : flights'[k] = flights[k] \/ flights'[k] = loads + 1
      /\ UNCHANGED <<entries, path, got, rejected, avoid>>
  BY <1>0, KeyFacts DEF CacheTypeOK, Begin
<1>2. \A p \in Paths : rejected[p] \subseteq 1 .. loads /\ loads + 1 \notin rejected[p]
  BY <1>0 DEF Young
<1>3. current'[th] \notin avoid[th]
  BY <1>0, <1>1, <1>2 DEF Young
<1>4. \A p \in Paths : flights'[FlightKey(p)] \notin rejected[p]
  BY <1>1, <1>2, KeyFacts DEF Young
<1>5. \A q \in Paths : Matching(q)' = Matching(q)
  BY <1>1 DEF Matching
<1>6. RejectedNotReused'
  BY <1>1 DEF Young, RejectedNotReused
<1>7. /\ \A u \in Lookers : pc'[u] # "idle" => avoid'[u] \subseteq rejected'[path'[u]]
      /\ \A u \in Lookers : Loader(u)' \/ pc'[u] = "wait" => current'[u] \notin avoid'[u]
  BY <1>0, <1>1, <1>3 DEF Young, Loader
<1>8. \A p \in Paths : rejected'[p] \subseteq 1 .. loads'
  BY <1>0, <1>1, <1>2
<1> QED
  BY <1>1, <1>4, <1>5, <1>6, <1>7, <1>8 DEF Young

LEMMA LoadYoung ==
  ASSUME CacheInv, Young, NEW th \in Lookers, Load(th)
  PROVE  Young'
<1>0. CacheTypeOK /\ pc[th] = "load"
  BY DEF CacheInv, Load
<1>1. /\ pc'[th] = "store" /\ \A u \in Lookers \ {th} : pc'[u] = pc[u]
      /\ UNCHANGED <<entries, flights, loads, path, current, got, rejected, avoid>>
  BY <1>0 DEF CacheTypeOK, Load
<1>2. \A q \in Paths : Matching(q)' = Matching(q)
  BY <1>1 DEF Matching
<1>3. RejectedNotReused'
  BY <1>1 DEF Young, RejectedNotReused
<1>4. /\ \A u \in Lookers : pc'[u] # "idle" => avoid'[u] \subseteq rejected'[path'[u]]
      /\ \A u \in Lookers : Loader(u)' \/ pc'[u] = "wait" => current'[u] \notin avoid'[u]
  BY <1>0, <1>1 DEF Young, Loader
<1> QED
  BY <1>1, <1>2, <1>3, <1>4 DEF Young

LEMMA SharedYoung ==
  ASSUME CacheInv, Young, NEW th \in Lookers, Shared(th)
  PROVE  Young'
<1>1. current[th] \in Loads /\ CacheTypeOK
  BY DEF CacheInv, CacheTypeOK, LoadsAgree, Shared, Loads
<1>2. /\ flight[current[th]].result \in Results
      /\ flight[current[th]].result.load = current[th]
  BY <1>1, FlightFacts DEF CacheInv, LoadsAgree
<1>3. current[th] \notin avoid[th]
  BY DEF Young, Shared
<1>4. UNCHANGED <<entries, flights, loads, rejected, avoid>>
  BY DEF Shared
<1>5. /\ \A p \in Paths : flights'[FlightKey(p)] \notin rejected[p]
      /\ \A p \in Paths : \A f \in Matching(p)' : f.load \notin rejected[p]
  BY <1>4 DEF Young, Matching
<1> QED
  BY <1>2, <1>3, <1>4, <1>5, YoungReturn DEF Shared

LEMMA StoreYoung ==
  ASSUME Apart, CacheInv, Young, NEW th \in Lookers, Store(th)
  PROVE  Young'
<1> DEFINE n == current[th]
           q == path[th]
<1>0. /\ pc[th] = "store" /\ q \in Paths /\ n \in Loads /\ loaded[th] \in Results
      /\ Return(th, loaded[th]) /\ loaded[th].load = n
      /\ UNCHANGED <<loads, rejected, avoid>>
  BY StoreFacts DEF CacheInv, BroughtAgrees
<1>1. n \notin avoid[th]
  BY <1>0 DEF Young, Loader
<1>2. \A p \in Paths : flights'[FlightKey(p)] \notin rejected[p]
  BY StoreFacts, KeyFacts, NoLoadIsYoung DEF Young
<1>3. ASSUME NEW p \in Paths, NEW e \in Matching(p)'
      PROVE  e.load \notin rejected[p]
  <2>1. /\ e \in entries'
        /\ p \in CustomPaths => e.custom /\ e.scope \in Covering[p]
        /\ p \notin CustomPaths => ~e.custom /\ e.scope = Scope[p]
    BY <1>3 DEF Matching
  <2>2. CASE e \in entries
    <3>1. e \in Matching(p)
      BY <2>1, <2>2 DEF Matching
    <3> QED
      BY <3>1 DEF Young
  <2>3. CASE e \notin entries
    <3>1. /\ Kept(q, n, loaded[th]) /\ e \in Insert(q \in CustomPaths, loaded[th])
      BY <2>1, <2>3, StoreFacts
    <3>2. /\ e.load = n /\ (e.custom <=> q \in CustomPaths)
          /\ q \in CustomPaths => e.scope \in Covering[q]
          /\ q \notin CustomPaths => e.scope = Scope[q]
      BY <1>0, <2>3, <3>1, InsertFacts
    <3>3. flights[FlightKey(q)] = n
      BY <1>0, <3>1 DEF CacheInv, LoadsAgree, Loader, Kept
    <3>4. FlightKey(p) = FlightKey(q)
      <4>1. CASE p \in CustomPaths
        BY <2>1, <3>2, <4>1 DEF Apart
      <4>2. CASE p \notin CustomPaths
        BY <2>1, <3>2, <4>2 DEF FlightKey
      <4> QED
        BY <4>1, <4>2
    <3> QED
      BY <3>2, <3>3, <3>4 DEF Young
  <2> QED
    BY <2>2, <2>3
<1> QED
  BY <1>0, <1>1, <1>2, <1>3, YoungReturn

LEMMA InvalidateYoung ==
  ASSUME CacheInv, Young, NEW p \in Paths, invalidate(p)
  PROVE  Young'
<1>0. CacheTypeOK /\ loads \in Nat
  BY DEF CacheInv, CacheTypeOK
<1>1. UNCHANGED <<loads, pc, path, current, got, avoid>>
  BY DEF invalidate
<1>2. \A q \in Paths : rejected[q] \subseteq rejected'[q] /\ rejected'[q] \subseteq 1 .. loads
  <2> SUFFICES ASSUME NEW q \in Paths
               PROVE  rejected[q] \subseteq rejected'[q] /\ rejected'[q] \subseteq 1 .. loads
    OBVIOUS
  <2>1. rejected[q] \subseteq 1 .. loads
    BY DEF Young
  <2>2. rejected'[q] = IF q = p THEN 1 .. loads ELSE rejected[q]
    BY InvalidateFacts
  <2> QED
    BY <2>1, <2>2
<1>3. ASSUME NEW q \in Paths
      PROVE  flights'[FlightKey(q)] \notin rejected'[q]
  <2>1. CASE q = p
    <3>1. flights'[FlightKey(q)] = NoLoad /\ rejected'[q] = 1 .. loads
      BY <2>1, InvalidateFacts
    <3>2. NoLoad \notin 1 .. loads
      BY <1>0 DEF NoLoad
    <3> QED
      BY <3>1, <3>2
  <2>2. CASE q # p
    BY <2>2, InvalidateFacts, KeyFacts, NoLoadIsYoung DEF Young
  <2> QED
    BY <2>1, <2>2
<1>4. ASSUME NEW q \in Paths, NEW e \in Matching(q)'
      PROVE  e.load \notin rejected'[q]
  <2>1. e \in Matching(q) /\ e \notin Matching(p)
    BY <1>4, InvalidateFacts DEF Matching
  <2>2. q # p
    BY <2>1
  <2> QED
    BY <2>1, <2>2, InvalidateFacts DEF Young
<1>5. \A u \in Lookers : pc'[u] # "idle" => avoid'[u] \subseteq rejected'[path'[u]]
  BY <1>1, <1>2 DEF CacheInv, LoadsAgree, Young
<1>6. RejectedNotReused'
  BY <1>1 DEF Young, RejectedNotReused
<1>7. \A u \in Lookers : Loader(u)' \/ pc'[u] = "wait" => current'[u] \notin avoid'[u]
  BY <1>1 DEF Young, Loader
<1> QED
  BY <1>1, <1>2, <1>3, <1>4, <1>5, <1>6, <1>7 DEF Young

LEMMA YoungStutters ==
  ASSUME Young, UNCHANGED <<entries, flights, loads, pc, path, current, got, rejected, avoid>>
  PROVE  Young'
<1>1. \A q \in Paths : Matching(q)' = Matching(q)
  BY DEF Matching
<1> QED
  BY <1>1 DEF Young, Loader, RejectedNotReused

LEMMA YoungStep ==
  ASSUME Apart, CacheInv, Young, [CacheNext]_cacheVars
  PROVE  Young'
<1>1. ASSUME NEW th \in Lookers, NEW p \in Paths, Lookup(th, p)
      PROVE  Young'
  BY <1>1, LookupYoung
<1>2. ASSUME NEW th \in Lookers, Proceed(th)
      PROVE  Young'
  BY <1>2, ReuseYoung, JoinYoung, BeginYoung, LoadYoung, StoreYoung, SharedYoung DEF Proceed
<1>3. ASSUME NEW p \in Paths, invalidate(p)
      PROVE  Young'
  BY <1>3, InvalidateYoung
<1>4. CASE ClockTicks
  BY <1>4, YoungStutters DEF ClockTicks
<1>5. CASE UNCHANGED cacheVars
  BY <1>5, YoungStutters DEF cacheVars
<1> QED
  BY <1>1, <1>2, <1>3, <1>4, <1>5 DEF CacheNext, Quiet

\* Where no prefix covers two objects of a callback, a lookup returns nothing that
\* was rejected for its path before it began, and nothing that has expired.
THEOREM UsableOnly ==
  ASSUME Apart
  PROVE  CacheSpec => []OnlyUsable
<1>1. CacheInit => Young
  <2> SUFFICES ASSUME CacheInit PROVE Young
    OBVIOUS
  <2>1. \A p \in Paths : rejected[p] = {} /\ Matching(p) = {}
    BY DEF CacheInit, Matching
  <2>2. RejectedNotReused
    BY FailedIsResult DEF CacheInit, RejectedNotReused, NoLoad
  <2> QED
    BY <2>1, <2>2 DEF Young, Loader, CacheInit
<1>2. CacheInv /\ Young /\ [CacheNext]_cacheVars => Young'
  BY YoungStep
<1>3. CacheInv /\ Young => OnlyUsable
  BY DEF CacheInv, BroughtAgrees, Unexpired, Young, OnlyUsable, HandedOutUnexpired
<1> QED
  BY <1>1, <1>2, <1>3, CacheInvAlways, PTL DEF CacheSpec

\* Whatever the prefixes cover, no expired credentials are handed out.
THEOREM UnexpiredOnly == CacheSpec => []HandedOutUnexpired
<1>1. CacheInv => HandedOutUnexpired
  BY DEF CacheInv, BroughtAgrees, Unexpired, HandedOutUnexpired
<1> QED
  BY <1>1, CacheInvAlways, PTL
=============================================================================
