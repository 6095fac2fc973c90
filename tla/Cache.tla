------------------------------- MODULE Cache --------------------------------
(***************************************************************************)
(* Concurrent callers of the cache: Get, GetStale, Put and Clear, cut      *)
(* where the code releases c.mu or reads the clock.  Get looks an entry up *)
(* under the read lock, decides on its expiry after the lock, and deletes  *)
(* under the write lock; Put computes the expiry before it locks.          *)
(***************************************************************************)
EXTENDS CacheStore

CONSTANT Callers \* goroutines that use the cache

VARIABLES stage,  \* where each caller is
          key,    \* the key of its operation
          held,   \* the entry it looked up, if any, or is about to store
          served  \* what its last operation returned

callVars == <<now, entries, stage, key, held, served>>

Responses == [sort : {"positive", "negative"}, ttl : TTLs, at : {now}]

Nothing == [kind |-> "none", age |-> 0]

CacheInit ==
  /\ now = 0
  /\ entries = [k \in {} |-> 0]
  /\ stage = [c \in Callers |-> "idle"]
  /\ key \in [Callers -> Keys]
  /\ held = [c \in Callers |-> {}]
  /\ served = [c \in Callers |-> Nothing]

-----------------------------------------------------------------------------
\* The caller returns with something of a certain age, or with nothing.
ReturnWith(c, s) ==
  /\ stage' = [stage EXCEPT ![c] = "idle"]
  /\ held' = [held EXCEPT ![c] = {}]
  /\ served' = [served EXCEPT ![c] = s]

Aged(kind, e) == [kind |-> kind, age |-> now - e.resp.at]

\* Get and GetStale: the lookup under the read lock.
BeginRead(c, k, op) ==
  /\ stage[c] = "idle"
  /\ stage' = [stage EXCEPT ![c] = op]
  /\ key' = [key EXCEPT ![c] = k]
  /\ held' = [held EXCEPT ![c] = Lookup(k)]
  /\ served' = [served EXCEPT ![c] = Nothing]
  /\ UNCHANGED <<now, entries>>

\* Faulty form: a hit is not checked for expiry.
GetHitAnyAge(c) ==
  /\ stage[c] = "get"
  /\ \E e \in held[c] : ReturnWith(c, Aged("hit", e))
  /\ UNCHANGED <<now, entries, key>>

GetHit(c) ==
  /\ stage[c] = "get"
  /\ \E e \in held[c] : ~IsExpired(e) /\ ReturnWith(c, Aged("hit", e))
  /\ UNCHANGED <<now, entries, key>>

\* No entry, or an expired one that serve-stale keeps.
GetMiss(c) ==
  /\ stage[c] = "get"
  /\ \A e \in held[c] : IsExpired(e) /\ StaleMax > 0
  /\ ReturnWith(c, Nothing)
  /\ UNCHANGED <<now, entries, key>>

\* Faulty form: an entry is taken for expired in its last second.
GetExpiredEarly(c) ==
  /\ stage[c] = "get" /\ StaleMax = 0
  /\ \E e \in held[c] : now >= e.exp
  /\ stage' = [stage EXCEPT ![c] = "delete"]
  /\ UNCHANGED <<now, entries, key, held, served>>

GetExpired(c) ==
  /\ stage[c] = "get" /\ StaleMax = 0
  /\ \E e \in held[c] : IsExpired(e)
  /\ stage' = [stage EXCEPT ![c] = "delete"]
  /\ UNCHANGED <<now, entries, key, held, served>>

\* delete(c.entries, key), whatever the map holds by now.
GetDelete(c) ==
  /\ stage[c] = "delete"
  /\ Delete(key[c])
  /\ ReturnWith(c, Nothing)
  /\ UNCHANGED <<now, key>>

StaleHit(c) ==
  /\ stage[c] = "stale"
  /\ \E e \in held[c] : WithinStaleWindow(e) /\ ReturnWith(c, Aged("stale", e))
  /\ UNCHANGED <<now, entries, key>>

StaleMiss(c) ==
  /\ stage[c] = "stale"
  /\ \A e \in held[c] : ~WithinStaleWindow(e)
  /\ ReturnWith(c, Nothing)
  /\ UNCHANGED <<now, entries, key>>

\* Put up to its lock; a response it does not store returns without a step.
PutPrepare(c, k, q, r) ==
  /\ stage[c] = "idle" /\ Storable(q, r)
  /\ stage' = [stage EXCEPT ![c] = "put"]
  /\ key' = [key EXCEPT ![c] = k]
  /\ held' = [held EXCEPT ![c] = {[resp |-> r, exp |-> now + Lifetime(r)]}]
  /\ served' = [served EXCEPT ![c] = Nothing]
  /\ UNCHANGED <<now, entries>>

PutStore(c) ==
  /\ stage[c] = "put"
  /\ \E e \in held[c] : Store(key[c], e.resp, e.exp)
  /\ ReturnWith(c, Nothing)
  /\ UNCHANGED <<now, key>>

Clear ==
  /\ entries' = [k \in {} |-> 0]
  /\ UNCHANGED <<now, stage, key, held, served>>

ClockTicks ==
  /\ Tick
  /\ UNCHANGED <<entries, stage, key, held, served>>

-----------------------------------------------------------------------------
CallerStep(c) ==
  \/ \E k \in Keys, op \in {"get", "stale"} : BeginRead(c, k, op)
  \/ GetHit(c) \/ GetMiss(c) \/ GetExpired(c) \/ GetDelete(c)
  \/ StaleHit(c) \/ StaleMiss(c)
  \/ \E k \in Keys, q \in Questions, r \in Responses : PutPrepare(c, k, q, r)
  \/ PutStore(c)

CacheNext == (\E c \in Callers : CallerStep(c)) \/ Clear \/ ClockTicks

CacheSpec == CacheInit /\ [][CacheNext]_callVars

-----------------------------------------------------------------------------
(* Properties                                                              *)

CachedResponse == [sort : {"positive", "negative"}, ttl : TTLs, at : Nat]
CachedEntry == [resp : CachedResponse, exp : Nat]

\* Every variable has its type; the map is a partial function on the keys.
CacheTypeOK ==
  /\ now \in Nat
  /\ DOMAIN entries \subseteq Keys /\ \A k \in DOMAIN entries : entries[k] \in CachedEntry
  /\ stage \in [Callers -> {"idle", "get", "delete", "stale", "put"}]
  /\ key \in [Callers -> Keys]
  /\ held \in [Callers -> SUBSET CachedEntry]
  /\ served \in [Callers -> [kind : {"none", "hit", "stale"}, age : Nat]]

\* The cache never holds more than maxSize entries, however many Puts of new
\* keys race (the check and the eviction are in Put's one critical section).
SizeBounded == IsFiniteSet(DOMAIN entries) /\ Cardinality(DOMAIN entries) <= MaxSize

\* An answer that Get serves is no older than the lifetime cap, and one that
\* GetStale serves no older than the cap and the stale window together, also
\* when time passes, the entry is replaced or the cache is cleared between the
\* lookup and the check of its expiry.
ServedAgeBounded ==
  \A c \in Callers :
    /\ served[c].kind = "hit" => served[c].age <= LifetimeCap
    /\ served[c].kind = "stale" => served[c].age <= LifetimeCap + StaleMax

LivesWithin(e) ==
  IF isNegative(e.resp)
  THEN e.exp >= e.resp.at + 1 /\ e.exp <= e.resp.at + Lesser(e.resp.ttl, NegTTLMax)
  ELSE /\ e.exp >= e.resp.at + Lesser(TTLMin, TTLMax)
       /\ e.exp <= e.resp.at + Lesser(Larger(e.resp.ttl, TTLMin), TTLMax)

\* No entry outlives the TTLs of its records, except that a positive one is kept for
\* ttl_min; a positive one lives between ttl_min and ttl_max (ttl_max wins when they
\* cross), a negative one for at least a second and at most negTTLMax.
LifetimesClamped ==
  \A k \in DOMAIN entries : LivesWithin(entries[k])

\* An entry leaves the map by Clear, or evicted for a new key as one that expires
\* soonest in a full cache, or by a Get with serve-stale off once it has expired.
\* The one way in which Get takes a live entry away is that it found an older one
\* under the key, before this one was stored, and deletes by key (cache.go:147).
LiveEntriesStay ==
  [][\A k \in DOMAIN entries \ DOMAIN entries' :
       \/ stage' = stage
       \/ /\ Cardinality(DOMAIN entries) >= MaxSize /\ k \in Soonest
          /\ DOMAIN entries' \ DOMAIN entries # {}
       \/ /\ StaleMax = 0
          /\ \E c \in Callers :
               /\ stage[c] = "delete" /\ key[c] = k
               /\ IsExpired(entries[k]) \/ held[c] # {entries[k]}]_callVars

=============================================================================
