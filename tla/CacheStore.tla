----------------------------- MODULE CacheStore -----------------------------
(***************************************************************************)
(* The shared response cache (internal/cache/cache.go): its map, its clock *)
(* and what happens in one critical section of it.  Cache runs concurrent  *)
(* callers over these steps, Serving the request handlers of both modes.   *)
(*                                                                         *)
(* Time is in seconds.  A response keeps what the cache looks at: whether  *)
(* it is positive, ttl, the least TTL of its RRs (of the SOA for a         *)
(* negative one, 0 if there is none), and at, when it was received.        *)
(* Values are immutable here, as the copies Get and Put make are.          *)
(***************************************************************************)
EXTENDS Naturals, FiniteSets

CONSTANTS Keys,        \* cacheKey: name, type, class and DO bit
          MaxSize,     \* maxSize
          TTLMin,      \* ttlMin
          TTLMax,      \* ttlMax
          NegTTLMax,   \* negTTLMax, 0: negative caching off
          StaleMax,    \* serveStaleMaxS, 0: serve-stale off
          TTLs,        \* TTLs that responses carry
          Day,         \* 86400, where extractMinTTL starts
          DefaultTTL,  \* 60, what extractMinTTL returns for "no RRs"
          Horizon      \* bound on time

\* New replaces a MaxSize or TTLMax that is not positive by a positive default.
ASSUME OptionsAssumption ==
  /\ MaxSize \in Nat \ {0} /\ TTLMax \in Nat \ {0}
  /\ TTLMin \in Nat /\ NegTTLMax \in Nat /\ StaleMax \in Nat
ASSUME SentinelAssumption == Day \in Nat \ {0} /\ DefaultTTL \in Nat /\ DefaultTTL < Day
ASSUME TTLAssumption == TTLs \subseteq Nat
ASSUME HorizonAssumption == Horizon \in Nat

VARIABLES now,     \* the clock
          entries  \* the map: a function on the keys present

Lesser(a, b) == IF a < b THEN a ELSE b
Larger(a, b) == IF a < b THEN b ELSE a

Without(m, k) == [x \in DOMAIN m \ {k} |-> m[x]]
With(m, k, e) == [x \in DOMAIN m \cup {k} |-> IF x = k THEN e ELSE m[x]]

-----------------------------------------------------------------------------
(* Lifetimes                                                               *)

extractMinTTL(r) == IF r.ttl >= Day THEN DefaultTTL ELSE r.ttl

\* Faulty form: long-lived responses are not capped.
ClampedUncapped(t) == Larger(t, TTLMin)

Clamped(t) == Lesser(Larger(t, TTLMin), TTLMax)

isNegative(r) == r.sort = "negative"

\* The Question section of a response, seen from the request it is stored under.
Questions == {"absent", "same", "other", "several"}

\* Put refuses a response to another question or to several, and gives up on a
\* negative one without negative caching or without SOA.
Storable(q, r) ==
  /\ q \in {"absent", "same"}
  /\ isNegative(r) => NegTTLMax > 0 /\ r.ttl > 0

Lifetime(r) == IF isNegative(r) THEN Lesser(r.ttl, NegTTLMax) ELSE Clamped(extractMinTTL(r))

\* The longest an entry may live.
LifetimeCap == Larger(TTLMax, NegTTLMax)

-----------------------------------------------------------------------------
(* Reading an entry                                                        *)

IsExpired(e) == now > e.exp

WithinStaleWindow(e) == StaleMax > 0 /\ now > e.exp /\ now - e.exp <= StaleMax

\* What a reader holds after its critical section: the entry, if there is one.
Lookup(k) == {entries[x] : x \in {k} \cap DOMAIN entries}

-----------------------------------------------------------------------------
(* Critical sections                                                       *)

Soonest == {k \in DOMAIN entries : \A j \in DOMAIN entries : entries[k].exp <= entries[j].exp}

\* Faulty form: nothing is evicted.
EvictNever(k) == {entries}

\* The maps Put may continue with: one soonest-to-expire entry less if a new key
\* finds the cache full.
evictOldest(k) ==
  IF Cardinality(DOMAIN entries) >= MaxSize /\ k \notin DOMAIN entries
  THEN {Without(entries, v) : v \in Soonest}
  ELSE {entries}

Store(k, r, exp) ==
  \E m \in evictOldest(k) : entries' = With(m, k, [resp |-> r, exp |-> exp])

Delete(k) == entries' = Without(entries, k)

Tick == now < Horizon /\ now' = now + 1

=============================================================================
