--------------------------- MODULE LifecycleProofs --------------------------
(***************************************************************************)
(* The daemon's start and stop, for any set of configuration files and     *)
(* queries.                                                                *)
(***************************************************************************)
EXTENDS Lifecycle, WellFoundedInduction, TLAPS

(***************************************************************************)
(* The inductive invariant                                                 *)
(***************************************************************************)
Lost == {"exit1", "killed", "crashed"}      \* ended without a shutdown
Flying == {"resolving", "replying"}
Early == {"start", "loaded", "logged", "filtered", "chained", "mode1"}
Configured == {"logged", "filtered", "chained", "mode1", "started", "running", "stopping2", "stopping1", "closing"}

\* What main has of the file: the file, what it loads as, what is kept of it;
\* and nothing starts before the allowlist is in force.
MainInv ==
  /\ pc \in Down \union {"start", "loaded"} \union Configured
  /\ why \in {"none", "config", "log", "allowlist", "bind", "tls", "panic"} /\ filters \in BOOLEAN
  /\ pc = "start" => cfg \in File
  /\ pc = "loaded" => \E f \in File : Accepts(f, TRUE) /\ cfg = Loaded(f)
  /\ pc \in Configured => cfg.chain /\ (cfg.mode1 \/ cfg.mode2) /\ cfg.refused \subseteq {"tls"}
  /\ pc \in Configured \ {"logged"} => filters

\* Sockets, Serve loops and queries: none before the allowlist is in force,
\* and no loop before Mode 2 starts or after it has stopped.
NetInv ==
  /\ bound \subseteq Mode1 \cup Mode2 /\ idle \subseteq {"tcp", "dot"} /\ late \in BOOLEAN
  /\ loop \in [Listeners -> {"off", "serving", "draining", "ended", "dead"}]
  /\ via \in [Queries -> Mode1 \cup Mode2 \cup {"none"}]
  /\ st \in [Queries -> {"free", "resolving", "replying", "answered", "lost"}]
  /\ bound # {} \/ (\E l \in Listeners : loop[l] # "off") => filters
  /\ pc \in Early => \A l \in Listeners : loop[l] = "off"
  /\ pc \in {"stopping1", "closing", "exit0"} => bound = {} /\ \A l \in Listeners : loop[l] \in {"off", "ended", "dead"}

\* A query has been taken over some transport, with the filters in force, and
\* only a listener that closes it or a socket that is gone loses it.
TakenInv ==
  \A q \in Queries :
    /\ via[q] = "none" <=> st[q] = "free"
    /\ st[q] # "free" => filters
    /\ via[q] \in {"tcp", "dot"} => st[q] # "lost"

\* Who waits for a query in flight, unless the 5 s are over.
Awaited ==
  pc \notin Lost /\ ~late => \A q \in Queries :
    /\ via[q] = "dot" /\ st[q] \in Flying => loop["dot"] \in {"serving", "draining"}
    /\ via[q] = "doh" /\ st[q] \in Flying => loop["doh"] \in {"serving", "draining", "dead"}
    /\ via[q] = "doh" /\ st[q] = "lost" => loop["doh"] = "dead"
    /\ pc \in {"closing", "exit0"} /\ via[q] \in Mode1 => st[q] \notin Flying

LifeInv == MainInv /\ NetInv /\ TakenInv /\ Awaited

(***************************************************************************)
(* The chain of upstreams                                                  *)
(***************************************************************************)
\* A set of numbers that is not empty has a least one.
LEMMA LeastExists ==
  ASSUME NEW S, S \subseteq Nat, S # {}
  PROVE  \E k \in S : \A j \in S : k <= j
<1> DEFINE R == OpToRel(<, Nat)
<1>2. IsWellFoundedOn(R, Nat)
  BY NatLessThanWellFounded, Zenon
<1>3. \A x, y \in Nat : x < y => <<x, y>> \in R
  BY Zenon DEF OpToRel
<1> HIDE DEF R
<1>4. PICK k \in S : \A j \in S : ~(<<j, k>> \in R)
  BY <1>2, WFMin, Zenon
<1>5. \A j \in S : k <= j
  <2> TAKE j \in S
  <2>1. j \in Nat /\ k \in Nat
    BY Zenon
  <2>2. ~(j < k)
    BY <1>3, <1>4, <2>1, Zenon
  <2> QED BY <2>1, <2>2, SMT, SMTT(30)
<1> QED BY <1>5, Zenon

\* Sequences of at most one element, and what they make.
LEMMA ShortSeqs ==
  ASSUME NEW S
  PROVE  /\ <<>> \in Seq(S)
         /\ \A r \in S : <<r>> \in Seq(S)
         /\ \A s, t \in Seq(S) : s \o t \in Seq(S)
BY SMT, SMTT(30)

\* One level of the chain, over the first n upstreams.
Joined(g, u, n) == [i \in 0 .. n |-> IF i = 0 THEN <<>> ELSE g[i - 1] \o Entries(u[i])]

\* What Chain computes.
LEMMA ChainIs ==
  ASSUME NEW c, NEW u, u = c.upstreams
  PROVE  Chain(c) = (CHOOSE g : g = Joined(g, u, Len(u)))[Len(u)]
BY Zenon DEF Chain, Joined

\* The recursion has a solution.
LEMMA JoinedExists ==
  ASSUME NEW u, NEW n \in Nat
  PROVE  \E g : g = Joined(g, u, n)
<1> DEFINE Bad == {k \in Nat : ~\E g : g = Joined(g, u, k)}
<1>1. SUFFICES ASSUME Bad # {} PROVE FALSE
  BY Zenon
<1>2. PICK k \in Bad : \A j \in Bad : k <= j
  <2>1. Bad \subseteq Nat
    BY Zenon
  <2> QED BY <1>1, <2>1, LeastExists, Zenon
<1>3. CASE k = 0
  <2> DEFINE g == [i \in 0 .. 0 |-> <<>>]
  <2>1. g = Joined(g, u, 0)
    BY SMT, SMTT(30) DEF Joined
  <2> QED BY <1>2, <1>3, <2>1, Zenon
<1>4. CASE k # 0
  <2>1. k \in Nat /\ k - 1 \in Nat /\ ~(k <= k - 1)
    BY <1>2, <1>4, SMT, SMTT(30)
  <2>2. k - 1 \notin Bad
    BY <1>2, <2>1, Zenon
  <2>3. PICK h : h = Joined(h, u, k - 1)
    BY <2>1, <2>2, Zenon
  <2> DEFINE g == [i \in 0 .. k |-> IF i = k THEN h[k - 1] \o Entries(u[k]) ELSE h[i]]
  <2>4. \A i \in 0 .. (k - 1) : h[i] = IF i = 0 THEN <<>> ELSE h[i - 1] \o Entries(u[i])
    BY <2>3, Zenon DEF Joined
  <2>5. ASSUME NEW i \in 0 .. k PROVE g[i] = IF i = 0 THEN <<>> ELSE g[i - 1] \o Entries(u[i])
    <3>1. CASE i = k
      <4>0. i - 1 \in 0 .. k /\ i - 1 # k /\ i # 0
        <5> HIDE DEF g
        <5> QED BY <1>4, <2>1, <3>1, SMT, SMTT(30)
      <4>1. g[i] = h[k - 1] \o Entries(u[k])
        BY <3>1, Zenon
      <4>2. g[i - 1] = h[i - 1]
        BY <4>0, Zenon
      <4> QED BY <3>1, <4>0, <4>1, <4>2, Zenon
    <3>2. CASE i # k
      <4>1. i \in 0 .. (k - 1) /\ (i # 0 => i - 1 \in 0 .. k /\ i - 1 # k)
        BY <2>1, <3>2, SMT, SMTT(30)
      <4>2. g[i] = h[i] /\ (i # 0 => g[i - 1] = h[i - 1])
        BY <3>2, <4>1, Zenon
      <4> QED BY <2>4, <4>1, <4>2, Zenon
    <3> QED BY <3>1, <3>2, Zenon
  <2>6. g = Joined(g, u, k)
    <3>1. g = [i \in 0 .. k |-> g[i]]
      BY Zenon
    <3> HIDE DEF g
    <3> QED BY <2>5, <3>1, Zenon DEF Joined
  <2> QED BY <1>2, <2>6, Zenon
<1> QED BY <1>3, <1>4, Zenon

\* The chain keeps what the entries of the upstreams hold, and is not empty when
\* there are upstreams, each with an entry.
LEMMA ChainHolds ==
  ASSUME NEW E, NEW c, NEW u, u = c.upstreams, Len(u) \in Nat \ {0},
         \A i \in 1 .. Len(u) : Entries(u[i]) \in Seq(E) /\ Entries(u[i]) # <<>>
  PROVE  Chain(c) \in Seq(E) /\ Chain(c) # <<>>
<1> DEFINE n == Len(u)
<1>0. n \in Nat \ {0} /\ n \in Nat
  BY Zenon
<1>1. PICK g : g = Joined(g, u, n) /\ Chain(c) = g[n]
  <2>0. \E g : g = Joined(g, u, n)
    BY <1>0, JoinedExists, Zenon
  <2>1. (CHOOSE g : g = Joined(g, u, n)) = Joined(CHOOSE g : g = Joined(g, u, n), u, n)
    BY <2>0, Zenon
  <2>2. Chain(c) = (CHOOSE g : g = Joined(g, u, n))[n]
    BY ChainIs, Zenon
  <2> QED BY <2>1, <2>2, Zenon
<1> HIDE DEF n
<1>2. \A i \in 0 .. n : g[i] = IF i = 0 THEN <<>> ELSE g[i - 1] \o Entries(u[i])
  BY <1>1, Zenon DEF Joined
<1> DEFINE Bad == {i \in 0 .. n : ~(g[i] \in Seq(E) /\ (i # 0 => g[i] # <<>>))}
<1>3. SUFFICES ASSUME Bad # {} PROVE FALSE
  <2>1. n \in 0 .. n /\ n # 0
    BY <1>0, SMT, SMTT(30)
  <2> QED BY <1>1, <2>1, Zenon
<1>4. PICK k \in Bad : \A j \in Bad : k <= j
  <2>1. Bad \subseteq Nat
    BY <1>0, SMT, SMTT(30)
  <2> QED BY <1>3, <2>1, LeastExists, Zenon
<1>5. k \in 0 .. n
  BY <1>4, Zenon
<1>6. CASE k = 0
  <2>1. g[k] = <<>>
    BY <1>2, <1>5, <1>6, Zenon
  <2>2. <<>> \in Seq(E)
    BY SMT, SMTT(30)
  <2> QED BY <1>4, <1>6, <2>1, <2>2, Zenon
<1>7. CASE k # 0
  <2>1. k - 1 \in 0 .. n /\ ~(k <= k - 1) /\ k \in 1 .. n
    BY <1>0, <1>5, <1>7, SMT, SMTT(30)
  <2>2. g[k - 1] \in Seq(E)
    BY <1>4, <2>1, Zenon
  <2>3. ASSUME NEW a \in Seq(E), NEW b \in Seq(E), b # <<>> PROVE a \o b \in Seq(E) /\ a \o b # <<>>
    <3>1. Len(b) # 0 /\ Len(a \o b) = Len(a) + Len(b) /\ Len(a) \in Nat /\ Len(b) \in Nat /\ a \o b \in Seq(E)
      BY <2>3, SMT, SMTT(30)
    <3>2. Len(a \o b) # 0
      BY <3>1, SMT, SMTT(30)
    <3> QED BY <3>1, <3>2, SMT, SMTT(30)
  <2>4. g[k] = g[k - 1] \o Entries(u[k])
    BY <1>2, <1>5, <1>7, Zenon
  <2>5. Entries(u[k]) \in Seq(E) /\ Entries(u[k]) # <<>>
    BY <2>1, Zenon DEF n
  <2> QED BY <1>4, <2>2, <2>3, <2>4, <2>5, Zenon
<1> QED BY <1>6, <1>7, Zenon

(***************************************************************************)
(* What config.Load accepts                                                *)
(***************************************************************************)
\* A chain entry that is trusted by its pin if it has one, and has a path if
\* it is DoH.
SoundEntry == {e \in [proto : {"doq", "dot", "doh"}, trust : {"spki", "ca"}, pinned : BOOLEAN,
                        path : STRING \union {"", "/dns-query"}] :
                 (e.pinned => e.trust = "spki") /\ (e.proto = "doh" => e.path # "")}

\* An accepted upstream makes such entries, at least one.
LEMMA EntriesSound ==
  ASSUME NEW u, u.protos \in SUBSET {"doq", "dot", "doh"}, u.protos # {}, u.pin \in {"none", "ok"}, u.path \in STRING
  PROVE  Entries(u) \in Seq(SoundEntry) /\ Entries(u) # <<>>
<1> DEFINE path == IF u.path = "" THEN "/dns-query" ELSE u.path
           entry(p) == [proto |-> p, trust |-> Trust(u.pin), pinned |-> u.pin # "none",
                        path |-> IF p = "doh" THEN path ELSE ""]
           offered(p) == IF p \in u.protos THEN <<entry(p)>> ELSE <<>>
<1>1. Entries(u) = offered("doq") \o offered("dot") \o offered("doh")
  BY Zenon DEF Entries
<1>2. path \in STRING \union {"", "/dns-query"} /\ path # ""
  BY Zenon
<1>3. ASSUME NEW p \in {"doq", "dot", "doh"} PROVE entry(p) \in SoundEntry
  <2>1. Trust(u.pin) \in {"spki", "ca"} /\ (u.pin # "none" => Trust(u.pin) = "spki")
    BY Zenon DEF Trust, ParsesPin
  <2>2. (u.pin # "none") \in BOOLEAN
    BY Zenon
  <2>3. (IF p = "doh" THEN path ELSE "") \in STRING \union {"", "/dns-query"} /\ (p = "doh" => (IF p = "doh" THEN path ELSE "") # "")
    BY <1>2, Zenon
  <2> HIDE DEF path
  <2> QED BY <2>1, <2>2, <2>3, Zenon DEF SoundEntry
<1> HIDE DEF entry
<1>4. ASSUME NEW p \in {"doq", "dot", "doh"}
      PROVE  offered(p) \in Seq(SoundEntry) /\ (p \in u.protos => offered(p) # <<>>)
  BY <1>3, <1>4, ShortSeqs, Zenon
<1> HIDE DEF offered
<1>5. ASSUME NEW a \in Seq(SoundEntry), NEW b \in Seq(SoundEntry)
      PROVE  a \o b \in Seq(SoundEntry) /\ (a # <<>> \/ b # <<>> => a \o b # <<>>)
  <2>1. /\ Len(a \o b) = Len(a) + Len(b) /\ Len(a) \in Nat /\ Len(b) \in Nat /\ a \o b \in Seq(SoundEntry)
        /\ (a # <<>> => Len(a) # 0) /\ (b # <<>> => Len(b) # 0)
    BY <1>5, SMT, SMTT(30)
  <2>2. a # <<>> \/ b # <<>> => Len(a \o b) # 0
    BY <2>1, SMT, SMTT(30)
  <2> QED BY <2>1, <2>2, SMT, SMTT(30)
<1>6. "doq" \in u.protos \/ "dot" \in u.protos \/ "doh" \in u.protos
  BY Zenon
<1> QED BY <1>1, <1>4, <1>5, <1>6, Zenon

\* What an accepted file says, and what it loads as.
LEMMA LoadKeeps ==
  ASSUME NEW f \in File
  PROVE  /\ Loaded(f).upstreams = f.upstreams /\ Loaded(f).tls = f.tls /\ Loaded(f).service = f.service
         /\ Loaded(f).allowlist = f.allowlist /\ Loaded(f).logging = f.logging
         /\ Loaded(f).resolver.enabled = f.resolver.enabled /\ Loaded(f).resolver.listen = Listen(f)
         /\ Loaded(f).fallback = FallbackOptions(f.fallback)
<1>1. /\ DOMAIN f = {"syntax", "resolver", "service", "metrics", "upstreams", "tls", "allowlist", "dnssec",
                     "cache", "fallback", "logging"}
      /\ DOMAIN f.resolver = {"enabled", "listen"}
  BY Zenon DEF File
<1>2. Loaded(f) = [f EXCEPT !.resolver.listen = Listen(f), !.cache = CacheOptions(f.cache),
                            !.fallback = FallbackOptions(f.fallback)]
  BY Zenon DEF Loaded
<1> QED BY <1>1, <1>2, SMT, SMTT(30)

\* The upstreams of an accepted file.
LEMMA AcceptedUpstreams ==
  ASSUME NEW f \in File, Accepts(f, TRUE)
  PROVE  /\ Len(f.upstreams) \in Nat \ {0} /\ DOMAIN f.upstreams = 1 .. Len(f.upstreams)
         /\ \A i \in 1 .. Len(f.upstreams) :
              /\ f.upstreams[i].protos \in SUBSET {"doq", "dot", "doh"} /\ f.upstreams[i].protos # {}
              /\ f.upstreams[i].pin \in {"none", "ok"} /\ f.upstreams[i].path \in STRING
<1>1. f.upstreams \in Seq(Upstream)
  BY Zenon DEF File
<1>2. f.upstreams # <<>> /\ \A i \in DOMAIN f.upstreams : ValidUpstream(f.upstreams[i])
  BY Zenon DEF Accepts, Validates
<1>3. \A u \in Upstream : /\ u.protos \in SUBSET {"doq", "dot", "doh"} /\ u.pin \in {"none", "ok", "bad"}
                          /\ u.path \in STRING
  BY Zenon DEF Upstream
<1>4. /\ Len(f.upstreams) \in Nat \ {0} /\ DOMAIN f.upstreams = 1 .. Len(f.upstreams)
      /\ \A i \in 1 .. Len(f.upstreams) : f.upstreams[i] \in Upstream
  BY <1>1, <1>2, SMT, SMTT(30)
<1>5. ASSUME NEW i \in 1 .. Len(f.upstreams)
      PROVE  f.upstreams[i].protos # {} /\ f.upstreams[i].pin # "bad"
  <2>1. ValidUpstream(f.upstreams[i])
    BY <1>2, <1>4, Zenon
  <2>2. ASSUME NEW u, ValidUpstream(u) PROVE u.protos # {} /\ u.pin # "bad"
    BY <2>2, SMT, SMTT(30) DEF ValidUpstream, ParsesPin
  <2> QED BY <2>1, <2>2, Zenon
<1>6. ASSUME NEW i \in 1 .. Len(f.upstreams) PROVE f.upstreams[i].pin \in {"none", "ok"}
  BY <1>3, <1>4, <1>5, Zenon
<1> QED BY <1>3, <1>4, <1>5, <1>6, Zenon

\* The chain main builds of an accepted file.
LEMMA AcceptedChain ==
  ASSUME NEW f \in File, Accepts(f, TRUE)
  PROVE  Chain(Loaded(f)) \in Seq(SoundEntry) /\ Chain(Loaded(f)) # <<>>
<1>1. Loaded(f).upstreams = f.upstreams /\ Len(f.upstreams) \in Nat \ {0}
  BY LoadKeeps, AcceptedUpstreams, Zenon
<1>2. \A i \in 1 .. Len(f.upstreams) : Entries(f.upstreams[i]) \in Seq(SoundEntry) /\ Entries(f.upstreams[i]) # <<>>
  BY AcceptedUpstreams, EntriesSound, Zenon
<1> QED BY <1>1, <1>2, ChainHolds, Zenon

\* What main keeps of an accepted file: a chain, a mode, and nothing that
\* setupTLS may refuse but the certificate.
LEMMA AcceptedKept ==
  ASSUME NEW f \in File, Accepts(f, TRUE), NEW k, k = Kept(Loaded(f))
  PROVE  k.chain /\ (k.mode1 \/ k.mode2) /\ k.refused \subseteq {"tls"}
<1> DEFINE c == Loaded(f)
<1>1. Chain(c) # <<>> /\ c.tls = f.tls /\ c.service = f.service /\ c.resolver.enabled = f.resolver.enabled
  BY AcceptedChain, LoadKeeps, Zenon
<1> HIDE DEF c
<1>2. /\ k.mode1 = c.resolver.enabled /\ k.mode2 = c.service.enabled
      /\ k.refused = TLSRefusals(c) /\ k.chain = (Chain(c) # <<>>)
  BY Zenon DEF Kept, c
<1>3. f.resolver.enabled \/ f.service.enabled
  BY Zenon DEF Accepts, Validates
<1>4. TLSRefusals(c) \subseteq {"tls"}
  <2>1. ValidTLSAutomation(f.tls, TRUE)
    BY Zenon DEF Accepts, Validates
  <2>2. f.tls.challenge = "dns01" => HasToken(f.tls)
    BY <2>1, Zenon DEF ValidTLSAutomation
  <2>3. c.tls.challenge = "dns01" => HasToken(c.tls)
    BY <1>1, <2>2, Zenon
  <2> QED BY <2>3, Zenon DEF TLSRefusals
<1> QED BY <1>1, <1>2, <1>3, <1>4, Zenon

\* The checks main repeats find nothing.
LEMMA AcceptedTwice ==
  ASSUME NEW f \in File, Accepts(f, TRUE)
  PROVE  UpstreamRefusals(Loaded(f)) = {}
<1> DEFINE n == Len(f.upstreams)
<1>0. Loaded(f).upstreams = f.upstreams
  BY LoadKeeps, Zenon
<1>1. /\ n \in Nat \ {0} /\ DOMAIN f.upstreams = 1 .. n
      /\ \A i \in 1 .. n : f.upstreams[i].protos # {}
  BY AcceptedUpstreams, Zenon
<1>2. 1 \in 1 .. n
  <2> HIDE DEF n
  <2> QED BY <1>1, SMT, SMTT(30)
<1>3. f.upstreams # <<>>
  BY Zenon DEF Accepts, Validates
<1>4. ~\A i \in DOMAIN f.upstreams : f.upstreams[i].protos = {}
  BY <1>1, <1>2, Zenon
<1> QED BY <1>0, <1>3, <1>4, Zenon DEF UpstreamRefusals

\* What an accepted file loads as has its defaults, a chain that means what
\* the file says, and no cleartext port 53 but on loopback.
LEMMA AcceptedLoads ==
  ASSUME NEW f \in File, Accepts(f, TRUE), NEW c, c = Loaded(f)
  PROVE  /\ c.resolver.enabled => c.resolver.listen # NoAddr
         /\ \A x \in DOMAIN c.fallback : c.fallback[x] # 0
         /\ \A i \in DOMAIN Chain(c) :
              /\ Chain(c)[i].pinned => Chain(c)[i].trust = "spki"
              /\ Chain(c)[i].proto = "doh" => Chain(c)[i].path # ""
         /\ c.resolver.enabled /\ PortNumber[c.resolver.listen.port] = 53 => c.resolver.listen.host = "loopback"
<1>1. /\ c.resolver.enabled = f.resolver.enabled /\ c.resolver.listen = Listen(f)
      /\ c.fallback = FallbackOptions(f.fallback)
  BY LoadKeeps, Zenon
<1>2. c.resolver.enabled => c.resolver.listen # NoAddr
  <2>1. DefaultListen # NoAddr
    BY Zenon DEF DefaultListen, NoAddr, Addr
  <2> QED BY <1>1, <2>1, Zenon DEF Listen
<1>3. \A x \in DOMAIN c.fallback : c.fallback[x] # 0
  <2>1. /\ OrDefault(f.fallback.phase1TimeoutMs, 2000) # 0 /\ OrDefault(f.fallback.phase1DurationS, 300) # 0
        /\ OrDefault(f.fallback.threshold, 3) # 0 /\ OrDefault(f.fallback.intervalS, 30) # 0
    BY SMT, SMTT(30) DEF OrDefault
  <2> QED BY <1>1, <2>1, SMT, SMTT(30) DEF FallbackOptions
<1>4. ASSUME NEW i \in DOMAIN Chain(c)
      PROVE  /\ Chain(c)[i].pinned => Chain(c)[i].trust = "spki"
             /\ Chain(c)[i].proto = "doh" => Chain(c)[i].path # ""
  <2>1. Chain(c) \in Seq(SoundEntry)
    BY AcceptedChain, Zenon
  <2>2. ASSUME NEW s \in Seq(SoundEntry), NEW j \in DOMAIN s PROVE s[j] \in SoundEntry
    BY <2>2, SMT, SMTT(30)
  <2>3. Chain(c)[i] \in SoundEntry
    BY <2>1, <2>2, Zenon
  <2> QED BY <2>3, Zenon DEF SoundEntry
<1>5. f.resolver.enabled /\ PortNumber[Listen(f).port] = 53 => Listen(f).host = "loopback"
  BY Zenon DEF Accepts, Validates, ValidListens, ListenPortIs53, LoopbackLiteral
<1> QED BY <1>1, <1>2, <1>3, <1>4, <1>5, Zenon

(***************************************************************************)
(* The life of the daemon                                                  *)
(***************************************************************************)
\* Its start.
LEMMA LifeStart ==
  ASSUME Init
  PROVE  LifeInv
<1>1. MainInv
  <2>1. pc = "start" /\ cfg \in File /\ why = "none" /\ filters = FALSE
    BY FilesAssumption, Zenon DEF Init
  <2> QED BY <2>1, Zenon DEF MainInv, Configured, Down
<1>2. NetInv
  BY Zenon DEF Init, NetInv, Listeners, Mode1, Mode2
<1>3. TakenInv
  BY Zenon DEF Init, TakenInv
<1>4. Awaited
  BY Zenon DEF Init, Awaited, Flying
<1> QED BY <1>1, <1>2, <1>3, <1>4, Zenon DEF LifeInv

\* What goes with a change of main alone.
LEMMA MainKeeps ==
  ASSUME UNCHANGED main, MainInv
  PROVE  MainInv' /\ pc' = pc /\ cfg' = cfg /\ filters' = filters
<1>1. pc' = pc /\ cfg' = cfg /\ why' = why /\ filters' = filters
  BY Zenon DEF main
<1> QED BY <1>1, ZenonT(40) DEF MainInv

\* The queries, when main moves without ending the process.
LEMMA WorkKeeps ==
  ASSUME TakenInv, Awaited, pc \notin Lost, pc' \notin {"closing", "exit0"}, via' = via, st' = st, late' = late,
         filters => filters', loop' = loop
  PROVE  TakenInv' /\ Awaited'
<1>1. TakenInv'
  BY Zenon DEF TakenInv
<1>2. Awaited'
  BY Zenon DEF Awaited
<1> QED BY <1>1, <1>2, Zenon

\* os.Exit(1) or a panic, for a reason that Load leaves open.
LEMMA ExitKeeps ==
  ASSUME LifeInv, NEW r \in {"config", "log", "allowlist", "bind", "tls", "panic"}, Exit(r)
  PROVE  LifeInv'
<1>1. /\ pc' \in {"crashed", "exit1"} /\ why' = r /\ bound' = {} /\ idle' = {}
      /\ loop' = [l \in Listeners |-> "off"]
      /\ cfg' = cfg /\ filters' = filters /\ via' = via /\ st' = st /\ late' = late
  BY Zenon DEF Exit, work
<1>2. MainInv'
  BY <1>1, Zenon DEF LifeInv, MainInv, Configured, Down
<1>3. NetInv'
  BY <1>1, Zenon DEF LifeInv, NetInv, Early, Listeners
<1>4. TakenInv' /\ Awaited'
  BY <1>1, Zenon DEF LifeInv, TakenInv, Awaited, Lost
<1> QED BY <1>2, <1>3, <1>4, Zenon DEF LifeInv

\* A signal before signal.Notify.
LEMMA KilledKeeps ==
  ASSUME LifeInv, Killed
  PROVE  LifeInv'
<1>1. /\ pc' = "killed" /\ why' = why /\ bound' = {} /\ idle' = {}
      /\ loop' = [l \in Listeners |-> "off"]
      /\ cfg' = cfg /\ filters' = filters /\ via' = via /\ st' = st /\ late' = late
  BY Zenon DEF Killed, Goes, work
<1>2. MainInv'
  BY <1>1, Zenon DEF LifeInv, MainInv, Configured, Down
<1>3. NetInv'
  BY <1>1, Zenon DEF LifeInv, NetInv, Early, Listeners
<1>4. TakenInv' /\ Awaited'
  BY <1>1, Zenon DEF LifeInv, TakenInv, Awaited, Lost
<1> QED BY <1>2, <1>3, <1>4, Zenon DEF LifeInv

\* main moves on and touches neither sockets, nor loops, nor queries.
LEMMA AdvanceKeeps ==
  ASSUME LifeInv, MainInv', pc \notin Lost, pc' \notin {"stopping1", "closing", "exit0"}, pc' \in Early => pc \in Early,
         filters => filters', UNCHANGED <<net, work, late>>
  PROVE  LifeInv'
<1>1. /\ bound' = bound /\ loop' = loop /\ idle' = idle /\ via' = via /\ st' = st /\ late' = late
  BY Zenon DEF net, work
<1>2. NetInv'
  BY <1>1, Zenon DEF LifeInv, NetInv
<1>3. TakenInv' /\ Awaited'
  BY <1>1, WorkKeeps, Zenon DEF LifeInv
<1> QED BY <1>2, <1>3, ZenonT(40) DEF LifeInv

\* Start-up up to the chain, signal.Notify, and the signal.
LEMMA StartKeeps ==
  ASSUME LifeInv, Load \/ OpenLog \/ LoadAllowlist \/ StartChain \/ Notify \/ Signal
  PROVE  LifeInv'
<1>0. MainInv
  BY Zenon DEF LifeInv
<1>1. CASE Load
  <2>0. pc = "start" /\ cfg \in File
    BY <1>0, <1>1, Zenon DEF Load, MainInv
  <2>1. CASE ~Accepts(cfg, TRUE)
    <3>1. Exit("config")
      BY <1>1, <2>1, Zenon DEF Load
    <3> QED BY <3>1, ExitKeeps, Zenon
  <2>2. CASE Accepts(cfg, TRUE)
    <3>1. pc' = "loaded" /\ cfg' = Loaded(cfg) /\ why' = why /\ filters' = filters /\ UNCHANGED <<net, work, late>>
      BY <1>1, <2>2, Zenon DEF Load, Goes
    <3>2. MainInv'
      <4>1. \E f \in File : Accepts(f, TRUE) /\ cfg' = Loaded(f)
        BY <2>0, <2>2, <3>1, Zenon
      <4> QED BY <1>0, <3>1, <4>1, Zenon DEF MainInv, Configured
    <3>3. pc \notin Lost /\ pc' \notin {"stopping1", "closing", "exit0"} /\ pc \in Early
      BY <2>0, <3>1, Zenon DEF Lost, Early
    <3> QED BY <3>1, <3>2, <3>3, AdvanceKeeps, Zenon
  <2> QED BY <2>1, <2>2, Zenon
<1>2. CASE OpenLog
  <2>0. pc = "loaded"
    BY <1>2, Zenon DEF OpenLog
  <2>1. PICK f \in File : Accepts(f, TRUE) /\ cfg = Loaded(f)
    BY <1>0, <2>0, Zenon DEF MainInv
  <2>2. UpstreamRefusals(cfg) = {}
    BY <2>1, AcceptedTwice, Zenon
  <2>3. CASE \E r \in UpstreamRefusals(cfg) \cup (IF cfg.logging.file = "stdout" THEN {} ELSE {"log"}) : Exit(r)
    <3>1. Exit("log")
      BY <2>2, <2>3, Zenon
    <3> QED BY <3>1, ExitKeeps, Zenon
  <2>4. CASE Goes("logged") /\ cfg' = Kept(cfg) /\ UNCHANGED <<why, filters, net, work, late>>
    <3>1. pc' = "logged" /\ cfg' = Kept(cfg) /\ why' = why /\ filters' = filters /\ UNCHANGED <<net, work, late>>
      BY <2>4, Zenon DEF Goes
    <3>2. cfg'.chain /\ (cfg'.mode1 \/ cfg'.mode2) /\ cfg'.refused \subseteq {"tls"}
      BY <2>1, <3>1, AcceptedKept, Zenon
    <3>3. MainInv'
      BY <1>0, <3>1, <3>2, Zenon DEF MainInv, Configured
    <3>4. pc \notin Lost /\ pc' \notin {"stopping1", "closing", "exit0"} /\ pc \in Early
      BY <2>0, <3>1, Zenon DEF Lost, Early
    <3> QED BY <3>1, <3>3, <3>4, AdvanceKeeps, Zenon
  <2> QED BY <1>2, <2>3, <2>4, Zenon DEF OpenLog
<1>3. CASE LoadAllowlist
  <2>1. CASE Exit("allowlist")
    BY <2>1, ExitKeeps, Zenon
  <2>2. CASE Goes("filtered") /\ filters' = TRUE /\ UNCHANGED <<cfg, why, net, work, late>>
    <3>1. /\ pc = "logged" /\ pc' = "filtered" /\ cfg' = cfg /\ why' = why /\ filters' = TRUE
          /\ UNCHANGED <<net, work, late>>
      BY <1>3, <2>2, Zenon DEF LoadAllowlist, Goes
    <3>2. MainInv'
      BY <1>0, <3>1, Zenon DEF MainInv, Configured
    <3>3. pc \notin Lost /\ pc' \notin {"stopping1", "closing", "exit0"} /\ pc \in Early
      BY <3>1, Zenon DEF Lost, Early
    <3> QED BY <3>1, <3>2, <3>3, AdvanceKeeps, Zenon
  <2> QED BY <1>3, <2>1, <2>2, Zenon DEF LoadAllowlist
<1>4. CASE StartChain
  <2>0. pc = "filtered" /\ cfg.chain /\ (cfg.mode1 \/ cfg.mode2)
    BY <1>0, <1>4, Zenon DEF StartChain, MainInv, Configured
  <2>1. ChainRefusals(cfg) \subseteq {"panic"}
    BY <2>0, Zenon DEF ChainRefusals
  <2>2. CASE \E r \in ChainRefusals(cfg) : Exit(r)
    <3>1. Exit("panic")
      BY <2>1, <2>2, Zenon
    <3> QED BY <3>1, ExitKeeps, Zenon
  <2>3. CASE Goes("chained") /\ UNCHANGED <<cfg, why, filters, net, work, late>>
    <3>1. pc' = "chained" /\ cfg' = cfg /\ why' = why /\ filters' = filters /\ UNCHANGED <<net, work, late>>
      BY <2>3, Zenon DEF Goes
    <3>2. MainInv'
      BY <1>0, <2>0, <3>1, Zenon DEF MainInv, Configured
    <3>3. pc \notin Lost /\ pc' \notin {"stopping1", "closing", "exit0"} /\ pc \in Early
      BY <2>0, <3>1, Zenon DEF Lost, Early
    <3> QED BY <3>1, <3>2, <3>3, AdvanceKeeps, Zenon
  <2> QED BY <1>4, <2>2, <2>3, Zenon DEF StartChain
<1>5. CASE Notify \/ Signal
  <2>1. /\ (pc = "started" /\ pc' = "running") \/ (pc = "running" /\ pc' = "stopping2")
        /\ cfg' = cfg /\ why' = why /\ filters' = filters /\ UNCHANGED <<net, work, late>>
    BY <1>5, Zenon DEF Notify, Signal, Goes
  <2>2. MainInv'
    BY <1>0, <2>1, Zenon DEF MainInv, Configured
  <2>3. pc \notin Lost /\ pc' \notin {"stopping1", "closing", "exit0"} /\ pc' \notin Early
    BY <2>1, Zenon DEF Lost, Early
  <2> QED BY <2>1, <2>2, <2>3, AdvanceKeeps, Zenon
<1> QED BY <1>1, <1>2, <1>3, <1>4, <1>5, Zenon

\* Server.Start: the Mode 1 sockets.
LEMMA StartMode1Keeps ==
  ASSUME LifeInv, StartMode1
  PROVE  LifeInv'
<1>0. MainInv /\ NetInv /\ TakenInv /\ Awaited /\ pc = "chained"
  BY Zenon DEF LifeInv, StartMode1
<1>1. CASE Exit("bind")
  BY <1>1, ExitKeeps, Zenon
<1>2. CASE Goes("mode1") /\ bound' = (IF cfg.mode1 THEN Mode1 ELSE {})
           /\ UNCHANGED <<cfg, why, filters, loop, idle, work, late>>
  <2>1. /\ pc' = "mode1" /\ bound' \subseteq Mode1 /\ cfg' = cfg /\ why' = why /\ filters' = filters
        /\ loop' = loop /\ idle' = idle /\ via' = via /\ st' = st /\ late' = late
    BY <1>2, Zenon DEF Goes, work
  <2>2. MainInv'
    BY <1>0, <2>1, Zenon DEF MainInv, Configured
  <2>3. filters
    BY <1>0, Zenon DEF MainInv, Configured
  <2>4. NetInv'
    BY <1>0, <2>1, <2>3, Zenon DEF NetInv, Early
  <2>5. TakenInv' /\ Awaited'
    <3>1. pc \notin Lost /\ pc' \notin {"closing", "exit0"}
      BY <1>0, <2>1, Zenon DEF Lost
    <3> QED BY <1>0, <2>1, <3>1, WorkKeeps, Zenon
  <2> QED BY <2>2, <2>4, <2>5, Zenon DEF LifeInv
<1> QED BY <1>1, <1>2, Zenon DEF StartMode1

\* upstream.New and Start: TLS, then the Serve loops.  No query is in flight
\* over Mode 2 before.
LEMMA StartMode2Keeps ==
  ASSUME LifeInv, StartMode2
  PROVE  LifeInv'
<1>0. MainInv /\ NetInv /\ TakenInv /\ Awaited /\ pc = "mode1"
  BY Zenon DEF LifeInv, StartMode2
<1>1. cfg.refused \subseteq {"tls"} /\ filters
  BY <1>0, Zenon DEF MainInv, Configured
<1>2. CASE Exit("tls")
  BY <1>2, ExitKeeps, Zenon
<1>3. CASE Exit("bind")
  BY <1>3, ExitKeeps, Zenon
<1>4. CASE /\ Goes("started")
           /\ loop' = [l \in Listeners |-> IF cfg.mode2 /\ l \in cfg.listens THEN "serving" ELSE "off"]
           /\ bound' = bound \cup {l \in {"dot", "doq"} : loop'[l] = "serving"}
           /\ UNCHANGED <<cfg, why, filters, idle, work, late>>
  <2>1. /\ pc' = "started" /\ cfg' = cfg /\ why' = why /\ filters' = filters
        /\ idle' = idle /\ via' = via /\ st' = st /\ late' = late
    BY <1>4, Zenon DEF Goes, work
  <2>2. MainInv'
    BY <1>0, <2>1, Zenon DEF MainInv, Configured
  <2>3. NetInv'
    <3>1. loop' \in [Listeners -> {"off", "serving", "draining", "ended", "dead"}]
      BY <1>4, Zenon
    <3>2. bound' \subseteq Mode1 \cup Mode2
      BY <1>0, <1>4, Zenon DEF NetInv, Mode2
    <3>3. pc' \notin Early /\ pc' \notin {"stopping1", "closing", "exit0"}
      BY <2>1, Zenon DEF Early
    <3> QED BY <1>0, <1>1, <2>1, <3>1, <3>2, <3>3, Zenon DEF NetInv
  <2>4. TakenInv'
    BY <1>0, <2>1, Zenon DEF TakenInv
  <2>5. Awaited'
    <3>1. loop["dot"] = "off" /\ loop["doh"] = "off"
      BY <1>0, Zenon DEF NetInv, Early, Listeners
    <3>2. pc \notin Lost /\ pc' \notin {"closing", "exit0"}
      BY <1>0, <2>1, Zenon DEF Lost
    <3>3. "off" \notin {"serving", "draining"} /\ "off" \notin {"serving", "draining", "dead"} /\ "off" # "dead"
      BY Zenon
    <3>4. ~late => \A q \in Queries :
            /\ ~(via[q] = "dot" /\ st[q] \in Flying) /\ ~(via[q] = "doh" /\ st[q] \in Flying)
            /\ ~(via[q] = "doh" /\ st[q] = "lost")
      BY <1>0, <3>1, <3>2, <3>3, Zenon DEF Awaited
    <3> QED BY <2>1, <3>2, <3>4, Zenon DEF Awaited
  <2> QED BY <2>2, <2>3, <2>4, <2>5, Zenon DEF LifeInv
<1> QED BY <1>1, <1>2, <1>3, <1>4, Zenon DEF StartMode2

\* The Serve loops as the shutdown meets them: a step of one of them leaves
\* main, and takes a loop that has started and not ended.
LEMMA LoopsLive ==
  ASSUME LifeInv, NEW l \in Listeners, loop[l] \in {"serving", "draining"}
  PROVE  /\ filters /\ pc \notin Early /\ pc \notin {"stopping1", "closing", "exit0"}
         /\ \A s \in {"draining", "ended", "dead"} :
              [loop EXCEPT ![l] = s] \in [Listeners -> {"off", "serving", "draining", "ended", "dead"}]
<1>1. loop[l] # "off" /\ loop[l] \notin {"off", "ended", "dead"}
  BY Zenon
<1>2. filters /\ pc \notin Early /\ pc \notin {"stopping1", "closing", "exit0"}
  BY <1>1, Zenon DEF LifeInv, NetInv
<1>3. loop \in [Listeners -> {"off", "serving", "draining", "ended", "dead"}]
  BY Zenon DEF LifeInv, NetInv
<1>4. ASSUME NEW s \in {"draining", "ended", "dead"}
      PROVE  [loop EXCEPT ![l] = s] \in [Listeners -> {"off", "serving", "draining", "ended", "dead"}]
  BY <1>3, Zenon
<1> QED BY <1>2, <1>4, Zenon

\* What a step of a loop keeps: the sockets it has, and the queries if those
\* it stops waiting for are not there.
LEMMA LoopKeeps ==
  ASSUME LifeInv, UNCHANGED <<main, idle, via, late>>, filters, pc \notin Early, pc \notin {"stopping1", "closing", "exit0"},
         bound' \subseteq Mode1 \cup Mode2,
         loop' \in [Listeners -> {"off", "serving", "draining", "ended", "dead"}],
         st' \in [Queries -> {"free", "resolving", "replying", "answered", "lost"}], TakenInv', Awaited'
  PROVE  LifeInv'
<1>1. MainInv' /\ pc' = pc /\ filters' = filters
  BY MainKeeps, Zenon DEF LifeInv
<1>2. idle' = idle /\ via' = via /\ late' = late
  BY Zenon
<1>3. NetInv'
  BY <1>1, <1>2, Zenon DEF LifeInv, NetInv
<1> QED BY <1>1, <1>3, Zenon DEF LifeInv

\* Loop l goes to s, and leaves no query that it waits for.
Moved(l, s) ==
  /\ loop[l] \in {"serving", "draining"} /\ loop' = [loop EXCEPT ![l] = s]
  /\ l = "dot" => s = "draining" \/ late \/ InFlight({"dot"}) = {}
  /\ l = "doh" => s \in {"draining", "dead"} \/ late \/ InFlight({"doh"}) = {}

\* No query is lost but one over HTTP/3 or DoQ.
LosesFew ==
  \A q \in Queries :
    \/ st'[q] = st[q]
    \/ st'[q] = "lost" /\ st[q] # "free" /\ via[q] \notin Mode1 \union {"dot", "doh"}

\* Who waits for whom once a loop has moved.
LEMMA AwaitedMoves ==
  ASSUME LifeInv, UNCHANGED main, via' = via, late' = late, NEW l \in Listeners, NEW s, Moved(l, s), LosesFew
  PROVE  Awaited'
<1>0. /\ loop[l] \in {"serving", "draining"} /\ loop' = [loop EXCEPT ![l] = s]
      /\ l = "dot" => s = "draining" \/ late \/ InFlight({"dot"}) = {}
      /\ l = "doh" => s \in {"draining", "dead"} \/ late \/ InFlight({"doh"}) = {}
  BY Zenon DEF Moved
<1>1. pc' = pc
  BY Zenon DEF main
<1>2. loop \in [Listeners -> {"off", "serving", "draining", "ended", "dead"}] /\ Awaited /\ pc \notin {"closing", "exit0"}
  BY <1>0, LoopsLive, Zenon DEF LifeInv, NetInv
<1>3. SUFFICES ASSUME pc \notin Lost, ~late, NEW q \in Queries
               PROVE  /\ via[q] = "dot" /\ st'[q] \in Flying => loop'["dot"] \in {"serving", "draining"}
                      /\ via[q] = "doh" /\ st'[q] \in Flying => loop'["doh"] \in {"serving", "draining", "dead"}
                      /\ via[q] = "doh" /\ st'[q] = "lost" => loop'["doh"] = "dead"
  BY <1>1, <1>2, Zenon DEF Awaited
<1>4. /\ via[q] = "dot" /\ st[q] \in Flying => loop["dot"] \in {"serving", "draining"}
      /\ via[q] = "doh" /\ st[q] \in Flying => loop["doh"] \in {"serving", "draining", "dead"}
      /\ via[q] = "doh" /\ st[q] = "lost" => loop["doh"] = "dead"
  BY <1>2, <1>3, Zenon DEF Awaited
<1>5. via[q] \in {"dot", "doh"} => st'[q] = st[q]
  BY Zenon DEF Mode1, LosesFew
<1>6. /\ "dot" \in Listeners /\ "doh" \in Listeners
      /\ loop'["dot"] = (IF l = "dot" THEN s ELSE loop["dot"]) /\ loop'["doh"] = (IF l = "doh" THEN s ELSE loop["doh"])
  BY <1>0, <1>2, Zenon DEF Listeners
<1>7. /\ InFlight({"dot"}) = {} => ~(via[q] = "dot" /\ st[q] \in Flying)
      /\ InFlight({"doh"}) = {} => ~(via[q] = "doh" /\ st[q] \in Flying)
  BY Zenon DEF InFlight, Flying
<1> QED BY <1>0, <1>3, <1>4, <1>5, <1>6, <1>7, Zenon

\* The queries, when some that a listener closes are lost.
LEMMA TakenMoves ==
  ASSUME LifeInv, UNCHANGED main, via' = via, st' \in [Queries -> {"free", "resolving", "replying", "answered", "lost"}],
         LosesFew
  PROVE  TakenInv'
<1>1. filters' = filters /\ TakenInv
  BY Zenon DEF main, LifeInv
<1> QED BY <1>1, Zenon DEF TakenInv, LosesFew, Mode1

\* A step of a Serve loop that touches no query.
LEMMA QuietLoopKeeps ==
  ASSUME LifeInv, UNCHANGED <<main, idle, work, late>>, NEW l \in Listeners, NEW s \in {"draining", "ended", "dead"},
         Moved(l, s), bound' \subseteq bound
  PROVE  LifeInv'
<1>1. via' = via /\ st' = st /\ late' = late /\ UNCHANGED <<main, idle, via, late>> /\ UNCHANGED main
  BY Zenon DEF work
<1>2. /\ filters /\ pc \notin Early /\ pc \notin {"stopping1", "closing", "exit0"}
      /\ loop' \in [Listeners -> {"off", "serving", "draining", "ended", "dead"}]
  BY LoopsLive, Zenon DEF Moved
<1>3. /\ bound' \subseteq Mode1 \cup Mode2
      /\ st' \in [Queries -> {"free", "resolving", "replying", "answered", "lost"}]
  BY <1>1, Zenon DEF LifeInv, NetInv
<1>4. LosesFew
  BY <1>1, Zenon DEF LosesFew
<1>5. Awaited' /\ TakenInv'
  BY <1>1, <1>3, <1>4, AwaitedMoves, TakenMoves, Zenon
<1> QED BY <1>1, <1>2, <1>3, <1>5, LoopKeeps, Zenon

\* The Serve loops: they bind, stop taking connections, drain and end.
LEMMA LoopStepKeeps ==
  ASSUME LifeInv, LoopStep
  PROVE  LifeInv'
<1>0. /\ loop \in [Listeners -> {"off", "serving", "draining", "ended", "dead"}] /\ bound \subseteq Mode1 \cup Mode2
      /\ st \in [Queries -> {"free", "resolving", "replying", "answered", "lost"}]
  BY Zenon DEF LifeInv, NetInv
<1>1. "doh" \in Listeners /\ "dot" \in Listeners /\ "doq" \in Listeners /\ "doh" # "dot" /\ "doq" # "dot" /\ "doq" # "doh"
  BY Zenon DEF Listeners
<1>2. CASE DrainDoT
  <2>1. /\ loop["dot"] = "serving" /\ loop' = [loop EXCEPT !["dot"] = "draining"]
        /\ UNCHANGED <<main, idle, work, late>> /\ bound' = bound
    BY <1>2, Zenon DEF DrainDoT
  <2>2. Moved("dot", "draining")
    BY <2>1, Zenon DEF Moved
  <2> QED BY <1>1, <2>1, <2>2, QuietLoopKeeps, Zenon
<1>3. CASE EndDoT
  <2>1. /\ loop["dot"] = "draining" /\ loop' = [loop EXCEPT !["dot"] = "ended"]
        /\ UNCHANGED <<main, idle, work, late>> /\ bound' \subseteq bound
        /\ InFlight({"dot"}) = {} \/ late
    BY <1>3, Zenon DEF EndDoT
  <2>2. Moved("dot", "ended")
    BY <2>1, Zenon DEF Moved
  <2> QED BY <1>1, <2>1, <2>2, QuietLoopKeeps, Zenon
<1>4. CASE DrainDoH
  <2>1. /\ loop["doh"] = "serving" /\ loop' = [loop EXCEPT !["doh"] = "draining"]
        /\ UNCHANGED <<main, idle, work, late>> /\ bound' \subseteq bound
    BY <1>4, Zenon DEF DrainDoH
  <2>2. Moved("doh", "draining")
    BY <2>1, Zenon DEF Moved
  <2> QED BY <1>1, <2>1, <2>2, QuietLoopKeeps, Zenon
<1>5. CASE EndDoQ
  <2>1. /\ loop["doq"] = "serving" /\ loop' = [loop EXCEPT !["doq"] = "ended"]
        /\ UNCHANGED <<main, idle, work, late>> /\ bound' = bound
    BY <1>5, Zenon DEF EndDoQ
  <2>2. Moved("doq", "ended")
    BY <2>1, Zenon DEF Moved
  <2> QED BY <1>1, <2>1, <2>2, QuietLoopKeeps, Zenon
<1>6. CASE BindDoH
  <2>1. loop["doh"] = "serving" /\ UNCHANGED <<main, idle, work, late>>
    BY <1>6, Zenon DEF BindDoH
  <2>2. CASE loop' = [loop EXCEPT !["doh"] = "dead"] /\ UNCHANGED bound
    <3>1. Moved("doh", "dead") /\ bound' \subseteq bound
      BY <2>1, <2>2, Zenon DEF Moved
    <3> QED BY <1>1, <2>1, <3>1, QuietLoopKeeps, Zenon
  <2>3. CASE bound' = bound \cup (cfg.listens \cap {"doh", "doh3"}) /\ UNCHANGED loop
    <3>1. bound' \subseteq Mode1 \cup Mode2
      BY <1>0, <2>3, Zenon DEF Mode2
    <3>2. via' = via /\ st' = st /\ late' = late /\ UNCHANGED <<main, idle, via, late>> /\ pc' = pc /\ filters' = filters
      BY <2>1, Zenon DEF work, main
    <3>3. filters /\ pc \notin Early /\ pc \notin {"stopping1", "closing", "exit0"}
      BY <1>1, <2>1, LoopsLive, Zenon
    <3>4. TakenInv' /\ Awaited'
      <4>1. TakenInv /\ Awaited /\ loop' = loop
        BY <2>3, Zenon DEF LifeInv
      <4>2. TakenInv'
        BY <3>2, <4>1, Zenon DEF TakenInv
      <4>3. Awaited'
        BY <3>2, <4>1, SMT, SMTT(30) DEF Awaited
      <4> QED BY <4>2, <4>3, Zenon
    <3> QED BY <1>0, <2>3, <3>1, <3>2, <3>3, <3>4, LoopKeeps, Zenon
  <2> QED BY <1>6, <2>2, <2>3, Zenon DEF BindDoH
<1>7. CASE EndDoH
  <2>1. /\ loop["doh"] = "draining" /\ loop' = [loop EXCEPT !["doh"] = "ended"]
        /\ UNCHANGED <<main, idle, via, late>> /\ bound' \subseteq bound
        /\ InFlight({"doh"}) = {} \/ late
        /\ st' = LoseAll({"doh3"})
    BY <1>7, Zenon DEF EndDoH
  <2>2. st' \in [Queries -> {"free", "resolving", "replying", "answered", "lost"}]
    BY <1>0, <2>1, Zenon DEF LoseAll
  <2>3. LosesFew
    <3>1. ASSUME NEW q \in Queries
          PROVE  st'[q] = st[q] \/ (st'[q] = "lost" /\ st[q] # "free" /\ via[q] = "doh3")
      BY <2>1, Zenon DEF LoseAll, InFlight
    <3>2. "doh3" \notin Mode1 \union {"dot", "doh"}
      BY Zenon DEF Mode1
    <3> QED BY <3>1, <3>2, Zenon DEF LosesFew
  <2>4. Moved("doh", "ended")
    BY <2>1, Zenon DEF Moved
  <2>5. /\ filters /\ pc \notin Early /\ pc \notin {"stopping1", "closing", "exit0"}
        /\ loop' \in [Listeners -> {"off", "serving", "draining", "ended", "dead"}]
    BY <1>1, <2>1, LoopsLive, Zenon
  <2>6. UNCHANGED main /\ via' = via /\ late' = late
    BY <2>1, Zenon
  <2>7. Awaited'
    BY <1>1, <2>3, <2>4, <2>6, AwaitedMoves, Zenon
  <2>8. TakenInv'
    BY <2>2, <2>3, <2>6, TakenMoves, Zenon
  <2> QED BY <1>0, <2>1, <2>2, <2>5, <2>7, <2>8, LoopKeeps, Zenon
<1> QED BY <1>2, <1>3, <1>4, <1>5, <1>6, <1>7, Zenon DEF LoopStep

\* A listener that ends by itself: HTTP/3 goes with the DoH listener.
LEMMA ListenerDiesKeeps ==
  ASSUME LifeInv, NEW l \in Listeners, ListenerDies(l)
  PROVE  LifeInv'
<1>0. /\ bound \subseteq Mode1 \cup Mode2
      /\ st \in [Queries -> {"free", "resolving", "replying", "answered", "lost"}]
  BY Zenon DEF LifeInv, NetInv
<1>1. /\ loop[l] = "serving" /\ l \in {"doq", "doh"} /\ loop' = [loop EXCEPT ![l] = "dead"]
      /\ UNCHANGED <<main, idle, via, late>> /\ bound' \subseteq bound
  BY Zenon DEF ListenerDies
<1>2. st' \in [Queries -> {"free", "resolving", "replying", "answered", "lost"}]
  BY <1>0, Zenon DEF ListenerDies
<1>3. LosesFew
  <2>1. ASSUME NEW q \in Queries
        PROVE  st'[q] = st[q] \/ (st'[q] = "lost" /\ st[q] # "free" /\ via[q] = "doh3")
    BY Zenon DEF ListenerDies
  <2>2. "doh3" \notin Mode1 \union {"dot", "doh"}
    BY Zenon DEF Mode1
  <2> QED BY <2>1, <2>2, Zenon DEF LosesFew
<1>4. Moved(l, "dead")
  BY <1>1, Zenon DEF Moved
<1>5. /\ filters /\ pc \notin Early /\ pc \notin {"stopping1", "closing", "exit0"}
      /\ loop' \in [Listeners -> {"off", "serving", "draining", "ended", "dead"}]
  BY <1>1, LoopsLive, Zenon
<1>6. UNCHANGED main /\ via' = via /\ late' = late
  BY <1>1, Zenon
<1>7. Awaited'
  BY <1>3, <1>4, <1>6, AwaitedMoves, Zenon
<1>8. TakenInv'
  BY <1>2, <1>3, <1>6, TakenMoves, Zenon
<1> QED BY <1>0, <1>1, <1>2, <1>5, <1>7, <1>8, LoopKeeps, Zenon

\* A query is taken by a listener that serves.
LEMMA AcceptKeeps ==
  ASSUME LifeInv, NEW q \in Queries, NEW t \in Mode1 \cup Mode2, Accept(q, t)
  PROVE  LifeInv'
<1>0. NetInv /\ TakenInv /\ Awaited
  BY Zenon DEF LifeInv
<1>1. /\ st[q] = "free" /\ t \in bound /\ pc \notin Down
      /\ via' = [via EXCEPT ![q] = t] /\ st' = [st EXCEPT ![q] = "resolving"]
      /\ UNCHANGED main /\ UNCHANGED net /\ late' = late
      /\ (t = "dot" => loop["dot"] = "serving") /\ (t = "doh" => loop["doh"] = "serving")
  BY Zenon DEF Accept, Serves, Alive
<1>2. MainInv' /\ pc' = pc /\ filters' = filters
  BY <1>1, MainKeeps, Zenon DEF LifeInv
<1>3. bound' = bound /\ loop' = loop /\ idle' = idle
  BY <1>1, Zenon DEF net
<1>4. filters /\ t # "none" /\ pc \notin {"closing", "exit0"}
  BY <1>0, <1>1, Zenon DEF NetInv, Mode1, Mode2, Down
<1>5. /\ via' \in [Queries -> Mode1 \cup Mode2 \cup {"none"}]
      /\ st' \in [Queries -> {"free", "resolving", "replying", "answered", "lost"}]
      /\ via'[q] = t /\ st'[q] = "resolving" /\ \A g \in Queries \ {q} : via'[g] = via[g] /\ st'[g] = st[g]
  BY <1>0, <1>1, ZenonT(40) DEF NetInv
<1>6. NetInv'
  BY <1>0, <1>1, <1>2, <1>3, <1>5, ZenonT(40) DEF NetInv
<1>7. TakenInv'
  <2> SUFFICES ASSUME NEW g \in Queries
               PROVE  /\ via'[g] = "none" <=> st'[g] = "free"
                      /\ st'[g] # "free" => filters'
                      /\ via'[g] \in {"tcp", "dot"} => st'[g] # "lost"
    BY Zenon DEF TakenInv
  <2>1. CASE g = q
    BY <1>2, <1>4, <1>5, <2>1, Zenon
  <2>2. CASE g # q
    BY <1>0, <1>2, <1>5, <2>2, Zenon DEF TakenInv
  <2> QED BY <2>1, <2>2, Zenon
<1>8. Awaited'
  <2> SUFFICES ASSUME pc \notin Lost, ~late, NEW g \in Queries
               PROVE  /\ via'[g] = "dot" /\ st'[g] \in Flying => loop["dot"] \in {"serving", "draining"}
                      /\ via'[g] = "doh" /\ st'[g] \in Flying => loop["doh"] \in {"serving", "draining", "dead"}
                      /\ via'[g] = "doh" /\ st'[g] = "lost" => loop["doh"] = "dead"
    BY <1>1, <1>2, <1>3, <1>4, Zenon DEF Awaited
  <2>1. CASE g = q
    BY <1>1, <1>5, <2>1, Zenon
  <2>2. CASE g # q
    BY <1>0, <1>5, <2>2, Zenon DEF Awaited
  <2> QED BY <2>1, <2>2, Zenon
<1> QED BY <1>2, <1>6, <1>7, <1>8, Zenon DEF LifeInv

\* A query in flight goes on: it is resolved, answered, or lost with its
\* socket or its connection.
LEMMA ProgressKeeps ==
  ASSUME LifeInv, NEW q \in Queries, NEW s \in {"replying", "answered", "lost"}, st[q] \in Flying,
         s = "lost" => via[q] \notin {"tcp", "dot", "doh"},
         st' = [st EXCEPT ![q] = s], pc \notin Down, UNCHANGED <<main, net, via, late>>
  PROVE  LifeInv'
<1>0. NetInv /\ TakenInv /\ Awaited
  BY Zenon DEF LifeInv
<1>1. UNCHANGED main /\ UNCHANGED net /\ via' = via /\ late' = late
  BY Zenon
<1>2. MainInv' /\ pc' = pc /\ filters' = filters
  BY <1>1, MainKeeps, Zenon DEF LifeInv
<1>3. bound' = bound /\ loop' = loop /\ idle' = idle
  BY <1>1, Zenon DEF net
<1>4. st[q] # "free" /\ s # "free" /\ s # "resolving"
  BY Zenon DEF Flying
<1>5. /\ st' \in [Queries -> {"free", "resolving", "replying", "answered", "lost"}]
      /\ st'[q] = s /\ \A g \in Queries \ {q} : st'[g] = st[g]
  BY <1>0, Zenon DEF NetInv
<1>6. NetInv'
  BY <1>0, <1>1, <1>2, <1>3, <1>5, ZenonT(40) DEF NetInv
<1>7. TakenInv'
  <2> SUFFICES ASSUME NEW g \in Queries
               PROVE  /\ via[g] = "none" <=> st'[g] = "free"
                      /\ st'[g] # "free" => filters'
                      /\ via[g] \in {"tcp", "dot"} => st'[g] # "lost"
    BY <1>1, Zenon DEF TakenInv
  <2>1. CASE g = q
    <3>1. (via[q] = "none" <=> st[q] = "free") /\ (st[q] # "free" => filters)
      BY <1>0, Zenon DEF TakenInv
    <3> QED BY <1>2, <1>4, <1>5, <2>1, <3>1, Zenon
  <2>2. CASE g # q
    BY <1>0, <1>2, <1>5, <2>2, Zenon DEF TakenInv
  <2> QED BY <2>1, <2>2, Zenon
<1>8. Awaited'
  <2> SUFFICES ASSUME pc \notin Lost, ~late, NEW g \in Queries
               PROVE  /\ via[g] = "dot" /\ st'[g] \in Flying => loop["dot"] \in {"serving", "draining"}
                      /\ via[g] = "doh" /\ st'[g] \in Flying => loop["doh"] \in {"serving", "draining", "dead"}
                      /\ via[g] = "doh" /\ st'[g] = "lost" => loop["doh"] = "dead"
                      /\ pc \in {"closing", "exit0"} /\ via[g] \in Mode1 => st'[g] \notin Flying
    BY <1>1, <1>2, <1>3, SMT, SMTT(30) DEF Awaited
  <2>0. /\ via[g] = "dot" /\ st[g] \in Flying => loop["dot"] \in {"serving", "draining"}
        /\ via[g] = "doh" /\ st[g] \in Flying => loop["doh"] \in {"serving", "draining", "dead"}
        /\ via[g] = "doh" /\ st[g] = "lost" => loop["doh"] = "dead"
        /\ pc \in {"closing", "exit0"} /\ via[g] \in Mode1 => st[g] \notin Flying
    BY <1>0, Zenon DEF Awaited
  <2>1. CASE g = q
    BY <1>5, <2>0, <2>1, Zenon
  <2>2. CASE g # q
    BY <1>5, <2>0, <2>2, Zenon
  <2> QED BY <2>1, <2>2, Zenon
<1> QED BY <1>2, <1>6, <1>7, <1>8, Zenon DEF LifeInv

\* The steps of a query.
LEMMA QueryKeeps ==
  ASSUME LifeInv, NEW q \in Queries, Resolve(q) \/ Reply(q) \/ DoQConnCloses(q)
  PROVE  LifeInv'
<1>1. CASE Resolve(q)
  <2>1. /\ st' = [st EXCEPT ![q] = "replying"] /\ st[q] \in Flying /\ pc \notin Down
        /\ UNCHANGED <<main, net, via, late>>
    BY <1>1, Zenon DEF Resolve, Alive, Flying
  <2> QED BY <2>1, ProgressKeeps, Zenon
<1>2. CASE Reply(q)
  <2>1. /\ st[q] \in Flying /\ pc \notin Down /\ UNCHANGED <<main, net, via, late>>
    BY <1>2, Zenon DEF Reply, Alive, Flying
  <2>2. \/ st' = [st EXCEPT ![q] = "answered"]
        \/ st' = [st EXCEPT ![q] = "lost"] /\ via[q] = "udp"
    BY <1>2, Zenon DEF Reply
  <2> QED BY <2>1, <2>2, ProgressKeeps, Zenon
<1>3. CASE DoQConnCloses(q)
  <2>1. /\ st' = [st EXCEPT ![q] = "lost"] /\ st[q] \in Flying /\ via[q] = "doq" /\ pc \notin Down
        /\ UNCHANGED <<main, net, via, late>>
    BY <1>3, Zenon DEF DoQConnCloses, Cancelled, Stopping, InFlight, Flying, Down
  <2> QED BY <2>1, ProgressKeeps, Zenon
<1> QED BY <1>1, <1>2, <1>3, Zenon

\* Connections that idle, and the 5 s.
LEMMA IdleKeeps ==
  ASSUME LifeInv, (\E t \in {"tcp", "dot"} : Idles(t) \/ Leaves(t)) \/ FiveSeconds
  PROVE  LifeInv'
<1>1. /\ UNCHANGED main /\ bound' = bound /\ loop' = loop /\ via' = via /\ st' = st
      /\ idle' \subseteq {"tcp", "dot"} /\ (late' = late \/ late' = TRUE)
  <2>0. idle \subseteq {"tcp", "dot"}
    BY Zenon DEF LifeInv, NetInv
  <2>1. ASSUME NEW t \in {"tcp", "dot"}, Idles(t) \/ Leaves(t)
        PROVE  /\ UNCHANGED main /\ bound' = bound /\ loop' = loop /\ via' = via /\ st' = st
               /\ idle' \subseteq {"tcp", "dot"} /\ late' = late
    BY <2>0, <2>1, Zenon DEF Idles, Leaves, work
  <2>2. CASE FiveSeconds
    BY <2>0, <2>2, Zenon DEF FiveSeconds, net, work
  <2> QED BY <2>1, <2>2, Zenon
<1>2. MainInv' /\ pc' = pc /\ filters' = filters
  BY <1>1, MainKeeps, Zenon DEF LifeInv
<1>3. NetInv'
  BY <1>1, <1>2, Zenon DEF LifeInv, NetInv
<1>4. TakenInv'
  BY <1>1, <1>2, Zenon DEF LifeInv, TakenInv
<1>5. Awaited'
  <2>1. Awaited
    BY Zenon DEF LifeInv
  <2> QED BY <1>1, <1>2, <2>1, SMT, SMTT(30) DEF Awaited
<1> QED BY <1>2, <1>3, <1>4, <1>5, Zenon DEF LifeInv

\* Service.Stop: every Serve is over, or the 5 s are.
LEMMA StopMode2Keeps ==
  ASSUME LifeInv, StopMode2
  PROVE  LifeInv'
<1>0. MainInv /\ NetInv /\ TakenInv /\ Awaited
  BY Zenon DEF LifeInv
<1>1. /\ pc = "stopping2" /\ pc' = "stopping1" /\ bound' = {} /\ st' = LoseAll({"doh", "doh3", "doq"})
      /\ loop' = [l \in Listeners |-> IF loop[l] \in {"off", "dead"} THEN loop[l] ELSE "ended"]
      /\ cfg' = cfg /\ why' = why /\ filters' = filters /\ idle' = idle /\ via' = via /\ late' = late
      /\ (\A l \in Listeners : loop[l] \in {"off", "ended", "dead"}) \/ late
  BY Zenon DEF StopMode2, Goes
<1>2. MainInv'
  BY <1>0, <1>1, Zenon DEF MainInv, Configured
<1>3. \A l \in Listeners : loop'[l] \in {"off", "ended", "dead"}
  BY <1>0, <1>1, Zenon DEF NetInv
<1>4. st' \in [Queries -> {"free", "resolving", "replying", "answered", "lost"}]
  BY <1>0, <1>1, Zenon DEF LoseAll, NetInv
<1>5. filters
  BY <1>0, <1>1, Zenon DEF MainInv, Configured
<1>6. NetInv'
  <2>1. loop' \in [Listeners -> {"off", "serving", "draining", "ended", "dead"}]
    BY <1>0, <1>1, Zenon DEF NetInv
  <2>2. pc' \notin Early /\ {} \subseteq Mode1 \cup Mode2
    BY <1>1, Zenon DEF Early
  <2> QED BY <1>0, <1>1, <1>3, <1>4, <1>5, <2>1, <2>2, Zenon DEF NetInv
<1>7. ASSUME NEW q \in Queries
      PROVE  st'[q] = IF via[q] \in {"doh", "doh3", "doq"} /\ st[q] \in Flying THEN "lost" ELSE st[q]
  BY <1>1, Zenon DEF LoseAll, InFlight, Flying
<1>8. TakenInv'
  <2> SUFFICES ASSUME NEW q \in Queries
               PROVE  /\ via[q] = "none" <=> st'[q] = "free"
                      /\ st'[q] # "free" => filters
                      /\ via[q] \in {"tcp", "dot"} => st'[q] # "lost"
    BY <1>1, Zenon DEF TakenInv
  <2>1. /\ via[q] = "none" <=> st[q] = "free"
        /\ via[q] \in {"tcp", "dot"} => st[q] # "lost"
    BY <1>0, Zenon DEF TakenInv
  <2> QED BY <1>5, <1>7, <2>1, Zenon DEF Flying
<1>9. Awaited'
  <2> SUFFICES ASSUME ~late, NEW q \in Queries
               PROVE  /\ via[q] = "dot" /\ st'[q] \in Flying => loop'["dot"] \in {"serving", "draining"}
                      /\ via[q] = "doh" /\ st'[q] \in Flying => loop'["doh"] \in {"serving", "draining", "dead"}
                      /\ via[q] = "doh" /\ st'[q] = "lost" => loop'["doh"] = "dead"
    <3>1. pc' \notin {"closing", "exit0"}
      BY <1>1, Zenon
    <3> QED BY <1>1, <3>1, Zenon DEF Awaited
  <2>1. /\ via[q] = "dot" /\ st[q] \in Flying => loop["dot"] \in {"serving", "draining"}
        /\ via[q] = "doh" /\ st[q] \in Flying => loop["doh"] \in {"serving", "draining", "dead"}
        /\ via[q] = "doh" /\ st[q] = "lost" => loop["doh"] = "dead"
    <3>1. pc \notin Lost
      BY <1>1, Zenon DEF Lost
    <3> QED BY <1>0, <3>1, Zenon DEF Awaited
  <2>2. /\ loop["dot"] \in {"off", "ended", "dead"} /\ loop["doh"] \in {"off", "ended", "dead"}
        /\ loop["doh"] = "dead" => loop'["doh"] = "dead"
    BY <1>1, Zenon DEF Listeners
  <2> QED BY <1>7, <2>1, <2>2, Zenon DEF Flying
<1> QED BY <1>2, <1>6, <1>8, <1>9, Zenon DEF LifeInv

\* Server.Stop: every Mode 1 query is over, or the 5 s are.
LEMMA StopMode1Keeps ==
  ASSUME LifeInv, StopMode1
  PROVE  LifeInv'
<1>0. MainInv /\ NetInv /\ TakenInv /\ Awaited
  BY Zenon DEF LifeInv
<1>1. /\ pc = "stopping1" /\ pc' = "closing" /\ cfg' = cfg /\ why' = why /\ filters' = filters
      /\ bound' = bound /\ loop' = loop /\ idle' = idle /\ via' = via /\ st' = st /\ late' = late
      /\ InFlight(Mode1) = {} \/ late
  BY Zenon DEF StopMode1, Goes, net, work
<1>2. MainInv'
  BY <1>0, <1>1, Zenon DEF MainInv, Configured, Down
<1>3. NetInv'
  <2>1. pc' \notin Early /\ pc \in {"stopping1", "closing", "exit0"}
    BY <1>1, Zenon DEF Early
  <2> QED BY <1>0, <1>1, <2>1, Zenon DEF NetInv
<1>4. TakenInv'
  BY <1>0, <1>1, Zenon DEF TakenInv
<1>5. Awaited'
  <2>1. pc \notin Lost
    BY <1>1, Zenon DEF Lost
  <2>2. ~late => \A q \in Queries : via[q] \in Mode1 => st[q] \notin Flying
    BY <1>1, Zenon DEF InFlight, Flying
  <2> QED BY <1>0, <1>1, <2>1, <2>2, Zenon DEF Awaited
<1> QED BY <1>2, <1>3, <1>4, <1>5, Zenon DEF LifeInv

\* Close of the chain changes nothing but where main is.
LEMMA CloseChainKeeps ==
  ASSUME LifeInv, CloseChain
  PROVE  LifeInv'
<1>0. MainInv /\ NetInv /\ TakenInv /\ Awaited
  BY Zenon DEF LifeInv
<1>1. /\ pc = "closing" /\ pc' = "exit0" /\ cfg' = cfg /\ why' = why /\ filters' = filters
      /\ bound' = bound /\ loop' = loop /\ idle' = idle /\ via' = via /\ st' = st /\ late' = late
  BY Zenon DEF CloseChain, Goes, net, work
<1>2. MainInv'
  BY <1>0, <1>1, Zenon DEF MainInv, Configured, Down
<1>3. NetInv'
  <2>1. pc' \notin Early /\ pc \in {"stopping1", "closing", "exit0"}
    BY <1>1, Zenon DEF Early
  <2> QED BY <1>0, <1>1, <2>1, Zenon DEF NetInv
<1>4. TakenInv'
  BY <1>0, <1>1, Zenon DEF TakenInv
<1>5. Awaited'
  <2>1. pc \notin Lost /\ pc \in {"closing", "exit0"}
    BY <1>1, Zenon DEF Lost
  <2> QED BY <1>0, <1>1, <2>1, Zenon DEF Awaited
<1> QED BY <1>2, <1>3, <1>4, <1>5, Zenon DEF LifeInv

\* Every step keeps the invariant.
LEMMA LifeKept ==
  ASSUME LifeInv, [Next]_vars
  PROVE  LifeInv'
<1>1. CASE MainStep
  BY <1>1, StartKeeps, StartMode1Keeps, StartMode2Keeps, StopMode2Keeps, StopMode1Keeps,
     CloseChainKeeps, Zenon DEF MainStep
<1>2. CASE Next /\ ~MainStep
  BY <1>2, LoopStepKeeps, KilledKeeps, StartKeeps, IdleKeeps, ListenerDiesKeeps, AcceptKeeps, QueryKeeps, ZenonT(40)
     DEF Next
<1>3. CASE UNCHANGED vars
  <2>1. /\ UNCHANGED main /\ bound' = bound /\ loop' = loop /\ via' = via /\ st' = st /\ idle' = idle /\ late' = late
    BY <1>3, Zenon DEF vars, net, work
  <2>2. MainInv' /\ pc' = pc /\ filters' = filters
    BY <2>1, MainKeeps, Zenon DEF LifeInv
  <2> QED BY <2>1, <2>2, Zenon DEF LifeInv, NetInv, TakenInv, Awaited
<1> QED BY <1>1, <1>2, <1>3, Zenon

\* Main, the Serve loops and the queries stay in step from the file to the
\* exit, whatever the file says and however many queries there are.
THEOREM LifeInvariance == Spec => []LifeInv
BY LifeStart, LifeKept, PTL DEF Spec

(***************************************************************************)
(* What the daemon promises                                                *)
(***************************************************************************)
\* Every variable keeps its kind, and a loaded configuration has its defaults.
THEOREM LifeTyped == Spec => []TypeOK
<1>1. ASSUME LifeInv PROVE TypeOK
  <2>1. MainInv /\ NetInv
    BY <1>1, Zenon DEF LifeInv
  <2>2. ASSUME pc = "loaded"
        PROVE  /\ cfg.resolver.enabled => cfg.resolver.listen # NoAddr
               /\ \A f \in DOMAIN cfg.fallback : cfg.fallback[f] # 0
    BY <2>1, <2>2, AcceptedLoads, Zenon DEF MainInv
  <2>3. /\ pc \in Down \cup {"start", "loaded", "logged", "filtered", "chained", "mode1", "started",
                             "running", "stopping2", "stopping1", "closing"}
        /\ why \in {"none", "config", "log", "allowlist", "bind", "tls", "token", "no upstreams",
                    "no encrypted", "chain", "no mode", "panic"}
        /\ {filters, late} \subseteq BOOLEAN
    BY <2>1, ZenonT(40) DEF MainInv, NetInv, Configured
  <2> QED BY <2>1, <2>2, <2>3, Zenon DEF TypeOK, NetInv
<1> QED BY <1>1, LifeInvariance, PTL

\* A file that Load accepts is never refused later for its upstreams, its
\* modes or its token, for any file.
THEOREM LoadHasTheLastWord == Spec => []LoadRefusesFirst
<1>1. LifeInv => LoadRefusesFirst
  BY Zenon DEF LifeInv, MainInv, LoadRefusesFirst
<1> QED BY <1>1, LifeInvariance, PTL

\* Of any file that is loaded: a pinned upstream is trusted by its pin alone,
\* a DoH entry has a path, and port 53 is served on loopback only.
THEOREM FilesMeanWhatTheySay == Spec => []LoadedMeansWhatItSays
<1>1. ASSUME LifeInv PROVE LoadedMeansWhatItSays
  <2>1. ASSUME pc = "loaded" PROVE \E f \in File : Accepts(f, TRUE) /\ cfg = Loaded(f)
    BY <1>1, <2>1, Zenon DEF LifeInv, MainInv
  <2> QED BY <2>1, AcceptedLoads, ZenonT(40) DEF LoadedMeansWhatItSays
<1> QED BY <1>1, LifeInvariance, PTL

\* No query is taken before the configured allowlist is in force.
THEOREM FiltersComeFirst == Spec => []FilteredBeforeServed
<1>1. LifeInv => FilteredBeforeServed
  BY Zenon DEF LifeInv, TakenInv, FilteredBeforeServed
<1> QED BY <1>1, LifeInvariance, PTL

\* A shutdown that is over within its 5 s has answered every query taken over
\* TCP, DoT or HTTP/2, and has none left over UDP.
THEOREM ShutdownDrains == Spec => []AnsweredUnlessLate
<1>1. ASSUME LifeInv PROVE AnsweredUnlessLate
  <2> SUFFICES ASSUME pc \in {"closing", "exit0"}, ~late, NEW q \in Queries
               PROVE  /\ via[q] \in {"tcp", "dot"} => st[q] = "answered"
                      /\ via[q] = "doh" => st[q] = "answered" \/ loop["doh"] = "dead"
                      /\ via[q] = "udp" => st[q] \in {"answered", "lost"}
    BY Zenon DEF AnsweredUnlessLate
  <2>1. /\ st[q] \in {"free", "resolving", "replying", "answered", "lost"}
        /\ loop["dot"] \in {"off", "ended", "dead"} /\ loop["doh"] \in {"off", "ended", "dead"}
    BY <1>1, Zenon DEF LifeInv, NetInv, Listeners
  <2>2. (via[q] = "none" <=> st[q] = "free") /\ (via[q] \in {"tcp", "dot"} => st[q] # "lost")
    BY <1>1, Zenon DEF LifeInv, TakenInv
  <2>3. pc \notin Lost
    BY Zenon DEF Lost
  <2>4. /\ via[q] = "dot" /\ st[q] \in Flying => loop["dot"] \in {"serving", "draining"}
        /\ via[q] = "doh" /\ st[q] = "lost" => loop["doh"] = "dead"
        /\ via[q] = "doh" /\ st[q] \in Flying => loop["doh"] \in {"serving", "draining", "dead"}
        /\ via[q] \in Mode1 => st[q] \notin Flying
    BY <1>1, <2>3, Zenon DEF LifeInv, Awaited
  <2> QED BY <2>1, <2>2, <2>4, Zenon DEF Flying, Mode1
<1> QED BY <1>1, LifeInvariance, PTL

=============================================================================
