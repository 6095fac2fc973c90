------------------------------- MODULE Config -------------------------------
(***************************************************************************)
(* internal/config: what a configuration file turns into.  load decodes    *)
(* the file over the seeded defaults, resolves the DNS-01 token, validates *)
(* and fills defaults in; the daemon refuses what load refuses.  A value   *)
(* stands for the class of spellings the code treats alike: an address is  *)
(* the kind of its host and the spelling of its port, a pin or a provider  *)
(* is "none", "ok" or "bad".  buildUpstreamChain (cmd/rcvd) and            *)
(* pinnedTLSConfig (internal/resolver), which read the loaded              *)
(* configuration, are here too.                                            *)
(***************************************************************************)
EXTENDS Integers, Sequences, Functions, TLC

\* A key the file does not hold; toml leaves the seeded value alone.
Absent == "absent"

(***************************************************************************)
(* Listen addresses                                                        *)
(***************************************************************************)
NoAddr == [host |-> "none", port |-> "none"]
Addr(host, port) == [host |-> host, port |-> port]
DefaultListen == Addr("loopback", "5300")

\* validateListenAddr: empty, or host:port with a port and no host name.
ValidListenAddr(a) ==
  a # NoAddr => a.host \notin {"unsplit", "name"} /\ a.port # "none"

\* The port number Go's listeners bind for a spelling (Atoi, then LookupPort).
PortNumber == [s \in {"none", "53", "053", "domain", "5300"} |->
                 CASE s = "none" -> 0 [] s = "5300" -> 5300 [] OTHER -> 53]

\* Faulty form: compares the spelling.
ListenPortSpelled53(a) == a.port = "53"
ListenPortIs53(a) == PortNumber[a.port] = 53

\* net.ParseIP takes no IPv6 zone, so a zoned address is no literal here.
LoopbackLiteral(a) == a.host = "loopback"

(***************************************************************************)
(* The sections                                                            *)
(***************************************************************************)
\* dnssec, blocklists and cache are seeded with enabled = true.
On(x) == x # "false"

Listen(c) == IF c.resolver.enabled /\ c.resolver.listen = NoAddr
             THEN DefaultListen ELSE c.resolver.listen

ValidListens(c) ==
  /\ \A a \in {Listen(c), c.service.doh, c.service.dot, c.service.doq, c.metrics} :
        ValidListenAddr(a)
  /\ c.resolver.enabled /\ ListenPortIs53(Listen(c)) => LoopbackLiteral(Listen(c))

\* ParsePin, as validatePinnedPubKey applies it.
ParsesPin(pin) == pin # "bad"

MaxPort == 65535

\* One [[upstreams]] entry.  The doh_path default the loop assigns goes to
\* its copy of the entry, so it changes nothing here.
ValidUpstream(u) ==
  /\ u.name /\ u.host /\ u.ip # "bad" /\ u.protos # {}
  /\ u.doh3 => "doh" \in u.protos
  /\ u.port \in 1 .. MaxPort
  /\ ParsesPin(u.pin)

Encrypted(s) == {p \in {"doh", "dot", "doq"} : s[p] # NoAddr}

ValidAdvertise(s) ==
  s.advertise # {} => s.enabled /\ Encrypted(s) # {} /\ s.advertise \subseteq {"ip"}

\* A key that moves at every start and a pin do not go together.
ValidAutogen(c) ==
  c.service.enabled /\ c.service.cert = "autogen" =>
    \A i \in DOMAIN c.upstreams : c.upstreams[i].pin = "none"

(***************************************************************************)
(* TLS automation: the token comes from one source.                        *)
(***************************************************************************)
\* tokenFromDotenv: the first line that holds the key decides, and an empty
\* value there is an error.
DotenvYields(lines) ==
  \E i \in DOMAIN lines : lines[i] = "value" /\ \A j \in 1 .. (i - 1) : lines[j] = "other"

\* resolveDNSAPIToken
TokenResolves(t) ==
  /\ \A a, b \in t.sources : a = b
  /\ t.key => "file" \in t.sources
  /\ "env" \in t.sources => t.env
  /\ "file" \in t.sources => t.key /\ DotenvYields(t.dotenv)

\* The token is not empty once its source has been read.
HasToken(t) ==
  \/ "inline" \in t.sources
  \/ "env" \in t.sources /\ t.env
  \/ "file" \in t.sources /\ t.key /\ DotenvYields(t.dotenv)

\* Faulty form: leaves the token to the first issuance.
ValidTLSAutomationLazily(t, requireToken) ==
  \/ t.challenge \in {"", "http"} /\ t.provider = "none" /\ t.sources = {} /\ ~t.key
  \/ t.challenge = "dns01" /\ t.provider = "ok"

ValidTLSAutomation(t, requireToken) ==
  \/ /\ t.challenge \in {"", "http"}
     /\ t.provider = "none" /\ t.sources = {} /\ ~t.key
  \/ /\ t.challenge = "dns01" /\ t.provider = "ok"
     /\ requireToken => HasToken(t)

(***************************************************************************)
(* Allowlist, DNSSEC, cache, logging                                       *)
(***************************************************************************)
\* QTypeCodes: StringToType of the upper-cased name.
TypeCode == [n \in {"A", "a", "AAAA", "bogus"} |->
               CASE n \in {"A", "a"} -> 1 [] n = "AAAA" -> 28 [] OTHER -> 0]

ValidQTypes(names) ==
  LET codes == [i \in DOMAIN names |-> TypeCode[names[i]]]
  IN IsInjective(codes) /\ \A i \in DOMAIN codes : codes[i] # 0

ValidAllowlist(a) ==
  a.enabled => a.mode = "default-deny" /\ a.files # {} /\ ValidQTypes(a.qtypes)

\* Only os.Stat: what the file holds is read later, and only warned about.
ValidRootKey(d) == On(d.enabled) => d.rootKey # "missing"

\* A type preset and the manual keys exclude each other; an empty type counts.
\* k.defined are the manual keys the file holds; toml leaves the others 0.
Knobs == {"ttlMin", "ttlMax", "negTTLMax", "staleMax"}
ValidCache(k) ==
  /\ k.type # Absent => k.defined = {}
  /\ k.type # "bad"

\* Faulty form: keeps the zero.
OrDecoded(v, d) == v
OrDefault(v, d) == IF v = 0 THEN d ELSE v
Knob(k, f) == IF f \in k.defined THEN k.knobs[f] ELSE 0

\* resolveCacheType: a preset owns the four values, no type fills the TTLs.
Preset(ttlMin, ttlMax, neg, stale) ==
  [ttlMin |-> ttlMin, ttlMax |-> ttlMax, negTTLMax |-> neg, staleMax |-> stale]
ResolvedCache(k) ==
  CASE k.type = "light"      -> Preset(0, 3600, 0, 0)
    [] k.type = "standard"   -> Preset(60, 86400, 0, 0)
    [] k.type = "aggressive" -> Preset(300, 604800, 300, 3600)
    [] OTHER -> Preset(OrDefault(Knob(k, "ttlMin"), 60), OrDefault(Knob(k, "ttlMax"), 86400),
                       Knob(k, "negTTLMax"), Knob(k, "staleMax"))
CacheOptions(k) ==
  ResolvedCache(k) @@ [maxSize |-> IF On(k.enabled) THEN OrDefault(k.maxSize, 4096) ELSE k.maxSize]

ValidLogging(l) ==
  /\ l.format \in {"", "text"}
  /\ l.timestamp \in {"", "second", "ms", "us"}

FallbackOptions(f) ==
  [phase1TimeoutMs |-> OrDefault(f.phase1TimeoutMs, 2000),
   phase1DurationS |-> OrDefault(f.phase1DurationS, 300),
   threshold       |-> OrDefault(f.threshold, 3),
   intervalS       |-> OrDefault(f.intervalS, 30)]

(***************************************************************************)
(* The shape of a file, as toml decodes it                                 *)
(***************************************************************************)
Address == [host : {"none", "unsplit", "empty", "name", "loopback", "zoned", "lan", "wild"},
            port : DOMAIN PortNumber]
Upstream == [name : BOOLEAN, host : BOOLEAN, ip : {"none", "ok", "bad"},
             protos : SUBSET {"doq", "dot", "doh"}, doh3 : BOOLEAN, port : Int,
             pin : {"none", "ok", "bad"}, path : STRING]
File ==
  [syntax    : {"good", "unreadable", "unparsable", "unknown key"},
   resolver  : [enabled : BOOLEAN, listen : Address],
   service   : [enabled : BOOLEAN, doh : Address, dot : Address, doq : Address, doh3 : BOOLEAN,
                advertise : SUBSET {"ip", "name", "unspecified"},
                cert : {"none", "files", "autogen", "automation"}],
   metrics   : Address,
   upstreams : Seq(Upstream),
   tls       : [challenge : STRING, provider : {"none", "ok", "bad"},
                sources : SUBSET {"inline", "env", "file"}, key : BOOLEAN, env : BOOLEAN,
                dotenv : Seq({"other", "value", "empty"}), onDemand : BOOLEAN, domains : BOOLEAN],
   allowlist : [enabled : BOOLEAN, mode : STRING, files : SUBSET STRING,
                qtypes : Seq(DOMAIN TypeCode)],
   dnssec    : [enabled : {Absent, "true", "false"}, rootKey : {"", "missing", "there"}],
   cache     : [enabled : {Absent, "true", "false"}, type : STRING,
                defined : SUBSET Knobs, knobs : [Knobs -> Int], maxSize : Int],
   fallback  : [phase1TimeoutMs : Int, phase1DurationS : Int, threshold : Int, intervalS : Int],
   logging   : [format : STRING, timestamp : STRING, file : STRING]]

(***************************************************************************)
(* Load                                                                    *)
(***************************************************************************)
\* validate
Validates(c, requireToken) ==
  /\ c.resolver.enabled \/ c.service.enabled
  /\ ValidListens(c)
  /\ c.upstreams # <<>> /\ \A i \in DOMAIN c.upstreams : ValidUpstream(c.upstreams[i])
  /\ ValidAdvertise(c.service)
  /\ ValidAutogen(c)
  /\ ValidTLSAutomation(c.tls, requireToken)
  /\ ValidAllowlist(c.allowlist)
  /\ ValidRootKey(c.dnssec)
  /\ ValidCache(c.cache)
  /\ ValidLogging(c.logging)

\* load: Load of the daemon with materialize, LoadForDiagnostics without.
Accepts(c, materialize) ==
  /\ c.syntax = "good"
  /\ materialize => TokenResolves(c.tls)
  /\ Validates(c, materialize)

\* What an accepted file loads as.
Loaded(c) ==
  [c EXCEPT !.resolver.listen = Listen(c),
            !.cache = CacheOptions(c.cache),
            !.fallback = FallbackOptions(c.fallback)]

(***************************************************************************)
(* What main builds from it.                                               *)
(***************************************************************************)
\* pinnedTLSConfig: a pin that does not parse leaves CA validation on.
Trust(pin) == IF pin # "none" /\ ParsesPin(pin) THEN "spki" ELSE "ca"

\* buildUpstreamChain for one upstream: DoQ, then DoT, then DoH.
Entries(u) ==
  LET path == IF u.path = "" THEN "/dns-query" ELSE u.path
      entry(p) == [proto |-> p, trust |-> Trust(u.pin), pinned |-> u.pin # "none",
                   path |-> IF p = "doh" THEN path ELSE ""]
      offered(p) == IF p \in u.protos THEN <<entry(p)>> ELSE <<>>
  IN offered("doq") \o offered("dot") \o offered("doh")

\* The loop over the upstreams appends to the chain.
Chain(c) ==
  LET n == Len(c.upstreams)
      chain[i \in 0 .. n] == IF i = 0 THEN <<>> ELSE chain[i - 1] \o Entries(c.upstreams[i])
  IN chain[n]
=============================================================================
