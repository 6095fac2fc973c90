---------------------------- MODULE MCLifecycle ----------------------------
(* Configuration files for TLC: a good file, and that file with one section *)
(* replaced by each of its variants.                                        *)
EXTENDS Lifecycle

CONSTANTS q1, q2

SomeUpstream == [name |-> TRUE, host |-> TRUE, ip |-> "ok", protos |-> {"doq", "dot", "doh"},
                 doh3 |-> FALSE, port |-> 853, pin |-> "none", path |-> ""]
Service == [enabled |-> FALSE, doh |-> NoAddr, dot |-> NoAddr, doq |-> NoAddr, doh3 |-> FALSE,
            advertise |-> {}, cert |-> "none"]
Good ==
  [syntax |-> "good",
   resolver |-> [enabled |-> TRUE, listen |-> NoAddr],
   service |-> Service,
   metrics |-> NoAddr,
   upstreams |-> <<SomeUpstream>>,
   tls |-> [challenge |-> "", provider |-> "none", sources |-> {}, key |-> FALSE, env |-> FALSE,
            dotenv |-> <<>>, onDemand |-> FALSE, domains |-> FALSE],
   allowlist |-> [enabled |-> FALSE, mode |-> "", files |-> {}, qtypes |-> <<>>],
   dnssec |-> [enabled |-> Absent, rootKey |-> ""],
   cache |-> [enabled |-> Absent, type |-> Absent, defined |-> {},
             knobs |-> [n \in Knobs |-> 0], maxSize |-> 0],
   fallback |-> [phase1TimeoutMs |-> 0, phase1DurationS |-> 0, threshold |-> 0, intervalS |-> 0],
   logging |-> [format |-> "", timestamp |-> "", file |-> "stdout"]]

Addrs == {NoAddr, Addr("unsplit", "none"), Addr("loopback", "none")} \cup
  [host : {"empty", "name", "loopback", "zoned", "lan", "wild"}, port : {"53", "053", "domain", "5300"}]
Wild == Addr("wild", "5300")

Resolvers == [enabled : BOOLEAN, listen : Addrs]
ServiceWith(L, h3, adv, cert) ==
  [Service EXCEPT !.enabled = TRUE, !.doh3 = h3, !.advertise = adv, !.cert = cert,
                  !.doh = IF "doh" \in L THEN Wild ELSE NoAddr,
                  !.dot = IF "dot" \in L THEN Wild ELSE NoAddr,
                  !.doq = IF "doq" \in L THEN Wild ELSE NoAddr]

\* Entries with one or two fields off.
Upstreams ==
  {[SomeUpstream EXCEPT !.name = n, !.host = h] : n, h \in BOOLEAN} \cup
  {[SomeUpstream EXCEPT !.protos = P, !.doh3 = d, !.path = p] :
     P \in SUBSET {"doq", "dot", "doh"}, d \in BOOLEAN, p \in {"", "/q"}} \cup
  {[SomeUpstream EXCEPT !.ip = i, !.port = n, !.pin = k] :
     i \in {"none", "ok", "bad"}, n \in {-1, 0, 1, 65535, 65536}, k \in {"none", "ok", "bad"}}
Pinned == [SomeUpstream EXCEPT !.pin = "ok"]

TLSSections ==
  [challenge : {"", "http", "dns01", "bad"}, provider : {"none", "ok", "bad"},
   sources : SUBSET {"inline", "env", "file"}, key : BOOLEAN, env : BOOLEAN,
   dotenv : {<<>>, <<"other">>, <<"other", "value">>, <<"empty", "value">>},
   onDemand : {FALSE}, domains : {FALSE}]
Automation(challenge, sources, onDemand, domains) ==
  [Good.tls EXCEPT !.challenge = challenge, !.sources = sources, !.onDemand = onDemand,
                   !.provider = IF challenge = "dns01" THEN "ok" ELSE "none", !.domains = domains]

CacheSections ==
  [enabled : {Absent, "true", "false"}, type : {Absent, "", "light", "standard", "aggressive", "bad"},
   defined : SUBSET Knobs, knobs : [Knobs -> {0, 7}], maxSize : {0, 7}]

\* The serving shapes that shutdown tells apart.
Shapes ==
  {[Good EXCEPT !.resolver.enabled = m, !.service = ServiceWith(l[1], l[2], {}, "autogen")] :
     m \in BOOLEAN,
     l \in {<<{}, FALSE>>, <<{"dot"}, FALSE>>, <<{"doh"}, TRUE>>, <<{"doh", "dot", "doq"}, FALSE>>}}

MCFiles ==
  Shapes
  \cup {[Good EXCEPT !.syntax = x] : x \in {"unreadable", "unparsable", "unknown key"}}
  \cup {[Good EXCEPT !.resolver = r, !.service.enabled = e, !.service.cert = "files"] :
          r \in Resolvers, e \in BOOLEAN}
  \cup {[Good EXCEPT !.service = ServiceWith(L, FALSE, adv, k), !.upstreams = u] :
          L \in {{}, {"dot"}}, adv \in SUBSET {"ip", "name", "unspecified"},
          k \in {"none", "files", "autogen"}, u \in {<<SomeUpstream>>, <<SomeUpstream, Pinned>>}}
  \cup {[Good EXCEPT !.service.advertise = {"ip"}]}
  \cup {[Good EXCEPT !.metrics = a] : a \in {Wild, Addr("name", "5300"), Addr("unsplit", "none")}}
  \cup {[Good EXCEPT !.upstreams = u] : u \in {<<>>} \cup {<<v>> : v \in Upstreams}
                                            \cup {<<Pinned, v>> : v \in Upstreams}}
  \cup {[Good EXCEPT !.tls = t] : t \in TLSSections}
  \cup {[Good EXCEPT !.tls = Automation(ch, so, d, m), !.service = ServiceWith({"dot"}, FALSE, {}, "automation")] :
          ch \in {"", "dns01"}, so \in SUBSET {"inline", "env"}, d, m \in BOOLEAN}
  \cup {[Good EXCEPT !.allowlist = a] :
          a \in [enabled : BOOLEAN, mode : {"", "exempt", "default-deny", "other"}, files : {{}, {"f"}},
                 qtypes : {<<>>, <<"A", "AAAA">>, <<"A", "a">>, <<"bogus">>}]}
  \cup {[Good EXCEPT !.dnssec = d] :
          d \in [enabled : {Absent, "true", "false"}, rootKey : {"", "missing", "there"}]}
  \cup {[Good EXCEPT !.cache = k] :
          k \in {s \in CacheSections : \A n \in Knobs \ s.defined : s.knobs[n] = 0}}
  \cup {[Good EXCEPT !.fallback = f] :
          f \in [phase1TimeoutMs : {0, 7}, phase1DurationS : {0, 7}, threshold : {0, 7}, intervalS : {-1, 0, 7}]}
  \cup {[Good EXCEPT !.logging = l] :
          l \in [format : {"", "text", "json", "bad"}, timestamp : {"", "second", "ms", "us", "bad"},
                 file : {"stdout", "file"}]}

=============================================================================
