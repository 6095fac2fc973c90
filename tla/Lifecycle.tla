----------------------------- MODULE Lifecycle -----------------------------
(***************************************************************************)
(* cmd/rcvd main, from the configuration file to the exit, with the        *)
(* listeners of both modes (internal/server, internal/upstream) as it      *)
(* starts and stops them.  A query is followed only as far as shutdown     *)
(* tells apart: who accepted it, whether it is still being resolved, and   *)
(* whether its reply could be written.  Clients that vanish are left out.  *)
(* The clock is one bit: whether 5 s have passed since the signal.  Every  *)
(* shutdown timer is 5 s and starts at the signal or just after it.        *)
(***************************************************************************)
EXTENDS Config, FiniteSets

CONSTANTS Queries,   \* the queries a run of the daemon serves
          Files      \* the configuration files it may be started on

ASSUME FilesAssumption == Files \subseteq File

Mode1 == {"udp", "tcp"}
Mode2 == {"doh", "doh3", "dot", "doq"}
Listeners == {"doh", "dot", "doq"}      \* doh3 lives in the DoH listener

VARIABLES
  pc,       \* where main is
  cfg,      \* the file, then what it loads as, then what main keeps of it
  why,      \* what main gave as the reason to exit with 1
  filters,  \* the allowlist is in force (or is not configured)
  bound,    \* the transports whose socket is open
  loop,     \* how far each Mode 2 Serve is; dead if it ended by an error
  idle,     \* the stream transports on which an open connection sends nothing
  via, st,  \* the transport of each query, and its progress
  late      \* 5 s have passed since the signal

main == <<pc, cfg, why, filters>>
net == <<bound, loop, idle>>
work == <<via, st>>
vars == <<main, net, work, late>>

Init ==
  /\ pc = "start" /\ cfg \in Files /\ why = "none" /\ filters = FALSE
  /\ bound = {} /\ loop = [l \in Listeners |-> "off"] /\ idle = {}
  /\ via = [q \in Queries |-> "none"] /\ st = [q \in Queries |-> "free"]
  /\ late = FALSE

Down == {"exit0", "exit1", "killed", "crashed"}
Alive == pc \notin Down
Stopping == pc \in {"stopping2", "stopping1", "closing"}

Goes(to) == pc' = to
\* os.Exit(1), or a panic: every socket of the process closes with it.
Exit(reason) ==
  /\ pc' = IF reason = "panic" THEN "crashed" ELSE "exit1"
  /\ why' = reason
  /\ bound' = {} /\ loop' = [l \in Listeners |-> "off"] /\ idle' = {}
  /\ UNCHANGED <<cfg, filters, work, late>>

(***************************************************************************)
(* Start-up                                                                *)
(***************************************************************************)
Load ==
  /\ pc = "start"
  /\ IF Accepts(cfg, TRUE)
     THEN Goes("loaded") /\ cfg' = Loaded(cfg) /\ UNCHANGED <<why, filters, net, work, late>>
     ELSE Exit("config")

\* The reasons setupTLS and NewManager may have to refuse, besides the disk:
\* the certificate files, on-demand issuance without domains, no token.
TLSRefusals(c) ==
  CASE c.service.cert = "automation" ->
         (IF c.tls.onDemand /\ ~c.tls.domains THEN {"tls"} ELSE {}) \cup
         (IF c.tls.challenge = "dns01" /\ ~HasToken(c.tls) THEN {"token"} ELSE {})
    [] c.service.cert = "none" -> {"tls"}
    [] OTHER -> {}

\* What the rest of main reads of the configuration.
Kept(c) ==
  [mode1   |-> c.resolver.enabled,
   mode2   |-> c.service.enabled,
   listens |-> IF "doh" \in Encrypted(c.service) /\ c.service.doh3
               THEN Encrypted(c.service) \cup {"doh3"} ELSE Encrypted(c.service),
   cert    |-> c.service.cert,
   refused |-> TLSRefusals(c),
   allow   |-> c.allowlist.enabled,
   ticks   |-> c.fallback.intervalS > 0,
   chain   |-> Chain(c) # <<>>]

\* The checks main repeats on the upstreams.
UpstreamRefusals(c) ==
  CASE c.upstreams = <<>> -> {"no upstreams"}
    [] \A i \in DOMAIN c.upstreams : c.upstreams[i].protos = {} -> {"no encrypted"}
    [] OTHER -> {}

\* The log file may fail to open; then come the checks.
OpenLog ==
  /\ pc = "loaded"
  /\ \/ \E r \in UpstreamRefusals(cfg) \cup (IF cfg.logging.file = "stdout" THEN {} ELSE {"log"}) :
          Exit(r)
     \/ /\ UpstreamRefusals(cfg) = {}
        /\ Goes("logged") /\ cfg' = Kept(cfg) /\ UNCHANGED <<why, filters, net, work, late>>

\* Faulty form: loads in the background, as the blocklist is loaded.
LoadAllowlistLater ==
  /\ pc = "logged"
  /\ Goes("filtered") /\ filters' = ~cfg.allow
  /\ UNCHANGED <<cfg, why, net, work, late>>

\* loadAllowlistAtStartup: synchronous, and any error ends the process.
LoadAllowlist ==
  /\ pc = "logged"
  /\ \/ cfg.allow /\ Exit("allowlist")
     \/ Goes("filtered") /\ filters' = TRUE /\ UNCHANGED <<cfg, why, net, work, late>>

\* NewTicker panics on a period that is not positive, and load lets a
\* negative one pass.
ChainRefusals(c) ==
  CASE ~c.chain -> {"chain"}
    [] ~c.ticks -> {"panic"}
    [] ~c.mode1 /\ ~c.mode2 -> {"no mode"}
    [] OTHER -> {}

\* buildUpstreamChain, the fallback resolver with its health ticker, and the
\* last look at the modes.
StartChain ==
  /\ pc = "filtered"
  /\ \/ \E r \in ChainRefusals(cfg) : Exit(r)
     \/ /\ ChainRefusals(cfg) = {}
        /\ Goes("chained") /\ UNCHANGED <<cfg, why, filters, net, work, late>>

\* Server.Start binds UDP, then TCP.
StartMode1 ==
  /\ pc = "chained"
  /\ \/ cfg.mode1 /\ Exit("bind")
     \/ /\ Goes("mode1") /\ bound' = IF cfg.mode1 THEN Mode1 ELSE {}
        /\ UNCHANGED <<cfg, why, filters, loop, idle, work, late>>

\* upstream.New and Start: TLS, then the listeners.  DoT and DoQ bind here;
\* DoH binds in the Serve goroutine, whose error nobody reads.
StartMode2 ==
  /\ pc = "mode1"
  /\ \/ cfg.mode2 /\ \E r \in cfg.refused : Exit(r)
     \/ cfg.mode2 /\ cfg.cert # "autogen" /\ Exit("tls")
     \/ cfg.mode2 /\ cfg.listens \cap {"dot", "doq"} # {} /\ Exit("bind")
     \/ /\ cfg.mode2 => cfg.refused = {}
        /\ Goes("started")
        /\ loop' = [l \in Listeners |-> IF cfg.mode2 /\ l \in cfg.listens THEN "serving" ELSE "off"]
        /\ bound' = bound \cup {l \in {"dot", "doq"} : loop'[l] = "serving"}
        /\ UNCHANGED <<cfg, why, filters, idle, work, late>>

\* signal.Notify.  Until here a signal ends the process by default.
Notify ==
  /\ pc = "started" /\ Goes("running")
  /\ UNCHANGED <<cfg, why, filters, net, work, late>>

Killed ==
  /\ pc \in {"start", "loaded", "logged", "filtered", "chained", "mode1", "started"}
  /\ Goes("killed")
  /\ bound' = {} /\ loop' = [l \in Listeners |-> "off"] /\ idle' = {}
  /\ UNCHANGED <<cfg, why, filters, work, late>>

(***************************************************************************)
(* Serving                                                                 *)
(***************************************************************************)
Cancelled == Stopping          \* the context of the Mode 2 listeners

\* DOHListener.Serve: both sockets, or none and the error is dropped.
BindDoH ==
  /\ Alive /\ loop["doh"] = "serving" /\ "doh" \notin bound
  /\ \/ bound' = bound \cup (cfg.listens \cap {"doh", "doh3"}) /\ UNCHANGED loop
     \/ loop' = [loop EXCEPT !["doh"] = "dead"] /\ UNCHANGED bound
  /\ UNCHANGED <<main, idle, work, late>>

\* An accept error ends DoQ and DoH for good; DoT and Mode 1 retry.
ListenerDies(l) ==
  /\ Alive /\ ~Cancelled /\ l \in {"doq", "doh"} /\ loop[l] = "serving" /\ l \in bound
  /\ loop' = [loop EXCEPT ![l] = "dead"]
  /\ bound' = IF l = "doh" THEN bound \ {"doh", "doh3"} ELSE bound
  /\ st' = [q \in Queries |-> IF l = "doh" /\ via[q] = "doh3" /\ st[q] \in {"resolving", "replying"}
                              THEN "lost" ELSE st[q]]
  /\ UNCHANGED <<main, idle, via, late>>

Serves(t) ==
  /\ t \in bound
  /\ t \in {"dot", "doq"} => loop[t] = "serving"
  /\ t = "doh" => loop["doh"] = "serving"

Accept(q, t) ==
  /\ Alive /\ st[q] = "free" /\ Serves(t)
  /\ via' = [via EXCEPT ![q] = t] /\ st' = [st EXCEPT ![q] = "resolving"]
  /\ UNCHANGED <<main, net, late>>

\* A cancelled context ends the fetch early with SERVFAIL; a fetch that does
\* not look at its context may take any time.
Resolve(q) ==
  /\ Alive /\ st[q] = "resolving"
  /\ st' = [st EXCEPT ![q] = "replying"]
  /\ UNCHANGED <<main, net, via, late>>

\* The reply needs the shared UDP socket, or the query's own connection.
Reply(q) ==
  /\ Alive /\ st[q] = "replying"
  /\ st' = [st EXCEPT ![q] = IF via[q] = "udp" /\ "udp" \notin bound THEN "lost" ELSE "answered"]
  /\ UNCHANGED <<main, net, via, late>>

\* A client keeps its connection open between queries.
Idles(t) ==
  /\ Alive /\ Serves(t) /\ t \notin idle /\ idle' = idle \cup {t}
  /\ UNCHANGED <<main, bound, loop, work, late>>

\* It closes, or sends a last query, or its read deadline ends: 5 s over TCP,
\* 30 s over DoT.
Leaves(t) ==
  /\ Alive /\ t \in idle /\ idle' = idle \ {t}
  /\ UNCHANGED <<main, bound, loop, work, late>>

(***************************************************************************)
(* Shutdown                                                                *)
(***************************************************************************)
InFlight(T) == {q \in Queries : via[q] \in T /\ st[q] \in {"resolving", "replying"}}
LoseAll(T) == [q \in Queries |-> IF q \in InFlight(T) THEN "lost" ELSE st[q]]

\* The signal cancels the context of Mode 2 and starts the 5 s.
Signal ==
  /\ pc = "running" /\ Goes("stopping2")
  /\ UNCHANGED <<cfg, why, filters, net, work, late>>

\* The time passes while main waits for somebody.
FiveSeconds ==
  /\ \/ pc = "stopping2" /\ \E l \in Listeners : loop[l] \in {"serving", "draining"}
     \/ pc = "stopping1" /\ (InFlight(Mode1) # {} \/ "tcp" \in idle)
     \/ pc = "closing"
  /\ ~late /\ late' = TRUE
  /\ UNCHANGED <<main, net, work>>

\* DOTListener.Serve stops taking connections and waits for the open ones,
\* the idle ones included: nothing closes them before their read deadline.
DrainDoT ==
  /\ Cancelled /\ loop["dot"] = "serving"
  /\ loop' = [loop EXCEPT !["dot"] = "draining"]
  /\ UNCHANGED <<main, bound, idle, work, late>>

\* Faulty form: does not wait for the connections.
EndDoTAtOnce ==
  /\ loop["dot"] = "draining"
  /\ loop' = [loop EXCEPT !["dot"] = "ended"] /\ bound' = bound \ {"dot"}
  /\ UNCHANGED <<main, idle, work, late>>

EndDoT ==
  /\ Alive /\ loop["dot"] = "draining"
  /\ (InFlight({"dot"}) = {} /\ "dot" \notin idle) \/ late
  /\ loop' = [loop EXCEPT !["dot"] = "ended"] /\ bound' = bound \ {"dot"}
  /\ UNCHANGED <<main, idle, work, late>>

\* DOHListener.Serve: Shutdown drains HTTP/2, then HTTP/3 is closed.
DrainDoH ==
  /\ Cancelled /\ loop["doh"] = "serving" /\ "doh" \in bound
  /\ loop' = [loop EXCEPT !["doh"] = "draining"] /\ bound' = bound \ {"doh"}
  /\ UNCHANGED <<main, idle, work, late>>

EndDoH ==
  /\ Alive /\ loop["doh"] = "draining"
  /\ InFlight({"doh"}) = {} \/ late
  /\ loop' = [loop EXCEPT !["doh"] = "ended"] /\ bound' = bound \ {"doh3"}
  /\ st' = LoseAll({"doh3"})
  /\ UNCHANGED <<main, idle, via, late>>

\* DOQListener.Serve returns at once; its connections and streams are not
\* awaited, and each connection closes itself.
EndDoQ ==
  /\ Cancelled /\ loop["doq"] = "serving"
  /\ loop' = [loop EXCEPT !["doq"] = "ended"]
  /\ UNCHANGED <<main, bound, idle, work, late>>

DoQConnCloses(q) ==
  /\ Cancelled /\ q \in InFlight({"doq"})
  /\ st' = [st EXCEPT ![q] = "lost"]
  /\ UNCHANGED <<main, net, via, late>>

\* Service.Stop returns when every Serve has or the 5 s are over, and closes
\* the listeners; Server.Stop then closes the Mode 1 sockets and waits.
StopMode2 ==
  /\ pc = "stopping2"
  /\ (\A l \in Listeners : loop[l] \in {"off", "ended", "dead"}) \/ late
  /\ Goes("stopping1")
  /\ bound' = {} /\ loop' = [l \in Listeners |-> IF loop[l] \in {"off", "dead"} THEN loop[l] ELSE "ended"]
  /\ st' = LoseAll({"doh", "doh3", "doq"})
  /\ UNCHANGED <<cfg, why, filters, idle, via, late>>

\* Faulty form: waits for the queries, however long they take.
StopMode1Waits ==
  /\ pc = "stopping1"
  /\ InFlight(Mode1) = {} /\ "tcp" \notin idle
  /\ Goes("closing")
  /\ UNCHANGED <<cfg, why, filters, net, work, late>>

\* main takes Server.Stop's end or its own deadline, whichever it sees.
StopMode1 ==
  /\ pc = "stopping1"
  /\ (InFlight(Mode1) = {} /\ "tcp" \notin idle) \/ late
  /\ Goes("closing")
  /\ UNCHANGED <<cfg, why, filters, net, work, late>>

\* fallbackResolver.Close, which may wait for a connection that is being
\* dialled (a dial holds its resolver's lock, and ends within 10 s).  Queries
\* that were left behind go on until main returns.
CloseChain ==
  /\ pc = "closing" /\ Goes("exit0")
  /\ UNCHANGED <<cfg, why, filters, net, work, late>>

(***************************************************************************)
(* The specification                                                       *)
(***************************************************************************)
MainStep ==
  \/ Load \/ OpenLog \/ LoadAllowlist \/ StartChain \/ StartMode1 \/ StartMode2 \/ Notify
  \/ StopMode2 \/ StopMode1 \/ CloseChain
LoopStep == BindDoH \/ DrainDoT \/ EndDoT \/ DrainDoH \/ EndDoH \/ EndDoQ

Next ==
  \/ MainStep \/ LoopStep \/ Killed \/ Signal \/ FiveSeconds
  \/ \E t \in {"tcp", "dot"} : Idles(t) \/ Leaves(t)
  \/ \E l \in Listeners : ListenerDies(l)
  \/ \E q \in Queries :
       \/ \E t \in Mode1 \cup Mode2 : Accept(q, t)
       \/ Resolve(q) \/ Reply(q) \/ DoQConnCloses(q)

\* Main and the Serve goroutines run, and time passes; nothing is assumed of
\* the handlers, of the clients or of the operator.
Fairness == WF_vars(MainStep) /\ WF_vars(LoopStep) /\ WF_vars(FiveSeconds)
Spec == Init /\ [][Next]_vars /\ Fairness

(***************************************************************************)
(* Properties                                                              *)
(***************************************************************************)
\* Each variable holds a value of its kind, and what is loaded has the
\* defaults: a listen address for Mode 1 and non-zero fallback options.
TypeOK ==
  /\ pc \in Down \cup {"start", "loaded", "logged", "filtered", "chained", "mode1", "started",
                       "running", "stopping2", "stopping1", "closing"}
  /\ why \in {"none", "config", "log", "allowlist", "bind", "tls", "token", "no upstreams",
              "no encrypted", "chain", "no mode", "panic"}
  /\ pc = "loaded" => /\ cfg.resolver.enabled => cfg.resolver.listen # NoAddr
                      /\ \A f \in DOMAIN cfg.fallback : cfg.fallback[f] # 0
  /\ bound \subseteq Mode1 \cup Mode2
  /\ loop \in [Listeners -> {"off", "serving", "draining", "ended", "dead"}]
  /\ via \in [Queries -> Mode1 \cup Mode2 \cup {"none"}]
  /\ st \in [Queries -> {"free", "resolving", "replying", "answered", "lost"}]
  /\ idle \subseteq {"tcp", "dot"} /\ {filters, late} \subseteq BOOLEAN

\* A file that config.Load accepts is not refused later for what it says of
\* upstreams, modes or the token: main's own checks (no upstream, none
\* encrypted, an empty chain, no mode) and NewManager's check on the token
\* cannot fire.  Only Mode 2's certificate is left to setupTLS.
LoadRefusesFirst ==
  why \in {"none", "config", "log", "allowlist", "bind", "tls", "panic"}

\* An upstream with a pin is trusted by that pin alone, never by the CA path
\* pinnedTLSConfig keeps for a pin it cannot parse; a DoH entry of the chain
\* has a path although validate's default is lost; and a listener that would
\* answer cleartext port 53 binds a loopback address.
LoadedMeansWhatItSays ==
  pc = "loaded" =>
    /\ \A i \in DOMAIN Chain(cfg) :
         LET e == Chain(cfg)[i] IN
         /\ e.pinned => e.trust = "spki"
         /\ e.proto = "doh" => e.path # ""
    /\ cfg.resolver.enabled /\ PortNumber[cfg.resolver.listen.port] = 53
         => cfg.resolver.listen.host = "loopback"

\* No listener takes a query before the configured allowlist is in force,
\* whichever mode starts first.
FilteredBeforeServed == \A q \in Queries : st[q] # "free" => filters

\* If both stops return before their 5 s are over, every query taken over TCP,
\* DoT or HTTP/2 has been answered and no UDP query is still being handled.
\* (A DoH listener that died earlier drains nothing.)
AnsweredUnlessLate ==
  pc \in {"closing", "exit0"} /\ ~late => \A q \in Queries :
    /\ via[q] \in {"tcp", "dot"} => st[q] = "answered"
    /\ via[q] = "doh" => st[q] = "answered" \/ loop["doh"] = "dead"
    /\ via[q] = "udp" => st[q] \in {"answered", "lost"}

\* A daemon told to stop exits, whatever its queries and clients do (main's
\* deadline, and the limit on a dial that Close of the chain may wait for).
SignalExits == pc = "stopping2" ~> pc = "exit0"
=============================================================================
