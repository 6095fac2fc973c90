# A formal model of rcvd

rcvd is an encrypted DNS resolver with two modes in one process. Mode 1 is a
loopback resolver that takes queries over UDP and TCP and forwards them over DoQ,
DoT or DoH. Mode 2 is an encrypted service that takes queries over DoH, DoT and
DoQ. Both share a response cache, a chain of upstreams with failover, a DNSSEC
validator, a blocklist, an allowlist and statistics.

This directory holds TLA+ modules for rcvd from the configuration file to the exit,
the TLC configurations that check small instances of them, and theorems that TLAPS
proves for every value of the constants. `PROJECT.json` relates each
definition to the lines it models, and lists runs, mutants, hazards and theorems.

    tlc -workers 2 -config fallback_safety.cfg MCFallback
    tlapm FallbackProofs.tla

## 1. Inventory

| Part | Source (under `src/`) | State | Operations | Model |
|---|---|---|---|---|
| Fallback chain | `internal/resolver/fallback.go` | per upstream: State, ConsecutiveErrors, LastError; phase by the clock; ticker and stop channel | Resolve, recordSuccess, recordError, runHealthChecks, Close | `Fallback` |
| Response cache | `internal/cache/cache.go` | a map from question to response and expiry | Get, GetStale, Put, Clear, evictOldest | `CacheStore`, `Cache` |
| Mode 1 request handling | `internal/server/server.go` | one query per handler | policy, cache, resolve, validate, store, check, send | `Serving` |
| Mode 2 request handling | `internal/upstream/` | the same, other rules for stale answers and negative caching | the same, with resolver.arpa first | `Serving` |
| Query policy | `internal/policy/policy.go` | none; reads the live lists | Response, Answer, Shadowed | `Serving`, `Matching` |
| DDR zone | `internal/upstream/ddr.go` | none after start | answer | `Serving` (that it answers, not its records) |
| Blocklist | `internal/blocklist/blocklist.go`, loaders in `cmd/rcvd/main.go` | two maps behind a lock; count of loaded files | startup load, reload, scan, IsBlocked | `Blocklist`, `Matching` |
| Allowlist | `internal/allowlist/allowlist.go` | three maps behind a lock | startup load, reload, scan, Allowed | `Allowlist`, `Matching` |
| Control socket | `internal/statistics/socket.go` | one goroutine per connection | reload verbs, STATS, AUDIT | reload verbs in `Blocklist`, `Allowlist`; the snapshot in `Statistics` |
| DoT client | `internal/resolver/dot.go` | one pooled connection, two mutexes | Resolve, retry, close, Close | `DoT` |
| DoQ client | `internal/resolver/doq.go` | one pooled connection, streams on it, idle time | Resolve, retry, recycle, Close | `DoQ` |
| DoH client | `internal/resolver/doh.go` | an HTTP client, over TCP or HTTP/3 | Resolve, Close | `DoH` |
| DNSSEC validator | `internal/dnssec/` | cache of DNSKEY and DS sets; root anchors | ValidateResponse, chain walk, denial of a DS, anchor files | `Validator`; its verdict in `Serving` |
| Statistics | `internal/statistics/statistics.go` | atomic counters | Record..., the latency recorder, TakeSnapshot | `Statistics` |
| Configuration | `internal/config/` | fixed after start | load, validate, defaults, token sources | `Config` |
| Lifecycle | `cmd/rcvd/main.go`, `Start` and `Stop` of both modes | listeners, Serve goroutines, shutdown timers | start, bind, signals, drain, stop | `Lifecycle` |
| TLS automation, pinning | `internal/rcvd_tls/`, `internal/resolver/pin.go` | held by a library | set-up | what set-up accepts and refuses, in `Config` and `Lifecycle` |
| Verify commands, logger, pprof | see `PROJECT.json` | - | - | not modelled |

How they interact: a handler asks the policy, which reads both live lists; then
the cache; on a miss the chain, which tries upstreams in order and records health;
then the validator; then it writes the cache, checks every name of the answer
against the allowlist as it is now, and sends. Meanwhile the prober brings DOWN
upstreams back, the startup loader fills the blocklist, and operators reload lists.

What is hard to get right, and so what the properties are about:

* **Fallback.** The upstream call runs outside the lock, so its outcome is recorded
  on a state that others have changed. The phase is captured before the call. The
  deadline is shared by the whole chain. One goroutine does all probes.
  Correct means: health is coherent, nobody is blamed without cause, a call answers
  its own question and returns, what recovered is used again, Close ends the prober, as
  far as no transport reads without a deadline.
* **Cache.** Get looks up, decides and deletes in three steps; Put computes the
  expiry before it locks. Correct means: bounded size, bounded age of what is
  served, clamped lifetimes, entries kept while they may be needed.
* **Serving.** Lists change in the middle of a query; two modes with different rules
  write one cache; a bogus answer is replaced before the cache write. Correct means:
  only validated answers are stored or sent, the policy holds at serve time, and
  denied names are not forwarded.
* **Lists.** Loads overlap loads and edits; files fail half way. Correct means: a
  listed name never becomes unblocked by a reload, a bad edit never widens or empties
  the allowlist, a reload nothing overlapped does exactly what it reports, and what the
  lists answer for a name is what their lines say.
* **Transports.** Concurrent calls share one connection, which the server may have
  dropped, another call may replace and Close may take away. Correct means: an answer
  belongs to the call that gets it, a query is sent at most twice, a dropped connection
  does not fail a lone call, none is leaked, and calls return.
* **Validator.** Key sets are cached before they are verified, expire while a walk is
  under way and change with rollovers. Correct means: where the key comes from the walk,
  only a whole chain of trust makes an answer secure; only a real gap or a signature that
  cannot be processed makes one insecure; a consistent chain is not refused, and bad sets
  do not last.
* **Process.** Checks are spread over load, main and the library's set-up; both modes
  share one shutdown budget; every counter is an atomic of its own. Correct means: what
  load accepts is not refused later and means what it says, nothing is served unfiltered,
  the daemon exits, and the counters add up.

## 2. Modules

**`Fallback`.** One process per Resolve call (`pc`, `idx`, `ph`, `out`, `failed`,
`result`), the prober (`hpc`, `todo`, `hout`), Close (`closing`) and the environment:
`link` says how an upstream behaves now, out of its `Links`, `expired` whose context is
done. Every critical section of `f.mu` is one action; the call between `Attempt` and
`Return` is where others interleave. A message is `answer`, `foreign` (for another
question) or `error`. `NoDeadline` holds the entries whose transport ignores its context;
the code makes that true of DoT (`dot.go:124`). The end of Close also closes the
resolvers, so any of the attempts and probes under way may fail with it (`CloseFinish`). Saturating `errs` at `MaxErrs` is exact
because the code only compares it with the threshold.

**`CacheStore`** has the map, the clock, lifetimes and eviction. **`Cache`** cuts the
operations where the code releases its lock or reads the clock. Time is in seconds;
`Day` and `DefaultTTL` are the two constants of `extractMinTTL`, scaled down.
Put stores only responses to the question asked, or without a question (`Storable`); its
early return for the others is not a step of its own.

**`Serving`** extends `CacheStore` with handlers of both modes. A cache operation is
one step there (its finer grain is in `Cache`), and the chain is its result. The policy
looks the name up in the allowlist and in the blocklist at two times, and what replaces a
bogus answer is made before it goes through the cache write (`Recache`). The
handler constants say which listeners are Mode 1. `okay` and `barred` record what the
lists said since the query came in, so that the policy can be stated across reloads.
Validation is taken to be enabled. The query-type filter is folded into the name
filter: both only decide between a local reply and going on.

**`Blocklist`** has the startup loader (files, then URLs), reload goroutines and edits
of the sources. **`Allowlist`** has reloads and edits; its initial states are those
after a successful load, because the process exits otherwise. `steady`, `current`,
`alone`, `ever` and `prior` are history variables and guard nothing.

**`Matching`** has the two scanners, Allowed, IsBlocked and Shadowed as functions on names,
which are sequences of labels, and beside them what a written line says of a name (`Below`,
`Covers`). `Allowlist` sees a file only as a set of names or as unusable; **`AllowlistLines`**
joins the two: every content is what the scanner makes of written lines, valid and not, so
that what the live list answers can be held against what the operator wrote.

**`Transport`** is what the chain relies on when it calls a resolver: each query goes out
at most twice, a call is answered only if the server answered that very call, and a call
ends once. **`DoT`**, **`DoQ`** and **`DoH`** are the three clients. In `DoT` a step is a
stretch between lock operations and I/O: `exch` is exchMu, `conn` the pooled connection,
`wire` and `inbox` the two directions of each connection, `pooled` the value of
pooledBefore. A reply carries the call it answers, so that a late reply read by another
call would be seen; message IDs are a constant function and may collide. In `DoQ` each
call has a stream, and the connection can end by the server, by idle rollover, by another
call's recycleConn or by Close. `DoH` leaves pooling to the HTTP library. `asked`, `heard`
and `mixed` are history variables. **`Transports`** puts the three side by side: `proto`
chooses once which of them a behaviour is about, as the configuration does for an upstream.

**`Validator`** has the handlers of ValidateResponse, each going through the RRSIGs of its
answer and walking the chain of trust for one: `Hit` or `Fetch`, `Store`, then the
verification from the root down in `VerifyLink` and `VerifySig`. `world` fixes the
delegations, the anchor file and the answers; `gen` and `Roll` are key rollovers, `Expires`
the TTL of a cached set, `mangles` and `Heals` a period in which fetches may return other
sets than the current ones. Signatures are an oracle: a set lists its RRSIGs, each with the
key tag it names and what the library makes of it under that key (`good`, `bad`, `misfit`
for one that cannot be processed, `late` for one out of its period), and what a zone's own
key signed is true. `Verify` goes through the list as the code does: the first good one
decides, otherwise the last one tried. `provesNoDS` and the anchor parsers follow the
branches of the code, unusable keys and opt-out records included. Where a message brings
the DNSKEY for an RRSIG along, findDNSKEY takes it from the message; the model does the
same (`inline`), and `SecureIsAuthentic` says of either origin what holds for it.

**`Config`** turns a configuration file into what main works with: each section's checks,
the defaults, the token sources, the chain of resolvers. A value stands for the class of
spellings that the code treats alike. **`Lifecycle`** is main from Load to the exit, with
the listeners, the Serve goroutines and the two stops; a query is followed as far as
shutdown tells its stages apart, and the clock is one bit, whether five seconds have passed
since the signal; after the stops main closes the chain (`CloseChain`). **`Statistics`** has what the handlers of each transport count and when,
the latency recorder with its compare-and-swap loops, and the snapshot that reads one
atomic at a time. `MCLifecycle` lists the configuration files. `MCProcess` runs either the
daemon's life or the counters (`scene`), which share no state that either reads.

The `MC...` modules declare model values and symmetry sets. Operators marked "Faulty
form" are mutants: each one is a plausible bug, and replacing the definition that
follows by it makes a run fail. They are no part of any specification.

## 3. Runs

| Run | Checks | States | Shows |
|---|---|---|---|
| `fallback_safety` | HealthCoherent, BlameNeedsCause, AnswersAreOwn | 2.9M | two concurrent calls and the prober on two upstreams |
| `fallback_live` | ResolveReturns, DownRecovers, CloseStopsProber | 233k | a first upstream that may fall silent in a read without a deadline: every call that is not in such a read returns, recovered upstreams come back and Close ends the prober unless a probe is in one |
| `cache_plain` | SizeBounded, LiveEntriesStay | 110k | three keys race for two places, serve-stale off |
| `cache_stale` | ServedAgeBounded, LifetimesClamped | 1.8M | negative caching and serve-stale on |
| `serving` | CacheHoldsValidated, RepliesValidated, PolicyHolds, DeniedNotForwarded | 3.2M | a Mode 1 and a Mode 2 handler, reloads and time |
| `serving_bogus_recache` | StaleIsBounded (violated) | - | bogus answers renew a stale entry without end |
| `blocklist` | ListedStaysBlocked, LoneReloadExact | 1.5M | the startup loader, two reloads and an edit |
| `blocklist_removed` | RemovalsTakeEffect (violated) | - | the startup loader brings removed names back |
| `allowlist` | BadEditHarmless, ReplyIsTrue, AllowedAsWritten, ShadowedIsExact | 30k | two reloads and three edits of two files; the matching against what the lines say |
| `transports` | TransportTypeOK, NoneStray, LoneCallRecovers, DoQSiblingsSpared, CallsReturn, TransportsImplement | 191k | two calls of each client, with a server that hangs up, is late or answers anything |
| `process` | TypeOK, LoadRefusesFirst, LoadedMeansWhatItSays, FilteredBeforeServed, AnsweredUnlessLate, SignalExits; Conserved, GapWasOpen, AverageNotBelowFastest, LatencyExact | 797k | the daemon on some 5000 configuration files, and two handlers' counters under a snapshot |
| `dnssec` | SecureIsAuthentic, InsecureIsProven, ConsistentIsAccepted, KeysRecover | 389k | set-ups of zones, anchors and answers, with rollovers, expiries, sets of several RRSIGs and fetches that return other sets |

Type invariants that no run lists are proved (section 4).

**Bounds.** Two concurrent actors per module are enough for every race of two critical
sections, and the prober or a third party (time, an edit, a reload) runs beside them.
Two upstreams give a first, a next and an exhausted entry. Threshold 2 separates SLOW
from DOWN. Cache sizes of 1 and 2 with one key more make eviction happen; the horizon
exceeds lifetime plus stale window in `cache_stale`. `TTLs` of 0 and 3 lie below
`ttl_min` and above `ttl_max`, and 4 is the day that `extractMinTTL` starts from; a
`ttl_min` above `ttl_max` is left to the theorem `CacheLifetimes`, which holds for any two. `serving` ends at time 2, which lets an entry of lifetime
1 expire and be served stale; a time after the stale window is left to `cache_stale`.
The two calls of `transports` have the same message ID, which is the case an ID check
cannot tell apart, and two connections, so that one can be replaced while another call
still uses it; numbers are reused once no one refers to them. `dnssec` has the root and
three zones; `maxChainDepth` is 2 instead of the code's 24, so that the third zone is too
deep. Two handlers share the cache in the world where both walk one zone through a
rollover; the other worlds have one. Sets of several RRSIGs are offered for zone 2 and sets
of a key that never was the zone's for zone 1, since offering both everywhere multiplies the
states and adds no case. A configuration file of `process` is a good one
with one section replaced by each of its variants, so two bad sections at once are not
tried; the variants of a section are combined with each other. Samples 0, 1 and 2 give
the unset minimum, an equal and a larger value. For every invariant that is proved, the
theorem covers what the bounds leave out.

**Fairness.** `Fallback`: weak fairness of a call's own steps, of the prober, of the end of
Close and of the clock that ends phase 1: the Go scheduler runs runnable goroutines,
tickers tick, and Close has no wait in it. Fairness of a call includes the return of its
upstream attempt only where a deadline ends it: an attempt or a probe on an entry of
`NoDeadline` may stay for ever (`InOpenRead`, `ProbeInOpenRead`), in `fallback_live` the
first entry is one, and the three properties name that as their only exception. Transports: weak fairness of each call's steps, where a DoQ or
DoH wait ends at its deadline at the latest; DoT reads without one (`dot.go:124`), so there
`CallsReturn` also needs servers that act or hang up. `Lifecycle`: main, the Serve
goroutines and the clock; nothing of handlers, clients or the operator, which is the point
of `SignalExits`. `Validator`: the handlers' steps, since fetches have a deadline, and the
end of each cached set's TTL, which put caps at a day. Clients are not assumed to send
queries, nor upstreams to recover; `KeysRecover` speaks of the case that they do.

**Deadlock** is checked except in the list modules, which stop when all loads are over and
the bound on edits is reached, in `transports`, which stops when all calls have returned,
and in `process`, which stops when the daemon has exited.

**Refinement.** `TransportsImplement` shows `DoT`, `DoQ` and `DoH` to implement `Transport`
under the mapping that reads a call's outcome off its position; `AllImplement` proves it
for any calls and connections. `Fallback` uses the promise: an attempt returns once, with an
answer of its own server or an error.

## 4. Proofs

Every safety property that a passing run checks is also a theorem, under the name
`PROJECT.json` gives beside it. What the theorems assume of the constants is in the named
ASSUMEs of the modules: sets have their types, bounds are naturals, a chain is not empty,
model values do not collide. Some need a word. `LinesAssumption` (`AllowlistLines`) says that
the contents of the files are what the scanner makes of lines, and `ManyNamesAssumption` that
there are more labels than the blocklist has lines: the names below a star cannot all be
listed one by one. `FilesAssumption` (`Lifecycle`) says that a configuration file is a record
of the sections that the parser can produce, `CountersAssumption` that latencies are naturals.

`FallbackProofs` proves, for any chain length, number of calls, threshold and mix of
upstream behaviours: `TypeCorrect`, `HealthIsCoherent`, `NoBlameWithoutCause`,
`NoForeignAnswer` and `LoneIsTried` (a chain of one entry is tried even if DOWN).
The invariants are not inductive alone: that recording an outcome is
justified depends on what the attempt in flight saw. `InFlight` supplies that: an error
in a call's hands has a cause in the upstream's history, a call at `done` has a result
that agrees with what it attempted, the prober only holds an entry of its round, and a
link that is not good is in the history. `IInv` is the conjunction; one lemma per
conjunct goes through the actions, and `RecordErrorEffect` and `RecordSuccessEffect`
say once what the bookkeeping does. They use the assumptions named in `Fallback`.

`ServingProofs` is about the two models that share `CacheStore`: `Serving` (`Spec`) and `Cache`
(`CacheSpec`). Of `Serving` it proves the types and the four invariants of `serving` (`ServingTypes`,
`CacheIsValidated`, `NothingBogusIsSent`, `PolicyIsKept`, `NothingDeniedIsForwarded`) for
any handlers, names, lists, answers and cache options. The strengthening says what a
handler may hold in each stage (`Fits`): from the cache lookup on, its question has passed
the policy; from the answer check on, its response is validated or made here. `Tracks`
ties the handler to the lists: while it works, the live allowlist is part of what was
allowed since the query came in, and the names of its answer that it has looked up are
too. `HandlerMoves` shows once that a step which leaves the lists alone keeps all this if
the response it takes fits; each action then only shows that it does.

Of `Cache` it proves `CacheTypes`, `CacheSizeBounded`, `CacheAgeBounded`,
`CacheLifetimes` and `LiveEntriesAreKept` for any number of callers, keys, sizes and TTL options. The
strengthening is that every entry, in the map *and in a caller's hands*, is `Sound`: its
expiry lies within the clamps of its own arrival time. Without the second half, a Put
between its computation and its lock could store anything. `LifetimeBounds` carries the
arithmetic, `WithoutShrinks` and `WithGrows` the cardinalities of eviction.
`LiveEntriesAreKept` is an action property: an entry goes by Clear, as one that expires
soonest in a full cache, or by a Get that found it expired, or found an older entry under its
key. It needs to know of a Get at its delete that serve-stale is off and that what it found
had expired (`DeleteInv`), also after the clock has moved on (`ExpiredStays`).

The last part takes bounds of the cache over to `Serving`. Every step of `Serving` leaves the
cache alone, drops one key or is one Put (`CacheSteps`), so the lemmas about Put apply there:
`SharedCacheBounded` (never more than `maxSize` entries, whichever modes write) and
`ExpiriesAreNear` (no entry expires later than the lifetime cap from now). The lifetime
counted from an answer's arrival is bounded in `Cache` but not in `Serving`; this is the
violation that `serving_bogus_recache` shows. `AgeBoundedWithoutStale` says where it comes
from: with serve-stale off, or without Mode 1, `StaleIsBounded` holds, so renewing a stale
answer after a bogus one is the only way past the bound.

`BlocklistProofs` proves `BlocklistTypes` and `NoGapInBlocking` for any files, URLs,
contents, reloads and edits. A swap replaces the live set by what one reload found, so
the invariant has to say that every reload, and the startup loader, has already taken in
the steady names of the files behind it (`ScanSound`, `BootSound`), and that they stay
after any swap (`SwapSound`). `LoneReloadsAreExact` needs a second invariant, about reloads
that nothing overlapped (`Lone`): such a reload is the only load at work, holds all of the
good files behind it and nothing that no file behind it lists, and its count is their number
(`Exact`). The cardinality grows by one exactly when the next file is good
(`OneMoreBefore`).

`AllowlistProofs` proves `AllowlistTypes`, `BadEditsAreHarmless` and `LoneReloadTellsTruth`
along the same lines. About `Matching` it proves, for any labels and any lines:
`AllowedIsCovered` (Allowed answers yes exactly for the names an entry covers),
`ShadowedCoversAll` (Shadowed reports an allowlist entry exactly if the blocklist blocks every
name the entry covers) and `WarningIsExact` (the same of the entries the two scanners read).
Below a star the code asks the blocklist for one made-up name; `AboveProbe` and
`ProbeIsCovered` show that an entry the scanner accepts blocks that name only if it blocks all
names below the star. `LiveListAsWritten` and `LiveWarningIsExact` put the two together: in
every reachable state the live list answers what the lines say, and the warning for one of
its entries is given exactly if every name of it is blocked.

`TransportProofs` proves, for any number of calls, connections and any message IDs:
`TransportsTyped`, `TransportsLoseNone`, `LoneCallsRecover`, `SiblingsAreSpared` and
`AllImplement`, that each client implements `Transport`; for `DoT` by itself also
`DoTNoneStray`, `DoTStaleAbsorbed` and `DoTImplements`. There is one inductive invariant per
protocol, and `AllInv` is the one of the protocol chosen.

* DoT (`IInv`). The heart is `Traffic`: an open connection carries nothing, or the one query
  of the call that reads from it, or the reply to that query. It holds because the exchange
  lock has one owner (`Owner`) and because a call that leaves an exchange without its reply
  closes the connection before it gives up the lock (`Holding`). So the reply a call reads is
  its own, whatever the IDs. `Counted` says that each try sends once. For the stale pool,
  `Lone` and `Alone` say what a call that nobody overlapped knows about the connection it
  found.
* DoQ (`QInv`). `QFits` ties a call's tries, connections and sends to its position, so that
  it gives up only on the second try or the second connection; `QUnpooled` says that a
  connection being recycled has left the pool, which is why recycling closes it for good and
  no other call finds it. `QAlone` and `QLone` play the part of `Alone` and `Lone`.
* DoH (`HInv`): a query is posted once, and what is on a call's stream was heard.

`ValidatorProofs` proves `ValidatorTyped`, `SecureAuthentic`, `InsecureProven` and
`ConsistentAccepted` for chains of any depth, any handlers, answers and fetched sets. The
invariant says of the cache only that each set is one a fetch could return for its zone
(`CacheTrue`), since nothing in it is verified. Of a handler it says (`Good`) that the sets
in its hands are such sets too, that the keys trusted at a level are keys the zone has had
and lie at the end of an unbroken chain, that the signatures passed so far are genuine, and
that a result agrees with all this. `VerifyOk` and `VerifyOdd` say what the verdict on a list
of RRSIGs tells: a good one by a trusted key, or one that could not be processed with the key
it names. The step that matters is the link from a parent to a
child: a DS that the parent's trusted keys signed is true, so a key it vouches for is the
child's.

`LifecycleProofs` and `StatisticsProofs` are about the two scenes of the `process` run,
`Lifecycle` (`Spec`) and `Statistics` (`CountersSpec`).

For any set of configuration files and queries `LifecycleProofs` proves `LifeTyped`, `LoadHasTheLastWord`,
`FilesMeanWhatTheySay`, `FiltersComeFirst` and `ShutdownDrains`. The inductive invariant
`LifeInv` has four parts. `MainInv` says what main has in its hands at each position: the
file, then what an accepted file loads as, then what is kept of it. The lemmas about `Config`
supply the rest: a file that Accepts accepts gives a chain and at least one mode
(`AcceptedChain`, `AcceptedKept`), passes main's own checks on the upstreams (`AcceptedTwice`)
and loads as what it says (`AcceptedLoads`).
`NetInv` says that there is no socket and no Serve loop before the allowlist is in force, and
none left while Stop of Mode 1 waits for its handlers or main closes the chain. `TakenInv` says that no query taken
over TCP or DoT is lost. `Awaited` says who waits for a query in flight until the five
seconds are over; neither `FilteredBeforeServed` nor
`AnsweredUnlessLate` is inductive without them, because Stop of one mode relies on what the
other has left behind.

For any handlers, transports, outcomes and latencies `StatisticsProofs` proves `QueriesAreConserved`,
`GapsWereOpen`, `AveragesAreHonest` and `NoUpdateIsLost`. `CountersInv` relates every counter
to the set of handlers that have passed it: TotalQueries and the response counters (`Books`),
the sum and the count of a mode (`Sums`), its extremes (`Extremes`), and for a snapshot under
way what it has read to what it has yet to read (`Reported`). `Extremes` follows the
compare-and-swap loops: a handler past its loop has its sample within the extremes, and an
extreme that is set is somebody's sample.

Sums over finite sets and the chain are recursive functions. What they compute is proved
from the smallest set (`SmallestSet`, `SumIs` in `StatisticsProofs`), or the fewest upstreams
(`JoinedExists`, `ChainHolds` in `LifecycleProofs`), that would not obey, since induction itself cannot be cited.

Only model-checked: the liveness properties (ResolveReturns, DownRecovers,
CloseStopsProber, CallsReturn, SignalExits, KeysRecover), because fairness and ENABLED are
outside the prover's reach. The two violated properties have a counterexample instead, and
what is left of them is proved: `AgeBoundedWithoutStale` and `LoneReloadsAreExact`.

## 5. Where the code and its words part

Shown by a run (quotes in `PROJECT.json`): the two violated properties above.

Met while modelling, described here and not run. Fallback and cache:

* When every entry of a chain of two or more is DOWN, a query fails unattempted
  (`fallback.go:150`, `:155`) until a probe succeeds.
* A DoT probe has no deadline (`dot.go:124`), and one goroutine does all probes, so one
  silent DoT upstream stops the recovery of all others for as long as it stays silent, and
  the query that meets it does not return at its deadline. `ResolveReturns`, `DownRecovers`
  and `CloseStopsProber` state this exception.
* A probe readmits an upstream on any answer (`fallback.go:293`), while Resolve counts
  a mismatched answer as an error (`:166`).
* In phase 2 a failing probe below the threshold moves DOWN to SLOW (`fallback.go:243`),
  against `docs/CONFIG.md:377-378`.
* Errors are recorded in the phase captured at the start of the call (`fallback.go:141`).
* The shared context makes a slow first upstream cost the next one an error;
  `BlameNeedsCause` counts that among the causes (`everCut`).
* Get deletes by key what it looked up earlier (`cache.go:147`), which may by then be a
  fresh entry; the next query asks the upstream again.
* A TTL of exactly a day or more counts as "no RRs" in `extractMinTTL` (`cache.go:331`).
* The comment at `cache.go:28` says short-lived responses are not cached; the code
  raises their lifetime to the minimum.
* `GetStale` takes a live entry as a miss (`cache.go:182`), so a handler whose upstream
  failed answers SERVFAIL although a sibling has just stored the answer.

Lists and transports:

* A reload that can read none of the files empties the live blocklist
  (`blocklist.go:232-237`), although the comment at `:208-210` says that a vanished file
  "should not wipe the whole live set". `LoneReloadExact` leaves that case open.
* Overlapping allowlist reloads can bring back a removed name (`docs/CONFIG.md:623`).
* DoQ's recycleConn closes a connection that siblings may be using (`doq.go:394`), and so
  does the idle rollover of getConnection.
* The "guaranteed-fresh connection" of the DoQ retry may be one a sibling has dialled, and
  DoQIdleRetries is counted before the retry's outcome is known.
* DoT reads pooledBefore before it waits for the exchange lock (`dot.go:76`), so a call that
  overlaps another may meet a stale connection without a retry; hence the word "alone" in
  `LoneCallRecovers`.

Validator:

* findDNSKEY takes a key that the message itself carries, and ValidateResponse then asks for
  no chain of trust; only a root KSK is held against the anchors (`validator.go:128`,
  `:185-189`). The comment at `:200-203` says that such a key's "trust is established
  by the chain walk / trust anchors". `SecureIsAuthentic` therefore says of such a key only what the code checks.
* An RRSIG that the library cannot process with the key it names gives insecure, whether or
  not the zone's own key is of that kind (`validator.go:176`, `chain.go:279`, `:316`), and of
  several failing RRSIGs the last one tried decides (`chain.go:346`). `InsecureIsProven`
  counts it as a cause beside the proven gaps.
* The comment at `chain.go:35` calls the cached sets positively verified; put comes before
  the verification (`:147`). A bad set makes answers bogus until its TTL ends, never secure.
* parentZone takes every label as a zone cut (`chain.go:254`), so a zone delegated several
  labels below its parent ends in a failed DNSKEY fetch and is bogus (`Bare`).

Process:

* The two stops share one budget of 5 s (`main.go:695-696`, against `server.go:831`), and an
  idle DoT connection uses up all of it.
* `Stop` closes the sockets before it waits for handlers, so UDP replies of that time are
  lost.
* Mode 2's certificate is refused only after Mode 1 serves.
* A DoH listener that cannot bind is reported as bound by the audit (`upstream.go:492-496`).
* A negative `health_check_interval_s` passes load and panics at start.
* LoadForDiagnostics leaves the check for conflicting token sources out.
* An oversized stream reply is sent as SERVFAIL and counted under its old rcode, although
  `statistics.go:39-46` says the buckets are keyed on the response. `Conserved` states the
  buckets by the rcode that was sent, with these replies as the exception.
* "Unaccounted" includes queries that are still being handled.
* A latency of 0 us reads as an unset minimum, so that `LatencyExact` says nothing of the
  minimum once there is one.
* The chain is closed after the five seconds' budget and outside it (`main.go:723-729`).

## 6. Not modelled

* Encoding, EDNS options and truncation: the data of messages, which no property here
  tells apart. The DDR zone's records and certificate names are of this kind.
* Cryptography and TLS: signatures are an oracle in `Validator`, and the comparison of pin
  hashes happens inside the TLS library's callback; `Config` says which upstreams get it.
* Certificate issuance and renewal: the state is the certmagic library's. What set-up
  accepts and refuses is in `Lifecycle`.
* The HTTP and QUIC libraries, below what `DoH`, `DoQ` and `Lifecycle` need of them.
* The logger, the rendering of statistics and of the audit, the profiling endpoint: output
  only. The logger's file is a possible refusal at start in `Lifecycle`.
* The verify commands: one-shot programs of one goroutine, network I/O from end to end.
* Clear and Add of the blocklist, which the program does not call; flags and privileges.
* `partly` in `PROJECT.json` means that what remains of a part is on this list.
