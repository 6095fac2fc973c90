------------------------------- MODULE Serving ------------------------------
(***************************************************************************)
(* How a query is served: policy, shared cache, upstream chain, DNSSEC     *)
(* validation, cache write and answer check, for every listener of the     *)
(* process at once.  Mode 1 is the loopback resolver (UDP and TCP,         *)
(* internal/server/server.go); Mode 2 the encrypted service (DoH, DoT and  *)
(* DoQ, internal/upstream/).  One handler serves one query at a time; the  *)
(* cache and the two lists are shared and the lists are reloaded while     *)
(* handlers run.                                                           *)
(*                                                                         *)
(* A cache operation is one step here; Cache has its finer grain.  The     *)
(* upstream chain is its result; Fallback has its inside.  Encoding, EDNS  *)
(* and the reply's way to the client are left out.                         *)
(***************************************************************************)
EXTENDS CacheStore

CONSTANTS Handlers,   \* request handlers of both modes
          Loopback,   \* the ones of the Mode 1 listeners
          Arpa,       \* a name under resolver.arpa, served locally by Mode 2
          Answers,    \* sets of owners and CNAME targets that answers have
          AllowLists, \* contents the allowlist may be loaded with
          BlockLists  \* contents the blocklist may be loaded with

Names == Keys

ASSUME ListAssumption ==
  /\ AllowLists \subseteq SUBSET Names \ {{}} /\ AllowLists # {}
  /\ BlockLists \subseteq SUBSET Names /\ {} \in BlockLists
ASSUME ListenerAssumption == Loopback \subseteq Handlers
ASSUME AnswerAssumption == Answers \subseteq SUBSET Names
ASSUME ArpaAssumption == Arpa \in Names

VARIABLES
  allow,   \* the live allowlist
  block,   \* the live blocklist
  pc,      \* where each handler is
  name,    \* the name of its question
  resp,    \* the response in its hands
  left,    \* names of the answer that Policy.Answer has yet to look up
  okay,    \* history: names allowed at some time since the query came in
  barred   \* history: names blocked all the time since the query came in

lists == <<allow, block, okay, barred>>
cacheVars == <<now, entries>>
vars == <<cacheVars, lists, pc, name, resp, left>>

\* A reply made here: FORMERR, REFUSED, the blocklist's NXDOMAIN, SERVFAIL or
\* the resolver.arpa zone.
Local(rcode) ==
  [sort |-> "local", rcode |-> rcode, names |-> {}, ttl |-> 0, at |-> 0,
   ad |-> "clear", verdict |-> "none"]

\* What the chain may return: records of any owners and CNAME targets, the
\* upstream's own AD bit.  NOERROR without records is negative.
Upstream ==
  LET Msg(sort, rcode, names) ==
        {[sort |-> sort, rcode |-> rcode, names |-> names, ttl |-> t, at |-> 0,
          ad |-> a, verdict |-> "none"] : t \in TTLs, a \in {"set", "clear"}}
  IN  Msg("negative", "NOERROR", {})
      \cup UNION {Msg("positive", "NOERROR", S) \cup Msg("negative", "NXDOMAIN", S)
                  \cup Msg("other", "SERVFAIL", S) : S \in Answers}

Init ==
  /\ now = 0 /\ entries = [k \in {} |-> 0]
  /\ allow \in AllowLists /\ block = {}
  /\ pc = [h \in Handlers |-> "idle"]
  /\ name = [h \in Handlers |-> Arpa]
  /\ resp = [h \in Handlers |-> Local("none")]
  /\ left = [h \in Handlers |-> {}]
  /\ okay = [h \in Handlers |-> {}]
  /\ barred = [h \in Handlers |-> {}]

-----------------------------------------------------------------------------
\* The handler goes on with r in its hands, names still to be looked up.
Holding(h, p, r) ==
  /\ pc' = [pc EXCEPT ![h] = p]
  /\ resp' = [resp EXCEPT ![h] = r]
  /\ left' = [left EXCEPT ![h] = IF p = "answer" THEN r.names ELSE {}]

\* A query was read and parsed (one that does not parse gets no reply).
Receive(h, n) ==
  /\ pc[h] = "idle"
  /\ Holding(h, "policy", Local("none"))
  /\ name' = [name EXCEPT ![h] = n]
  /\ okay' = [okay EXCEPT ![h] = allow]
  /\ barred' = [barred EXCEPT ![h] = block]
  /\ UNCHANGED <<cacheVars, allow, block>>

\* QDCOUNT is not 1: formErrResponse, before policy and cache.
RejectMalformed(h) ==
  /\ pc[h] = "idle"
  /\ Holding(h, "send", Local("FORMERR"))
  /\ UNCHANGED <<cacheVars, lists, name>>

OwnedByDDR(h) == h \notin Loopback /\ name[h] = Arpa

\* ddrZone.answer: resolver.arpa is answered before policy.
AnswerDDR(h) ==
  /\ pc[h] = "policy" /\ OwnedByDDR(h)
  /\ Holding(h, "send", Local("NOERROR"))
  /\ UNCHANGED <<cacheVars, lists, name>>

\* Faulty form: the allowlist is not looked at.
DeniedNever(h) == FALSE

\* Policy.Response, allowlist part.
Denied(h) == name[h] \notin allow

Deny(h) ==
  /\ pc[h] = "policy" /\ ~OwnedByDDR(h) /\ Denied(h)
  /\ Holding(h, "send", Local("REFUSED"))
  /\ UNCHANGED <<cacheVars, lists, name>>

Permit(h) ==
  /\ pc[h] = "policy" /\ ~OwnedByDDR(h) /\ ~Denied(h)
  /\ Holding(h, "blocklist", resp[h])
  /\ UNCHANGED <<cacheVars, lists, name>>

\* Policy.Response, blocklist part, a lookup of its own: the blocklist wins inside
\* the allowlist.
Blocked(h) == name[h] \in block

Block(h) ==
  /\ pc[h] = "blocklist" /\ Blocked(h)
  /\ Holding(h, "send", Local("NXDOMAIN"))
  /\ UNCHANGED <<cacheVars, lists, name>>

Admit(h) ==
  /\ pc[h] = "blocklist" /\ ~Blocked(h)
  /\ Holding(h, "lookup", resp[h])
  /\ UNCHANGED <<cacheVars, lists, name>>

-----------------------------------------------------------------------------
(* The cache and the upstream chain                                        *)

Live(k) == {e \in Lookup(k) : ~IsExpired(e)}

\* Faulty form: a cached answer goes out without Policy.Answer.
CacheHitUnchecked(h) ==
  /\ pc[h] = "lookup"
  /\ \E e \in Live(name[h]) : Holding(h, "send", e.resp)
  /\ UNCHANGED <<cacheVars, lists, name>>

\* cache.Get hits: the stored copy goes through Policy.Answer.
CacheHit(h) ==
  /\ pc[h] = "lookup"
  /\ \E e \in Live(name[h]) : Holding(h, "answer", e.resp)
  /\ UNCHANGED <<cacheVars, lists, name>>

\* cache.Get misses; without serve-stale it drops the expired entry.
CacheMiss(h) ==
  /\ pc[h] = "lookup" /\ Live(name[h]) = {}
  /\ IF StaleMax = 0 THEN Delete(name[h]) ELSE UNCHANGED entries
  /\ Holding(h, "resolve", resp[h])
  /\ UNCHANGED <<now, lists, name>>

\* resolver.Resolve returns a response.
Resolved(h) ==
  /\ pc[h] = "resolve"
  /\ \E r \in Upstream : Holding(h, "validate", r)
  /\ UNCHANGED <<cacheVars, lists, name>>

\* upstreamFailureResponse in Mode 1 (a bounded-stale answer if there is one),
\* SERVFAIL in Mode 2.
FailureResponses(h) ==
  LET stale == {e.resp : e \in {x \in Lookup(name[h]) : WithinStaleWindow(x)}}
  IN  IF h \in Loopback /\ stale # {} THEN stale ELSE {Local("SERVFAIL")}

\* resolver.Resolve returns an error; what is sent instead is not cached.
ResolveFailed(h) ==
  /\ pc[h] = "resolve"
  /\ \E r \in FailureResponses(h) : Holding(h, "answer", r)
  /\ UNCHANGED <<cacheVars, lists, name>>

\* Faulty form: any rcode is eligible.
CacheableAll(h, r) == TRUE

\* cacheableResponse in Mode 1, the NOERROR test in Mode 2.
Cacheable(h, r) ==
  \/ r.sort = "positive"
  \/ r.sort = "negative" /\ IF h \in Loopback THEN NegTTLMax > 0 ELSE r.rcode = "NOERROR"

\* cache.Put of what the handler is about to send, if it is eligible.
Put(h, r) ==
  IF Cacheable(h, r) /\ Storable("same", r)
  THEN Store(name[h], r, now + Lifetime(r))
  ELSE UNCHANGED entries

\* AD is set on a secure answer and cleared on an insecure one.
Judged(r, v) == [r EXCEPT !.verdict = v, !.ad = IF v = "secure" THEN "set" ELSE "clear"]

\* applyDNSSEC (Mode 1) or validateFunc (Mode 2) finds the answer secure or
\* insecure; then the cache write.
ValidatedGood(h) ==
  /\ pc[h] = "validate"
  /\ \E v \in {"secure", "insecure"} :
       LET r == [Judged(resp[h], v) EXCEPT !.at = now]
       IN  Put(h, r) /\ Holding(h, "answer", r)
  /\ UNCHANGED <<now, lists, name>>

\* Faulty form: a bogus answer is kept out of the cache, and sent.
ValidatedBogusServed(h) ==
  /\ pc[h] = "validate"
  /\ Holding(h, "answer", [resp[h] EXCEPT !.verdict = "bogus"])
  /\ UNCHANGED <<cacheVars, lists, name>>

\* The answer is bogus: the failure response takes its place, ...
ValidatedBogus(h) ==
  /\ pc[h] = "validate"
  /\ \E r \in FailureResponses(h) : Holding(h, "recache", r)
  /\ UNCHANGED <<cacheVars, lists, name>>

\* ... and goes through the same cache write as an answer.
Recache(h) ==
  /\ pc[h] = "recache"
  /\ Put(h, resp[h])
  /\ Holding(h, "answer", resp[h])
  /\ UNCHANGED <<now, lists, name>>

-----------------------------------------------------------------------------
(* Policy.Answer: one lookup in the live allowlist per name of the answer. *)

NamePasses(h, n) ==
  /\ pc[h] = "answer" /\ n \in left[h] /\ n \in allow
  /\ left' = [left EXCEPT ![h] = @ \ {n}]
  /\ UNCHANGED <<cacheVars, lists, pc, name, resp>>

\* The whole reply is refused rather than trimmed.
NameRefused(h, n) ==
  /\ pc[h] = "answer" /\ n \in left[h] /\ n \notin allow
  /\ Holding(h, "send", Local("REFUSED"))
  /\ UNCHANGED <<cacheVars, lists, name>>

AnswerPasses(h) ==
  /\ pc[h] = "answer" /\ left[h] = {}
  /\ Holding(h, "send", resp[h])
  /\ UNCHANGED <<cacheVars, lists, name>>

\* The reply is sent, or lost with the client; the handler is done.
Send(h) ==
  /\ pc[h] = "send"
  /\ Holding(h, "idle", Local("none"))
  /\ name' = [name EXCEPT ![h] = Arpa]
  /\ okay' = [okay EXCEPT ![h] = {}]
  /\ barred' = [barred EXCEPT ![h] = {}]
  /\ UNCHANGED <<cacheVars, allow, block>>

-----------------------------------------------------------------------------
(* Reloads swap a whole list in; time passes.                              *)

Busy(h) == pc[h] # "idle"

ReloadAllow(S) ==
  /\ allow # S
  /\ allow' = S
  /\ okay' = [h \in Handlers |-> IF Busy(h) THEN okay[h] \cup S ELSE {}]
  /\ UNCHANGED <<cacheVars, block, barred, pc, name, resp, left>>

ReloadBlock(S) ==
  /\ block # S
  /\ block' = S
  /\ barred' = [h \in Handlers |-> barred[h] \cap S]
  /\ UNCHANGED <<cacheVars, allow, okay, pc, name, resp, left>>

TimePasses ==
  /\ Tick
  /\ UNCHANGED <<entries, lists, pc, name, resp, left>>

-----------------------------------------------------------------------------
HandlerStep(h) ==
  \/ \E n \in Names : Receive(h, n)
  \/ RejectMalformed(h)
  \/ AnswerDDR(h) \/ Deny(h) \/ Permit(h) \/ Block(h) \/ Admit(h)
  \/ CacheHit(h) \/ CacheMiss(h)
  \/ Resolved(h) \/ ResolveFailed(h)
  \/ ValidatedGood(h) \/ ValidatedBogus(h) \/ Recache(h)
  \/ \E n \in Names : NamePasses(h, n) \/ NameRefused(h, n)
  \/ AnswerPasses(h) \/ Send(h)

Next ==
  \/ \E h \in Handlers : HandlerStep(h)
  \/ \E S \in AllowLists : ReloadAllow(S)
  \/ \E S \in BlockLists : ReloadBlock(S)
  \/ TimePasses

Spec == Init /\ [][Next]_vars

-----------------------------------------------------------------------------
(* Properties                                                              *)

Response ==
  [sort : {"positive", "negative", "other", "local"}, ttl : Nat, at : Nat,
   rcode : {"none", "NOERROR", "NXDOMAIN", "SERVFAIL", "REFUSED", "FORMERR"},
   names : SUBSET Names, ad : {"set", "clear"}, verdict : {"none", "secure", "insecure", "bogus"}]

Entry == [resp : Response, exp : Nat]

\* Every variable has its type.
TypeOK ==
  /\ now \in Nat
  /\ DOMAIN entries \subseteq Keys /\ \A k \in DOMAIN entries : entries[k] \in Entry
  /\ allow \subseteq Names /\ block \subseteq Names
  /\ pc \in [Handlers -> {"idle", "policy", "blocklist", "lookup", "resolve", "validate",
                         "recache", "answer", "send"}]
  /\ name \in [Handlers -> Names]
  /\ resp \in [Handlers -> Response] /\ left \in [Handlers -> SUBSET Names]
  /\ okay \in [Handlers -> SUBSET Names] /\ barred \in [Handlers -> SUBSET Names]

\* Validated, with the AD bit that the verdict calls for.
Vetted(r) == r.verdict \in {"secure", "insecure"} /\ (r.ad = "set" <=> r.verdict = "secure")

\* The shared cache only holds NOERROR and NXDOMAIN answers that validation
\* found secure or insecure, with the AD bit to match, whichever mode stored
\* them, and also when a bogus answer was replaced by a stale one before the
\* cache write.
CacheHoldsValidated ==
  \A k \in DOMAIN entries :
    Vetted(entries[k].resp) /\ entries[k].resp.sort \in {"positive", "negative"}

\* A reply that was not made here is a validated one with the AD bit of its
\* verdict: a bogus answer reaches no client of either mode, directly, from the
\* cache or as a stale answer (applyDNSSEC, validateFunc).
RepliesValidated ==
  \A h \in Handlers : pc[h] = "send" /\ resp[h].sort # "local" => Vetted(resp[h])

\* "Names removed from the list are refused immediately, even if an answer is
\* cached": a reply only names what the allowlist allowed at some time since
\* the query came in, and answers no question that the blocklist blocked all
\* that time, however reloads interleave with the handler (Policy.Answer runs
\* at serve time).
PolicyHolds ==
  \A h \in Handlers : pc[h] = "send" /\ resp[h].sort # "local" =>
    /\ resp[h].names \cup {name[h]} \subseteq okay[h]
    /\ name[h] \notin barred[h]

\* Denied and blocked queries are never forwarded upstream, and Mode 2 never
\* forwards resolver.arpa.
DeniedNotForwarded ==
  \A h \in Handlers : pc[h] \in {"resolve", "validate"} =>
    name[h] \in okay[h] \ barred[h] /\ ~OwnedByDDR(h)

-----------------------------------------------------------------------------
(* What a comment says and the code does not do.                           *)

\* "ServeStaleMaxS bounds how far past expiry a stale answer may be served":
\* no answer taken from the cache is older than the lifetime cap and the stale
\* window together.
StaleIsBounded ==
  [][\A h \in Handlers :
       pc[h] = "lookup" /\ pc'[h] = "answer" => now - resp'[h].at <= LifetimeCap + StaleMax]_vars

=============================================================================
