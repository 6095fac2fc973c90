--------------------------- MODULE ServingProofs ----------------------------
(***************************************************************************)
(* Theorems about the two models of the shared response cache and its      *)
(* users: first Serving, for any handlers of both modes, any names, lists, *)
(* answers and cache options; then Cache, for every capacity, every TTL    *)
(* bound, every stale window and any number of concurrent callers.         *)
(***************************************************************************)
EXTENDS Serving, Cache, FiniteSetTheorems, TLAPS

Stages == {"idle", "policy", "blocklist", "lookup", "resolve", "validate", "recache", "answer", "send"}

\* No stale answer is ever served: serve-stale is off, or there is no Mode 1.
NoStale == StaleMax = 0 \/ Loopback = {}

\* What the cache holds, with its types.
CacheSound ==
  /\ now \in Nat
  /\ DOMAIN entries \subseteq Keys
  /\ \A k \in DOMAIN entries : entries[k] \in Entry
  /\ CacheHoldsValidated

\* The question of h has passed the policy.
Admitted(h) == name[h] \in okay[h] /\ name[h] \notin barred[h] /\ ~OwnedByDDR(h)

\* What a handler may hold: r in stage p.
Fits(h, p, r) ==
  /\ p \in {"recache", "answer", "send"} => r.sort = "local" \/ Vetted(r)
  /\ p = "recache" /\ NoStale => r.sort = "local"
  /\ p = "blocklist" => name[h] \in okay[h] /\ ~OwnedByDDR(h)
  /\ p \in {"lookup", "resolve", "validate", "recache", "answer"} => Admitted(h)
  /\ p = "send" /\ r.sort # "local" =>
       r.names \cup {name[h]} \subseteq okay[h] /\ name[h] \notin barred[h]

\* A handler at work has seen the live lists, and has found every name it has
\* looked up in the allowlist.
Tracks(h) ==
  /\ pc[h] \notin {"idle", "send"} => allow \subseteq okay[h] /\ barred[h] \subseteq block
  /\ pc[h] = "answer" => resp[h].names \subseteq okay[h] \cup left[h]

IInv ==
  /\ TypeOK /\ CacheSound
  /\ \A h \in Handlers : Fits(h, pc[h], resp[h]) /\ Tracks(h)

-----------------------------------------------------------------------------
\* Replies made here, and what the chain returns, are responses.
LEMMA LocalIsResponse ==
  ASSUME NEW c \in {"none", "NOERROR", "NXDOMAIN", "SERVFAIL", "REFUSED", "FORMERR"}
  PROVE  Local(c) \in Response /\ Local(c).sort = "local" /\ Local(c).names = {}
BY Zenon DEF Local, Response

LEMMA UpstreamIsResponse == Upstream \subseteq Response
BY AnswerAssumption, TTLAssumption, SMT, SMTT(30) DEF Upstream, Response

\* The initial states satisfy the inductive invariant.
LEMMA InitEstablishes == Init => IInv
<1> SUFFICES ASSUME Init PROVE IInv
  BY Zenon
<1>1. Local("none") \in Response /\ Local("none").sort = "local"
  BY LocalIsResponse, Zenon
<1>2. TypeOK
  BY <1>1, ListAssumption, ArpaAssumption, Zenon DEF Init, TypeOK, Names
<1>3. CacheSound
  BY Zenon DEF Init, CacheSound, CacheHoldsValidated
<1>4. \A h \in Handlers : Fits(h, pc[h], resp[h]) /\ Tracks(h)
  BY Zenon DEF Init, Fits, Tracks
<1> QED
  BY <1>2, <1>3, <1>4, Zenon DEF IInv

\* Holding changes one handler, to the stage and response it says.
LEMMA HoldingEffect ==
  ASSUME TypeOK, NEW h \in Handlers, NEW p \in Stages, NEW r \in Response, Holding(h, p, r)
  PROVE  /\ pc' \in [Handlers -> Stages] /\ resp' \in [Handlers -> Response]
         /\ left' \in [Handlers -> SUBSET Names]
         /\ pc'[h] = p /\ resp'[h] = r /\ (p = "answer" => left'[h] = r.names)
         /\ \A g \in Handlers \ {h} :
              pc'[g] = pc[g] /\ resp'[g] = resp[g] /\ left'[g] = left[g]
<1>1. r.names \in SUBSET Names
  BY Zenon DEF Response
<1> QED
  BY <1>1, Zenon DEF TypeOK, Holding, Stages

\* A handler that leaves the lists alone keeps the invariant if the cache stays
\* sound and what it takes into its hands fits.
LEMMA HandlerMoves ==
  ASSUME IInv, NEW h \in Handlers, NEW p \in Stages, NEW r \in Response, Holding(h, p, r),
         UNCHANGED <<lists, name>>, CacheSound', Fits(h, p, r),
         p \notin {"idle", "send"} => pc[h] \notin {"idle", "send"}
  PROVE  IInv'
<1>1. TypeOK /\ CacheSound
  BY Zenon DEF IInv
<1>2. /\ pc' \in [Handlers -> Stages] /\ resp' \in [Handlers -> Response]
      /\ left' \in [Handlers -> SUBSET Names]
      /\ pc'[h] = p /\ resp'[h] = r /\ (p = "answer" => left'[h] = r.names)
      /\ \A g \in Handlers \ {h} :
           pc'[g] = pc[g] /\ resp'[g] = resp[g] /\ left'[g] = left[g]
  BY <1>1, HoldingEffect, Zenon
<1>3. allow' = allow /\ block' = block /\ okay' = okay /\ barred' = barred /\ name' = name
  BY Zenon DEF lists
<1>4. TypeOK'
  BY <1>1, <1>2, <1>3, Zenon DEF TypeOK, CacheSound, Stages
<1>5. ASSUME NEW g \in Handlers PROVE Fits(g, pc[g], resp[g])'
  <2>1. Fits(g, pc'[g], resp'[g])
    BY <1>2, Zenon DEF IInv
  <2> QED
    BY <2>1, <1>3, ZenonT(40) DEF Fits, Admitted, OwnedByDDR, Vetted
<1>6. ASSUME NEW g \in Handlers PROVE Tracks(g)'
  <2>1. Tracks(g) /\ Tracks(h)
    BY Zenon DEF IInv
  <2>2. CASE g = h
    BY <2>1, <2>2, <1>2, <1>3, Zenon DEF Tracks
  <2>3. CASE g # h
    BY <2>1, <2>3, <1>2, <1>3, Zenon DEF Tracks
  <2> QED
    BY <2>2, <2>3, Zenon
<1> QED
  BY <1>4, <1>5, <1>6, Zenon DEF IInv

-----------------------------------------------------------------------------
(* The cache                                                               *)

\* Put's lifetime is a number.
LEMMA LifetimeIsNat == ASSUME NEW r \in Response PROVE Lifetime(r) \in Nat
<1>1. r.ttl \in Nat
  BY Zenon DEF Response
<1> QED
  BY <1>1, OptionsAssumption, SentinelAssumption, Zenon
     DEF Lifetime, isNegative, Lesser, Larger, Clamped, extractMinTTL

\* Storing adds one entry and leaves or evicts the others.
LEMMA StoreEffect ==
  ASSUME NEW k \in Keys, NEW r, NEW x, Store(k, r, x), DOMAIN entries \subseteq Keys
  PROVE  /\ DOMAIN entries' \subseteq Keys
         /\ \A j \in DOMAIN entries' :
              \/ entries'[j] = [resp |-> r, exp |-> x]
              \/ j \in DOMAIN entries /\ entries'[j] = entries[j]
<1>1. PICK m \in evictOldest(k) : entries' = With(m, k, [resp |-> r, exp |-> x])
  BY Zenon DEF Store
<1>2. DOMAIN m \subseteq DOMAIN entries /\ \A j \in DOMAIN m : m[j] = entries[j]
  BY Zenon DEF evictOldest, Without
<1> QED
  BY <1>1, <1>2, Zenon DEF With

\* A Put of a vetted response keeps the cache sound.
LEMMA PutSound ==
  ASSUME CacheSound, TypeOK, NEW h \in Handlers, NEW r \in Response, Put(h, r), now' = now,
         r.sort = "local" \/ Vetted(r)
  PROVE  CacheSound'
<1>1. CASE Cacheable(h, r) /\ Storable("same", r)
  <2>1. Store(name[h], r, now + Lifetime(r))
    BY <1>1, Zenon DEF Put
  <2>2. name[h] \in Keys /\ DOMAIN entries \subseteq Keys
    BY Zenon DEF TypeOK, Names
  <2>3. /\ DOMAIN entries' \subseteq Keys
        /\ \A j \in DOMAIN entries' :
             \/ entries'[j] = [resp |-> r, exp |-> now + Lifetime(r)]
             \/ j \in DOMAIN entries /\ entries'[j] = entries[j]
    BY <2>1, <2>2, StoreEffect, SMT, SMTT(30)
  <2>4. now + Lifetime(r) \in Nat
    BY LifetimeIsNat, SMT, SMTT(30) DEF CacheSound
  <2>5. r.sort \in {"positive", "negative"} /\ Vetted(r)
    BY <1>1, Zenon DEF Cacheable
  <2>6. ASSUME NEW j \in DOMAIN entries'
        PROVE  /\ entries'[j] \in Entry /\ Vetted(entries'[j].resp)
               /\ entries'[j].resp.sort \in {"positive", "negative"}
    BY <2>3, <2>4, <2>5, SMT, SMTT(30) DEF CacheSound, CacheHoldsValidated, Entry
  <2> QED
    BY <2>3, <2>6, Zenon DEF CacheSound, CacheHoldsValidated, Vetted
<1>2. CASE ~(Cacheable(h, r) /\ Storable("same", r))
  BY <1>2, Zenon DEF Put, CacheSound, CacheHoldsValidated, Vetted
<1> QED
  BY <1>1, <1>2, Zenon

\* What is found in a sound cache is a vetted response.
LEMMA LookupVetted ==
  ASSUME CacheSound, NEW k, NEW e \in Lookup(k)
  PROVE  e.resp \in Response /\ Vetted(e.resp)
BY Zenon DEF CacheSound, CacheHoldsValidated, Lookup, Entry

\* So is what stands in for an answer, unless it was made here.
LEMMA FailureVetted ==
  ASSUME CacheSound, NEW h, NEW r \in FailureResponses(h)
  PROVE  r \in Response /\ (r.sort = "local" \/ Vetted(r))
<1>1. CASE r = Local("SERVFAIL")
  BY <1>1, LocalIsResponse, Zenon
<1>2. CASE r # Local("SERVFAIL")
  <2>1. PICK e \in Lookup(name[h]) : r = e.resp
    BY <1>2, Zenon DEF FailureResponses
  <2> QED
    BY <2>1, LookupVetted, ZenonT(40)
<1> QED
  BY <1>1, <1>2, Zenon

-----------------------------------------------------------------------------
(* The steps of a handler                                                  *)

\* Rejecting a query, or answering it before the cache, keeps the invariant:
\* what is sent was made here.
LEMMA LocalReplyStep ==
  ASSUME IInv, NEW h \in Handlers,
         \/ RejectMalformed(h) \/ AnswerDDR(h) \/ Deny(h) \/ Block(h)
         \/ \E n \in Names : NameRefused(h, n)
  PROVE  IInv'
<1>1. PICK c \in {"NOERROR", "NXDOMAIN", "REFUSED", "FORMERR"} :
        Holding(h, "send", Local(c)) /\ UNCHANGED <<cacheVars, lists, name>>
  BY Zenon DEF RejectMalformed, AnswerDDR, Deny, Block, NameRefused
<1>2. Local(c) \in Response /\ Local(c).sort = "local"
  BY LocalIsResponse, Zenon
<1>3. CacheSound'
  BY <1>1, Zenon DEF IInv, CacheSound, CacheHoldsValidated, cacheVars
<1>4. Fits(h, "send", Local(c))
  BY <1>2, Zenon DEF Fits
<1> QED
  BY <1>1, <1>2, <1>3, <1>4, HandlerMoves, ZenonT(40) DEF Stages

\* The query passes the allowlist, as it is now.
LEMMA PermitStep == ASSUME IInv, NEW h \in Handlers, Permit(h) PROVE IInv'
<1>1. resp[h] \in Response /\ Tracks(h)
  BY Zenon DEF IInv, TypeOK
<1>2. CacheSound'
  BY Zenon DEF Permit, IInv, CacheSound, CacheHoldsValidated, cacheVars
<1>3. Fits(h, "blocklist", resp[h])
  BY <1>1, Zenon DEF Fits, Permit, Denied, Tracks
<1>4. Holding(h, "blocklist", resp[h]) /\ UNCHANGED <<lists, name>> /\ pc[h] = "policy"
  BY Zenon DEF Permit
<1> QED
  BY <1>1, <1>2, <1>3, <1>4, HandlerMoves, Zenon DEF Stages

\* Then the blocklist, as it is now.
LEMMA AdmitStep == ASSUME IInv, NEW h \in Handlers, Admit(h) PROVE IInv'
<1>1. resp[h] \in Response /\ Tracks(h) /\ Fits(h, "blocklist", resp[h])
  BY Zenon DEF IInv, TypeOK, Admit
<1>2. CacheSound'
  BY Zenon DEF Admit, IInv, CacheSound, CacheHoldsValidated, cacheVars
<1>3. Fits(h, "lookup", resp[h])
  BY <1>1, Zenon DEF Fits, Admitted, Admit, Blocked, Tracks
<1>4. Holding(h, "lookup", resp[h]) /\ UNCHANGED <<lists, name>> /\ pc[h] = "blocklist"
  BY Zenon DEF Admit
<1> QED
  BY <1>1, <1>2, <1>3, <1>4, HandlerMoves, Zenon DEF Stages

\* The cache answers.
LEMMA CacheHitStep == ASSUME IInv, NEW h \in Handlers, CacheHit(h) PROVE IInv'
<1>1. PICK e \in Lookup(name[h]) : Holding(h, "answer", e.resp)
  BY Zenon DEF CacheHit, Live
<1>2. e.resp \in Response /\ Vetted(e.resp)
  BY LookupVetted, Zenon DEF IInv
<1>3. CacheSound'
  BY Zenon DEF CacheHit, IInv, CacheSound, CacheHoldsValidated, cacheVars
<1>4. Fits(h, "answer", e.resp)
  BY <1>2, Zenon DEF Fits, CacheHit, IInv
<1>5. UNCHANGED <<lists, name>> /\ pc[h] = "lookup"
  BY Zenon DEF CacheHit
<1> QED
  BY <1>1, <1>2, <1>3, <1>4, <1>5, HandlerMoves, Zenon DEF Stages

\* It does not, and may drop the expired entry.
LEMMA CacheMissStep == ASSUME IInv, NEW h \in Handlers, CacheMiss(h) PROVE IInv'
<1>1. resp[h] \in Response
  BY Zenon DEF IInv, TypeOK
<1>2. DOMAIN entries' \subseteq DOMAIN entries /\ \A k \in DOMAIN entries' : entries'[k] = entries[k]
  BY Zenon DEF CacheMiss, Delete, Without
<1>3. CacheSound'
  BY <1>2, Zenon DEF CacheMiss, IInv, CacheSound, CacheHoldsValidated
<1>4. Fits(h, "resolve", resp[h])
  BY Zenon DEF Fits, CacheMiss, IInv
<1>5. Holding(h, "resolve", resp[h]) /\ UNCHANGED <<lists, name>> /\ pc[h] = "lookup"
  BY Zenon DEF CacheMiss
<1> QED
  BY <1>1, <1>3, <1>4, <1>5, HandlerMoves, Zenon DEF Stages

\* The chain returns a response, or an error for which something stands in.
LEMMA ResolveStep ==
  ASSUME IInv, NEW h \in Handlers, Resolved(h) \/ ResolveFailed(h) PROVE IInv'
<1>1. CacheSound'
  BY Zenon DEF Resolved, ResolveFailed, IInv, CacheSound, CacheHoldsValidated, cacheVars
<1>2. UNCHANGED <<lists, name>> /\ pc[h] = "resolve"
  BY Zenon DEF Resolved, ResolveFailed
<1>3. CASE Resolved(h)
  <2>1. PICK r \in Upstream : Holding(h, "validate", r)
    BY <1>3, Zenon DEF Resolved
  <2>2. r \in Response
    BY UpstreamIsResponse, Zenon
  <2>3. Fits(h, "validate", r)
    BY <1>2, Zenon DEF Fits, IInv
  <2> QED
    BY <1>1, <1>2, <2>1, <2>2, <2>3, HandlerMoves, Zenon DEF Stages
<1>4. CASE ResolveFailed(h)
  <2>1. PICK r \in FailureResponses(h) : Holding(h, "answer", r)
    BY <1>4, Zenon DEF ResolveFailed
  <2>2. r \in Response /\ (r.sort = "local" \/ Vetted(r))
    BY FailureVetted, Zenon DEF IInv
  <2>3. Fits(h, "answer", r)
    BY <1>2, <2>2, Zenon DEF Fits, IInv
  <2> QED
    BY <1>1, <1>2, <2>1, <2>2, <2>3, HandlerMoves, Zenon DEF Stages
<1> QED
  BY <1>3, <1>4, Zenon

\* With no stale answers, what stands in for an answer was made here.
LEMMA FailureIsLocal ==
  ASSUME NoStale, NEW h, NEW r \in FailureResponses(h) PROVE r.sort = "local"
<1>1. r = Local("SERVFAIL")
  BY SMT, SMTT(30) DEF NoStale, FailureResponses, WithinStaleWindow
<1> QED
  BY <1>1, Zenon DEF Local

\* The answer is bogus, and something stands in for it.
LEMMA BogusStep == ASSUME IInv, NEW h \in Handlers, ValidatedBogus(h) PROVE IInv'
<1>1. UNCHANGED <<lists, name>> /\ pc[h] = "validate"
  BY Zenon DEF ValidatedBogus
<1>2. CacheSound'
  BY Zenon DEF ValidatedBogus, IInv, CacheSound, CacheHoldsValidated, cacheVars
<1>3. PICK r \in FailureResponses(h) : Holding(h, "recache", r)
  BY Zenon DEF ValidatedBogus
<1>4. r \in Response /\ (r.sort = "local" \/ Vetted(r))
  BY FailureVetted, Zenon DEF IInv
<1>5. NoStale => r.sort = "local"
  BY FailureIsLocal, Zenon
<1>6. Fits(h, "recache", r)
  BY <1>1, <1>4, <1>5, Zenon DEF Fits, IInv
<1> QED
  BY <1>1, <1>2, <1>3, <1>4, <1>6, HandlerMoves, Zenon DEF Stages

\* The verdict, the AD bit that goes with it, and the cache write.
LEMMA ValidateStep ==
  ASSUME IInv, NEW h \in Handlers, ValidatedGood(h) \/ Recache(h) PROVE IInv'
<1>1. UNCHANGED <<lists, name>> /\ now' = now /\ pc[h] \in {"validate", "recache"}
  BY Zenon DEF ValidatedGood, Recache
<1>2. TypeOK /\ CacheSound /\ resp[h] \in Response /\ now \in Nat
  BY Zenon DEF IInv, TypeOK
<1>3. \E r \in Response : (r.sort = "local" \/ Vetted(r)) /\ Put(h, r) /\ Holding(h, "answer", r)
  <2>1. CASE ValidatedGood(h)
    <3>1. PICK v \in {"secure", "insecure"} :
            LET r == [Judged(resp[h], v) EXCEPT !.at = now]
            IN  Put(h, r) /\ Holding(h, "answer", r)
      BY <2>1, Zenon DEF ValidatedGood
    <3>2. [Judged(resp[h], v) EXCEPT !.at = now] \in Response
      BY <1>2, ZenonT(40) DEF Judged, Response
    <3>3. Vetted([Judged(resp[h], v) EXCEPT !.at = now])
      BY <1>2, Zenon DEF Judged, Response, Vetted
    <3> QED
      BY <3>1, <3>2, <3>3, Zenon
  <2>2. CASE Recache(h)
    BY <1>2, <2>2, Zenon DEF Recache, IInv, Fits
  <2> QED
    BY <2>1, <2>2, Zenon
<1>4. PICK r \in Response :
        (r.sort = "local" \/ Vetted(r)) /\ Put(h, r) /\ Holding(h, "answer", r)
  BY <1>3, Zenon
<1>5. CacheSound'
  BY <1>1, <1>2, <1>4, PutSound, Zenon
<1>6. Fits(h, "answer", r)
  BY <1>1, <1>4, Zenon DEF Fits, IInv
<1> QED
  BY <1>1, <1>4, <1>5, <1>6, HandlerMoves, Zenon DEF Stages

\* Policy.Answer: a name is found in the allowlist, or none is left.
LEMMA AnswerStep ==
  ASSUME IInv, NEW h \in Handlers, AnswerPasses(h) \/ \E n \in Names : NamePasses(h, n)
  PROVE  IInv'
<1>1. Fits(h, "answer", resp[h]) /\ Tracks(h) /\ resp[h] \in Response /\ pc[h] = "answer"
  BY Zenon DEF AnswerPasses, NamePasses, IInv, TypeOK
<1>2. CacheSound'
  BY Zenon DEF AnswerPasses, NamePasses, IInv, CacheSound, CacheHoldsValidated, cacheVars
<1>3. CASE AnswerPasses(h)
  <2>1. Fits(h, "send", resp[h])
    BY <1>1, <1>3, Zenon DEF Fits, Tracks, Admitted, AnswerPasses
  <2>2. Holding(h, "send", resp[h]) /\ UNCHANGED <<lists, name>>
    BY <1>3, Zenon DEF AnswerPasses
  <2> QED
    BY <1>1, <1>2, <2>1, <2>2, HandlerMoves, Zenon DEF Stages
<1>4. ASSUME NEW n \in Names, NamePasses(h, n) PROVE IInv'
  <2>1. /\ allow' = allow /\ block' = block /\ okay' = okay /\ barred' = barred
        /\ name' = name /\ pc' = pc /\ resp' = resp /\ now' = now /\ entries' = entries
    BY <1>4, Zenon DEF NamePasses, lists, cacheVars
  <2>2. TypeOK'
    BY <1>4, <2>1, Zenon DEF NamePasses, IInv, TypeOK
  <2>3. ASSUME NEW g \in Handlers PROVE Fits(g, pc[g], resp[g])' /\ Tracks(g)'
    <3>1. Fits(g, pc[g], resp[g]) /\ Tracks(g) /\ left \in [Handlers -> SUBSET Names]
      BY Zenon DEF IInv, TypeOK
    <3>2. Fits(g, pc[g], resp[g])'
      BY <3>1, <2>1, Zenon DEF Fits, Admitted, OwnedByDDR, Vetted
    <3>3. Tracks(g)'
      BY <1>1, <1>4, <3>1, <2>1, ZenonT(40) DEF Tracks, NamePasses
    <3> QED
      BY <3>2, <3>3, ZenonT(40)
  <2> QED
    BY <1>2, <2>2, <2>3, Zenon DEF IInv
<1> QED
  BY <1>3, <1>4, Zenon

\* A handler starts afresh in stage p with question n, A allowed and B blocked.
Restart(h, p, n, A, B) ==
  /\ Holding(h, p, Local("none"))
  /\ name' = [name EXCEPT ![h] = n]
  /\ okay' = [okay EXCEPT ![h] = A] /\ barred' = [barred EXCEPT ![h] = B]
  /\ p = "policy" => A = allow /\ B = block
  /\ allow' = allow /\ block' = block /\ now' = now /\ entries' = entries

\* That keeps the invariant.
LEMMA RestartKeeps ==
  ASSUME IInv, NEW h \in Handlers, NEW p \in {"idle", "policy"}, NEW n \in Names,
         NEW A \in SUBSET Names, NEW B \in SUBSET Names, Restart(h, p, n, A, B)
  PROVE  IInv'
<1>1. /\ Holding(h, p, Local("none"))
      /\ name' = [name EXCEPT ![h] = n]
      /\ okay' = [okay EXCEPT ![h] = A] /\ barred' = [barred EXCEPT ![h] = B]
      /\ p = "policy" => A = allow /\ B = block
      /\ allow' = allow /\ block' = block /\ now' = now /\ entries' = entries
  BY Zenon DEF Restart
<1>2. TypeOK /\ CacheSound /\ Local("none") \in Response /\ p \in Stages
  BY LocalIsResponse, Zenon DEF IInv, Stages
<1>3. /\ pc' \in [Handlers -> Stages] /\ resp' \in [Handlers -> Response]
      /\ left' \in [Handlers -> SUBSET Names]
      /\ pc'[h] = p
      /\ \A g \in Handlers \ {h} :
           pc'[g] = pc[g] /\ resp'[g] = resp[g] /\ left'[g] = left[g]
  BY <1>1, <1>2, HoldingEffect, ZenonT(40)
<1>4. TypeOK'
  BY <1>1, <1>2, <1>3, ZenonT(40) DEF TypeOK, Stages
<1>5. CacheSound'
  BY <1>1, <1>2, Zenon DEF CacheSound, CacheHoldsValidated
<1>6. ASSUME NEW g \in Handlers PROVE Fits(g, pc[g], resp[g])' /\ Tracks(g)'
  <2>1. CASE g = h
    BY <1>1, <1>2, <1>3, <2>1, ZenonT(40) DEF Fits, Tracks, TypeOK
  <2>2. CASE g # h
    <3>1. Fits(g, pc[g], resp[g]) /\ Tracks(g)
      BY Zenon DEF IInv
    <3>2. /\ pc'[g] = pc[g] /\ resp'[g] = resp[g] /\ left'[g] = left[g]
          /\ name'[g] = name[g] /\ okay'[g] = okay[g] /\ barred'[g] = barred[g]
      BY <1>1, <1>2, <1>3, <2>2, ZenonT(40) DEF TypeOK
    <3> QED
      BY <1>1, <3>1, <3>2, ZenonT(40) DEF Fits, Tracks, Admitted, OwnedByDDR, Vetted
  <2> QED
    BY <2>1, <2>2, ZenonT(40)
<1> QED
  BY <1>4, <1>5, <1>6, Zenon DEF IInv

\* A query comes in or its reply goes out.
LEMMA EndsStep ==
  ASSUME IInv, NEW h \in Handlers, Send(h) \/ \E n \in Names : Receive(h, n)
  PROVE  IInv'
<1>1. allow \in SUBSET Names /\ block \in SUBSET Names
  BY Zenon DEF IInv, TypeOK
<1>2. CASE Send(h)
  <2>1. Restart(h, "idle", Arpa, {}, {})
    BY <1>2, Zenon DEF Send, Restart, cacheVars
  <2> QED
    BY <2>1, RestartKeeps, ArpaAssumption, SMT, SMTT(30)
<1>3. ASSUME NEW n \in Names, Receive(h, n) PROVE IInv'
  <2>1. Restart(h, "policy", n, allow, block)
    BY <1>3, Zenon DEF Receive, Restart, cacheVars
  <2> QED
    BY <1>1, <2>1, RestartKeeps, Zenon
<1> QED
  BY <1>2, <1>3, Zenon

-----------------------------------------------------------------------------
\* A reload of either list keeps the invariant: what was allowed before stays
\* in the history, and what is blocked no more leaves it.
LEMMA ReloadStep ==
  ASSUME IInv, (\E S \in AllowLists : ReloadAllow(S)) \/ (\E S \in BlockLists : ReloadBlock(S))
  PROVE  IInv'
<1>1. /\ now' = now /\ entries' = entries /\ pc' = pc /\ name' = name
      /\ resp' = resp /\ left' = left
  BY Zenon DEF ReloadAllow, ReloadBlock, cacheVars
<1>2. TypeOK'
  <2>1. TypeOK
    BY Zenon DEF IInv
  <2>2. ASSUME NEW S \in AllowLists, ReloadAllow(S) PROVE TypeOK'
    BY <1>1, <2>1, <2>2, ListAssumption, Zenon DEF ReloadAllow, TypeOK
  <2>3. ASSUME NEW S \in BlockLists, ReloadBlock(S) PROVE TypeOK'
    BY <1>1, <2>1, <2>3, ListAssumption, Zenon DEF ReloadBlock, TypeOK
  <2> QED
    BY <2>2, <2>3, Zenon
<1>3. CacheSound'
  BY <1>1, Zenon DEF IInv, CacheSound, CacheHoldsValidated
<1>4. ASSUME NEW h \in Handlers PROVE Fits(h, pc[h], resp[h])' /\ Tracks(h)'
  <2>1. Fits(h, pc[h], resp[h]) /\ Tracks(h)
    BY Zenon DEF IInv
  <2>2. ASSUME NEW S \in AllowLists, ReloadAllow(S) PROVE Fits(h, pc[h], resp[h])' /\ Tracks(h)'
    <3>1. allow' = S /\ block' = block /\ barred' = barred
          /\ (pc[h] # "idle" => okay'[h] = okay[h] \cup S)
      BY <2>2, Zenon DEF ReloadAllow, Busy
    <3> QED
      BY <1>1, <2>1, <3>1, Zenon DEF Fits, Tracks, Admitted, OwnedByDDR, Vetted
  <2>3. ASSUME NEW S \in BlockLists, ReloadBlock(S) PROVE Fits(h, pc[h], resp[h])' /\ Tracks(h)'
    <3>1. block' = S /\ allow' = allow /\ okay' = okay /\ barred'[h] = barred[h] \cap S
      BY <2>3, Zenon DEF ReloadBlock
    <3> QED
      BY <1>1, <2>1, <3>1, ZenonT(40) DEF Fits, Tracks, Admitted, OwnedByDDR, Vetted
  <2> QED
    BY <2>2, <2>3, Zenon
<1> QED
  BY <1>2, <1>3, <1>4, Zenon DEF IInv

\* Every step keeps the invariant.
LEMMA NextKeeps == IInv /\ [Next]_vars => IInv'
<1> SUFFICES ASSUME IInv, [Next]_vars PROVE IInv'
  BY Zenon
<1>1. ASSUME NEW h \in Handlers, HandlerStep(h) PROVE IInv'
  BY <1>1, LocalReplyStep, PermitStep, AdmitStep, CacheHitStep, CacheMissStep, ResolveStep,
     BogusStep, ValidateStep, AnswerStep, EndsStep, ZenonT(40) DEF HandlerStep
<1>2. ASSUME (\E S \in AllowLists : ReloadAllow(S)) \/ (\E S \in BlockLists : ReloadBlock(S))
      PROVE IInv'
  BY <1>2, ReloadStep, Zenon
<1>3. ASSUME TimePasses \/ UNCHANGED vars PROVE IInv'
  <2>1. /\ now' \in Nat /\ entries' = entries /\ allow' = allow /\ block' = block
        /\ okay' = okay /\ barred' = barred /\ pc' = pc /\ name' = name
        /\ resp' = resp /\ left' = left
    <3>1. /\ now' = now + 1 \/ now' = now
          /\ entries' = entries /\ allow' = allow /\ block' = block
          /\ okay' = okay /\ barred' = barred /\ pc' = pc /\ name' = name
          /\ resp' = resp /\ left' = left
      BY <1>3, Zenon DEF TimePasses, Tick, vars, lists, cacheVars
    <3>2. now \in Nat
      BY Zenon DEF IInv, CacheSound
    <3>3. now' \in Nat
      BY <3>1, <3>2, SMT, SMTT(30)
    <3> QED
      BY <3>1, <3>3, Zenon
  <2>2. TypeOK'
    BY <2>1, Zenon DEF IInv, TypeOK
  <2>3. CacheSound'
    BY <2>1, Zenon DEF IInv, CacheSound, CacheHoldsValidated
  <2>4. \A h \in Handlers : Fits(h, pc[h], resp[h])' /\ Tracks(h)'
    BY <2>1, Zenon DEF IInv, Fits, Tracks, Admitted, OwnedByDDR
  <2> QED
    BY <2>2, <2>3, <2>4, Zenon DEF IInv
<1> QED
  BY <1>1, <1>2, <1>3, Zenon DEF Next

-----------------------------------------------------------------------------
(* Results                                                                 *)

\* The inductive invariant holds in every reachable state.
THEOREM Invariance == Spec => []IInv
BY InitEstablishes, NextKeeps, PTL DEF Spec

\* Every variable of the handlers, the lists and the cache keeps its type.
THEOREM ServingTypes == Spec => []TypeOK
<1>1. IInv => TypeOK
  BY Zenon DEF IInv
<1> QED
  BY Invariance, <1>1, PTL

\* Whatever both modes store, the shared cache only holds validated answers with
\* the AD bit of their verdict.
THEOREM CacheIsValidated == Spec => []CacheHoldsValidated
<1>1. IInv => CacheHoldsValidated
  BY Zenon DEF IInv, CacheSound
<1> QED
  BY Invariance, <1>1, PTL

\* No client of either mode is sent an answer that validation found bogus.
THEOREM NothingBogusIsSent == Spec => []RepliesValidated
<1>1. IInv => RepliesValidated
  BY Zenon DEF IInv, Fits, RepliesValidated
<1> QED
  BY Invariance, <1>1, PTL

\* The policy holds for what is sent, across reloads of both lists, also for
\* answers from the cache.
THEOREM PolicyIsKept == Spec => []PolicyHolds
<1>1. IInv => PolicyHolds
  BY Zenon DEF IInv, Fits, PolicyHolds
<1> QED
  BY Invariance, <1>1, PTL

\* No denied or blocked name, and no resolver.arpa name of Mode 2, is forwarded.
THEOREM NothingDeniedIsForwarded == Spec => []DeniedNotForwarded
<1>1. IInv => DeniedNotForwarded
  BY Zenon DEF IInv, Fits, Admitted, DeniedNotForwarded
<1> QED
  BY Invariance, <1>1, PTL

-----------------------------------------------------------------------------
(* The cache and its concurrent callers                                    *)

\* An entry, in the map or in a caller's hand, is well-typed, was received by
\* now and has a lifetime within the bounds.
Sound(e) == e \in CachedEntry /\ e.resp.at <= now /\ LivesWithin(e)

CacheInv ==
  /\ CacheTypeOK
  /\ SizeBounded
  /\ \A k \in DOMAIN entries : Sound(entries[k])
  /\ \A c \in Callers : \A e \in held[c] : Sound(e)
  /\ ServedAgeBounded

-----------------------------------------------------------------------------
\* The lifetime Put computes is within the bounds for every response it stores.
LEMMA LifetimeBounds ==
  ASSUME NEW q, NEW r, r.ttl \in Nat, Storable(q, r)
  PROVE  /\ Lifetime(r) \in Nat
         /\ isNegative(r) => Lifetime(r) >= 1 /\ Lifetime(r) <= Lesser(r.ttl, NegTTLMax)
         /\ ~isNegative(r) => /\ Lifetime(r) >= Lesser(TTLMin, TTLMax)
                              /\ Lifetime(r) <= Lesser(Larger(r.ttl, TTLMin), TTLMax)
<1>1. extractMinTTL(r) \in Nat /\ extractMinTTL(r) <= r.ttl
  BY SentinelAssumption, SMT, SMTT(30) DEF extractMinTTL
<1>2. Clamped(extractMinTTL(r)) \in Nat
      /\ Clamped(extractMinTTL(r)) >= Lesser(TTLMin, TTLMax)
      /\ Clamped(extractMinTTL(r)) <= Lesser(Larger(r.ttl, TTLMin), TTLMax)
  BY <1>1, OptionsAssumption, SMT, SMTT(30) DEF Clamped, Lesser, Larger
<1> QED
  BY <1>2, OptionsAssumption, SMT, SMTT(30) DEF Lifetime, Storable, Lesser

\* A sound entry is served by Get within the cap and by GetStale within the cap
\* and the window.
LEMMA AgeBounds ==
  ASSUME now \in Nat, NEW e, Sound(e)
  PROVE  /\ now - e.resp.at \in Nat
         /\ ~IsExpired(e) => now - e.resp.at <= LifetimeCap
         /\ WithinStaleWindow(e) => now - e.resp.at <= LifetimeCap + StaleMax
<1>1. e.exp \in Nat /\ e.resp.at \in Nat /\ e.resp.ttl \in Nat
  BY TTLAssumption, Zenon DEF Sound, CachedEntry, CachedResponse
<1> DEFINE a == e.resp.at
           t == e.resp.ttl
<1>a. e.exp <= a + Lesser(t, NegTTLMax) \/ e.exp <= a + Lesser(Larger(t, TTLMin), TTLMax)
  BY Zenon DEF Sound, LivesWithin
<1>b. a \in Nat /\ t \in Nat
  BY <1>1, Zenon
<1>2. e.exp <= a + LifetimeCap
  <2> HIDE DEF a, t
  <2> QED
    BY <1>1, <1>a, <1>b, OptionsAssumption, SMT, SMTT(30) DEF LifetimeCap, Lesser, Larger
<1>3. LifetimeCap \in Nat
  BY OptionsAssumption, Zenon DEF LifetimeCap, Larger
<1> QED
  BY <1>1, <1>2, <1>3, OptionsAssumption, SMT, SMTT(30) DEF Sound, IsExpired, WithinStaleWindow

\* Removing a key never enlarges the map.
LEMMA WithoutShrinks ==
  ASSUME NEW m, NEW k, IsFiniteSet(DOMAIN m)
  PROVE  /\ DOMAIN Without(m, k) = DOMAIN m \ {k}
         /\ \A x \in DOMAIN Without(m, k) : Without(m, k)[x] = m[x]
         /\ IsFiniteSet(DOMAIN Without(m, k))
         /\ Cardinality(DOMAIN Without(m, k)) <= Cardinality(DOMAIN m)
         /\ k \in DOMAIN m => Cardinality(DOMAIN Without(m, k)) = Cardinality(DOMAIN m) - 1
<1>1. DOMAIN Without(m, k) = DOMAIN m \ {k} /\ \A x \in DOMAIN m \ {k} : Without(m, k)[x] = m[x]
  BY Zenon DEF Without
<1> QED
  BY <1>1, FS_RemoveElement, FS_CardinalityType, SMT, SMTT(30)

\* Adding a key that is present keeps the size, one that is not adds one.
LEMMA WithGrows ==
  ASSUME NEW m, NEW k, NEW e, IsFiniteSet(DOMAIN m)
  PROVE  /\ DOMAIN With(m, k, e) = DOMAIN m \cup {k}
         /\ \A x \in DOMAIN With(m, k, e) : With(m, k, e)[x] = IF x = k THEN e ELSE m[x]
         /\ IsFiniteSet(DOMAIN With(m, k, e))
         /\ k \in DOMAIN m => Cardinality(DOMAIN With(m, k, e)) = Cardinality(DOMAIN m)
         /\ k \notin DOMAIN m => Cardinality(DOMAIN With(m, k, e)) = Cardinality(DOMAIN m) + 1
<1>1. DOMAIN With(m, k, e) = DOMAIN m \cup {k}
      /\ \A x \in DOMAIN m \cup {k} : With(m, k, e)[x] = IF x = k THEN e ELSE m[x]
  BY Zenon DEF With
<1> QED
  BY <1>1, FS_AddElement, FS_CardinalityType, SMT, SMTT(30)

\* Put's critical section keeps the size bound: a new key that finds the map full
\* takes the place of another.
LEMMA StoreSize ==
  ASSUME SizeBounded, NEW k, NEW r, NEW x, Store(k, r, x)
  PROVE  SizeBounded'
<1> DEFINE e == [resp |-> r, exp |-> x]
<1>1. PICK m \in evictOldest(k) : entries' = With(m, k, e)
  BY Zenon DEF Store
<1> HIDE DEF e
<1>2. /\ IsFiniteSet(DOMAIN m) /\ DOMAIN m \subseteq DOMAIN entries
      /\ \A y \in DOMAIN m : m[y] = entries[y]
      /\ Cardinality(DOMAIN m) <= MaxSize
      /\ k \notin DOMAIN m => Cardinality(DOMAIN m) < MaxSize
  <2>1. CASE Cardinality(DOMAIN entries) >= MaxSize /\ k \notin DOMAIN entries
    <3>1. PICK v \in DOMAIN entries : m = Without(entries, v)
      BY <1>1, <2>1, Zenon DEF evictOldest, Soonest
    <3>2. Cardinality(DOMAIN entries) \in Nat
      BY FS_CardinalityType, Zenon DEF SizeBounded
    <3>3. /\ DOMAIN m = DOMAIN entries \ {v} /\ IsFiniteSet(DOMAIN m)
          /\ \A y \in DOMAIN m : m[y] = entries[y]
          /\ Cardinality(DOMAIN m) = Cardinality(DOMAIN entries) - 1
      BY <3>1, WithoutShrinks, Zenon DEF SizeBounded
    <3>4. Cardinality(DOMAIN m) < MaxSize
      BY <3>2, <3>3, OptionsAssumption, SMT, SMTT(30) DEF SizeBounded
    <3> QED
      BY <3>3, <3>4, <3>2, OptionsAssumption, SMT, SMTT(30)
  <2>2. CASE ~(Cardinality(DOMAIN entries) >= MaxSize /\ k \notin DOMAIN entries)
    <3>1. m = entries
      BY <1>1, <2>2, Zenon DEF evictOldest
    <3>2. Cardinality(DOMAIN entries) \in Nat
      BY FS_CardinalityType, Zenon DEF SizeBounded
    <3> QED
      BY <2>2, <3>1, <3>2, OptionsAssumption, SMT, SMTT(30) DEF SizeBounded
  <2> QED
    BY <2>1, <2>2, Zenon
<1>3. Cardinality(DOMAIN m) \in Nat
  BY <1>2, FS_CardinalityType, Zenon
<1>4. /\ IsFiniteSet(DOMAIN With(m, k, e))
      /\ k \in DOMAIN m => Cardinality(DOMAIN With(m, k, e)) = Cardinality(DOMAIN m)
      /\ k \notin DOMAIN m => Cardinality(DOMAIN With(m, k, e)) = Cardinality(DOMAIN m) + 1
  BY <1>2, WithGrows, ZenonT(40)
<1> QED
  BY <1>1, <1>2, <1>3, <1>4, OptionsAssumption, SMT, SMTT(30) DEF SizeBounded

\* It keeps the soundness of the map, too.
LEMMA PutEffect ==
  ASSUME SizeBounded, DOMAIN entries \subseteq Keys,
         \A x \in DOMAIN entries : Sound(entries[x]),
         NEW k \in Keys, NEW e, Sound(e), Store(k, e.resp, e.exp)
  PROVE  /\ IsFiniteSet(DOMAIN entries') /\ Cardinality(DOMAIN entries') <= MaxSize
         /\ DOMAIN entries' \subseteq Keys
         /\ \A x \in DOMAIN entries' : Sound(entries'[x])
<1>1. e = [resp |-> e.resp, exp |-> e.exp]
  BY Zenon DEF Sound, CachedEntry
<1>2. SizeBounded'
  BY StoreSize, Zenon
<1>3. /\ DOMAIN entries' \subseteq Keys
      /\ \A x \in DOMAIN entries' :
           entries'[x] = e \/ (x \in DOMAIN entries /\ entries'[x] = entries[x])
  BY <1>1, StoreEffect, SMT, SMTT(30)
<1> QED
  BY <1>2, <1>3, Zenon DEF SizeBounded

\* The initial states satisfy the inductive invariant.
LEMMA CacheInitEstablishes == CacheInit => CacheInv
<1> SUFFICES ASSUME CacheInit PROVE CacheInv
  BY Zenon
<1>1. DOMAIN entries = {} /\ IsFiniteSet(DOMAIN entries) /\ Cardinality(DOMAIN entries) = 0
  BY FS_EmptySet, Zenon DEF CacheInit
<1>2. CacheTypeOK
  BY <1>1, Zenon DEF CacheInit, CacheTypeOK, Nothing
<1>3. SizeBounded
  BY <1>1, OptionsAssumption, SMT, SMTT(30) DEF SizeBounded
<1>4. ServedAgeBounded
  BY Zenon DEF CacheInit, ServedAgeBounded, Nothing
<1> QED
  BY <1>1, <1>2, <1>3, <1>4, Zenon DEF CacheInit, CacheInv

\* Whatever a caller returns without touching the map, the invariant holds if
\* the answer's age is within its bound.
LEMMA ReturnKeeps ==
  ASSUME CacheInv, NEW c \in Callers, NEW s \in [kind : {"none", "hit", "stale"}, age : Nat],
         s.kind = "hit" => s.age <= LifetimeCap,
         s.kind = "stale" => s.age <= LifetimeCap + StaleMax,
         ReturnWith(c, s), UNCHANGED <<now, entries, key>>
  PROVE  CacheInv'
<1>1. CacheTypeOK'
  BY Zenon DEF CacheInv, CacheTypeOK, ReturnWith
<1>2. SizeBounded'
  BY Zenon DEF CacheInv, SizeBounded
<1>3. ServedAgeBounded'
  BY Zenon DEF CacheInv, CacheTypeOK, ServedAgeBounded, ReturnWith
<1>4. (\A k \in DOMAIN entries : Sound(entries[k]))'
  BY Zenon DEF CacheInv, Sound
<1>5. (\A d \in Callers : \A e \in held[d] : Sound(e))'
  BY Zenon DEF CacheInv, CacheTypeOK, Sound, ReturnWith
<1> QED
  BY <1>1, <1>2, <1>3, <1>4, <1>5, Zenon DEF CacheInv

\* The same for a critical section that changed the map and returns nothing.
LEMMA WriteKeeps ==
  ASSUME CacheInv, NEW c \in Callers, ReturnWith(c, Nothing), UNCHANGED <<now, key>>,
         IsFiniteSet(DOMAIN entries'), Cardinality(DOMAIN entries') <= MaxSize,
         DOMAIN entries' \subseteq Keys,
         \A x \in DOMAIN entries' : Sound(entries'[x])
  PROVE  CacheInv'
<1>1. CacheTypeOK'
  BY Zenon DEF CacheInv, CacheTypeOK, ReturnWith, Nothing, Sound
<1>2. SizeBounded'
  BY Zenon DEF SizeBounded
<1>3. ServedAgeBounded'
  BY Zenon DEF CacheInv, CacheTypeOK, ServedAgeBounded, ReturnWith, Nothing
<1>4. (\A k \in DOMAIN entries : Sound(entries[k]))'
  BY Zenon DEF Sound
<1>5. (\A d \in Callers : \A e \in held[d] : Sound(e))'
  BY Zenon DEF CacheInv, CacheTypeOK, Sound, ReturnWith
<1> QED
  BY <1>1, <1>2, <1>3, <1>4, <1>5, Zenon DEF CacheInv

\* Every step of a caller, Clear and the clock keep the inductive invariant.
LEMMA StepKeeps == CacheInv /\ [CacheNext]_callVars => CacheInv'
<1> SUFFICES ASSUME CacheInv, [CacheNext]_callVars PROVE CacheInv'
  BY Zenon
<1>0. Nothing \in [kind : {"none", "hit", "stale"}, age : Nat] /\ Nothing.kind = "none"
  BY Zenon DEF Nothing
<1>1. ASSUME NEW c \in Callers, NEW k \in Keys, NEW op \in {"get", "stale"}, BeginRead(c, k, op)
      PROVE  CacheInv'
  <2>1. \A e \in Lookup(k) : Sound(e) /\ e \in CachedEntry
    BY Zenon DEF CacheInv, Lookup, Sound
  <2>2. CacheTypeOK'
    BY <1>1, <1>0, <2>1, ZenonT(40) DEF CacheInv, CacheTypeOK, BeginRead
  <2>3. ServedAgeBounded'
    BY <1>1, <1>0, Zenon DEF CacheInv, CacheTypeOK, ServedAgeBounded, BeginRead
  <2>4. (\A d \in Callers : \A e \in held[d] : Sound(e))'
    BY <1>1, <2>1, ZenonT(40) DEF CacheInv, CacheTypeOK, Sound, BeginRead
  <2> QED
    BY <1>1, <2>2, <2>3, <2>4, Zenon DEF CacheInv, SizeBounded, Sound, BeginRead
<1>2. ASSUME NEW c \in Callers, GetHit(c) PROVE CacheInv'
  <2>1. PICK e \in held[c] : ~IsExpired(e) /\ ReturnWith(c, Aged("hit", e))
    BY <1>2, Zenon DEF GetHit
  <2>2. now - e.resp.at \in Nat /\ now - e.resp.at <= LifetimeCap
    BY <2>1, AgeBounds, Zenon DEF CacheInv, CacheTypeOK
  <2>3. /\ Aged("hit", e) \in [kind : {"none", "hit", "stale"}, age : Nat]
        /\ Aged("hit", e).kind = "hit" /\ Aged("hit", e).age <= LifetimeCap
    BY <2>2, Zenon DEF Aged
  <2> QED
    BY <1>2, <2>1, <2>3, ReturnKeeps, Zenon DEF GetHit
<1>3. ASSUME NEW c \in Callers, GetMiss(c) PROVE CacheInv'
  BY <1>3, <1>0, ReturnKeeps, Zenon DEF GetMiss
<1>4. ASSUME NEW c \in Callers, GetExpired(c) PROVE CacheInv'
  <2>1. /\ stage' \in [Callers -> {"idle", "get", "delete", "stale", "put"}]
        /\ now' = now /\ entries' = entries /\ key' = key /\ held' = held /\ served' = served
    BY <1>4, Zenon DEF CacheInv, CacheTypeOK, GetExpired
  <2>2. CacheTypeOK'
    BY <2>1, Zenon DEF CacheInv, CacheTypeOK
  <2>3. SizeBounded' /\ ServedAgeBounded'
    BY <2>1, Zenon DEF CacheInv, SizeBounded, ServedAgeBounded
  <2>4. ASSUME NEW e, Sound(e) PROVE Sound(e)'
    BY <2>1, <2>4, Zenon DEF Sound
  <2> QED
    BY <2>1, <2>2, <2>3, <2>4, Zenon DEF CacheInv
<1>5. ASSUME NEW c \in Callers, GetDelete(c) PROVE CacheInv'
  <2>1. entries' = Without(entries, key[c])
    BY <1>5, Zenon DEF GetDelete, Delete
  <2>2. /\ DOMAIN entries' = DOMAIN entries \ {key[c]}
        /\ \A x \in DOMAIN entries' : entries'[x] = entries[x]
        /\ IsFiniteSet(DOMAIN entries')
        /\ Cardinality(DOMAIN entries') <= Cardinality(DOMAIN entries)
    BY <2>1, WithoutShrinks, Zenon DEF CacheInv, SizeBounded
  <2>3. Cardinality(DOMAIN entries') <= MaxSize
    <3>1. /\ Cardinality(DOMAIN entries) \in Nat /\ Cardinality(DOMAIN entries') \in Nat
          /\ Cardinality(DOMAIN entries) <= MaxSize
      BY <2>2, FS_CardinalityType, Zenon DEF CacheInv, SizeBounded
    <3> QED
      BY <2>2, <3>1, OptionsAssumption, SMT, SMTT(30)
  <2>4. DOMAIN entries' \subseteq Keys /\ \A x \in DOMAIN entries' : Sound(entries'[x])
    BY <2>2, Zenon DEF CacheInv, CacheTypeOK
  <2> QED
    BY <1>5, <2>2, <2>3, <2>4, WriteKeeps, Zenon DEF GetDelete
<1>6. ASSUME NEW c \in Callers, StaleHit(c) PROVE CacheInv'
  <2>1. PICK e \in held[c] : WithinStaleWindow(e) /\ ReturnWith(c, Aged("stale", e))
    BY <1>6, Zenon DEF StaleHit
  <2>2. now - e.resp.at \in Nat /\ now - e.resp.at <= LifetimeCap + StaleMax
    BY <2>1, AgeBounds, Zenon DEF CacheInv, CacheTypeOK
  <2>3. /\ Aged("stale", e) \in [kind : {"none", "hit", "stale"}, age : Nat]
        /\ Aged("stale", e).kind = "stale" /\ Aged("stale", e).age <= LifetimeCap + StaleMax
    BY <2>2, Zenon DEF Aged
  <2> QED
    BY <1>6, <2>1, <2>3, ReturnKeeps, Zenon DEF StaleHit
<1>7. ASSUME NEW c \in Callers, StaleMiss(c) PROVE CacheInv'
  BY <1>7, <1>0, ReturnKeeps, Zenon DEF StaleMiss
<1>8. ASSUME NEW c \in Callers, NEW k \in Keys, NEW q \in Questions, NEW r \in Responses,
             PutPrepare(c, k, q, r)
      PROVE  CacheInv'
  <2>1. r \in CachedResponse /\ r.at = now /\ Storable(q, r)
    BY <1>8, Zenon DEF CacheInv, CacheTypeOK, Responses, CachedResponse, PutPrepare
  <2> DEFINE e == [resp |-> r, exp |-> now + Lifetime(r)]
  <2>0. r.ttl \in Nat
    BY <2>1, TTLAssumption, Zenon DEF CachedResponse
  <2>2. e.resp = r /\ e.exp = now + Lifetime(r) /\ now \in Nat /\ Lifetime(r) \in Nat
    BY <2>0, <2>1, LifetimeBounds, Zenon DEF CacheInv, CacheTypeOK
  <2>3. e \in CachedEntry
    BY <2>1, <2>2, SMT, SMTT(30) DEF CachedEntry
  <2>4. held' = [held EXCEPT ![c] = {e}]
    BY <1>8, Zenon DEF PutPrepare
  <2> HIDE DEF e
  <2>5. LivesWithin(e)
    <3> DEFINE low == Lesser(TTLMin, TTLMax)
               high == Lesser(Larger(r.ttl, TTLMin), TTLMax)
               neg == Lesser(r.ttl, NegTTLMax)
    <3>1. /\ isNegative(r) => Lifetime(r) >= 1 /\ Lifetime(r) <= neg
          /\ ~isNegative(r) => Lifetime(r) >= low /\ Lifetime(r) <= high
      BY <2>0, <2>1, LifetimeBounds, Zenon
    <3>2. low \in Nat /\ high \in Nat /\ neg \in Nat
      BY <2>0, OptionsAssumption, Zenon DEF Lesser, Larger
    <3> HIDE DEF low, high, neg
    <3>3. /\ isNegative(r) => e.exp >= now + 1 /\ e.exp <= now + neg
          /\ ~isNegative(r) => e.exp >= now + low /\ e.exp <= now + high
      BY <2>2, <3>1, <3>2, SMT, SMTT(30)
    <3> QED
      BY <2>1, <2>2, <3>3, Zenon DEF LivesWithin, low, high, neg
  <2>6. Sound(e)
    BY <2>1, <2>2, <2>3, <2>5, SMT, SMTT(30) DEF Sound
  <2>7. /\ stage' \in [Callers -> {"idle", "get", "delete", "stale", "put"}]
        /\ key' \in [Callers -> Keys] /\ now' = now /\ entries' = entries
    BY <1>8, Zenon DEF CacheInv, CacheTypeOK, PutPrepare
  <2>8. /\ held' \in [Callers -> SUBSET CachedEntry]
        /\ \A d \in Callers : \A x \in held'[d] : x = e \/ x \in held[d]
    BY <2>3, <2>4, Zenon DEF CacheInv, CacheTypeOK
  <2>9. /\ served' \in [Callers -> [kind : {"none", "hit", "stale"}, age : Nat]]
        /\ \A d \in Callers : served'[d] = served[d] \/ served'[d].kind = "none"
    BY <1>8, <1>0, Zenon DEF CacheInv, CacheTypeOK, PutPrepare
  <2>10. CacheTypeOK'
    BY <2>7, <2>8, <2>9, Zenon DEF CacheInv, CacheTypeOK
  <2>11. ServedAgeBounded'
    BY <2>9, Zenon DEF CacheInv, ServedAgeBounded
  <2>12. (\A d \in Callers : \A x \in held[d] : Sound(x))'
    BY <2>6, <2>7, <2>8, Zenon DEF CacheInv, Sound
  <2> QED
    BY <2>7, <2>10, <2>11, <2>12, Zenon DEF CacheInv, SizeBounded, Sound
<1>9. ASSUME NEW c \in Callers, PutStore(c) PROVE CacheInv'
  <2>1. PICK e \in held[c] : Store(key[c], e.resp, e.exp)
    BY <1>9, Zenon DEF PutStore
  <2>2. /\ key[c] \in Keys /\ Sound(e) /\ SizeBounded /\ DOMAIN entries \subseteq Keys
        /\ \A x \in DOMAIN entries : Sound(entries[x])
    BY Zenon DEF CacheInv, CacheTypeOK
  <2>3. /\ IsFiniteSet(DOMAIN entries') /\ Cardinality(DOMAIN entries') <= MaxSize
        /\ DOMAIN entries' \subseteq Keys
        /\ \A x \in DOMAIN entries' : Sound(entries'[x])
    BY <2>1, <2>2, PutEffect, Zenon
  <2> QED
    BY <1>9, <2>3, WriteKeeps, Zenon DEF PutStore
<1>10. CASE Clear
  <2>1. DOMAIN entries' = {} /\ IsFiniteSet(DOMAIN entries') /\ Cardinality(DOMAIN entries') = 0
    BY <1>10, FS_EmptySet, Zenon DEF Clear
  <2>2. now' = now /\ stage' = stage /\ key' = key /\ held' = held /\ served' = served
    BY <1>10, Zenon DEF Clear
  <2>3. SizeBounded'
    BY <2>1, OptionsAssumption, SMT, SMTT(30) DEF SizeBounded
  <2>4. CacheTypeOK'
    BY <2>1, <2>2, Zenon DEF CacheInv, CacheTypeOK
  <2>5. ServedAgeBounded'
    BY <2>2, Zenon DEF CacheInv, ServedAgeBounded
  <2>6. (\A c \in Callers : \A e \in held[c] : Sound(e))'
    BY <2>2, Zenon DEF CacheInv, Sound
  <2> QED
    BY <2>1, <2>3, <2>4, <2>5, <2>6, Zenon DEF CacheInv
<1>11. CASE ClockTicks \/ UNCHANGED callVars
  <2>1. /\ entries' = entries /\ stage' = stage /\ key' = key /\ held' = held
        /\ served' = served
    BY <1>11, Zenon DEF ClockTicks, callVars
  <2>2. now \in Nat /\ now' \in Nat /\ now' >= now
    BY <1>11, SMT, SMTT(30) DEF ClockTicks, Tick, callVars, CacheInv, CacheTypeOK
  <2>3. CacheTypeOK'
    BY <2>1, <2>2, Zenon DEF CacheInv, CacheTypeOK
  <2>4. ASSUME NEW e, Sound(e) PROVE Sound(e)'
    <3>1. e.resp.at \in Nat
      BY <2>4, Zenon DEF Sound, CachedEntry, CachedResponse
    <3> QED
      BY <2>2, <2>4, <3>1, SMT, SMTT(30) DEF Sound
  <2>5. SizeBounded' /\ ServedAgeBounded'
    BY <2>1, ZenonT(40) DEF CacheInv, SizeBounded, ServedAgeBounded
  <2> QED
    BY <2>1, <2>3, <2>4, <2>5, Zenon DEF CacheInv
<1> QED
  BY <1>1, <1>2, <1>3, <1>4, <1>5, <1>6, <1>7, <1>8, <1>9, <1>10, <1>11, ZenonT(60)
     DEF CacheNext, CallerStep

-----------------------------------------------------------------------------
\* The inductive invariant holds in every reachable state.
THEOREM CacheInvariance == CacheSpec => []CacheInv
  BY CacheInitEstablishes, StepKeeps, PTL DEF CacheSpec

\* No interleaving of Puts, lazy deletes and Clears exceeds maxSize.
THEOREM CacheSizeBounded == CacheSpec => []SizeBounded
<1>1. CacheInv => SizeBounded
  BY Zenon DEF CacheInv
<1> QED
  BY CacheInvariance, <1>1, PTL

\* No answer is served beyond its lifetime cap, nor a stale one beyond the window.
THEOREM CacheAgeBounded == CacheSpec => []ServedAgeBounded
<1>1. CacheInv => ServedAgeBounded
  BY Zenon DEF CacheInv
<1> QED
  BY CacheInvariance, <1>1, PTL

\* Every entry's lifetime is within the configured bounds.
THEOREM CacheLifetimes == CacheSpec => []LifetimesClamped
<1>1. CacheInv => LifetimesClamped
  BY Zenon DEF CacheInv, Sound, LifetimesClamped
<1> QED
  BY CacheInvariance, <1>1, PTL

\* Every variable of the cache keeps its type.
THEOREM CacheTypes == CacheSpec => []CacheTypeOK
<1>1. CacheInv => CacheTypeOK
  BY Zenon DEF CacheInv
<1> QED
  BY CacheInvariance, <1>1, PTL

-----------------------------------------------------------------------------
\* A Get is about to delete only with serve-stale off, after it found an entry that
\* had expired.
DeleteInv ==
  \A c \in Callers : stage[c] = "delete" => StaleMax = 0 /\ \E e \in held[c] : IsExpired(e)

\* What has expired stays expired.
LEMMA ExpiredStays ==
  ASSUME CacheInv, [CacheNext]_callVars, NEW c \in Callers, NEW e \in held[c], IsExpired(e)
  PROVE  IsExpired(e)'
<1>1. now' = now \/ now' = now + 1
  BY Zenon DEF CacheNext, CallerStep, BeginRead, GetHit, GetMiss, GetExpired, GetDelete, StaleHit,
               StaleMiss, PutPrepare, PutStore, Clear, ClockTicks, Tick, callVars
<1>2. now \in Nat /\ e.exp \in Nat
  BY Zenon DEF CacheInv, CacheTypeOK, Sound, CachedEntry
<1> QED
  BY <1>1, <1>2, SMT, SMTT(30) DEF IsExpired

\* Every step keeps that.
LEMMA DeleteKept == ASSUME CacheInv, DeleteInv, [CacheNext]_callVars PROVE DeleteInv'
<1> SUFFICES ASSUME NEW c \in Callers, stage'[c] = "delete"
             PROVE  StaleMax = 0 /\ \E e \in held'[c] : IsExpired(e)'
  BY Zenon DEF DeleteInv
<1>1. /\ stage \in [Callers -> {"idle", "get", "delete", "stale", "put"}]
      /\ held \in [Callers -> SUBSET CachedEntry]
  BY Zenon DEF CacheInv, CacheTypeOK
<1>2. held'[c] = held[c] /\ (stage[c] = "delete" \/ GetExpired(c))
  <2>1. ASSUME NEW d \in Callers, CallerStep(d)
        PROVE  held'[c] = held[c] /\ (stage[c] = "delete" \/ GetExpired(c))
    BY <1>1, <2>1, ZenonT(60) DEF CallerStep, BeginRead, GetHit, GetMiss, GetExpired, GetDelete,
       StaleHit, StaleMiss, PutPrepare, PutStore, ReturnWith
  <2>2. CASE Clear \/ ClockTicks \/ UNCHANGED callVars
    BY <2>2, Zenon DEF Clear, ClockTicks, callVars
  <2> QED
    BY <2>1, <2>2, Zenon DEF CacheNext
<1>3. StaleMax = 0 /\ \E e \in held[c] : IsExpired(e)
  BY <1>2, Zenon DEF DeleteInv, GetExpired
<1> QED
  BY <1>2, <1>3, ExpiredStays, Zenon

\* A Put takes at most one key out, for a new one and only from a full cache.
LEMMA PutEvicts ==
  ASSUME NEW j, NEW r, NEW x, Store(j, r, x), NEW k \in DOMAIN entries \ DOMAIN entries'
  PROVE  /\ Cardinality(DOMAIN entries) >= MaxSize /\ k \in Soonest
         /\ DOMAIN entries' \ DOMAIN entries # {}
<1>1. PICK m \in evictOldest(j) : entries' = With(m, j, [resp |-> r, exp |-> x])
  BY Zenon DEF Store
<1>2. DOMAIN entries' = DOMAIN m \cup {j}
  BY <1>1, Zenon DEF With
<1>3. m # entries
  BY <1>2, Zenon
<1>4. j \notin DOMAIN entries /\ Cardinality(DOMAIN entries) >= MaxSize
  BY <1>1, <1>3, Zenon DEF evictOldest
<1>5. PICK v \in Soonest : m = Without(entries, v)
  BY <1>1, <1>3, Zenon DEF evictOldest
<1>6. DOMAIN m = DOMAIN entries \ {v}
  BY <1>5, Zenon DEF Without
<1> QED
  BY <1>2, <1>4, <1>5, <1>6, Zenon

\* Whoever else uses the cache, an entry that has not expired leaves it only by
\* Clear, by an eviction that it was due for, or by the late delete of a Get that
\* had found its expired predecessor.
THEOREM LiveEntriesAreKept == CacheSpec => LiveEntriesStay
<1>1. CacheInit => DeleteInv
  BY Zenon DEF CacheInit, DeleteInv
<1>2. CacheInv /\ DeleteInv /\ [CacheNext]_callVars => DeleteInv'
  BY DeleteKept, Zenon
<1>3. CacheInv /\ DeleteInv /\ [CacheNext]_callVars =>
        [\A k \in DOMAIN entries \ DOMAIN entries' :
           \/ stage' = stage
           \/ /\ Cardinality(DOMAIN entries) >= MaxSize /\ k \in Soonest
              /\ DOMAIN entries' \ DOMAIN entries # {}
           \/ /\ StaleMax = 0
              /\ \E c \in Callers :
                   /\ stage[c] = "delete" /\ key[c] = k
                   /\ IsExpired(entries[k]) \/ held[c] # {entries[k]}]_callVars
  <2> SUFFICES ASSUME CacheInv, DeleteInv, CacheNext, NEW k \in DOMAIN entries \ DOMAIN entries'
               PROVE  \/ stage' = stage
                      \/ /\ Cardinality(DOMAIN entries) >= MaxSize /\ k \in Soonest
                         /\ DOMAIN entries' \ DOMAIN entries # {}
                      \/ /\ StaleMax = 0
                         /\ \E c \in Callers :
                              /\ stage[c] = "delete" /\ key[c] = k
                              /\ IsExpired(entries[k]) \/ held[c] # {entries[k]}
    BY Zenon
  <2>1. CASE Clear
    BY <2>1, Zenon DEF Clear
  <2>2. ASSUME NEW c \in Callers, PutStore(c)
        PROVE  /\ Cardinality(DOMAIN entries) >= MaxSize /\ k \in Soonest
               /\ DOMAIN entries' \ DOMAIN entries # {}
    <3>1. PICK e \in held[c] : Store(key[c], e.resp, e.exp)
      BY <2>2, Zenon DEF PutStore
    <3> QED
      BY <3>1, PutEvicts, Zenon
  <2>3. ASSUME NEW c \in Callers, GetDelete(c)
        PROVE  /\ StaleMax = 0 /\ stage[c] = "delete" /\ key[c] = k
               /\ IsExpired(entries[k]) \/ held[c] # {entries[k]}
    <3>1. stage[c] = "delete" /\ entries' = Without(entries, key[c])
      BY <2>3, Zenon DEF GetDelete, Delete
    <3>2. key[c] = k
      BY <3>1, Zenon DEF Without
    <3>3. StaleMax = 0 /\ \E e \in held[c] : IsExpired(e)
      BY <3>1, Zenon DEF DeleteInv
    <3> QED
      BY <3>1, <3>2, <3>3, Zenon
  <2>4. \/ entries' = entries
        \/ Clear
        \/ \E c \in Callers : PutStore(c) \/ GetDelete(c)
    BY Zenon DEF CacheNext, CallerStep, BeginRead, GetHit, GetMiss, GetExpired, StaleHit,
                 StaleMiss, PutPrepare, ClockTicks
  <2> QED
    BY <2>1, <2>2, <2>3, <2>4, Zenon
<1> QED
  BY CacheInvariance, <1>1, <1>2, <1>3, PTL DEF CacheSpec, LiveEntriesStay

-----------------------------------------------------------------------------
(* The cache under the handlers of both modes                              *)

\* No entry of the shared cache, renewed or not, outlives the cap from now on.
ExpiryBounded == \A k \in DOMAIN entries : entries[k].exp <= now + LifetimeCap

\* An entry received by now that expires within the cap of its arrival.
Fresh(e) == e.resp.at <= now /\ e.exp <= e.resp.at + LifetimeCap

BoundsInv ==
  /\ SizeBounded /\ ExpiryBounded
  /\ NoStale => \A k \in DOMAIN entries : Fresh(entries[k])

\* What a step does to the shared cache: nothing, one lazy delete, or one Put of
\* a storable response, which is a new one if no stale answer is ever served.
Untouched == entries' = entries /\ now' \in {now, now + 1}
Dropped == now' = now /\ \E k \in Keys : Delete(k)
Stored ==
  /\ now' = now
  /\ \E k \in Keys, r \in Response :
       Storable("same", r) /\ Store(k, r, now + Lifetime(r)) /\ (NoStale => r.at = now)

\* The lifetime of what Put stores is at most the cap.
LEMMA LifetimeCapped ==
  ASSUME NEW r \in Response, Storable("same", r)
  PROVE  Lifetime(r) \in Nat /\ Lifetime(r) <= LifetimeCap /\ LifetimeCap \in Nat
<1>1. r.ttl \in Nat
  BY Zenon DEF Response
<1>2. /\ Lifetime(r) \in Nat
      /\ isNegative(r) => Lifetime(r) <= Lesser(r.ttl, NegTTLMax)
      /\ ~isNegative(r) => Lifetime(r) <= Lesser(Larger(r.ttl, TTLMin), TTLMax)
  BY <1>1, LifetimeBounds, Zenon
<1> QED
  BY <1>1, <1>2, OptionsAssumption, SMT, SMTT(30) DEF LifetimeCap, Lesser, Larger

\* The cache write behind the validation is one Put or none.
LEMMA ValidatedStores ==
  ASSUME IInv, NEW h \in Handlers, ValidatedGood(h) \/ Recache(h)
  PROVE  Untouched \/ Stored
<1>1. now' = now /\ now \in Nat /\ CacheSound /\ resp[h] \in Response /\ name[h] \in Keys
  BY Zenon DEF ValidatedGood, Recache, IInv, TypeOK, Names
<1>2. ASSUME NEW r \in Response, Put(h, r), Cacheable(h, r) /\ NoStale => r.at = now
      PROVE  Untouched \/ Stored
  <2>1. CASE Cacheable(h, r) /\ Storable("same", r)
    BY <1>1, <1>2, <2>1, ZenonT(40) DEF Put, Stored
  <2>2. CASE ~(Cacheable(h, r) /\ Storable("same", r))
    BY <1>1, <1>2, <2>2, ZenonT(40) DEF Put, Untouched
  <2> QED
    BY <2>1, <2>2, Zenon
<1>3. CASE ValidatedGood(h)
  <2>1. PICK v \in {"secure", "insecure"} : Put(h, [Judged(resp[h], v) EXCEPT !.at = now])
    BY <1>3, Zenon DEF ValidatedGood
  <2> DEFINE r == [Judged(resp[h], v) EXCEPT !.at = now]
  <2>2. r \in Response /\ r.at = now
    BY <1>1, Zenon DEF Judged, Response
  <2>3. Put(h, r)
    BY <2>1, Zenon
  <2> HIDE DEF r
  <2> QED
    BY <1>2, <2>2, <2>3, Zenon
<1>4. CASE Recache(h)
  <2>1. Put(h, resp[h]) /\ Fits(h, "recache", resp[h])
    BY <1>4, Zenon DEF Recache, IInv
  <2>2. NoStale => ~Cacheable(h, resp[h])
    BY <2>1, Zenon DEF Fits, Cacheable
  <2> QED
    BY <1>1, <1>2, <2>1, <2>2, Zenon
<1> QED
  BY <1>3, <1>4, Zenon

\* Every step does one of these things: the handlers use the cache as Cache's
\* callers do.
LEMMA CacheSteps == ASSUME IInv, [Next]_vars PROVE Untouched \/ Dropped \/ Stored
<1>1. ASSUME NEW h \in Handlers, HandlerStep(h) PROVE Untouched \/ Dropped \/ Stored
  <2>1. CASE ValidatedGood(h) \/ Recache(h)
    BY <2>1, ValidatedStores, Zenon
  <2>2. CASE CacheMiss(h)
    <3>1. name[h] \in Keys
      BY Zenon DEF IInv, TypeOK, Names
    <3> QED
      BY <2>2, <3>1, Zenon DEF CacheMiss, Untouched, Dropped
  <2>3. CASE UNCHANGED cacheVars
    BY <2>3, Zenon DEF cacheVars, Untouched
  <2> QED
    BY <1>1, <2>1, <2>2, <2>3, ZenonT(60)
       DEF HandlerStep, Receive, RejectMalformed, AnswerDDR, Deny, Permit, Block, Admit, CacheHit,
           Resolved, ResolveFailed, ValidatedBogus, NamePasses, NameRefused, AnswerPasses, Send, cacheVars
<1>2. ASSUME (\E S \in AllowLists : ReloadAllow(S)) \/ (\E S \in BlockLists : ReloadBlock(S))
      PROVE Untouched
  BY <1>2, Zenon DEF ReloadAllow, ReloadBlock, cacheVars, Untouched
<1>3. ASSUME TimePasses \/ UNCHANGED vars PROVE Untouched
  BY <1>3, Zenon DEF TimePasses, Tick, vars, cacheVars, Untouched
<1> QED
  BY <1>1, <1>2, <1>3, Zenon DEF Next

\* Each of them keeps the bounds.
LEMMA BoundsKept == ASSUME IInv, BoundsInv, [Next]_vars PROVE BoundsInv'
<1>1. /\ now \in Nat /\ LifetimeCap \in Nat /\ DOMAIN entries \subseteq Keys
      /\ \A k \in DOMAIN entries : entries[k].exp \in Nat /\ entries[k].resp.at \in Nat
  BY OptionsAssumption, ZenonT(40) DEF IInv, CacheSound, Entry, Response, LifetimeCap, Larger
<1>2. CASE Untouched
  <2>1. SizeBounded'
    BY <1>2, Zenon DEF Untouched, BoundsInv, SizeBounded
  <2>2. ExpiryBounded'
    BY <1>1, <1>2, SMT, SMTT(30) DEF Untouched, BoundsInv, ExpiryBounded, LifetimeCap
  <2>3. NoStale => \A k \in DOMAIN entries' : Fresh(entries[k])'
    BY <1>1, <1>2, SMT, SMTT(30) DEF Untouched, BoundsInv, Fresh, LifetimeCap
  <2> QED
    BY <2>1, <2>2, <2>3, Zenon DEF BoundsInv, NoStale
<1>3. CASE Dropped
  <2>1. PICK k \in Keys : entries' = Without(entries, k)
    BY <1>3, Zenon DEF Dropped, Delete
  <2>2. now' = now /\ IsFiniteSet(DOMAIN entries) /\ Cardinality(DOMAIN entries) <= MaxSize
    BY <1>3, Zenon DEF Dropped, BoundsInv, SizeBounded
  <2>3. /\ DOMAIN entries' = DOMAIN entries \ {k}
        /\ \A x \in DOMAIN entries' : entries'[x] = entries[x]
        /\ IsFiniteSet(DOMAIN entries')
        /\ Cardinality(DOMAIN entries') <= Cardinality(DOMAIN entries)
    BY <2>1, <2>2, WithoutShrinks, Zenon
  <2>4. SizeBounded'
    <3>1. Cardinality(DOMAIN entries) \in Nat /\ Cardinality(DOMAIN entries') \in Nat
      BY <2>2, <2>3, FS_CardinalityType, Zenon
    <3>2. Cardinality(DOMAIN entries') <= MaxSize
      BY <2>2, <2>3, <3>1, OptionsAssumption, SMT, SMTT(30)
    <3> QED
      BY <2>3, <3>2, Zenon DEF SizeBounded
  <2>5. ExpiryBounded'
    BY <2>2, <2>3, Zenon DEF BoundsInv, ExpiryBounded, LifetimeCap
  <2>6. NoStale => \A x \in DOMAIN entries' : Fresh(entries[x])'
    BY <2>2, <2>3, Zenon DEF BoundsInv, Fresh, LifetimeCap
  <2> QED
    BY <2>4, <2>5, <2>6, Zenon DEF BoundsInv, NoStale
<1>4. CASE Stored
  <2>1. PICK k \in Keys, r \in Response :
          Storable("same", r) /\ Store(k, r, now + Lifetime(r)) /\ (NoStale => r.at = now)
    BY <1>4, Zenon DEF Stored
  <2>2. now' = now
    BY <1>4, Zenon DEF Stored
  <2>3. SizeBounded'
    BY <2>1, StoreSize, Zenon DEF BoundsInv
  <2>4. Lifetime(r) \in Nat /\ Lifetime(r) <= LifetimeCap
    BY <2>1, LifetimeCapped, ZenonT(40)
  <2> DEFINE e == [resp |-> r, exp |-> now + Lifetime(r)]
  <2>5. \A x \in DOMAIN entries' :
          entries'[x] = e \/ (x \in DOMAIN entries /\ entries'[x] = entries[x])
    BY <1>1, <2>1, StoreEffect, SMT, SMTT(30)
  <2>6. e.exp = now + Lifetime(r) /\ e.resp = r
    BY Zenon
  <2> HIDE DEF e
  <2>7. e.exp <= now + LifetimeCap
    BY <1>1, <2>4, <2>6, SMT, SMTT(30)
  <2>8. NoStale => Fresh(e)
    BY <1>1, <2>1, <2>6, <2>7, SMT, SMTT(30) DEF Fresh
  <2>9. ExpiryBounded'
    BY <2>2, <2>5, <2>7, Zenon DEF BoundsInv, ExpiryBounded, LifetimeCap
  <2>10. NoStale => \A x \in DOMAIN entries' : Fresh(entries[x])'
    BY <2>2, <2>5, <2>8, Zenon DEF BoundsInv, Fresh, LifetimeCap
  <2> QED
    BY <2>3, <2>9, <2>10, Zenon DEF BoundsInv, NoStale
<1> QED
  BY <1>2, <1>3, <1>4, CacheSteps, ZenonT(60)

\* The bounds hold in every reachable state.
THEOREM BoundsInvariance == Spec => []BoundsInv
<1>1. Init => BoundsInv
  <2>1. ASSUME Init PROVE DOMAIN entries = {}
    BY <2>1, Zenon DEF Init
  <2> QED
    BY <2>1, FS_EmptySet, OptionsAssumption, SMT, SMTT(30) DEF BoundsInv, SizeBounded, ExpiryBounded
<1>2. IInv /\ BoundsInv /\ [Next]_vars => BoundsInv'
  BY BoundsKept, Zenon
<1> QED
  BY <1>1, <1>2, Invariance, PTL DEF Spec

\* However many handlers of both modes share the cache, it never holds more than
\* maxSize entries.
THEOREM SharedCacheBounded == Spec => []SizeBounded
<1>1. BoundsInv => SizeBounded
  BY Zenon DEF BoundsInv
<1> QED
  BY BoundsInvariance, <1>1, PTL

\* No entry expires later than the lifetime cap from now, also one that the cache
\* write after a bogus answer has renewed.
THEOREM ExpiriesAreNear == Spec => []ExpiryBounded
<1>1. BoundsInv => ExpiryBounded
  BY Zenon DEF BoundsInv
<1> QED
  BY BoundsInvariance, <1>1, PTL

\* A handler leaves the others where they are.
LEMMA OthersStay ==
  ASSUME IInv, NEW g \in Handlers, HandlerStep(g), NEW h \in Handlers, h # g
  PROVE  pc'[h] = pc[h]
<1>1. pc' = pc \/ \E p, r : Holding(g, p, r)
  BY Zenon
     DEF HandlerStep, Receive, RejectMalformed, AnswerDDR, Deny, Permit, Block, Admit, CacheHit, CacheMiss,
         Resolved, ResolveFailed, ValidatedGood, ValidatedBogus, Recache, NamePasses, NameRefused,
         AnswerPasses, Send
<1>2. pc \in [Handlers -> Stages]
  BY Zenon DEF IInv, TypeOK, Stages
<1> QED
  BY <1>1, <1>2, Zenon DEF Holding

\* A handler goes from the lookup straight to the answer check only by a hit.
LEMMA OnlyHitsAnswer ==
  ASSUME IInv, [Next]_vars, NEW h \in Handlers, pc[h] = "lookup", pc'[h] = "answer"
  PROVE  CacheHit(h)
<1>1. ASSUME NEW g \in Handlers, HandlerStep(g) PROVE CacheHit(h)
  <2>1. g = h
    BY <1>1, OthersStay, Zenon
  <2>2. ~CacheMiss(h)
    BY Zenon DEF CacheMiss, Holding, IInv, TypeOK
  <2> QED
    BY <1>1, <2>1, <2>2, Zenon
       DEF HandlerStep, Receive, RejectMalformed, AnswerDDR, Deny, Permit, Block, Admit,
           Resolved, ResolveFailed, ValidatedGood, ValidatedBogus, Recache, NamePasses, NameRefused,
           AnswerPasses, Send
<1>2. pc' # pc
  BY Zenon
<1> QED
  BY <1>1, <1>2, Zenon DEF Next, ReloadAllow, ReloadBlock, TimePasses, vars

\* The renewal of stale answers is the only way past the age bound: where no stale
\* answer is ever served, no answer from the cache is older than the bound.
THEOREM AgeBoundedWithoutStale == NoStale => (Spec => StaleIsBounded)
<1> SUFFICES ASSUME NoStale PROVE Spec => StaleIsBounded
  BY Zenon
<1>1. ASSUME IInv, BoundsInv, [Next]_vars, NEW h \in Handlers, pc[h] = "lookup", pc'[h] = "answer"
      PROVE  now - resp'[h].at <= LifetimeCap + StaleMax
  <2>1. CacheHit(h)
    BY <1>1, OnlyHitsAnswer, Zenon
  <2>2. PICK e \in Lookup(name[h]) : ~IsExpired(e) /\ Holding(h, "answer", e.resp)
    BY <2>1, Zenon DEF CacheHit, Live
  <2>3. Fresh(e) /\ e \in Entry /\ now \in Nat
    BY <1>1, Zenon DEF Lookup, BoundsInv, IInv, CacheSound
  <2>4. resp'[h] = e.resp
    BY <1>1, <2>2, Zenon DEF Holding, IInv, TypeOK
  <2>5. e.exp \in Nat /\ e.resp.at \in Nat
    BY <2>3, Zenon DEF Entry, Response
  <2> QED
    BY <2>2, <2>3, <2>4, <2>5, OptionsAssumption, SMT, SMTT(30) DEF Fresh, IsExpired, LifetimeCap, Larger
<1>2. IInv /\ BoundsInv /\ [Next]_vars =>
        [\A h \in Handlers : pc[h] = "lookup" /\ pc'[h] = "answer" =>
           now - resp'[h].at <= LifetimeCap + StaleMax]_vars
  BY <1>1, Zenon
<1> QED
  BY <1>2, Invariance, BoundsInvariance, PTL DEF Spec, StaleIsBounded

=============================================================================
