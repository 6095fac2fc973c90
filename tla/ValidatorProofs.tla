-------------------------- MODULE ValidatorProofs --------------------------
(***************************************************************************)
(* What ValidateResponse decides, for chains of any depth and any number   *)
(* of handlers: an answer that is called secure is authentic, one that is  *)
(* called insecure is so for cause, and a walk whose sets are the zones'   *)
(* own and fit together is not refused.                                    *)
(***************************************************************************)
EXTENDS Validator, TLAPS

(***************************************************************************)
(* One link                                                                *)
(***************************************************************************)
\* main configures only keys the root has had (the entries of the anchor
\* file), whichever of them the parsers keep.
LEMMA AnchorsAreTheRoots ==
  ASSUME world \in Worlds
  PROVE  Anchors \subseteq Gens
<1> DEFINE f == world.anchorFile
<1>1. \A e \in f.entries : e.tag \in Gens
  BY ConstantsAssumption, Zenon
<1>2. ParseRootAnchors(f.entries) \subseteq Gens
  BY <1>1, Zenon DEF ParseRootAnchors
<1>3. parseRootKey(f.entries) \subseteq Gens
  BY <1>1, Zenon DEF parseRootKey
<1> QED
  BY <1>2, <1>3, Zenon DEF Anchors

\* What verifies with keys the zone has had is signed by one of them.
LEMMA VerifyOk ==
  ASSUME NEW z, NEW sigs, NEW keys \in SUBSET Gens, Verify(z, sigs, keys) = "ok"
  PROVE  ~Odd(z) /\ Signed(sigs)
<1>1. PICK j \in Tried(sigs, keys) : Outcome(z, sigs[j].is) = "ok"
  BY Zenon DEF Verify
<1>2. ~Odd(z) /\ sigs[j].is = "good"
  BY <1>1, Zenon DEF Outcome
<1> QED
  BY <1>1, <1>2, Zenon DEF Tried, Signed

\* What cannot be processed has such a key, or such a signature under the tag
\* of a key the zone has had.
LEMMA VerifyOdd ==
  ASSUME NEW z, NEW sigs, NEW keys \in SUBSET Gens, Verify(z, sigs, keys) = "odd"
  PROVE  Odd(z) \/ \E j \in DOMAIN sigs : sigs[j].is = "misfit" /\ sigs[j].tag \in Gens
<1>1. PICK j \in Tried(sigs, keys) : Outcome(z, sigs[j].is) = "odd"
  BY Zenon DEF Verify
<1>2. Odd(z) \/ sigs[j].is = "misfit"
  BY <1>1, Zenon DEF Outcome
<1> QED
  BY <1>1, <1>2, Zenon DEF Tried

\* A good signature by one of the keys is never called bad.
LEMMA VerifyBy ==
  ASSUME NEW z, NEW keys, NEW g \in keys
  PROVE  Verify(z, By(g), keys) = IF Odd(z) THEN "odd" ELSE "ok"
<1>1. DOMAIN By(g) = {1} /\ By(g)[1] = [tag |-> g, is |-> "good"]
  BY SMT, SMTT(30) DEF By
<1>2. By(g)[1].tag = g /\ By(g)[1].is = "good"
  BY <1>1, SMT
<1>3. Tried(By(g), keys) = {1}
  BY <1>1, <1>2, Zenon DEF Tried
<1>4. Outcome(z, By(g)[1].is) = IF Odd(z) THEN "odd" ELSE "ok"
  BY <1>2, Zenon DEF Outcome
<1>5. 1 <= 1
  BY SMT
<1> QED
  BY <1>3, <1>4, <1>5, Zenon DEF Verify

\* A DNSKEY set that is vouched for by true keys is a true set.
LEMMA AnchoredSound ==
  ASSUME NEW z \in Zones, NEW k \in Recs, NEW vouched \in SUBSET Gens,
         TrueSet(z, "DNSKEY", k), Anchored(z, k, vouched) = "secure"
  PROVE  ~Odd(z) /\ k.rrs \subseteq Gens
<1>1. Verify(z, k.sigs, k.rrs \cap vouched) = "ok"
  BY Zenon DEF Anchored, Verify
<1>2. Signed(k.sigs) /\ ~Odd(z)
  BY <1>1, VerifyOk, Zenon
<1> QED
  BY <1>2, Zenon DEF TrueSet

\* A DNSKEY set is insecure only for a key or a signature that cannot be used.
LEMMA AnchoredInsecure ==
  ASSUME NEW z \in Zones, NEW k \in Recs, NEW vouched \in SUBSET Gens,
         Anchored(z, k, vouched) = "insecure"
  PROVE  Odd(z) \/ HasMisfit(k)
<1>1. Verify(z, k.sigs, k.rrs \cap vouched) = "odd"
  BY Zenon DEF Anchored
<1> QED
  BY <1>1, VerifyOdd, Zenon DEF HasMisfit

\* A DS that the parent's true keys verify is a true one.
LEMMA VerifiedDS ==
  ASSUME NEW z \in Zones, NEW d \in Recs, NEW keys \in SUBSET Gens,
         TrueSet(z, "DS", d), Verify(z - 1, d.sigs, keys) = "ok"
  PROVE  Secure(z) /\ d.rrs \in SUBSET Gens
<1>1. Signed(d.sigs)
  BY VerifyOk, Zenon
<1> QED
  BY <1>1, Zenon DEF TrueSet

\* If a link is accepted with true keys of the parent, the delegation is
\* secure, its key can be used and its keys are true ones.
LEMMA LinkSound ==
  ASSUME world \in Worlds, NEW z \in Zones, NEW k \in Recs, NEW d \in Recs,
         NEW keys \in SUBSET Gens,
         TrueSet(z, "DNSKEY", k), TrueSet(z, "DS", d), Link(z, k, d, keys) = "secure"
  PROVE  Secure(z) /\ ~Odd(z) /\ k.rrs \subseteq Gens
<1>1. CASE z = 0
  <2>1. Anchored(z, k, Anchors) = "secure"
    BY <1>1, Zenon DEF Link
  <2>2. Anchors \in SUBSET Gens
    BY AnchorsAreTheRoots, Zenon
  <2> QED
    BY <1>1, <2>1, <2>2, AnchoredSound, Zenon DEF Secure
<1>2. CASE z # 0
  <2>1. Verify(z - 1, d.sigs, keys) = "ok" /\ Anchored(z, k, d.rrs) = "secure"
    BY <1>2, Zenon DEF Link, Verify
  <2>2. Secure(z) /\ d.rrs \in SUBSET Gens
    BY <2>1, VerifiedDS, Zenon
  <2> QED
    BY <2>1, <2>2, AnchoredSound, Zenon
<1> QED
  BY <1>1, <1>2, Zenon

\* A denial that is verified with the parent's true keys is true.
LEMMA DenialSound ==
  ASSUME NEW z \in Zones, NEW d \in Recs, NEW keys \in SUBSET Gens,
         TrueSet(z, "DS", d), provesNoDS(z, d.denial, keys)
  PROVE  ~Secure(z)
<1> DEFINE used == {j \in Preferred(d.denial) : Verify(z - 1, d.denial[j].sigs, keys) = "ok"}
<1>1. used \subseteq DOMAIN d.denial
  BY Zenon DEF Preferred
<1>2. \A j \in used : Signed(d.denial[j].sigs)
  BY VerifyOk, Zenon
<1>3. \A j \in used : TrueDenial(z, d.denial[j])
  BY <1>1, Zenon DEF TrueSet
<1>4. CASE MatchProves(d.denial, used)
  <2>1. PICK j \in used : d.denial[j].at = "child" /\ Delegates(d.denial[j].bits)
    BY <1>4, Zenon DEF MatchProves
  <2>2. "DS" \notin d.denial[j].bits
    BY <2>1, Zenon DEF Delegates
  <2> QED
    BY <1>2, <1>3, <2>1, <2>2, Zenon DEF TrueDenial
<1>5. CASE OptOutProves(d.denial, used)
  <2>1. PICK j \in used : d.denial[j].optOut
    BY <1>5, Zenon DEF OptOutProves
  <2> QED
    BY <1>2, <1>3, <2>1, Zenon DEF TrueDenial
<1> QED
  BY <1>4, <1>5, Zenon DEF provesNoDS

\* If a link is insecure, below a parent whose key can be used, then the
\* delegation has no DS, the zone's key cannot be used, or one of the sets has
\* a signature that does not fit the key it names.
LEMMA LinkInsecure ==
  ASSUME world \in Worlds, NEW z \in Zones, NEW k \in Recs, NEW d \in Recs,
         NEW keys \in SUBSET Gens, z # 0 => ~Odd(z - 1),
         TrueSet(z, "DS", d), Link(z, k, d, keys) = "insecure"
  PROVE  ~Secure(z) \/ Odd(z) \/ HasMisfit(k) \/ HasMisfit(d)
<1>1. CASE z = 0
  <2>1. Anchored(z, k, Anchors) = "insecure"
    BY <1>1, Zenon DEF Link
  <2>2. Anchors \in SUBSET Gens
    BY AnchorsAreTheRoots, Zenon
  <2> QED
    BY <2>1, <2>2, AnchoredInsecure, Zenon
<1>2. CASE z # 0 /\ d.rrs = {}
  <2>1. provesNoDS(z, d.denial, keys)
    BY <1>2, Zenon DEF Link
  <2> QED
    BY <2>1, DenialSound, Zenon
<1>3. CASE z # 0 /\ d.rrs # {}
  <2>1. Verify(z - 1, d.sigs, keys) = "odd" => HasMisfit(d)
    BY <1>3, VerifyOdd, Zenon DEF HasMisfit
  <2>2. CASE Verify(z - 1, d.sigs, keys) # "odd"
    <3>1. Verify(z - 1, d.sigs, keys) = "ok" /\ Anchored(z, k, d.rrs) = "insecure"
      BY <1>3, <2>2, Zenon DEF Link, Verify
    <3>2. d.rrs \in SUBSET Gens
      BY <3>1, VerifiedDS, Zenon
    <3> QED
      BY <3>1, <3>2, AnchoredInsecure, Zenon
  <2> QED
    BY <2>1, <2>2, Zenon
<1> QED
  BY <1>1, <1>2, <1>3, Zenon

\* A link whose sets are the zone's own and fit is not refused.
LEMMA LinkFits ==
  ASSUME NEW z \in Zones, NEW k \in Recs, NEW d \in Recs, NEW keys \in SUBSET Gens,
         z # 0 => ~Odd(z - 1),
         NEW g \in Gens, k = RRset({g}, By(g)),
         IF z = 0 THEN k.rrs \subseteq Anchors
         ELSE IF Secure(z) THEN \E p \in keys : d = RRset(k.rrs, By(p))
              ELSE \E p \in keys : d \in Denials(p)
  PROVE  Link(z, k, d, keys) # "bogus"
<1>1. k.rrs = {g} /\ k.sigs = By(g)
  BY Zenon DEF RRset
<1>2. ASSUME NEW vouched, g \in vouched
      PROVE  Anchored(z, k, vouched) # "bogus"
  <2>1. g \in k.rrs \cap vouched
    BY <1>1, <1>2, Zenon
  <2> DEFINE seps == k.rrs \cap vouched
  <2>2. Verify(z, k.sigs, seps) = IF Odd(z) THEN "odd" ELSE "ok"
    <3> HIDE DEF seps
    <3>1. g \in seps
      BY <2>1, Zenon DEF seps
    <3>2. Verify(z, By(g), seps) = IF Odd(z) THEN "odd" ELSE "ok"
      BY <3>1, VerifyBy, Zenon
    <3> QED
      BY <1>1, <3>2, Zenon
  <2> QED
    BY <2>1, <2>2, Zenon DEF Anchored
<1>3. CASE z = 0
  BY <1>1, <1>2, <1>3, Zenon DEF Link
<1>4. CASE z # 0 /\ Secure(z)
  <2>1. PICK p \in keys : d = RRset(k.rrs, By(p))
    BY <1>4, Zenon
  <2>2. d.rrs = {g} /\ d.sigs = By(p)
    BY <1>1, <2>1, Zenon DEF RRset
  <2>3. Verify(z - 1, d.sigs, keys) = "ok"
    BY <1>4, <2>2, VerifyBy, Zenon
  <2> QED
    BY <1>2, <1>4, <2>2, <2>3, Zenon DEF Link
<1>5. CASE z # 0 /\ ~Secure(z)
  <2>1. PICK p \in keys : d \in Denials(p)
    BY <1>5, Zenon
  <2> DEFINE b == By(p)
             q1 == <<NSEC("child", {"NS"}, b)>>
             q2 == <<NSEC3("child", FALSE, {"NS"}, b)>>
             q3 == <<NSEC3("other", TRUE, {}, b), NSEC3("above", FALSE, {"SOA"}, b)>>
  <2>a. PICK q \in {q1, q2, q3} : d = Denial(q, TRUE)
    BY <2>1, Zenon DEF Denials
  <2>2. d.rrs = {} /\ d.success = TRUE /\ d.denial = q
    BY <2>a, Zenon DEF Denial
  <2>3. Verify(z - 1, b, keys) = "ok"
    BY <1>5, <2>1, VerifyBy, Zenon
  <2> HIDE DEF b
  <2>4. provesNoDS(z, d.denial, keys)
    <3>1. CASE q = q1
      BY <2>2, <2>3, <3>1, SMT, SMTT(30) DEF provesNoDS, Preferred, MatchProves, Delegates, NSEC
    <3>2. CASE q = q2
      BY <2>2, <2>3, <3>2, SMT, SMTT(30) DEF provesNoDS, Preferred, MatchProves, Delegates, NSEC3
    <3>3. CASE q = q3
      BY <2>2, <2>3, <3>3, SMT, SMTT(60) DEF provesNoDS, Preferred, OptOutProves, NSEC3
    <3> QED
      BY <2>a, <3>1, <3>2, <3>3, Zenon
  <2> QED
    BY <1>5, <2>2, <2>4, Zenon DEF Link
<1> QED
  BY <1>3, <1>4, <1>5, Zenon

(***************************************************************************)
(* What may be fetched                                                     *)
(***************************************************************************)
\* The empty set of the fetches that did not happen says nothing false.
LEMMA NothingIsTrue ==
  /\ Nothing \in Recs
  /\ \A z, type : TrueSet(z, type, Nothing)
  /\ NoSets \in [Zones \X Types -> Recs]
  /\ NoMessage \in Msgs
<1>1. Nothing \in Recs
  BY SMT, SMTT(30) DEF Nothing, Denial, Recs
<1>2. \A z, type : TrueSet(z, type, Nothing)
  BY SMT, SMTT(30) DEF TrueSet, Signed, Nothing, Denial, Gens
<1>3. NoMessage \in Msgs
  BY SMT, SMTT(30) DEF NoMessage, Msgs
<1> QED
  BY <1>1, <1>2, <1>3, Zenon DEF NoSets

\* A signature by a key the zone has had is an RRSIG.
LEMMA ByIsTyped ==
  ASSUME NEW g \in Gens
  PROVE  By(g) \in Seq(RRSIGs)
<1>1. [tag |-> g, is |-> "good"] \in RRSIGs
  BY Zenon DEF RRSIGs, Tags
<1>2. \A x \in RRSIGs : <<x>> \in Seq(RRSIGs)
  BY SMT, SMTT(30)
<1> QED
  BY <1>1, <1>2, Zenon DEF By

\* What a parent denies, it denies of a delegation without a DS.
LEMMA DenialsAreTrue ==
  ASSUME NEW z \in Zones, ~Secure(z), NEW p \in Gens, NEW r \in Denials(p)
  PROVE  r \in Recs /\ TrueSet(z, "DS", r)
<1> DEFINE b == By(p)
           q1 == <<NSEC("child", {"NS"}, b)>>
           q2 == <<NSEC3("child", FALSE, {"NS"}, b)>>
           q3 == <<NSEC3("other", TRUE, {}, b), NSEC3("above", FALSE, {"SOA"}, b)>>
<1>1. PICK q \in {q1, q2, q3} : r = Denial(q, TRUE)
  BY Zenon DEF Denials
<1>2. q \in Seq(DenialRecs)
  <2>a. b \in Seq(RRSIGs)
    BY ByIsTyped, Zenon
  <2> HIDE DEF b
  <2>1. NSEC("child", {"NS"}, b) \in DenialRecs
    BY <2>a, Zenon DEF NSEC, DenialRecs
  <2>2. /\ NSEC3("child", FALSE, {"NS"}, b) \in DenialRecs
        /\ NSEC3("other", TRUE, {}, b) \in DenialRecs
        /\ NSEC3("above", FALSE, {"SOA"}, b) \in DenialRecs
    BY <2>a, Zenon DEF NSEC3, DenialRecs
  <2>3. \A x, y \in DenialRecs : <<x>> \in Seq(DenialRecs) /\ <<x, y>> \in Seq(DenialRecs)
    BY SMT, SMTT(30)
  <2>4. q1 \in Seq(DenialRecs)
    BY <2>1, <2>3, Zenon
  <2>5. q2 \in Seq(DenialRecs) /\ q3 \in Seq(DenialRecs)
    BY <2>2, <2>3, Zenon
  <2> HIDE DEF q1, q2, q3
  <2> QED
    BY <1>1, <2>4, <2>5, Zenon
<1>3. r.rrs = {} /\ r.sigs = <<>> /\ r.denial = q /\ r.success = TRUE
  BY <1>1, Zenon DEF Denial
<1>4. r \in Recs
  <2>1. <<>> \in Seq(RRSIGs)
    BY SMT
  <2> QED
    BY <1>1, <1>2, <2>1, Zenon DEF Denial, Recs
<1>5. \A j \in DOMAIN q : TrueDenial(z, q[j])
  BY Zenon DEF TrueDenial
<1>6. ~Signed(r.sigs)
  BY <1>3, SMT DEF Signed
<1> QED
  BY <1>3, <1>4, <1>5, <1>6, Zenon DEF TrueSet

\* A set of a key the zone has had, signed by such a key, is true.
LEMMA OwnSetIsTrue ==
  ASSUME NEW z, NEW type, NEW g \in Gens, NEW p \in Gens, type = "DS" => Secure(z)
  PROVE  RRset({g}, By(p)) \in Recs /\ TrueSet(z, type, RRset({g}, By(p)))
<1> DEFINE b == By(p)
           r == RRset({g}, b)
<1>1. b \in Seq(RRSIGs)
  BY ByIsTyped, Zenon
<1> HIDE DEF b
<1>2. r.rrs = {g} /\ r.denial = <<>>
  BY Zenon DEF RRset
<1>3. <<>> \in Seq(DenialRecs)
  BY SMT
<1>4. r \in Recs
  BY <1>1, <1>3, Zenon DEF RRset, Recs, Tags
<1>5. DOMAIN r.denial = {}
  BY <1>2, SMT
<1> HIDE DEF r
<1>6. TrueSet(z, type, r)
  BY <1>2, <1>5, Zenon DEF TrueSet
<1> QED
  BY <1>4, <1>6, Zenon DEF r, b

\* Whatever the upstream returns, what it returns under a zone's key is true.
LEMMA AnswersAreTrue ==
  ASSUME gen \in [Zones -> Gens], NEW z \in Zones, NEW type \in Types,
         type = "DS" => z # 0, NEW r \in Answers(z, type)
  PROVE  r \in Recs /\ TrueSet(z, type, r)
<1>1. CASE r \notin Current(z, type)
  <2>1. r \in Offered[<<z, type>>] /\ TrueSet(z, type, r)
    BY <1>1, Zenon DEF Answers
  <2>2. Offered[<<z, type>>] \subseteq Recs
    BY ConstantsAssumption, Zenon
  <2> QED
    BY <2>1, <2>2, Zenon
<1>2. CASE r \in Current(z, type) /\ type = "DNSKEY"
  <2>1. gen[z] \in Gens /\ r = RRset({gen[z]}, By(gen[z]))
    BY <1>2, Zenon DEF Current
  <2>2. type # "DS"
    BY <1>2, Zenon
  <2> QED
    BY <2>1, <2>2, OwnSetIsTrue, ZenonT(40)
<1>3. CASE r \in Current(z, type) /\ type = "DS"
  <2>1. gen[z] \in Gens /\ gen[z - 1] \in Gens
    BY <1>3, ConstantsAssumption, SMT, SMTT(30) DEF Zones
  <2>2. CASE Secure(z)
    <3>1. r = RRset({gen[z]}, By(gen[z - 1]))
      BY <1>3, <2>2, Zenon DEF Current
    <3> QED
      BY <1>3, <2>1, <2>2, <3>1, OwnSetIsTrue, Zenon
  <2>3. CASE ~Secure(z)
    <3>1. r \in Denials(gen[z - 1])
      BY <1>3, <2>3, Zenon DEF Current
    <3> QED
      BY <1>3, <2>1, <2>3, <3>1, DenialsAreTrue, Zenon
  <2> QED
    BY <2>2, <2>3, Zenon
<1> QED
  BY <1>1, <1>2, <1>3, Zenon DEF Types

(***************************************************************************)
(* The inductive invariant.  Every set that is held, in the cache or by a  *)
(* walk, says the truth where a zone's key signed it, though nobody has    *)
(* verified it; what a walk has verified it has verified from the root.    *)
(***************************************************************************)
CacheTrue ==
  \A z \in Zones, type \in Types : TrueSet(z, type, keyCache[<<z, type>>])

Walks(h) == pc[h] \in Types \cup {"verify"}

\* Where the handler is, and what its variables mean there.
Shape(h) ==
  /\ i[h] >= 1
  /\ pc[h] = "DS" => at[h] # 0
  /\ pc[h] \notin {"verify", "done"} => level[h] = -1
  /\ pend[h] # Nothing => pc[h] \in Types /\ TrueSet(at[h], pc[h], pend[h])
  /\ Walks(h) => i[h] \in DOMAIN msg[h].sigs /\ ~Sig(h).inline /\ Sig(h).inPeriod
  /\ pc[h] # "done" => verdict[h].is = "none"

\* What the walk holds and has verified.
Sound(h) ==
  /\ \A z \in Zones, type \in Types : TrueSet(z, type, got[h][<<z, type>>])
  /\ trusted[h] \subseteq Gens
  /\ Chained(level[h])
  /\ level[h] >= 0 => trusted[h] = got[h][<<level[h], "DNSKEY">>].rrs

\* What the loop over the signatures has done so far.
Loop(h) ==
  /\ \A r \in validated[h] :
       \E j \in DOMAIN msg[h].sigs :
         msg[h].sigs[j].rrset = r /\ Genuine(msg[h].sigs[j])
  /\ pc[h] \notin {"idle", "done"} =>
       \A j \in DOMAIN msg[h].sigs :
         j < i[h] => msg[h].sigs[j].rrset \in
                       validated[h] \cup (Nat \ (msg[h].data \cup msg[h].material))

\* Why the verdict is what it is.
Cause(h) ==
  \/ /\ verdict[h].why = "unsigned"
     /\ \E r \in msg[h].data \cup msg[h].material :
          \A j \in DOMAIN msg[h].sigs : msg[h].sigs[j].rrset # r
  \/ /\ verdict[h].why = "delegation"
     /\ \/ ~Sig(h).inline /\ ~Chained(Signer(h))
        \/ MetMisfit(h) \/ Sig(h).is = "misfit"
Result(h) ==
  /\ verdict[h].is = "secure" => msg[h].data \subseteq validated[h]
  /\ verdict[h].is = "insecure" => Cause(h)
  /\ verdict[h] = [is |-> "bogus", why |-> "chain"] =>
       \E z \in 0 .. Signer(h) : ~Fits(h, z)

Good(h) == Shape(h) /\ Sound(h) /\ Loop(h) /\ Result(h)
IInv == ValidatorTypeOK /\ CacheTrue /\ \A h \in Handlers : Good(h)

\* It holds at start: nothing is cached and nobody validates.
LEMMA InitIInv == Init => IInv
<1> SUFFICES ASSUME Init PROVE IInv
  BY Zenon
<1>1. ValidatorTypeOK
  <2>1. 0 \in Zones /\ -1 \in -1 .. Depth
    BY ConstantsAssumption, SMT, SMTT(30) DEF Zones
  <2>2. NoVerdict \in Verdicts
    BY Zenon DEF NoVerdict, Verdicts
  <2>3. /\ world \in Worlds /\ gen \in [Zones -> Gens] /\ mangles \in BOOLEAN
        /\ keyCache \in [Zones \X Types -> Recs]
        /\ \A x \in Zones \X Types : keyCache[x] = Nothing
    BY NothingIsTrue, Zenon DEF Init, Gens
  <2> QED
    BY <2>1, <2>2, <2>3, NothingIsTrue, Zenon DEF Init, ValidatorTypeOK
<1>2. CacheTrue
  BY NothingIsTrue, Zenon DEF Init, CacheTrue
<1>3. ASSUME NEW h \in Handlers PROVE Good(h)
  <2>1. Shape(h)
    BY SMT, SMTT(30) DEF Init, Shape, Walks, Types, NoVerdict
  <2>2. Sound(h)
    BY NothingIsTrue, SMT, SMTT(30) DEF Init, Sound, Chained, NoSets
  <2>3. Loop(h)
    BY Zenon DEF Init, Loop
  <2>4. Result(h)
    BY Zenon DEF Init, Result, NoVerdict
  <2> QED
    BY <2>1, <2>2, <2>3, <2>4, Zenon DEF Good
<1> QED
  BY <1>1, <1>2, <1>3, Zenon DEF IInv

\* The zones are as they are, whatever the handlers do.
LEMMA WorldFixed ==
  ASSUME world' = world
  PROVE  /\ \A z : (Secure(z)' <=> Secure(z)) /\ (Odd(z)' <=> Odd(z))
         /\ \A z : Chained(z)' <=> Chained(z)
         /\ \A z, type, r : TrueSet(z, type, r)' <=> TrueSet(z, type, r)
         /\ \A s : Genuine(s)' <=> Genuine(s)
         /\ Anchors' = Anchors
BY SMT, SMTT(30) DEF Secure, Odd, Chained, TrueSet, TrueDenial, Signed, Genuine,
                     FromChain, FromMessage, Anchors

\* What the loop has done stays done while the handler neither takes up
\* another signature nor another answer.
LEMMA LoopKept ==
  ASSUME world' = world, NEW g \in Handlers, Loop(g),
         msg'[g] = msg[g], validated'[g] = validated[g],
         \/ pc'[g] = "done"
         \/ i'[g] = i[g] /\ (pc'[g] \notin {"idle", "done"} => pc[g] \notin {"idle", "done"})
  PROVE  Loop(g)'
<1>1. \A sig : Genuine(sig)' <=> Genuine(sig)
  BY WorldFixed, Zenon
<1>2. (\A r \in validated[g] :
         \E j \in DOMAIN msg[g].sigs : msg[g].sigs[j].rrset = r /\ Genuine(msg[g].sigs[j]))'
  <2>1. \A r \in validated[g] :
          \E j \in DOMAIN msg[g].sigs : msg[g].sigs[j].rrset = r /\ Genuine(msg[g].sigs[j])
    BY Zenon DEF Loop
  <2> QED
    BY <1>1, <2>1, Zenon
<1>3. ASSUME pc'[g] \notin {"idle", "done"}
      PROVE  (\A j \in DOMAIN msg[g].sigs :
                j < i[g] => msg[g].sigs[j].rrset \in
                              validated[g] \cup (Nat \ (msg[g].data \cup msg[g].material)))'
  <2>1. /\ i'[g] = i[g]
        /\ \A j \in DOMAIN msg[g].sigs :
             j < i[g] => msg[g].sigs[j].rrset \in
                           validated[g] \cup (Nat \ (msg[g].data \cup msg[g].material))
    BY <1>3, Zenon DEF Loop
  <2> QED
    BY <2>1, Zenon
<1> QED
  BY <1>2, <1>3, Zenon DEF Loop

\* A handler that does nothing stays good.
LEMMA GoodStays ==
  ASSUME world' = world, NEW g \in Handlers, Good(g),
         pc'[g] = pc[g], msg'[g] = msg[g], i'[g] = i[g], at'[g] = at[g], got'[g] = got[g],
         pend'[g] = pend[g], level'[g] = level[g], trusted'[g] = trusted[g],
         validated'[g] = validated[g], verdict'[g] = verdict[g]
  PROVE  Good(g)'
<1>1. Shape(g)'
  BY WorldFixed, ZenonT(40) DEF Good, Shape, Walks, Sig
<1>2. Sound(g)'
  BY WorldFixed, ZenonT(40) DEF Good, Sound
<1>3. Loop(g)'
  BY LoopKept, Zenon DEF Good
<1>4. Result(g)'
  <2>1. Sig(g)' = Sig(g) /\ Signer(g)' = Signer(g)
    BY ZenonT(40) DEF Sig, Signer
  <2>2. Cause(g)' <=> Cause(g)
    <3>1. MetMisfit(g)' <=> MetMisfit(g)
      BY Zenon DEF MetMisfit, HasMisfit
    <3> QED
      BY <2>1, <3>1, WorldFixed, SMT, SMTT(30) DEF Cause
  <2>3. \A z : Fits(g, z)' <=> Fits(g, z)
    BY WorldFixed, Zenon DEF Fits
  <2> QED
    BY <2>1, <2>2, <2>3, Zenon DEF Good, Result
<1> QED
  BY <1>1, <1>2, <1>3, <1>4, Zenon DEF Good

\* A step of h leaves the variables of the other handlers alone.
OthersStay(h) ==
  \A g \in Handlers \ {h} :
    /\ pc'[g] = pc[g] /\ msg'[g] = msg[g] /\ i'[g] = i[g] /\ at'[g] = at[g]
    /\ got'[g] = got[g] /\ pend'[g] = pend[g] /\ level'[g] = level[g]
    /\ trusted'[g] = trusted[g] /\ validated'[g] = validated[g]
    /\ verdict'[g] = verdict[g]

\* So the invariant is about the cache and about h.
LEMMA OneSteps ==
  ASSUME IInv, NEW h \in Handlers, world' = world, OthersStay(h),
         ValidatorTypeOK', CacheTrue', Good(h)'
  PROVE  IInv'
<1>1. ASSUME NEW g \in Handlers \ {h} PROVE Good(g)'
  BY GoodStays, Zenon DEF IInv, OthersStay
<1> QED
  BY <1>1, Zenon DEF IInv

\* A cache that is left alone stays true.
LEMMA CacheTrueStays ==
  ASSUME CacheTrue, world' = world, keyCache' = keyCache
  PROVE  CacheTrue'
BY WorldFixed, Zenon DEF CacheTrue

\* The zone above a zone that is not the root is a zone.
LEMMA ParentIsZone ==
  ASSUME NEW z \in Zones, z # 0
  PROVE  z - 1 \in Zones
<1>1. Depth \in Nat
  BY ConstantsAssumption, Zenon
<1> QED
  BY <1>1, SMT, SMTT(30) DEF Zones

\* A zone is the last of the zones from the root to it.
LEMMA ZoneCloses ==
  ASSUME NEW z \in Zones
  PROVE  z \in 0 .. z
<1>1. Depth \in Nat
  BY ConstantsAssumption, Zenon
<1> QED
  BY <1>1, SMT, SMTT(30) DEF Zones

\* The signatures below the next index are the earlier ones and this one.
LEMMA BelowNext ==
  ASSUME NEW n \in Nat, NEW m \in Nat
  PROVE  \A j \in 1 .. m : j < n + 1 => j < n \/ j = n
BY SMT, SMTT(30)

\* The handler's own variables have their types.
LEMMA Typed ==
  ASSUME IInv, NEW h \in Handlers
  PROVE  /\ msg[h] \in Msgs /\ msg[h].sigs \in Seq(Sigs)
         /\ DOMAIN msg[h].sigs = 1 .. Len(msg[h].sigs) /\ Len(msg[h].sigs) \in Nat
         /\ i[h] \in Nat /\ at[h] \in Zones /\ level[h] \in -1 .. Depth
         /\ \A j \in DOMAIN msg[h].sigs : msg[h].sigs[j] \in Sigs
         /\ Depth \in Nat
<1>1. msg[h] \in Msgs /\ i[h] \in Nat /\ at[h] \in Zones /\ level[h] \in -1 .. Depth
  BY Zenon DEF IInv, ValidatorTypeOK
<1>2. msg[h].sigs \in Seq(Sigs)
  BY <1>1, Zenon DEF Msgs
<1> QED
  BY <1>1, <1>2, ConstantsAssumption, SMT, SMTT(30)

\* A turn of the loop has a signature to look at.
LEMMA InRange ==
  ASSUME IInv, NEW h \in Handlers, i[h] <= Len(msg[h].sigs)
  PROVE  i[h] \in DOMAIN msg[h].sigs
<1>1. i[h] >= 1
  BY Zenon DEF IInv, Good, Shape
<1>2. i[h] \in Nat /\ Len(msg[h].sigs) \in Nat /\ DOMAIN msg[h].sigs = 1 .. Len(msg[h].sigs)
  BY Typed, Zenon
<1> QED
  BY <1>1, <1>2, SMT, SMTT(30)

(***************************************************************************)
(* The steps of ValidateResponse                                           *)
(***************************************************************************)
\* An answer arrives; without records or signatures it is decided at once.
LEMMA BeginIInv ==
  ASSUME IInv, NEW h \in Handlers, Begin(h)
  PROVE  IInv'
<1>1. PICK m \in world.answers[h] :
        /\ msg' = [msg EXCEPT ![h] = m]
        /\ \/ m.data \cup m.material = {} /\ End(h, "secure", "empty")
           \/ /\ m.data \cup m.material # {} /\ m.sigs = <<>>
              /\ End(h, IF world.validateAll THEN "bogus" ELSE "insecure", "unsigned")
           \/ m.sigs # <<>> /\ pc' = [pc EXCEPT ![h] = "sig"] /\ UNCHANGED verdict
  BY Zenon DEF Begin
<1>2. m \in Msgs
  BY ConstantsAssumption, Zenon DEF IInv, ValidatorTypeOK
<1>3. DOMAIN m.sigs = 1 .. Len(m.sigs) /\ Len(m.sigs) \in Nat
  BY <1>2, SMT, SMTT(30) DEF Msgs
<1>5. /\ pc[h] = "idle"
      /\ i' = [i EXCEPT ![h] = 1] /\ validated' = [validated EXCEPT ![h] = {}]
      /\ world' = world /\ gen' = gen /\ mangles' = mangles /\ keyCache' = keyCache
      /\ at' = at /\ got' = got /\ pend' = pend /\ level' = level /\ trusted' = trusted
  BY Zenon DEF Begin, shared, walk
<1>a. PICK p \in {"sig", "done"}, v \in Verdicts :
        /\ pc' = [pc EXCEPT ![h] = p] /\ verdict' = [verdict EXCEPT ![h] = v]
        /\ \/ m.data \cup m.material = {} /\ p = "done" /\ v = [is |-> "secure", why |-> "empty"]
           \/ /\ m.data \cup m.material # {} /\ m.sigs = <<>>
              /\ p = "done" /\ v.is \in {"bogus", "insecure"} /\ v.why = "unsigned"
           \/ m.sigs # <<>> /\ p = "sig" /\ v = verdict[h]
  <2>1. CASE m.data \cup m.material = {} /\ End(h, "secure", "empty")
    BY <2>1, Zenon DEF End, Verdicts
  <2>2. CASE /\ m.data \cup m.material # {} /\ m.sigs = <<>>
             /\ End(h, IF world.validateAll THEN "bogus" ELSE "insecure", "unsigned")
    <3> DEFINE v == [is |-> IF world.validateAll THEN "bogus" ELSE "insecure",
                     why |-> "unsigned"]
    <3>1. v \in Verdicts /\ v.is \in {"bogus", "insecure"} /\ v.why = "unsigned"
      BY Zenon DEF Verdicts
    <3>2. verdict' = [verdict EXCEPT ![h] = v] /\ pc' = [pc EXCEPT ![h] = "done"]
      BY <2>2, Zenon DEF End
    <3> HIDE DEF v
    <3> QED
      BY <2>2, <3>1, <3>2, Zenon
  <2>3. CASE m.sigs # <<>> /\ pc' = [pc EXCEPT ![h] = "sig"] /\ UNCHANGED verdict
    <3>1. verdict[h] \in Verdicts /\ verdict' = [verdict EXCEPT ![h] = verdict[h]]
      BY <2>3, Zenon DEF IInv, ValidatorTypeOK
    <3> QED
      BY <2>3, <3>1, Zenon
  <2> QED
    BY <1>1, <2>1, <2>2, <2>3, Zenon
<1>4. ValidatorTypeOK'
  BY <1>1, <1>2, <1>5, <1>a, Zenon DEF IInv, ValidatorTypeOK
<1>6. OthersStay(h)
  BY <1>1, <1>5, <1>a, ZenonT(40) DEF OthersStay, IInv, ValidatorTypeOK
<1>7. /\ msg'[h] = m /\ i'[h] = 1 /\ validated'[h] = {} /\ pc'[h] = p /\ verdict'[h] = v
  BY <1>1, <1>5, <1>a, ZenonT(40) DEF IInv, ValidatorTypeOK
<1>8. Shape(h)'
  <2>1. level[h] = -1 /\ pend[h] = Nothing /\ verdict[h].is = "none"
    BY <1>5, Zenon DEF IInv, Good, Shape, Types
  <2> QED
    BY <1>5, <1>7, <1>a, <2>1, SMT, SMTT(30) DEF Shape, Walks, Types
<1>9. Sound(h)'
  BY <1>5, <1>7, WorldFixed, Zenon DEF IInv, Good, Sound
<1>10. Loop(h)'
  BY <1>3, <1>7, SMT, SMTT(30) DEF Loop
<1>11. Result(h)'
  <2>1. CASE v = verdict[h]
    <3>1. v.is = "none"
      BY <1>5, <2>1, Zenon DEF IInv, Good, Shape
    <3> QED
      BY <1>7, <3>1, SMT, SMTT(30) DEF Result
  <2>2. CASE m.data = {} /\ v = [is |-> "secure", why |-> "empty"]
    BY <1>7, <2>2, SMT, SMTT(30) DEF Result
  <2>3. CASE /\ m.data \cup m.material # {} /\ m.sigs = <<>>
             /\ v.is \in {"bogus", "insecure"} /\ v.why = "unsigned"
    <3>1. \E r \in m.data \cup m.material : \A j \in DOMAIN m.sigs : m.sigs[j].rrset # r
      BY <1>3, <2>3, SMT, SMTT(30)
    <3> QED
      BY <1>7, <2>3, <3>1, SMT, SMTT(30) DEF Result, Cause
  <2> QED
    BY <1>a, <2>1, <2>2, <2>3, ZenonT(40)
<1> QED
  BY <1>4, <1>5, <1>6, <1>8, <1>9, <1>10, <1>11, OneSteps, CacheTrueStays, Zenon
     DEF IInv, Good

\* The variables of a walk stay as they are, or go out of scope.
WalkRests(h) == UNCHANGED <<at, got, level, trusted>> \/ WalkEnds(h)

\* They keep their types and say nothing new.
LEMMA WalkRestsSound ==
  ASSUME IInv, NEW h \in Handlers, world' = world, WalkRests(h)
  PROVE  /\ at' \in [Handlers -> Zones]
         /\ got' \in [Handlers -> [Zones \X Types -> Recs]]
         /\ level' \in [Handlers -> -1 .. Depth] /\ trusted' \in [Handlers -> SUBSET Tags]
         /\ Sound(h)'
         /\ \A g \in Handlers \ {h} :
              /\ at'[g] = at[g] /\ got'[g] = got[g]
              /\ level'[g] = level[g] /\ trusted'[g] = trusted[g]
<1>1. CASE UNCHANGED <<at, got, level, trusted>>
  BY <1>1, WorldFixed, Zenon DEF IInv, ValidatorTypeOK, Good, Sound
<1>2. CASE WalkEnds(h)
  <2>1. 0 \in Zones /\ -1 \in -1 .. Depth
    BY ConstantsAssumption, SMT, SMTT(30) DEF Zones
  <2>2. /\ at' \in [Handlers -> Zones]
        /\ got' \in [Handlers -> [Zones \X Types -> Recs]]
        /\ level' \in [Handlers -> -1 .. Depth] /\ trusted' \in [Handlers -> SUBSET Tags]
    BY <1>2, <2>1, NothingIsTrue, Zenon DEF WalkEnds, IInv, ValidatorTypeOK
  <2>3. \A g \in Handlers \ {h} :
          /\ at'[g] = at[g] /\ got'[g] = got[g]
          /\ level'[g] = level[g] /\ trusted'[g] = trusted[g]
    BY <1>2, Zenon DEF WalkEnds, IInv, ValidatorTypeOK
  <2>4. got'[h] = NoSets /\ level'[h] = -1 /\ trusted'[h] = {}
    BY <1>2, Zenon DEF WalkEnds, IInv, ValidatorTypeOK
  <2>5. Sound(h)'
    BY <2>4, NothingIsTrue, WorldFixed, SMT, SMTT(30) DEF Sound, NoSets, Chained
  <2> QED
    BY <2>2, <2>3, <2>5, Zenon
<1> QED
  BY <1>1, <1>2, Zenon DEF WalkRests

\* ValidateResponse returns v, and v is right.
LEMMA EndIInv ==
  ASSUME IInv, NEW h \in Handlers, NEW v \in Verdicts,
         UNCHANGED <<shared, msg, i, pend, validated>>, pend[h] = Nothing, WalkRests(h),
         pc' = [pc EXCEPT ![h] = "done"], verdict' = [verdict EXCEPT ![h] = v],
         v.is = "secure" => msg[h].data \subseteq validated[h],
         v.is = "insecure" =>
           \/ /\ v.why = "unsigned"
              /\ \E r \in msg[h].data \cup msg[h].material :
                   \A j \in DOMAIN msg[h].sigs : msg[h].sigs[j].rrset # r
           \/ /\ v.why = "delegation"
              /\ \/ ~Sig(h).inline /\ ~Chained(Signer(h))
                 \/ UNCHANGED <<got, level>> /\ MetMisfit(h)
                 \/ Sig(h).is = "misfit",
         v = [is |-> "bogus", why |-> "chain"] =>
           UNCHANGED got /\ \E z \in 0 .. Signer(h) : ~Fits(h, z)
  PROVE  IInv'
<1>1. /\ world' = world /\ gen' = gen /\ mangles' = mangles /\ keyCache' = keyCache
      /\ msg' = msg /\ i' = i /\ pend' = pend /\ validated' = validated
  BY Zenon DEF shared
<1>2. ValidatorTypeOK'
  BY <1>1, WalkRestsSound, Zenon DEF IInv, ValidatorTypeOK
<1>3. pc'[h] = "done" /\ verdict'[h] = v
  BY Zenon DEF IInv, ValidatorTypeOK
<1>4. OthersStay(h)
  BY <1>1, WalkRestsSound, ZenonT(30) DEF OthersStay, IInv, ValidatorTypeOK
<1>5. Shape(h)'
  BY <1>1, <1>3, ZenonT(40) DEF IInv, Good, Shape, Walks, Types
<1>6. Loop(h)'
  BY <1>1, <1>3, LoopKept, Zenon DEF IInv, Good
<1>7. Result(h)'
  <2>1. Sig(h)' = Sig(h) /\ Signer(h)' = Signer(h)
    BY <1>1, Zenon DEF Sig, Signer
  <2>2. v.is = "insecure" => Cause(h)'
    <3>1. UNCHANGED <<got, level>> => (MetMisfit(h)' <=> MetMisfit(h))
      BY Zenon DEF MetMisfit, HasMisfit
    <3> QED
      BY <1>1, <1>3, <2>1, <3>1, WorldFixed, ZenonT(40) DEF Cause
  <2>3. UNCHANGED got => \A z : Fits(h, z)' <=> Fits(h, z)
    BY <1>1, WorldFixed, Zenon DEF Fits
  <2> QED
    BY <1>1, <1>3, <2>1, <2>2, <2>3, Zenon DEF Result
<1> QED
  BY <1>1, <1>2, <1>4, <1>5, <1>6, <1>7, WalkRestsSound, OneSteps, CacheTrueStays, Zenon
     DEF IInv, Good

\* A signature is out of its period.
LEMMA PeriodIInv ==
  ASSUME IInv, NEW h \in Handlers, Period(h)
  PROVE  IInv'
<1> DEFINE v == [is |-> "bogus", why |-> "period"]
<1>1. v \in Verdicts /\ v.is = "bogus" /\ v.why = "period"
  BY Zenon DEF Verdicts
<1>2. /\ pc' = [pc EXCEPT ![h] = "done"] /\ verdict' = [verdict EXCEPT ![h] = v]
      /\ UNCHANGED <<shared, msg, i, pend, validated>> /\ WalkRests(h)
  BY Zenon DEF Period, End, walk, WalkRests
<1>3. pend[h] = Nothing
  BY Zenon DEF Period, IInv, Good, Shape, Types
<1> HIDE DEF v
<1>4. v # [is |-> "bogus", why |-> "chain"]
  BY <1>1, SMT, SMTT(30)
<1> QED
  BY <1>1, <1>2, <1>3, <1>4, EndIInv, Zenon

\* The signature covers nothing the answer holds, and is passed over.
LEMMA SkipIInv ==
  ASSUME IInv, NEW h \in Handlers, Skip(h)
  PROVE  IInv'
<1>1. /\ pc[h] = "sig" /\ i[h] \in DOMAIN msg[h].sigs /\ ~Found(h)
      /\ i' = [i EXCEPT ![h] = i[h] + 1]
      /\ world' = world /\ gen' = gen /\ mangles' = mangles /\ keyCache' = keyCache
      /\ at' = at /\ got' = got /\ pend' = pend /\ level' = level /\ trusted' = trusted
      /\ pc' = pc /\ msg' = msg /\ validated' = validated /\ verdict' = verdict
  <2>1. i[h] <= Len(msg[h].sigs)
    BY Zenon DEF Skip
  <2> QED
    BY <2>1, InRange, Zenon DEF Skip, shared, walk
<1>2. i[h] + 1 \in Nat
  BY Typed, SMT, SMTT(30)
<1>3. ValidatorTypeOK'
  BY <1>1, <1>2, Zenon DEF IInv, ValidatorTypeOK
<1>4. OthersStay(h) /\ i'[h] = i[h] + 1
  BY <1>1, ZenonT(30) DEF OthersStay, IInv, ValidatorTypeOK
<1>5. Shape(h)'
  <2>1. i[h] \in Nat
    BY Typed, Zenon
  <2>2. i'[h] >= 1
    BY <1>4, <2>1, SMT, SMTT(30)
  <2> QED
    BY <1>1, <2>2, Zenon DEF IInv, Good, Shape, Walks, Types
<1>6. Sound(h)'
  BY <1>1, WorldFixed, ZenonT(40) DEF IInv, Good, Sound
<1>7. Result(h)'
  <2>1. verdict[h].is = "none"
    BY <1>1, ZenonT(30) DEF IInv, Good, Shape
  <2> QED
    BY <1>1, <2>1, SMT, SMTT(30) DEF Result
<1>8. Loop(h)'
  <2>1. Sig(h).rrset \in Nat \ (msg[h].data \cup msg[h].material)
    BY <1>1, Typed, Zenon DEF Found, Sig, Sigs
  <2>2. \A j \in DOMAIN msg[h].sigs : j < i[h] + 1 => j < i[h] \/ j = i[h]
    <3>1. /\ i[h] \in Nat /\ Len(msg[h].sigs) \in Nat
          /\ DOMAIN msg[h].sigs = 1 .. Len(msg[h].sigs)
      BY Typed, Zenon
    <3> QED
      BY <3>1, BelowNext, Zenon
  <2>3. \A j \in DOMAIN msg[h].sigs :
          j < i[h] + 1 => msg[h].sigs[j].rrset \in
                            validated[h] \cup (Nat \ (msg[h].data \cup msg[h].material))
    BY <1>1, <2>1, <2>2, Zenon DEF IInv, Good, Loop, Sig
  <2>4. (\A r \in validated[h] :
           \E j \in DOMAIN msg[h].sigs :
             msg[h].sigs[j].rrset = r /\ Genuine(msg[h].sigs[j]))'
    <3>1. \A sig : Genuine(sig)' <=> Genuine(sig)
      BY <1>1, WorldFixed, Zenon
    <3>2. \A r \in validated[h] :
            \E j \in DOMAIN msg[h].sigs : msg[h].sigs[j].rrset = r /\ Genuine(msg[h].sigs[j])
      BY Zenon DEF IInv, Good, Loop
    <3> QED
      BY <1>1, <3>1, <3>2, Zenon
  <2>5. (\A j \in DOMAIN msg[h].sigs :
           j < i[h] => msg[h].sigs[j].rrset \in
                         validated[h] \cup (Nat \ (msg[h].data \cup msg[h].material)))'
    BY <1>1, <1>4, <2>3, Zenon
  <2> QED
    BY <2>4, <2>5, Zenon DEF Loop
<1> QED
  BY <1>1, <1>3, <1>4, <1>5, <1>6, <1>7, <1>8, OneSteps, CacheTrueStays, ZenonT(40)
     DEF IInv, Good

\* A signature that is genuine is counted, and the loop goes on.
LEMMA GoesOnIInv ==
  ASSUME IInv, NEW h \in Handlers, i[h] \in DOMAIN msg[h].sigs, Genuine(Sig(h)),
         UNCHANGED <<shared, msg, pend, verdict>>, pend[h] = Nothing, WalkRests(h),
         level'[h] = -1, pc[h] \notin {"idle", "done"},
         pc' = [pc EXCEPT ![h] = "sig"], i' = [i EXCEPT ![h] = i[h] + 1],
         validated' = [validated EXCEPT ![h] = validated[h] \cup {Sig(h).rrset}]
  PROVE  IInv'
<1>1. /\ world' = world /\ gen' = gen /\ mangles' = mangles /\ keyCache' = keyCache
      /\ msg' = msg /\ pend' = pend /\ verdict' = verdict
  BY ZenonT(40) DEF shared
<1>2. i[h] + 1 \in Nat /\ Sig(h).rrset \in Nat
  <2>1. i[h] \in Nat /\ Sig(h) \in Sigs
    BY Typed, Zenon DEF Sig
  <2>2. Sig(h).rrset \in Nat
    BY <2>1, Zenon DEF Sigs
  <2> QED
    BY <2>1, <2>2, SMT, SMTT(30)
<1>3. ValidatorTypeOK'
  <2>1. validated[h] \cup {Sig(h).rrset} \in SUBSET Nat
    BY <1>2, Zenon DEF IInv, ValidatorTypeOK
  <2> QED
    BY <1>1, <1>2, <2>1, WalkRestsSound, Zenon DEF IInv, ValidatorTypeOK
<1>4. /\ pc'[h] = "sig" /\ i'[h] = i[h] + 1
      /\ validated'[h] = validated[h] \cup {Sig(h).rrset}
  BY Zenon DEF IInv, ValidatorTypeOK
<1>5. OthersStay(h)
  BY <1>1, WalkRestsSound, ZenonT(30) DEF OthersStay, IInv, ValidatorTypeOK
<1>6. verdict[h].is = "none"
  BY ZenonT(40) DEF IInv, Good, Shape
<1>7. Shape(h)'
  <2>1. i[h] \in Nat
    BY Typed, Zenon
  <2>2. i'[h] >= 1
    BY <1>4, <2>1, SMT, SMTT(30)
  <2> QED
    BY <1>1, <1>4, <1>6, <2>2, Zenon DEF Shape, Walks, Types
<1>8. Loop(h)'
  <2>1. \A r \in validated'[h] :
          \E j \in DOMAIN msg[h].sigs : msg[h].sigs[j].rrset = r /\ Genuine(msg[h].sigs[j])
    BY <1>4, ZenonT(40) DEF IInv, Good, Loop, Sig
  <2>2. \A j \in DOMAIN msg[h].sigs : j < i[h] + 1 => j < i[h] \/ j = i[h]
    <3>1. /\ i[h] \in Nat /\ Len(msg[h].sigs) \in Nat
          /\ DOMAIN msg[h].sigs = 1 .. Len(msg[h].sigs)
      BY Typed, Zenon
    <3> QED
      BY <3>1, BelowNext, Zenon
  <2>3. \A j \in DOMAIN msg[h].sigs :
          j < i[h] + 1 => msg[h].sigs[j].rrset \in
                            validated'[h] \cup (Nat \ (msg[h].data \cup msg[h].material))
    BY <1>4, <2>2, Zenon DEF IInv, Good, Loop, Sig
  <2>4. (\A r \in validated[h] :
           \E j \in DOMAIN msg[h].sigs :
             msg[h].sigs[j].rrset = r /\ Genuine(msg[h].sigs[j]))'
    <3>1. \A sig : Genuine(sig)' <=> Genuine(sig)
      BY <1>1, WorldFixed, Zenon
    <3> QED
      BY <1>1, <2>1, <3>1, Zenon
  <2>5. (\A j \in DOMAIN msg[h].sigs :
           j < i[h] => msg[h].sigs[j].rrset \in
                         validated[h] \cup (Nat \ (msg[h].data \cup msg[h].material)))'
    BY <1>1, <1>4, <2>3, Zenon
  <2> QED
    BY <2>4, <2>5, Zenon DEF Loop
<1>9. Result(h)'
  BY <1>1, <1>6, SMT, SMTT(30) DEF Result
<1> QED
  BY <1>1, <1>3, <1>5, <1>7, <1>8, <1>9, WalkRestsSound, OneSteps, CacheTrueStays, Zenon
     DEF IInv, Good

\* The check of one signature (verifyRRSIG and the root KSK's anchor), with
\* the key of the message or with the keys the walk ended at.
LEMMA CheckedIInv ==
  ASSUME IInv, NEW h \in Handlers, NEW keys, Checked(h, keys),
         i[h] \in DOMAIN msg[h].sigs, Sig(h).inPeriod, pc[h] \notin {"idle", "done"},
         UNCHANGED <<shared, msg, pend>>, pend[h] = Nothing, WalkRests(h), level'[h] = -1,
         Sig(h).inline \/ (keys \subseteq Gens /\ Chained(Signer(h)))
  PROVE  IInv'
<1>1. ASSUME NEW v \in Verdicts, End(h, v.is, v.why), UNCHANGED <<i, validated>>,
             \/ v.is = "bogus" /\ v.why # "chain"
             \/ v.is = "insecure" /\ v.why = "delegation" /\ Unprocessable(Sig(h))
      PROVE  IInv'
  <2>1. v = [is |-> v.is, why |-> v.why]
    BY Zenon DEF Verdicts
  <2>2. pc' = [pc EXCEPT ![h] = "done"] /\ verdict' = [verdict EXCEPT ![h] = v]
    BY <1>1, <2>1, Zenon DEF End
  <2>3. Unprocessable(Sig(h)) =>
          Sig(h).is = "misfit" \/ (~Sig(h).inline /\ ~Chained(Signer(h)))
    <3>1. Signer(h) \in Zones
      BY Typed, Zenon DEF Signer, Sig, Sigs
    <3>2. Signer(h) \in 0 .. Signer(h)
      BY <3>1, ZoneCloses, ZenonT(30)
    <3> QED
      BY <3>2, Zenon DEF Chained, Unprocessable, Signer
  <2>4. v # [is |-> "bogus", why |-> "chain"]
    BY <1>1, SMT, SMTT(30)
  <2>5. UNCHANGED <<shared, msg, i, pend, validated>>
    BY <1>1, Zenon
  <2> QED
    BY <1>1, <2>2, <2>3, <2>4, <2>5, EndIInv, Zenon
<1>2. ASSUME NEW is \in {"bogus", "insecure"},
             NEW why \in {"no key", "delegation", "signature", "anchor"},
             is = "insecure" => why = "delegation" /\ Unprocessable(Sig(h)),
             End(h, is, why), UNCHANGED <<i, validated>>
      PROVE  IInv'
  <2> DEFINE v == [is |-> is, why |-> why]
  <2>1. v \in Verdicts /\ v.is = is /\ v.why = why
    BY <1>2, Zenon DEF Verdicts
  <2> HIDE DEF v
  <2> QED
    BY <1>1, <1>2, <2>1, Zenon
<1>3. CASE /\ Sig(h).tag \in keys /\ Sig(h).is = "good"
           /\ Sig(h).ksk /\ Anchors # {} => Sig(h).tag \in Anchors
           /\ pc' = [pc EXCEPT ![h] = "sig"]
           /\ i' = [i EXCEPT ![h] = i[h] + 1]
           /\ validated' = [validated EXCEPT ![h] = validated[h] \cup {Sig(h).rrset}]
           /\ UNCHANGED verdict
  <2>1. Genuine(Sig(h))
    BY <1>3, Zenon DEF Genuine, FromChain, FromMessage, Signer
  <2>2. UNCHANGED <<shared, msg, pend, verdict>>
    BY <1>3, Zenon
  <2> QED
    BY <1>3, <2>1, <2>2, GoesOnIInv, Zenon
<1>4. \/ End(h, "bogus", "no key") /\ UNCHANGED <<i, validated>>
      \/ Unprocessable(Sig(h)) /\ End(h, "insecure", "delegation") /\ UNCHANGED <<i, validated>>
      \/ End(h, "bogus", "signature") /\ UNCHANGED <<i, validated>>
      \/ End(h, "bogus", "anchor") /\ UNCHANGED <<i, validated>>
      \/ /\ Sig(h).tag \in keys /\ Sig(h).is = "good"
         /\ Sig(h).ksk /\ Anchors # {} => Sig(h).tag \in Anchors
         /\ pc' = [pc EXCEPT ![h] = "sig"]
         /\ i' = [i EXCEPT ![h] = i[h] + 1]
         /\ validated' = [validated EXCEPT ![h] = validated[h] \cup {Sig(h).rrset}]
         /\ UNCHANGED verdict
  BY Zenon DEF Checked
<1> QED
  BY <1>2, <1>3, <1>4, Zenon

\* The key is in the message.
LEMMA InlineIInv ==
  ASSUME IInv, NEW h \in Handlers, Inline(h)
  PROVE  IInv'
<1>1. /\ pc[h] = "sig" /\ i[h] <= Len(msg[h].sigs) /\ Sig(h).inPeriod /\ Sig(h).inline
      /\ Checked(h, {Sig(h).tag})
      /\ UNCHANGED <<shared, msg, pend>> /\ UNCHANGED <<at, got, level, trusted>>
  BY ZenonT(30) DEF Inline, walk
<1>2. i[h] \in DOMAIN msg[h].sigs
  BY <1>1, InRange, Zenon
<1>3. pend[h] = Nothing /\ level'[h] = -1
  BY <1>1, Zenon DEF IInv, Good, Shape, Types
<1> QED
  BY <1>1, <1>2, <1>3, CheckedIInv, Zenon DEF WalkRests

\* The walk has come down to the signer.
LEMMA VerifySigIInv ==
  ASSUME IInv, NEW h \in Handlers, VerifySig(h)
  PROVE  IInv'
<1>1. /\ pc[h] = "verify" /\ level[h] = Signer(h) /\ Checked(h, trusted[h])
      /\ UNCHANGED <<shared, msg, pend>> /\ WalkEnds(h)
  BY Zenon DEF VerifySig
<1>2. i[h] \in DOMAIN msg[h].sigs /\ Sig(h).inPeriod /\ pend[h] = Nothing
  BY <1>1, Zenon DEF IInv, Good, Shape, Walks, Types
<1>3. level'[h] = -1
  BY <1>1, Zenon DEF WalkEnds, IInv, ValidatorTypeOK
<1>4. trusted[h] \subseteq Gens /\ Chained(Signer(h))
  BY <1>1, Zenon DEF IInv, Good, Sound
<1> QED
  BY <1>1, <1>2, <1>3, <1>4, CheckedIInv, Zenon DEF WalkRests

\* After the loop a data RRset that was not validated has no signature.
LEMMA CoveredIInv ==
  ASSUME IInv, NEW h \in Handlers, Covered(h)
  PROVE  IInv'
<1>1. /\ pc[h] = "sig" /\ i[h] > Len(msg[h].sigs)
      /\ UNCHANGED <<shared, msg, i, pend, validated>> /\ WalkRests(h)
  BY Zenon DEF Covered, walk, WalkRests
<1>2. pend[h] = Nothing
  BY <1>1, Zenon DEF IInv, Good, Shape, Types
<1> DEFINE s == [is |-> "secure", why |-> "validated"]
           u == [is |-> "insecure", why |-> "unsigned"]
<1>3. /\ s \in Verdicts /\ s.is = "secure" /\ s.why = "validated"
      /\ u \in Verdicts /\ u.is = "insecure" /\ u.why = "unsigned"
  BY Zenon DEF Verdicts
<1>4. /\ pc' = [pc EXCEPT ![h] = "done"]
      /\ \/ msg[h].data \subseteq validated[h] /\ verdict' = [verdict EXCEPT ![h] = s]
         \/ ~(msg[h].data \subseteq validated[h]) /\ verdict' = [verdict EXCEPT ![h] = u]
  BY ZenonT(30) DEF Covered, End
<1>5. ASSUME NEW r \in msg[h].data, r \notin validated[h]
      PROVE  \A j \in DOMAIN msg[h].sigs : msg[h].sigs[j].rrset # r
  <2>1. \A j \in DOMAIN msg[h].sigs : j < i[h]
    BY <1>1, Typed, SMT, SMTT(30)
  <2>2. \A j \in DOMAIN msg[h].sigs :
          msg[h].sigs[j].rrset \in validated[h] \cup (Nat \ (msg[h].data \cup msg[h].material))
    BY <1>1, <2>1, Zenon DEF IInv, Good, Loop
  <2> QED
    BY <1>5, <2>2, Zenon
<1> HIDE DEF s, u
<1>a. \A v : v.is # "bogus" => v # [is |-> "bogus", why |-> "chain"]
  BY SMT, SMTT(30)
<1>6. CASE msg[h].data \subseteq validated[h] /\ verdict' = [verdict EXCEPT ![h] = s]
  <2>1. s \in Verdicts /\ s.is # "insecure" /\ s # [is |-> "bogus", why |-> "chain"]
    BY <1>3, <1>a, Zenon
  <2> QED
    BY <1>1, <1>2, <1>4, <1>6, <2>1, EndIInv, Zenon
<1>7. CASE ~(msg[h].data \subseteq validated[h]) /\ verdict' = [verdict EXCEPT ![h] = u]
  <2>1. u \in Verdicts /\ u.is # "secure" /\ u # [is |-> "bogus", why |-> "chain"]
    BY <1>3, <1>a, Zenon
  <2>2. \E r \in msg[h].data \cup msg[h].material :
          \A j \in DOMAIN msg[h].sigs : msg[h].sigs[j].rrset # r
    BY <1>5, <1>7, Zenon
  <2> QED
    BY <1>1, <1>2, <1>3, <1>4, <1>7, <2>1, <2>2, EndIInv, Zenon
<1> QED
  BY <1>4, <1>6, <1>7, Zenon

\* A fetch fails, or the walk is too deep.
LEMMA FetchFailsIInv ==
  ASSUME IInv, NEW h \in Handlers, FetchFails(h)
  PROVE  IInv'
<1> DEFINE v == [is |-> "bogus", why |-> "fetch"]
<1>1. v \in Verdicts /\ v.is = "bogus" /\ v.why = "fetch"
  BY Zenon DEF Verdicts
<1>2. /\ pc' = [pc EXCEPT ![h] = "done"] /\ verdict' = [verdict EXCEPT ![h] = v]
      /\ UNCHANGED <<shared, msg, i, pend, validated>> /\ WalkRests(h)
      /\ pend[h] = Nothing
  BY Zenon DEF FetchFails, Fetching, End, walk, WalkRests
<1> HIDE DEF v
<1>3. v # [is |-> "bogus", why |-> "chain"]
  BY <1>1, SMT, SMTT(30)
<1> QED
  BY <1>1, <1>2, <1>3, EndIInv, Zenon

\* A step between the signature and the verdict that leaves the loop and what
\* is verified alone.
LEMMA FetchesIInv ==
  ASSUME IInv, NEW h \in Handlers, NEW p \in Types \cup {"verify"}, NEW z \in Zones,
         NEW s \in [Zones \X Types -> Recs], NEW r \in Recs,
         UNCHANGED <<world, gen, mangles, msg, i, level, trusted, validated, verdict>>,
         pc[h] \in {"sig"} \cup Types, i[h] \in DOMAIN msg[h].sigs,
         ~Sig(h).inline, Sig(h).inPeriod,
         pc' = [pc EXCEPT ![h] = p], at' = [at EXCEPT ![h] = z],
         got' = [got EXCEPT ![h] = s], pend' = [pend EXCEPT ![h] = r],
         p = "DS" => z # 0, r # Nothing => p \in Types /\ TrueSet(z, p, r),
         \A y \in Zones, type \in Types : TrueSet(y, type, s[<<y, type>>]),
         keyCache' \in [Zones \X Types -> Recs],
         \A x \in Zones \X Types : keyCache'[x] = Nothing \/ keyCache'[x].rrs # {},
         CacheTrue'
  PROVE  IInv'
<1>1. ValidatorTypeOK'
  BY Zenon DEF IInv, ValidatorTypeOK
<1>2. pc'[h] = p /\ at'[h] = z /\ got'[h] = s /\ pend'[h] = r
  BY Zenon DEF IInv, ValidatorTypeOK
<1>3. OthersStay(h)
  BY Zenon DEF OthersStay, IInv, ValidatorTypeOK
<1>4. level[h] = -1 /\ verdict[h].is = "none" /\ i[h] >= 1
  BY Zenon DEF IInv, Good, Shape, Types
<1>5. Shape(h)'
  BY <1>2, <1>4, WorldFixed, Zenon DEF Shape, Sig, Types
<1>6. Sound(h)'
  <2>a. trusted[h] \subseteq Gens /\ Chained(level[h])
    BY Zenon DEF IInv, Good, Sound
  <2>b. level' = level /\ trusted' = trusted
    BY Zenon
  <2>1. /\ level'[h] = level[h] /\ ~(level'[h] >= 0) /\ trusted'[h] = trusted[h]
        /\ trusted[h] \subseteq Gens /\ Chained(level[h])
    BY <1>4, <2>a, <2>b, SMT, SMTT(30)
  <2>2. \A y \in Zones, type \in Types : TrueSet(y, type, s[<<y, type>>])'
    BY WorldFixed, Zenon
  <2>3. Chained(level[h])'
    BY <2>1, ZenonT(30) DEF Chained, Secure, Odd
  <2> QED
    BY <1>2, <2>1, <2>2, <2>3, Zenon DEF Sound
<1>7. Loop(h)'
  <2>1. Loop(h) /\ pc[h] \notin {"idle", "done"}
    BY Zenon DEF IInv, Good, Types
  <2>2. \A sig : Genuine(sig)' <=> Genuine(sig)
    BY WorldFixed, Zenon
  <2>3. msg' = msg /\ i' = i /\ validated' = validated
    BY ZenonT(40)
  <2> QED
    BY <2>1, <2>2, <2>3, ZenonT(30) DEF Loop
<1>8. Result(h)'
  BY <1>4, SMT, SMTT(30) DEF Result
<1> QED
  BY <1>1, <1>3, <1>5, <1>6, <1>7, <1>8, OneSteps, Zenon DEF Good

\* What a walk that fetches has at hand.
LEMMA FetchingShape ==
  ASSUME IInv, NEW h \in Handlers, pc[h] \in Types
  PROVE  /\ i[h] \in DOMAIN msg[h].sigs /\ ~Sig(h).inline /\ Sig(h).inPeriod
         /\ pc[h] = "DS" => at[h] # 0
         /\ at[h] \in Zones /\ <<at[h], pc[h]>> \in Zones \X Types
         /\ got[h] \in [Zones \X Types -> Recs] /\ pend[h] \in Recs
         /\ \A y \in Zones, type \in Types : TrueSet(y, type, got[h][<<y, type>>])
<1>1. at[h] \in Zones /\ got[h] \in [Zones \X Types -> Recs] /\ pend[h] \in Recs
  BY Zenon DEF IInv, ValidatorTypeOK
<1> QED
  BY <1>1, Zenon DEF IInv, Good, Shape, Sound, Walks

\* The walk begins at the signer.
LEMMA WalkBeginsIInv ==
  ASSUME IInv, NEW h \in Handlers, WalkBegins(h)
  PROVE  IInv'
<1>1. /\ pc[h] = "sig" /\ i[h] <= Len(msg[h].sigs) /\ Sig(h).inPeriod /\ ~Sig(h).inline
      /\ pc' = [pc EXCEPT ![h] = "DNSKEY"] /\ at' = [at EXCEPT ![h] = Signer(h)]
      /\ UNCHANGED <<world, gen, mangles, msg, i, level, trusted, validated, verdict>>
      /\ keyCache' = keyCache /\ got' = got /\ pend' = pend
  BY Zenon DEF WalkBegins, shared
<1>2. i[h] \in DOMAIN msg[h].sigs
  BY <1>1, InRange, Zenon
<1>3. Signer(h) \in Zones
  BY <1>2, Typed, Zenon DEF Signer, Sig, Sigs
<1>4. pend[h] = Nothing /\ Nothing \in Recs
  BY <1>1, NothingIsTrue, Zenon DEF IInv, Good, Shape, Types
<1>5. /\ got' = [got EXCEPT ![h] = got[h]] /\ pend' = [pend EXCEPT ![h] = Nothing]
      /\ got[h] \in [Zones \X Types -> Recs]
      /\ \A y \in Zones, type \in Types : TrueSet(y, type, got[h][<<y, type>>])
  BY <1>1, <1>4, Zenon DEF IInv, ValidatorTypeOK, Good, Sound
<1>6. /\ keyCache' \in [Zones \X Types -> Recs]
      /\ \A x \in Zones \X Types : keyCache'[x] = Nothing \/ keyCache'[x].rrs # {}
      /\ CacheTrue'
  BY <1>1, CacheTrueStays, Zenon DEF IInv, ValidatorTypeOK
<1>7. /\ "DNSKEY" \in Types \cup {"verify"} /\ "DNSKEY" # "DS"
      /\ pc[h] \in {"sig"} \cup Types
  BY <1>1, Zenon DEF Types
<1> QED
  BY <1>1, <1>2, <1>3, <1>4, <1>5, <1>6, <1>7, FetchesIInv, ZenonT(30)

\* The upstream answers.
LEMMA FetchIInv ==
  ASSUME IInv, NEW h \in Handlers, Fetch(h)
  PROVE  IInv'
<1>1. PICK r \in Answers(at[h], pc[h]) : pend' = [pend EXCEPT ![h] = r]
  BY Zenon DEF Fetch
<1>2. /\ pc[h] \in Types /\ pc' = pc /\ at' = at /\ got' = got /\ keyCache' = keyCache
      /\ UNCHANGED <<world, gen, mangles, msg, i, level, trusted, validated, verdict>>
  BY Zenon DEF Fetch, Fetching, shared
<1>3. /\ i[h] \in DOMAIN msg[h].sigs /\ ~Sig(h).inline /\ Sig(h).inPeriod
      /\ pc[h] = "DS" => at[h] # 0
      /\ at[h] \in Zones
      /\ got[h] \in [Zones \X Types -> Recs]
      /\ \A y \in Zones, type \in Types : TrueSet(y, type, got[h][<<y, type>>])
  BY <1>2, FetchingShape, Zenon
<1>4. r \in Recs /\ TrueSet(at[h], pc[h], r)
  <2>1. gen \in [Zones -> Gens]
    BY Zenon DEF IInv, ValidatorTypeOK
  <2> QED
    BY <1>2, <1>3, <2>1, AnswersAreTrue, Zenon
<1>5. /\ pc' = [pc EXCEPT ![h] = pc[h]] /\ at' = [at EXCEPT ![h] = at[h]]
      /\ got' = [got EXCEPT ![h] = got[h]]
  BY <1>2, Zenon DEF IInv, ValidatorTypeOK
<1>6. /\ keyCache' \in [Zones \X Types -> Recs]
      /\ \A x \in Zones \X Types : keyCache'[x] = Nothing \/ keyCache'[x].rrs # {}
      /\ CacheTrue'
  BY <1>2, CacheTrueStays, Zenon DEF IInv, ValidatorTypeOK
<1> QED
  BY <1>1, <1>2, <1>3, <1>4, <1>5, <1>6, FetchesIInv, Zenon

\* A set is taken, from the cache or fresh.
LEMMA TakeIInv ==
  ASSUME IInv, NEW h \in Handlers, NEW r \in Recs, TrueSet(at[h], pc[h], r), Take(h, r),
         pc[h] \in Types, pend' = [pend EXCEPT ![h] = Nothing],
         UNCHANGED <<world, gen, mangles, msg, i, level, trusted, validated, verdict>>,
         keyCache' \in [Zones \X Types -> Recs],
         \A x \in Zones \X Types : keyCache'[x] = Nothing \/ keyCache'[x].rrs # {},
         CacheTrue'
  PROVE  IInv'
<1> DEFINE s == [got[h] EXCEPT ![<<at[h], pc[h]>>] = r]
<1>1. /\ i[h] \in DOMAIN msg[h].sigs /\ ~Sig(h).inline /\ Sig(h).inPeriod
      /\ pc[h] = "DS" => at[h] # 0
      /\ at[h] \in Zones /\ <<at[h], pc[h]>> \in Zones \X Types
      /\ got[h] \in [Zones \X Types -> Recs]
      /\ \A y \in Zones, type \in Types : TrueSet(y, type, got[h][<<y, type>>])
  BY FetchingShape, Zenon
<1>2. /\ s \in [Zones \X Types -> Recs]
      /\ \A y \in Zones, type \in Types : TrueSet(y, type, s[<<y, type>>])
  BY <1>1, Zenon
<1>3. got' = [got EXCEPT ![h] = s]
  BY Zenon DEF Take, IInv, ValidatorTypeOK
<1>4. PICK p \in Types \cup {"verify"}, z \in Zones :
        /\ pc' = [pc EXCEPT ![h] = p] /\ at' = [at EXCEPT ![h] = z]
        /\ p = "DS" => z # 0
  <2>1. at = [at EXCEPT ![h] = at[h]]
    BY Zenon DEF IInv, ValidatorTypeOK
  <2>2. CASE pc[h] = "DNSKEY" /\ at[h] # 0 /\ pc' = [pc EXCEPT ![h] = "DS"] /\ UNCHANGED at
    BY <1>1, <2>1, <2>2, Zenon DEF Types
  <2>3. CASE pc[h] = "DNSKEY" /\ at[h] = 0 /\ pc' = [pc EXCEPT ![h] = "verify"] /\ UNCHANGED at
    BY <1>1, <2>1, <2>3, SMT, SMTT(30) DEF Types
  <2>4. CASE /\ pc[h] = "DS" /\ pc' = [pc EXCEPT ![h] = "DNSKEY"]
             /\ at' = [at EXCEPT ![h] = at[h] - 1]
    <3>1. at[h] - 1 \in Zones
      BY <1>1, <2>4, ParentIsZone, Zenon
    <3>2. "DNSKEY" \in Types \cup {"verify"} /\ "DNSKEY" # "DS"
      BY Zenon DEF Types
    <3> QED
      BY <2>4, <3>1, <3>2, Zenon
  <2> QED
    BY <2>2, <2>3, <2>4, Zenon DEF Take
<1> HIDE DEF s
<1>5. Nothing \in Recs /\ pc[h] \in {"sig"} \cup Types
  BY NothingIsTrue, Zenon
<1> QED
  BY <1>1, <1>2, <1>3, <1>4, <1>5, FetchesIInv, Zenon

\* The cache holds the set, unverified but true where a zone's key signed it.
LEMMA HitIInv ==
  ASSUME IInv, NEW h \in Handlers, Hit(h)
  PROVE  IInv'
<1>1. /\ pc[h] \in Types /\ pend[h] = Nothing /\ Take(h, Entry(h)) /\ keyCache' = keyCache
      /\ UNCHANGED <<world, gen, mangles, msg, i, level, trusted, validated, verdict>>
      /\ pend' = pend
  BY Zenon DEF Hit, Fetching, shared
<1>2. Entry(h) \in Recs /\ TrueSet(at[h], pc[h], Entry(h))
  BY <1>1, FetchingShape, Zenon DEF Entry, IInv, ValidatorTypeOK, CacheTrue
<1>3. pend' = [pend EXCEPT ![h] = Nothing]
  BY <1>1, Zenon DEF IInv, ValidatorTypeOK
<1>4. /\ keyCache' \in [Zones \X Types -> Recs]
      /\ \A x \in Zones \X Types : keyCache'[x] = Nothing \/ keyCache'[x].rrs # {}
      /\ CacheTrue'
  BY <1>1, CacheTrueStays, Zenon DEF IInv, ValidatorTypeOK
<1> QED
  BY <1>1, <1>2, <1>3, <1>4, TakeIInv, Zenon

\* put: what was fetched is cached when it has records, before anything of it
\* is verified.
LEMMA StoreIInv ==
  ASSUME IInv, NEW h \in Handlers, Store(h)
  PROVE  IInv'
<1> DEFINE x0 == <<at[h], pc[h]>>
           c == IF pend[h].rrs # {} THEN [keyCache EXCEPT ![x0] = pend[h]] ELSE keyCache
<1>1. /\ pc[h] \in Types /\ pend[h] # Nothing /\ Take(h, pend[h]) /\ keyCache' = c
      /\ UNCHANGED <<world, gen, mangles, msg, i, level, trusted, validated, verdict>>
      /\ pend' = [pend EXCEPT ![h] = Nothing]
  BY Zenon DEF Store, Cacheable
<1>2. pend[h] \in Recs /\ TrueSet(at[h], pc[h], pend[h]) /\ x0 \in Zones \X Types
  BY <1>1, FetchingShape, Zenon DEF IInv, Good, Shape
<1>3. /\ keyCache \in [Zones \X Types -> Recs]
      /\ \A x \in Zones \X Types : keyCache[x] = Nothing \/ keyCache[x].rrs # {}
  BY Zenon DEF IInv, ValidatorTypeOK
<1>4. /\ c \in [Zones \X Types -> Recs]
      /\ \A x \in Zones \X Types : c[x] = Nothing \/ c[x].rrs # {}
  BY <1>2, <1>3, Zenon
<1>5. \A z \in Zones, type \in Types : TrueSet(z, type, c[<<z, type>>])
  <2>1. \A z \in Zones, type \in Types : TrueSet(z, type, keyCache[<<z, type>>])
    BY Zenon DEF IInv, CacheTrue
  <2>2. CASE pend[h].rrs = {}
    BY <2>1, <2>2, Zenon
  <2>3. CASE pend[h].rrs # {}
    <3>1. c = [keyCache EXCEPT ![x0] = pend[h]]
      BY <2>3, Zenon
    <3>2. ASSUME NEW z \in Zones, NEW type \in Types
          PROVE  TrueSet(z, type, c[<<z, type>>])
      <4>1. CASE z = at[h] /\ type = pc[h]
        BY <1>2, <1>3, <3>1, <4>1, Zenon
      <4>2. CASE <<z, type>> # x0
        BY <1>3, <2>1, <3>1, <4>2, Zenon
      <4> QED
        BY <4>1, <4>2, Zenon
    <3> QED
      BY <3>2, Zenon
  <2> QED
    BY <2>2, <2>3, Zenon
<1> HIDE DEF c, x0
<1>6. CacheTrue'
  BY <1>1, <1>5, WorldFixed, Zenon DEF CacheTrue
<1> QED
  BY <1>1, <1>2, <1>4, <1>6, TakeIInv, Zenon

\* A handler that is idle again has nothing to answer for.
LEMMA ReturnIInv ==
  ASSUME IInv, NEW h \in Handlers, Return(h)
  PROVE  IInv'
<1>1. /\ pc[h] = "done" /\ WalkRests(h) /\ WalkEnds(h)
      /\ world' = world /\ gen' = gen /\ mangles' = mangles /\ keyCache' = keyCache
      /\ pend' = pend
      /\ pc' = [pc EXCEPT ![h] = "idle"] /\ verdict' = [verdict EXCEPT ![h] = NoVerdict]
      /\ msg' = [msg EXCEPT ![h] = NoMessage] /\ i' = [i EXCEPT ![h] = 1]
      /\ validated' = [validated EXCEPT ![h] = {}]
  BY Zenon DEF Return, shared, WalkRests
<1>2. ValidatorTypeOK'
  <2>1. NoVerdict \in Verdicts
    BY Zenon DEF NoVerdict, Verdicts
  <2> QED
    BY <1>1, <2>1, NothingIsTrue, WalkRestsSound, Zenon DEF IInv, ValidatorTypeOK
<1>3. /\ pc'[h] = "idle" /\ verdict'[h] = NoVerdict /\ msg'[h] = NoMessage /\ i'[h] = 1
      /\ validated'[h] = {} /\ level'[h] = -1 /\ pend'[h] = pend[h]
  BY <1>1, Zenon DEF WalkEnds, IInv, ValidatorTypeOK
<1>4. OthersStay(h)
  BY <1>1, WalkRestsSound, ZenonT(30) DEF OthersStay, IInv, ValidatorTypeOK
<1>5. Shape(h)'
  <2>1. pend[h] = Nothing
    BY <1>1, Zenon DEF IInv, Good, Shape, Types
  <2> QED
    BY <1>3, <2>1, SMT, SMTT(30) DEF Shape, Walks, Types, NoVerdict
<1>6. Loop(h)'
  BY <1>3, Zenon DEF Loop
<1>7. Result(h)'
  BY <1>3, SMT, SMTT(30) DEF Result, NoVerdict
<1> QED
  BY <1>1, <1>2, <1>4, <1>5, <1>6, <1>7, WalkRestsSound, OneSteps, CacheTrueStays, Zenon
     DEF IInv, Good

\* One more zone is verified, from the root down, or the walk ends there.
LEMMA VerifyLinkIInv ==
  ASSUME IInv, NEW h \in Handlers, VerifyLink(h)
  PROVE  IInv'
<1> DEFINE z == level[h] + 1
           k == got[h][<<z, "DNSKEY">>]
           d == got[h][<<z, "DS">>]
<1>1. /\ pc[h] = "verify" /\ level[h] < Signer(h)
      /\ world' = world /\ gen' = gen /\ mangles' = mangles /\ keyCache' = keyCache
      /\ msg' = msg /\ i' = i /\ at' = at /\ got' = got /\ pend' = pend
      /\ validated' = validated
      /\ UNCHANGED <<shared, msg, i, pend, validated>>
  BY Zenon DEF VerifyLink, shared
<1>2. /\ i[h] \in DOMAIN msg[h].sigs /\ ~Sig(h).inline /\ Sig(h).inPeriod /\ i[h] >= 1
      /\ pend[h] = Nothing /\ verdict[h].is = "none"
  BY <1>1, Zenon DEF IInv, Good, Shape, Walks, Types
<1>3. Signer(h) \in Zones /\ z \in Zones /\ z \in 0 .. Signer(h) /\ level[h] \in -1 .. Depth
  <2>1. Signer(h) \in Zones
    BY <1>2, Typed, Zenon DEF Signer, Sig, Sigs
  <2> QED
    BY <1>1, <2>1, Typed, SMT, SMTT(30) DEF Zones
<1>4. k \in Recs /\ d \in Recs /\ TrueSet(z, "DNSKEY", k) /\ TrueSet(z, "DS", d)
  <2>1. got[h] \in [Zones \X Types -> Recs]
    BY Zenon DEF IInv, ValidatorTypeOK
  <2>2. "DNSKEY" \in Types /\ "DS" \in Types
    BY Zenon DEF Types
  <2> QED
    BY <1>3, <2>1, <2>2, Zenon DEF IInv, Good, Sound
<1>5. /\ world \in Worlds /\ trusted[h] \in SUBSET Gens /\ Chained(level[h])
      /\ level[h] >= 0 => trusted[h] = got[h][<<level[h], "DNSKEY">>].rrs
  BY Zenon DEF IInv, ValidatorTypeOK, Good, Sound
<1>6. z # 0 => ~Odd(z - 1) /\ trusted[h] = got[h][<<z - 1, "DNSKEY">>].rrs
  <2>1. z # 0 => level[h] >= 0 /\ z - 1 = level[h] /\ level[h] \in 0 .. level[h]
    BY <1>3, SMT, SMTT(30)
  <2>2. level[h] \in 0 .. level[h] => ~Odd(level[h])
    BY <1>5, Zenon DEF Chained
  <2> QED
    BY <1>5, <2>1, <2>2, Zenon
<1>7. NextLink(h) = Link(z, k, d, trusted[h])
  BY Zenon DEF NextLink
<1> HIDE DEF k, d
<1>8. CASE /\ NextLink(h) = "secure" /\ level' = [level EXCEPT ![h] = z]
           /\ trusted' = [trusted EXCEPT ![h] = k.rrs] /\ UNCHANGED <<pc, verdict>>
  <2>1. Secure(z) /\ ~Odd(z) /\ k.rrs \subseteq Gens
    BY <1>3, <1>4, <1>5, <1>7, <1>8, LinkSound, Zenon
  <2>2. Chained(z)
    <3>1. \A y \in 0 .. z : y = z \/ y \in 0 .. level[h]
      BY <1>3, SMT, SMTT(30)
    <3> QED
      BY <1>5, <2>1, <3>1, Zenon DEF Chained
  <2>3. ValidatorTypeOK'
    <3>1. z \in -1 .. Depth /\ k.rrs \in SUBSET Tags
      BY <1>3, <2>1, SMT, SMTT(30) DEF Zones, Tags
    <3> HIDE DEF z
    <3> QED
      BY <1>1, <1>8, <3>1, Zenon DEF IInv, ValidatorTypeOK
  <2>4. level'[h] = z /\ trusted'[h] = k.rrs /\ pc'[h] = "verify" /\ verdict'[h] = verdict[h]
    BY <1>1, <1>8, Zenon DEF IInv, ValidatorTypeOK
  <2>5. OthersStay(h)
    BY <1>1, <1>8, Zenon DEF OthersStay, IInv, ValidatorTypeOK
  <2>6. Shape(h)'
    BY <1>1, <1>2, <2>4, Zenon DEF Shape, Sig, Types
  <2>7. Sound(h)'
    <3>1. got'[h][<<z, "DNSKEY">>].rrs = k.rrs
      BY <1>1, Zenon DEF k
    <3>2. \A y \in Zones, type \in Types : TrueSet(y, type, got[h][<<y, type>>])
      BY ZenonT(30) DEF IInv, Good, Sound
    <3> HIDE DEF z
    <3> QED
      BY <1>1, <2>1, <2>2, <2>4, <3>1, <3>2, WorldFixed, Zenon DEF Sound
  <2>8. Loop(h)'
    BY <1>1, <2>4, LoopKept, Zenon DEF IInv, Good
  <2>9. Result(h)'
    BY <1>2, <2>4, SMT, SMTT(30) DEF Result
  <2> QED
    BY <1>1, <2>3, <2>5, <2>6, <2>7, <2>8, <2>9, OneSteps, CacheTrueStays, Zenon
     DEF IInv, Good
<1>9. CASE /\ NextLink(h) = "insecure" /\ End(h, "insecure", "delegation")
           /\ UNCHANGED <<level, trusted>>
  <2> DEFINE v == [is |-> "insecure", why |-> "delegation"]
  <2>1. v \in Verdicts /\ v.is = "insecure" /\ v.why = "delegation"
    BY Zenon DEF Verdicts
  <2>2. pc' = [pc EXCEPT ![h] = "done"] /\ verdict' = [verdict EXCEPT ![h] = v]
    BY <1>9, Zenon DEF End
  <2> HIDE DEF v
  <2>3. v # [is |-> "bogus", why |-> "chain"]
    BY <2>1, SMT, SMTT(30)
  <2>4. ~Secure(z) \/ Odd(z) \/ HasMisfit(k) \/ HasMisfit(d)
    BY <1>3, <1>4, <1>5, <1>6, <1>7, <1>9, LinkInsecure, Zenon
  <2>5. \/ ~Sig(h).inline /\ ~Chained(Signer(h))
        \/ UNCHANGED <<got, level>> /\ MetMisfit(h)
    BY <1>1, <1>2, <1>3, <1>9, <2>4, Zenon DEF Chained, MetMisfit, Types, k, d
  <2>6. WalkRests(h)
    BY <1>1, <1>9, Zenon DEF WalkRests
  <2> QED
    BY <1>1, <1>2, <2>1, <2>2, <2>3, <2>5, <2>6, EndIInv, Zenon
<1>10. CASE /\ NextLink(h) = "bogus" /\ End(h, "bogus", "chain")
            /\ UNCHANGED <<level, trusted>>
  <2> DEFINE v == [is |-> "bogus", why |-> "chain"]
  <2>1. v \in Verdicts /\ v.is = "bogus" /\ v.why = "chain"
    BY Zenon DEF Verdicts
  <2>2. pc' = [pc EXCEPT ![h] = "done"] /\ verdict' = [verdict EXCEPT ![h] = v]
    BY <1>10, Zenon DEF End
  <2>3. ~Fits(h, z)
    <3> SUFFICES ASSUME Fits(h, z) PROVE FALSE
      BY Zenon
    <3>1. /\ k \in {RRset({g}, By(g)) : g \in Gens}
          /\ IF z = 0 THEN k.rrs \subseteq Anchors
             ELSE IF Secure(z)
                  THEN \E g \in got[h][<<z - 1, "DNSKEY">>].rrs : d = RRset(k.rrs, By(g))
                  ELSE \E g \in got[h][<<z - 1, "DNSKEY">>].rrs : d \in Denials(g)
      BY Zenon DEF Fits, k, d
    <3>2. PICK g \in Gens : k = RRset({g}, By(g))
      BY <3>1, Zenon
    <3>3. IF z = 0 THEN k.rrs \subseteq Anchors
          ELSE IF Secure(z) THEN \E p \in trusted[h] : d = RRset(k.rrs, By(p))
               ELSE \E p \in trusted[h] : d \in Denials(p)
      BY <1>6, <3>1, Zenon
    <3> HIDE DEF z
    <3> QED
      BY <1>3, <1>4, <1>5, <1>6, <1>7, <1>10, <3>2, <3>3, LinkFits, ZenonT(40)
  <2>4. WalkRests(h)
    BY <1>1, <1>10, Zenon DEF WalkRests
  <2>5. \E y \in 0 .. Signer(h) : ~Fits(h, y)
    BY <1>3, <2>3, Zenon
  <2> HIDE DEF v
  <2> QED
    BY <1>1, <1>2, <2>1, <2>2, <2>4, <2>5, EndIInv, Zenon
<1>11. k.rrs = got[h][<<level[h] + 1, "DNSKEY">>].rrs
  BY Zenon DEF k
<1> QED
  BY <1>8, <1>9, <1>10, <1>11, Zenon DEF VerifyLink

\* A step outside the handlers: an entry's TTL ends, a zone rolls its key, the
\* upstream is well again.
LEMMA OutsideIInv ==
  ASSUME IInv, \/ \E z \in Zones, type \in Types : Expires(z, type)
               \/ \E z \in Zones : Roll(z)
               \/ Heals
  PROVE  IInv'
<1>1. /\ world' = world /\ pc' = pc /\ msg' = msg /\ i' = i /\ at' = at /\ got' = got
      /\ pend' = pend /\ level' = level /\ trusted' = trusted
      /\ validated' = validated /\ verdict' = verdict
  BY Zenon DEF Expires, Roll, Heals, walk
<1>2. \A g \in Handlers : Good(g)'
  BY <1>1, GoodStays, Zenon DEF IInv
<1>3. gen' \in [Zones -> Gens] /\ mangles' \in BOOLEAN
  BY Zenon DEF Expires, Roll, Heals, IInv, ValidatorTypeOK, Gens
<1>4. \/ keyCache' = keyCache
      \/ \E x \in Zones \X Types : keyCache' = [keyCache EXCEPT ![x] = Nothing]
  BY Zenon DEF Expires, Roll, Heals
<1>5. /\ keyCache' \in [Zones \X Types -> Recs]
      /\ \A x \in Zones \X Types : keyCache'[x] = keyCache[x] \/ keyCache'[x] = Nothing
  <2>1. CASE keyCache' = keyCache
    BY <2>1, Zenon DEF IInv, ValidatorTypeOK
  <2>2. CASE \E x \in Zones \X Types : keyCache' = [keyCache EXCEPT ![x] = Nothing]
    <3>1. PICK x \in Zones \X Types : keyCache' = [keyCache EXCEPT ![x] = Nothing]
      BY <2>2, Zenon
    <3> QED
      BY <3>1, NothingIsTrue, Zenon DEF IInv, ValidatorTypeOK
  <2> QED
    BY <1>4, <2>1, <2>2, Zenon
<1>6. ValidatorTypeOK'
  <2>1. \A x \in Zones \X Types : keyCache'[x] = Nothing \/ keyCache'[x].rrs # {}
    BY <1>5, Zenon DEF IInv, ValidatorTypeOK
  <2> QED
    BY <1>1, <1>3, <1>5, <2>1, Zenon DEF IInv, ValidatorTypeOK
<1>7. CacheTrue'
  BY <1>1, <1>5, NothingIsTrue, WorldFixed, Zenon DEF IInv, CacheTrue
<1> QED
  BY <1>2, <1>6, <1>7, Zenon DEF IInv

\* Nothing changes.
LEMMA StutterIInv ==
  ASSUME IInv, UNCHANGED vars
  PROVE  IInv'
<1>1. /\ world' = world /\ gen' = gen /\ mangles' = mangles /\ keyCache' = keyCache
      /\ pc' = pc /\ msg' = msg /\ i' = i /\ at' = at /\ got' = got
      /\ pend' = pend /\ level' = level /\ trusted' = trusted
      /\ validated' = validated /\ verdict' = verdict
  BY Zenon DEF vars
<1>2. \A g \in Handlers : Good(g)'
  BY <1>1, GoodStays, Zenon DEF IInv
<1>3. ValidatorTypeOK'
  BY <1>1, Zenon DEF IInv, ValidatorTypeOK
<1> QED
  BY <1>1, <1>2, <1>3, CacheTrueStays, Zenon DEF IInv

\* Every step keeps the invariant.
LEMMA NextIInv == IInv /\ [Next]_vars => IInv'
<1> SUFFICES ASSUME IInv, [Next]_vars PROVE IInv'
  BY Zenon
<1>1. ASSUME NEW h \in Handlers, Begin(h) \/ Step(h) PROVE IInv'
  BY <1>1, BeginIInv, PeriodIInv, SkipIInv, InlineIInv, WalkBeginsIInv, CoveredIInv, HitIInv,
     FetchIInv, FetchFailsIInv, StoreIInv, VerifyLinkIInv, VerifySigIInv, ReturnIInv, Zenon
     DEF Step, Walk
<1>2. CASE UNCHANGED vars
  BY <1>2, StutterIInv, Zenon
<1> QED
  BY <1>1, <1>2, OutsideIInv, Zenon DEF Next

\* The invariant holds of every run, whatever is fetched and whenever entries
\* expire, zones roll their keys and handlers interleave.
THEOREM Invariance == Spec => []IInv
BY InitIInv, NextIInv, PTL DEF Spec

(***************************************************************************)
(* What it gives                                                           *)
(***************************************************************************)
\* The types, and that put keeps no set without records.
THEOREM ValidatorTyped == Spec => []ValidatorTypeOK
<1>1. IInv => ValidatorTypeOK
  BY ZenonT(30) DEF IInv
<1> QED
  BY <1>1, Invariance, PTL

\* An answer ValidateResponse accepts is authentic: what SecureIsAuthentic
\* says, for any depth, any number of handlers and any upstream.
THEOREM SecureAuthentic == Spec => []SecureIsAuthentic
<1>1. IInv => SecureIsAuthentic
  <2> SUFFICES ASSUME IInv, NEW h \in Handlers, verdict[h].is = "secure", NEW r \in msg[h].data
               PROVE  \E j \in DOMAIN msg[h].sigs :
                        msg[h].sigs[j].rrset = r /\ Genuine(msg[h].sigs[j])
    BY Zenon DEF SecureIsAuthentic
  <2>1. r \in validated[h]
    BY Zenon DEF IInv, Good, Result
  <2> QED
    BY <2>1, Zenon DEF IInv, Good, Loop
<1> QED
  BY <1>1, Invariance, PTL

\* An answer ValidateResponse calls insecure is so for cause.
THEOREM InsecureProven == Spec => []InsecureIsProven
<1>1. IInv => InsecureIsProven
  BY Zenon DEF IInv, Good, Result, Cause, InsecureIsProven
<1> QED
  BY <1>1, Invariance, PTL

\* A walk whose sets fit together is not refused by authenticatedDNSKEYs.
THEOREM ConsistentAccepted == Spec => []ConsistentIsAccepted
<1>1. IInv => ConsistentIsAccepted
  BY Zenon DEF IInv, Good, Result, ConsistentIsAccepted
<1> QED
  BY <1>1, Invariance, PTL
=============================================================================
