----------------------------- MODULE Validator -----------------------------
(***************************************************************************)
(* internal/dnssec: ValidateResponse as several handlers run it at once,   *)
(* the walk of the chain of trust (authenticatedDNSKEYs) and the cache of  *)
(* DNSKEY and DS sets the walks share.  A set is cached as it is fetched,  *)
(* before anything is verified; each walk verifies what it takes, from     *)
(* the root down, whether it came from the cache or from the upstream.     *)
(*                                                                         *)
(* Zones are the names from the root, 0, to the deepest, Depth; the        *)
(* parent of z is z - 1.  A key is known by its tag: "old" and "new" are   *)
(* the keys a zone has had, "alien" is a key that never was the zone's.    *)
(* Signatures are not forged: what a zone's own key made good is true.     *)
(* RRSIGs that only carry the tag of such a key say nothing.               *)
(***************************************************************************)
EXTENDS Integers, Sequences

CONSTANTS Handlers,       \* the calls of ValidateResponse under way
          Depth,          \* the number of labels of the deepest zone
          maxChainDepth,  \* the deepest walk
          Worlds,         \* the zones, the anchors and the answers to validate
          Offered         \* what a fetch may return besides the current set

Zones == 0 .. Depth
Types == {"DNSKEY", "DS"}
Gens == {"old", "new"}
Tags == Gens \cup {"alien"}

(***************************************************************************)
(* Record sets                                                             *)
(***************************************************************************)
\* An RRSIG over a set: the tag it names, and what the library makes of it with
\* the key of that tag: good, bad (ErrSig), or misfit (ErrKey, ErrAlg: its
\* signer name, its class or its algorithm does not go with the key, or the key
\* does not load).  One out of its period is late.
RRSIGs == [tag : Tags, is : {"good", "bad", "misfit", "late"}]
By(tag) == <<[tag |-> tag, is |-> "good"]>>

\* What a fetch returns: the tags of the keys (DNSKEY) or of the keys vouched
\* for (DS), the RRSIGs over the set in their order, and what denies a DS.
RRset(rrs, sigs) == [rrs |-> rrs, sigs |-> sigs, denial |-> <<>>, success |-> TRUE]
Denial(d, success) == [rrs |-> {}, sigs |-> <<>>, denial |-> d, success |-> success]
Nothing == Denial(<<>>, FALSE)

\* An NSEC or NSEC3 record: its owner is the child, a name above it or some
\* other name; an opt-out record that covers the child; its type bitmap.
NSEC(at, bits, sigs) ==
  [type |-> "NSEC", at |-> at, optOut |-> FALSE, bits |-> bits, sigs |-> sigs]
NSEC3(at, optOut, bits, sigs) ==
  [type |-> "NSEC3", at |-> at, optOut |-> optOut, bits |-> bits, sigs |-> sigs]

DenialRecs ==
  [type : {"NSEC", "NSEC3"}, at : {"child", "above", "other"}, optOut : BOOLEAN,
   bits : SUBSET {"NS", "DS", "SOA"}, sigs : Seq(RRSIGs)]
Recs == [rrs : SUBSET Tags, sigs : Seq(RRSIGs), denial : Seq(DenialRecs), success : BOOLEAN]

\* An answer: its RRSIGs in order, the RRsets with data and those with DNSKEY
\* or DS records.  An RRSIG covers an RRset; inline says that the key with its
\* tag is in the message, ksk that this key is the root's KSK.
Sigs == [rrset : Nat, inPeriod : BOOLEAN, signer : Zones, tag : Tags,
         is : {"good", "bad", "misfit"}, inline : BOOLEAN, ksk : BOOLEAN]
Msgs == [sigs : Seq(Sigs), data : SUBSET Nat, material : SUBSET Nat]

\* The anchors that are configured are keys the root has or has had.
ASSUME ConstantsAssumption ==
  /\ Depth \in Nat /\ maxChainDepth \in Nat
  /\ \A w \in Worlds : /\ w.answers \in [Handlers -> SUBSET Msgs]
                       /\ \A e \in w.anchorFile.entries : e.tag \in Gens
  /\ Offered \in [Zones \X Types -> SUBSET Recs]

VARIABLES world,     \* kind and odd: the delegations and the keys as they are;
                     \* rolls: the zones that change their key, once;
                     \* anchorFile and validateAll: how the validator is set up;
                     \* answers: the messages each handler may get
          gen,       \* the key each zone has now
          mangles,   \* whether fetches may still go wrong
          keyCache,  \* the sets held, Nothing where there is none
          pc, msg, i,          \* where a handler is, its answer, its RRSIG
          at, got, pend,       \* the walk: the zone, the sets, one to store
          level, trusted,      \* the zone verified last and its key set
          validated, verdict
shared == <<world, gen, mangles, keyCache>>
walk == <<at, got, pend, level, trusted>>
vars == <<world, gen, mangles, keyCache, pc, msg, i, at, got, pend, level, trusted,
          validated, verdict>>

(***************************************************************************)
(* What the upstream may answer                                            *)
(***************************************************************************)
Secure(z) == z = 0 \/ world.kind[z] = "secure"
Bare(z) == z # 0 /\ world.kind[z] = "bare"
Odd(z) == z \in world.odd

\* Signed by a key the zone has had, hence true: of a delegation with a DS no
\* record says that it has none, and no opt-out record covers it.
Signed(sigs) == \E j \in DOMAIN sigs : sigs[j].is = "good" /\ sigs[j].tag \in Gens
TrueDenial(z, r) ==
  Signed(r.sigs) =>
    /\ r.at = "child" /\ Secure(z) => "DS" \in r.bits
    /\ r.optOut => ~Secure(z)
TrueSet(z, type, r) ==
  /\ Signed(r.sigs) => r.rrs \subseteq Gens /\ (type = "DS" => Secure(z))
  /\ \A j \in DOMAIN r.denial : TrueDenial(z, r.denial[j])

\* The ways a parent, whose key is g, shows that a delegation has no DS.
Denials(g) ==
  {Denial(d, TRUE) : d \in {<<NSEC("child", {"NS"}, By(g))>>,
                            <<NSEC3("child", FALSE, {"NS"}, By(g))>>,
                            <<NSEC3("other", TRUE, {}, By(g)),
                              NSEC3("above", FALSE, {"SOA"}, By(g))>>}}

Current(z, type) ==
  IF type = "DNSKEY" THEN {RRset({gen[z]}, By(gen[z]))}
  ELSE IF Secure(z) THEN {RRset({gen[z]}, By(gen[z - 1]))} ELSE Denials(gen[z - 1])

Answers(z, type) ==
  Current(z, type) \cup
    (IF mangles THEN {r \in Offered[<<z, type>>] : TrueSet(z, type, r)} ELSE {})

(***************************************************************************)
(* The root trust anchors, read once at start                              *)
(***************************************************************************)
\* root-anchors.xml: a date that does not parse, or the digest of an anchor in
\* its period that does not decode, fails the file.
ParseRootAnchors(entries) ==
  LET valid == {e \in entries : e.when = "now"}
  IN IF (\A e \in entries : e.dated) /\ (\A e \in valid : e.decodes)
     THEN {e.tag : e \in valid} ELSE {}

\* root.key: every DNSKEY record, whatever else the file holds.
parseRootKey(entries) ==
  IF \A e \in entries : e.decodes THEN {e.tag : e \in {x \in entries : x.isKey}} ELSE {}

\* main warns of a file it cannot use and leaves the anchors empty.
Anchors ==
  LET f == world.anchorFile
  IN CASE f.format = "xml" -> ParseRootAnchors(f.entries)
       [] f.format = "key" -> parseRootKey(f.entries)
       [] OTHER -> {}

(***************************************************************************)
(* Signatures                                                              *)
(***************************************************************************)
\* One RRSIG against the key of zone z with its tag: unprocessable keys and
\* algorithms are told from signatures that do not verify.
Outcome(z, is) ==
  IF Odd(z) \/ is = "misfit" THEN "odd" ELSE IF is = "good" THEN "ok" ELSE "bad"

\* Those in their period whose tag one of the keys has.
Tried(sigs, keys) == {j \in DOMAIN sigs : sigs[j].is # "late" /\ sigs[j].tag \in keys}

\* Faulty form: a key the library cannot load is a bad signature.
VerifyConflated(z, sigs, keys) ==
  IF \E j \in Tried(sigs, keys) : Outcome(z, sigs[j].is) = "ok" THEN "ok" ELSE "bad"

\* verifyRRsetWithKeySet: the first RRSIG that verifies is enough; when none
\* does, the one that was tried last says why.
Verify(z, sigs, keys) ==
  LET tried == Tried(sigs, keys)
      out(j) == Outcome(z, sigs[j].is)
  IN IF \E j \in tried : out(j) = "ok" THEN "ok"
     ELSE IF \E j \in tried : out(j) = "odd" /\ \A k \in tried : k <= j
          THEN "odd" ELSE "bad"

\* The bitmap of a delegation without a DS that is no zone's apex.
Delegates(bits) == "NS" \in bits /\ bits \cap {"DS", "SOA"} = {}

\* nsec3ProvesNoDS and nsecProvesNoDS over the records that are used: the
\* first one that matches the child decides.
MatchProves(denial, used) ==
  \E j \in used :
    /\ denial[j].at = "child" /\ Delegates(denial[j].bits)
    /\ \A k \in used : denial[k].at = "child" => j <= k
OptOutProves(denial, used) ==
  /\ \A j \in used : denial[j].at # "child"
  /\ \E j \in used : denial[j].optOut
  /\ \E j \in used : denial[j].at = "above"

\* With an NSEC3 present the NSECs are not looked at.
Preferred(denial) ==
  LET n3 == {j \in DOMAIN denial : denial[j].type = "NSEC3"}
  IN IF n3 # {} THEN n3 ELSE DOMAIN denial

\* Faulty form: takes the records as they come.
ProvesNoDSUnverified(z, denial, keys) ==
  LET used == Preferred(denial)
  IN MatchProves(denial, used) \/ OptOutProves(denial, used)

\* provesNoDS: z's delegation has no DS, by what the keys of its parent sign.
provesNoDS(z, denial, keys) ==
  LET used == {j \in Preferred(denial) : Verify(z - 1, denial[j].sigs, keys) = "ok"}
  IN MatchProves(denial, used) \/ OptOutProves(denial, used)

(***************************************************************************)
(* One link of the chain, once the parent's keys are trusted.              *)
(***************************************************************************)
\* The DNSKEY set against the keys that are vouched for.
Anchored(z, keyset, vouched) ==
  LET seps == keyset.rrs \cap vouched
      verified == Verify(z, keyset.sigs, seps)
  IN IF seps = {} \/ verified = "bad" THEN "bogus"
     ELSE IF verified = "odd" THEN "insecure" ELSE "secure"

\* Faulty form: matches the keys with a DS nobody verified.
LinkUnverified(z, keyset, ds, keys) ==
  IF z = 0 THEN Anchored(0, keyset, Anchors)
  ELSE IF ds.rrs = {}
       THEN IF ds.success /\ provesNoDS(z, ds.denial, keys) THEN "insecure" ELSE "bogus"
       ELSE Anchored(z, keyset, ds.rrs)

Link(z, keyset, ds, keys) ==
  IF z = 0 THEN Anchored(0, keyset, Anchors)
  ELSE IF ds.rrs = {}
       THEN IF ds.success /\ provesNoDS(z, ds.denial, keys) THEN "insecure" ELSE "bogus"
       ELSE LET verified == Verify(z - 1, ds.sigs, keys)
            IN IF verified = "bad" THEN "bogus"
               ELSE IF verified = "odd" THEN "insecure" ELSE Anchored(z, keyset, ds.rrs)

(***************************************************************************)
(* The cache of key sets                                                   *)
(***************************************************************************)
\* A DNSKEY fetch that returns has records; a DS message is put when it has.
Cacheable(type, r) == r.rrs # {}

\* Faulty form: key sets are kept for good.
ExpiresDS(z, type) ==
  /\ type = "DS" /\ keyCache[<<z, type>>] # Nothing
  /\ keyCache' = [keyCache EXCEPT ![<<z, type>>] = Nothing]
  /\ UNCHANGED <<world, gen, mangles, pc, msg, i, walk, validated, verdict>>

\* The TTL of an entry, at least 60 s and at most a day, ends: get drops the
\* entry and finds none.
Expires(z, type) ==
  /\ keyCache[<<z, type>>] # Nothing
  /\ keyCache' = [keyCache EXCEPT ![<<z, type>>] = Nothing]
  /\ UNCHANGED <<world, gen, mangles, pc, msg, i, walk, validated, verdict>>

(***************************************************************************)
(* ValidateResponse                                                        *)
(***************************************************************************)
NoMessage == [sigs |-> <<>>, data |-> {}, material |-> {}]
Verdicts ==
  [is : {"none", "secure", "insecure", "bogus"},
   why : {"none", "empty", "unsigned", "period", "fetch", "delegation", "chain",
          "no key", "signature", "anchor", "validated"}]
NoVerdict == [is |-> "none", why |-> "none"]

Sig(h) == msg[h].sigs[i[h]]
Signer(h) == Sig(h).signer

End(h, is, why) ==
  /\ pc' = [pc EXCEPT ![h] = "done"]
  /\ verdict' = [verdict EXCEPT ![h] = [is |-> is, why |-> why]]

\* No answer records, or none that is an RRSIG; else the signatures in turn.
Begin(h) ==
  /\ pc[h] = "idle"
  /\ \E m \in world.answers[h] :
       /\ msg' = [msg EXCEPT ![h] = m]
       /\ \/ /\ m.data \cup m.material = {}
             /\ End(h, "secure", "empty")
          \/ /\ m.data \cup m.material # {} /\ m.sigs = <<>>
             /\ End(h, IF world.validateAll THEN "bogus" ELSE "insecure", "unsigned")
          \/ /\ m.sigs # <<>>
             /\ pc' = [pc EXCEPT ![h] = "sig"]
             /\ UNCHANGED verdict
  /\ i' = [i EXCEPT ![h] = 1]
  /\ validated' = [validated EXCEPT ![h] = {}]
  /\ UNCHANGED <<shared, walk>>

\* What the library makes of the signature: a key that came with the message
\* is what it is, whatever the zone's own keys are.
Unprocessable(s) == s.is = "misfit" \/ (~s.inline /\ Odd(s.signer))

\* The signature is checked with a key of these tags: the handler returns, or
\* goes on to the next signature.
Checked(h, keys) ==
  LET s == Sig(h)
      verifies == s.tag \in keys /\ ~Unprocessable(s) /\ s.is = "good"
      go(is, why) == End(h, is, why) /\ UNCHANGED <<i, validated>>
  IN \/ s.tag \notin keys /\ go("bogus", "no key")
     \/ s.tag \in keys /\ Unprocessable(s) /\ go("insecure", "delegation")
     \/ s.tag \in keys /\ ~Unprocessable(s) /\ s.is = "bad" /\ go("bogus", "signature")
     \/ /\ verifies
        /\ s.ksk /\ Anchors # {} /\ s.tag \notin Anchors
        /\ go("bogus", "anchor")
     \/ /\ verifies
        /\ s.ksk /\ Anchors # {} => s.tag \in Anchors
        /\ pc' = [pc EXCEPT ![h] = "sig"]
        /\ i' = [i EXCEPT ![h] = @ + 1]
        /\ validated' = [validated EXCEPT ![h] = @ \cup {s.rrset}]
        /\ UNCHANGED verdict

Found(h) == Sig(h).rrset \in msg[h].data \cup msg[h].material

\* One turn of the loop up to the walk.
Period(h) ==
  /\ pc[h] = "sig" /\ i[h] <= Len(msg[h].sigs) /\ ~Sig(h).inPeriod
  /\ End(h, "bogus", "period")
  /\ UNCHANGED <<shared, msg, i, walk, validated>>

Skip(h) ==
  /\ pc[h] = "sig" /\ i[h] <= Len(msg[h].sigs) /\ Sig(h).inPeriod /\ ~Found(h)
  /\ i' = [i EXCEPT ![h] = @ + 1]
  /\ UNCHANGED <<shared, pc, msg, walk, validated, verdict>>

\* findDNSKEY: the key with this tag is in the message.
Inline(h) ==
  /\ pc[h] = "sig" /\ i[h] <= Len(msg[h].sigs) /\ Sig(h).inPeriod /\ Found(h)
  /\ Sig(h).inline
  /\ Checked(h, {Sig(h).tag})
  /\ UNCHANGED <<shared, msg, walk>>

NoSets == [x \in Zones \X Types |-> Nothing]

\* The variables of a walk go out of scope.
WalkEnds(h) ==
  /\ at' = [at EXCEPT ![h] = 0]
  /\ got' = [got EXCEPT ![h] = NoSets]
  /\ level' = [level EXCEPT ![h] = -1]
  /\ trusted' = [trusted EXCEPT ![h] = {}]

WalkBegins(h) ==
  /\ pc[h] = "sig" /\ i[h] <= Len(msg[h].sigs) /\ Sig(h).inPeriod /\ Found(h)
  /\ ~Sig(h).inline
  /\ pc' = [pc EXCEPT ![h] = "DNSKEY"]
  /\ at' = [at EXCEPT ![h] = Signer(h)]
  /\ UNCHANGED <<shared, msg, i, got, pend, level, trusted, validated, verdict>>

\* After the loop: every data RRset has a signature that passed.
Covered(h) ==
  /\ pc[h] = "sig" /\ i[h] > Len(msg[h].sigs)
  /\ IF msg[h].data \subseteq validated[h]
     THEN End(h, "secure", "validated") ELSE End(h, "insecure", "unsigned")
  /\ UNCHANGED <<shared, msg, i, walk, validated>>

(***************************************************************************)
(* authenticatedDNSKEYs: the sets are fetched from the signer up to the    *)
(* root, the DNSKEY set of a zone and then its DS, and verified from the   *)
(* root down as the calls return.                                          *)
(***************************************************************************)
\* The set r is taken, and the walk goes on.
Take(h, r) ==
  /\ got' = [got EXCEPT ![h][<<at[h], pc[h]>>] = r]
  /\ \/ pc[h] = "DNSKEY" /\ at[h] # 0
        /\ pc' = [pc EXCEPT ![h] = "DS"] /\ UNCHANGED at
     \/ pc[h] = "DNSKEY" /\ at[h] = 0
        /\ pc' = [pc EXCEPT ![h] = "verify"] /\ UNCHANGED at
     \/ pc[h] = "DS"
        /\ pc' = [pc EXCEPT ![h] = "DNSKEY"] /\ at' = [at EXCEPT ![h] = @ - 1]

Fetching(h) == pc[h] \in Types /\ pend[h] = Nothing
Entry(h) == keyCache[<<at[h], pc[h]>>]
TooDeep(h) == Signer(h) - at[h] > maxChainDepth

Hit(h) ==
  /\ Fetching(h) /\ ~TooDeep(h) /\ Entry(h) # Nothing
  /\ Take(h, Entry(h))
  /\ UNCHANGED <<shared, msg, i, pend, level, trusted, validated, verdict>>

Fetch(h) ==
  /\ Fetching(h) /\ ~TooDeep(h) /\ Entry(h) = Nothing
  /\ ~(pc[h] = "DNSKEY" /\ Bare(at[h]))
  /\ \E r \in Answers(at[h], pc[h]) : pend' = [pend EXCEPT ![h] = r]
  /\ UNCHANGED <<shared, pc, msg, i, at, got, level, trusted, validated, verdict>>

\* The walk is too deep, the upstream fails or times out, or it has no such
\* records: a name that is no zone, or a zone that is not signed.
FetchFails(h) ==
  /\ Fetching(h)
  /\ \/ TooDeep(h)
     \/ Entry(h) = Nothing /\ (mangles \/ (pc[h] = "DNSKEY" /\ Bare(at[h])))
  /\ End(h, "bogus", "fetch")
  /\ UNCHANGED <<shared, msg, i, walk, validated>>

\* put, and on with the walk.
Store(h) ==
  /\ pc[h] \in Types /\ pend[h] # Nothing
  /\ keyCache' = IF Cacheable(pc[h], pend[h])
                 THEN [keyCache EXCEPT ![<<at[h], pc[h]>>] = pend[h]]
                 ELSE keyCache
  /\ Take(h, pend[h])
  /\ pend' = [pend EXCEPT ![h] = Nothing]
  /\ UNCHANGED <<world, gen, mangles, msg, i, level, trusted, validated, verdict>>

\* One call returns: the zone below the one verified last.
NextLink(h) ==
  LET z == level[h] + 1 IN Link(z, got[h][<<z, "DNSKEY">>], got[h][<<z, "DS">>], trusted[h])

VerifyLink(h) ==
  /\ pc[h] = "verify" /\ level[h] < Signer(h)
  /\ \/ /\ NextLink(h) = "secure"
        /\ level' = [level EXCEPT ![h] = @ + 1]
        /\ trusted' = [trusted EXCEPT ![h] = got[h][<<level[h] + 1, "DNSKEY">>].rrs]
        /\ UNCHANGED <<pc, verdict>>
     \/ /\ NextLink(h) = "insecure"
        /\ End(h, "insecure", "delegation")
        /\ UNCHANGED <<level, trusted>>
     \/ /\ NextLink(h) = "bogus"
        /\ End(h, "bogus", "chain")
        /\ UNCHANGED <<level, trusted>>
  /\ UNCHANGED <<shared, msg, i, at, got, pend, validated>>

\* The signer's key set is authenticated: the signature itself.
VerifySig(h) ==
  /\ pc[h] = "verify" /\ level[h] = Signer(h)
  /\ Checked(h, trusted[h])
  /\ WalkEnds(h)
  /\ UNCHANGED <<shared, msg, pend>>

\* The caller takes the result.
Return(h) ==
  /\ pc[h] = "done"
  /\ pc' = [pc EXCEPT ![h] = "idle"]
  /\ verdict' = [verdict EXCEPT ![h] = NoVerdict]
  /\ msg' = [msg EXCEPT ![h] = NoMessage]
  /\ i' = [i EXCEPT ![h] = 1]
  /\ validated' = [validated EXCEPT ![h] = {}]
  /\ WalkEnds(h)
  /\ UNCHANGED <<shared, pend>>

(***************************************************************************)
(* The world outside                                                       *)
(***************************************************************************)
Roll(z) ==
  /\ z \in world.rolls /\ gen[z] = "old"
  /\ gen' = [gen EXCEPT ![z] = "new"]
  /\ UNCHANGED <<world, mangles, keyCache, pc, msg, i, walk, validated, verdict>>

Heals ==
  /\ mangles
  /\ mangles' = FALSE
  /\ UNCHANGED <<world, gen, keyCache, pc, msg, i, walk, validated, verdict>>

Init ==
  /\ world \in Worlds
  /\ gen = [z \in Zones |-> "old"]
  /\ mangles = TRUE
  /\ keyCache = [x \in Zones \X Types |-> Nothing]
  /\ pc = [h \in Handlers |-> "idle"]
  /\ msg = [h \in Handlers |-> NoMessage]
  /\ i = [h \in Handlers |-> 1]
  /\ at = [h \in Handlers |-> 0]
  /\ got = [h \in Handlers |-> NoSets]
  /\ pend = [h \in Handlers |-> Nothing]
  /\ level = [h \in Handlers |-> -1]
  /\ trusted = [h \in Handlers |-> {}]
  /\ validated = [h \in Handlers |-> {}]
  /\ verdict = [h \in Handlers |-> NoVerdict]

Walk(h) ==
  \/ Hit(h) \/ Fetch(h) \/ FetchFails(h) \/ Store(h) \/ VerifyLink(h) \/ VerifySig(h)

Step(h) ==
  \/ Period(h) \/ Skip(h) \/ Inline(h) \/ WalkBegins(h) \/ Covered(h) \/ Walk(h)
  \/ Return(h)

Next ==
  \/ \E h \in Handlers : Begin(h) \/ Step(h)
  \/ \E z \in Zones, type \in Types : Expires(z, type)
  \/ \E z \in Zones : Roll(z)
  \/ Heals

\* Fetches have a deadline, so a handler that began goes on; an entry's TTL
\* is at most a day.
Fairness ==
  /\ \A h \in Handlers : WF_vars(Step(h))
  /\ \A z \in Zones, type \in Types : WF_vars(Expires(z, type))

Spec == Init /\ [][Next]_vars /\ Fairness

(***************************************************************************)
(* Properties                                                              *)
(***************************************************************************)
\* The state has its type, and the cache of key sets (chain.go, put) holds
\* sets with records only: a denial of a DS is asked for anew each time.
ValidatorTypeOK ==
  /\ world \in Worlds /\ gen \in [Zones -> Gens] /\ mangles \in BOOLEAN
  /\ keyCache \in [Zones \X Types -> Recs]
  /\ \A x \in Zones \X Types : keyCache[x] = Nothing \/ keyCache[x].rrs # {}
  /\ pc \in [Handlers -> {"idle", "sig", "verify", "done"} \cup Types]
  /\ msg \in [Handlers -> Msgs] /\ i \in [Handlers -> Nat]
  /\ at \in [Handlers -> Zones]
  /\ got \in [Handlers -> [Zones \X Types -> Recs]] /\ pend \in [Handlers -> Recs]
  /\ level \in [Handlers -> -1 .. Depth] /\ trusted \in [Handlers -> SUBSET Tags]
  /\ validated \in [Handlers -> SUBSET Nat]
  /\ verdict \in [Handlers -> Verdicts]

\* The chain of trust to zone z is whole: each delegation has its DS, each
\* key can be used.
Chained(z) == \A y \in 0 .. z : Secure(y) /\ ~Odd(y)

\* A key that the walk found, and one that the message brought along.
FromChain(s) == ~s.inline /\ s.tag \in Gens /\ Chained(s.signer)
FromMessage(s) == s.inline /\ (s.ksk /\ Anchors # {} => s.tag \in Anchors)

\* A signature that verifies with either.
Genuine(s) == s.inPeriod /\ s.is = "good" /\ (FromChain(s) \/ FromMessage(s))

\* ValidateResponse returns nil for an answer with data only if each data
\* RRset has a signature in its period that verifies with a key of one of two
\* origins.  Either the walk found it: then the signing zone really has had
\* it, at the end of an unbroken chain of delegations, and no set that was
\* cached before it was verified, and no mixture of cached and fetched sets
\* of before and after a key rollover, leads a walk to any other key.  Or the
\* message has it (validator.go:128): then no walk is made, and nothing is
\* known of it but that it is an anchor if it is the root's KSK, although
\* validator.go:200-203 says that its trust comes from the walk or the anchors.
SecureIsAuthentic ==
  \A h \in Handlers :
    verdict[h].is = "secure" =>
      \A r \in msg[h].data :
        \E j \in DOMAIN msg[h].sigs :
          msg[h].sigs[j].rrset = r /\ Genuine(msg[h].sigs[j])

\* A set has an RRSIG that names a key the zone has had and does not fit it; one
\* of the sets of the zone where the walk of h ended is such a set.
HasMisfit(r) == \E j \in DOMAIN r.sigs : r.sigs[j].is = "misfit" /\ r.sigs[j].tag \in Gens
MetMisfit(h) == \E type \in Types : HasMisfit(got[h][<<level[h] + 1, type>>])

\* ValidateResponse calls an answer insecure only for cause: some RRset of it
\* carries no signature; on the way to the signer a delegation really has no
\* DS or a zone's key cannot be used; or the set at which the walk ended, or
\* the answer, has an RRSIG which the library cannot process with the key it
\* names (ErrKey, ErrAlg), made by that key or not (chain.go:279, :316,
\* validator.go:176).
\* Nothing else ends a walk as insecure: no denial (provesNoDS) that the
\* parent's keys did not sign, no signature that does not verify.
InsecureIsProven ==
  \A h \in Handlers :
    verdict[h].is = "insecure" =>
      \/ /\ verdict[h].why = "unsigned"
         /\ \E r \in msg[h].data \cup msg[h].material :
              \A j \in DOMAIN msg[h].sigs : msg[h].sigs[j].rrset # r
      \/ /\ verdict[h].why = "delegation"
         /\ \/ ~Sig(h).inline /\ ~Chained(Signer(h))
            \/ MetMisfit(h) \/ Sig(h).is = "misfit"

\* What the walk of h holds is what the zones had, and fits together.
Fits(h, z) ==
  LET k == got[h][<<z, "DNSKEY">>] d == got[h][<<z, "DS">>]
      above == got[h][<<z - 1, "DNSKEY">>].rrs
  IN /\ k \in {RRset({g}, By(g)) : g \in Gens}
     /\ IF z = 0 THEN k.rrs \subseteq Anchors
        ELSE IF Secure(z) THEN \E g \in above : d = RRset(k.rrs, By(g))
             ELSE \E g \in above : d \in Denials(g)

\* A walk that got from the cache and the upstream what the zones had, with
\* each DS for the key it was got with, is not refused by the verification
\* (authenticatedDNSKEYs): the answer is secure or insecure as it deserves.
ConsistentIsAccepted ==
  \A h \in Handlers :
    verdict[h] = [is |-> "bogus", why |-> "chain"] => \E z \in 0 .. Signer(h) : ~Fits(h, z)

\* The answer itself, or the way the zones are set up, makes it bogus.
OwnFault(h) ==
  \/ verdict[h].why \in {"unsigned", "period", "signature", "anchor"}
  \/ Sig(h).tag # gen[Signer(h)]
  \/ \E z \in 0 .. Signer(h) : Bare(z)
  \/ gen[0] \notin Anchors
  \/ Signer(h) > maxChainDepth

\* Once the upstream returns the zones' current sets, a set that was cached
\* unverified (chain.go:147), or that a rollover made old, stops making
\* answers bogus: it is gone when its TTL ends, and what replaces it is good.
KeysRecover ==
  <>[]~mangles =>
    <>[](\A h \in Handlers : verdict[h].is = "bogus" => OwnFault(h))
=============================================================================
