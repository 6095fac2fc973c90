---------------------------- MODULE MCValidator ----------------------------
(***************************************************************************)
(* A small instance of Validator: the root and three zones below each      *)
(* other, the deepest of them too deep for a walk.  Two handlers validate  *)
(* answers of zone 1 at once; in the other worlds one handler validates    *)
(* answers of one zone, or of all the shapes an answer may have.           *)
(***************************************************************************)
EXTENDS Validator

CONSTANTS h1, h2

S(rrset, signer, tag) ==
  [rrset |-> rrset, inPeriod |-> TRUE, signer |-> signer, tag |-> tag, is |-> "good",
   inline |-> FALSE, ksk |-> FALSE]
RootKey(tag) == [S(2, 0, tag) EXCEPT !.inline = TRUE, !.ksk = TRUE]
M(sigs, data, material) == [sigs |-> sigs, data |-> data, material |-> material]

Single(signer) == {M(<<S(1, signer, "new")>>, {1}, {})}
Shapes ==
  {M(<<>>, {}, {}), M(<<>>, {1}, {}),
   M(<<S(1, 1, "old")>>, {1, 2}, {}),
   M(<<RootKey("old"), S(1, 1, "old")>>, {1}, {2}),
   M(<<RootKey("alien")>>, {}, {2}), M(<<S(1, 1, "alien")>>, {1}, {}),
   M(<<S(3, 1, "old"), [S(1, 1, "old") EXCEPT !.is = "bad"]>>, {1}, {}),
   M(<<[S(1, 1, "old") EXCEPT !.is = "misfit"]>>, {1}, {}),
   M(<<[S(1, 1, "alien") EXCEPT !.inline = TRUE]>>, {1}, {2}),
   M(<<[S(1, 1, "old") EXCEPT !.inline = TRUE, !.is = "misfit"]>>, {1}, {2}),
   M(<<[S(1, 1, "old") EXCEPT !.inPeriod = FALSE]>>, {1}, {})}

Anchor(tag, when) ==
  [tag |-> tag, when |-> when, dated |-> TRUE, decodes |-> TRUE, isKey |-> TRUE]
XMLFile == [format |-> "xml", entries |-> {Anchor("old", "now"), Anchor("new", "future")}]
KeyFile == [format |-> "key",
            entries |-> {Anchor("old", "now"), [Anchor("new", "now") EXCEPT !.isKey = FALSE]}]
BadFile == [format |-> "xml",
            entries |-> {Anchor("old", "now"), [Anchor("new", "past") EXCEPT !.dated = FALSE]}]

World(first, second, odd, rolls, one, two) ==
  [kind |-> <<first, second, "secure">>, odd |-> odd, rolls |-> rolls,
   anchorFile |-> XMLFile, validateAll |-> FALSE,
   answers |-> [h \in Handlers |-> IF h = h1 THEN one ELSE two]]

MCWorlds ==
  {World("secure", "secure", {}, {1}, Single(1), Single(1)),
   World("secure", "secure", {}, {2}, Single(2), {}),
   World("secure", "secure", {}, {1}, Single(2), {}),
   World("secure", "insecure", {}, {}, Single(2), {}),
   World("insecure", "secure", {}, {}, Single(2), {}),
   World("bare", "secure", {}, {}, Single(2), {}),
   World("secure", "secure", {}, {}, Single(3), {}),
   World("secure", "secure", {}, {}, Shapes, {}),
   [World("secure", "secure", {0}, {}, Shapes, {}) EXCEPT !.anchorFile = KeyFile],
   World("secure", "secure", {1}, {}, Shapes \cup Single(2), {}),
   [World("secure", "secure", {}, {}, Shapes, {}) EXCEPT !.validateAll = TRUE,
                                                         !.anchorFile = BadFile]}

\* An RRSIG that names the key "old" and comes to this.
Old(is) == [tag |-> "old", is |-> is]

\* What may come instead of a zone's current set: the one before the rollover;
\* in zone 1 the set of a key that never was its own; in zone 2 a set with an
\* RRSIG that does not fit the key it names, tried last or before the one that
\* decides, and a denial whose opt-out record is not signed.
MCOffered ==
  [x \in Zones \X Types |->
     CASE x[1] = 1 -> {RRset({"old"}, By("old")), RRset({"alien"}, By("alien"))}
       [] x = <<2, "DNSKEY">> ->
            {RRset({"old"}, By("old")),
             RRset({"old", "alien"}, <<Old("bad"), Old("misfit")>>)}
       [] x = <<2, "DS">> ->
            {RRset({"old"}, By("old")),
             RRset({"old"}, <<Old("misfit"), Old("bad"), Old("late")>>),
             Denial(<<NSEC3("other", TRUE, {}, <<>>),
                      NSEC3("above", FALSE, {"SOA"}, By("old"))>>, TRUE)}
       [] OTHER -> {}]
=============================================================================
