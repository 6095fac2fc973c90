----------------------------- MODULE MCAllowlist ----------------------------
(***************************************************************************)
(* An instance of AllowlistLines for TLC: the contents of the files are    *)
(* what scanAllowlistReader makes of the lines below.                      *)
(***************************************************************************)
EXTENDS AllowlistLines, TLC

CONSTANTS f1, f2, r1, r2

MCFiles == <<f1, f2>>
MCHostLabels == {"x", "y", "com", "other"}
MCUnderscored == {"_t"}
MCTokens == MCHostLabels \cup MCUnderscored \cup {Star}

\* Writing lines.
Field(eq, texts, upper, dot) ==
  [eq |-> eq, dot |-> dot,
   labels |-> [i \in DOMAIN texts |-> [text |-> texts[i], upper |-> upper]]]
Line(ip, fields) == [blank |-> FALSE, ip |-> ip, fields |-> fields]
Single(f) == Line(FALSE, <<f>>)
Blank == [blank |-> TRUE, ip |-> FALSE, fields |-> <<>>]

WildX == Field(FALSE, <<Star, "x", "com">>, FALSE, FALSE)
WildXShouted == Field(FALSE, <<Star, "x", "com">>, TRUE, TRUE)
BareY == Field(FALSE, <<"y", "com">>, TRUE, FALSE)
OnlyX == Field(TRUE, <<"x", "com">>, FALSE, TRUE)
BelowTop == Field(FALSE, <<Star, "com">>, FALSE, FALSE)

\* The last two have an address, and a top-level domain after a good line.
MCTexts == {<<Blank>>, <<Single(WildXShouted)>>,
            <<Single(WildX), Blank, Single(BareY), Single(OnlyX)>>,
            <<Line(TRUE, <<BareY>>)>>, <<Single(BareY), Single(BelowTop)>>}

MCContents == {ScanAllowlist(t) : t \in MCTexts}
MCNames == UNION {c.names : c \in MCContents}
MCLines == [c \in MCContents |-> CHOOSE t \in MCTexts : ScanAllowlist(t) = c]

\* A hosts line, a domain above, a star, a name of an underscore, and two
\* lines that are skipped.
MCBlockLines == <<Blank, Line(TRUE, <<Field(FALSE, <<"x", "com">>, TRUE, TRUE), BareY>>),
                  Single(Field(FALSE, <<"com">>, FALSE, FALSE)), Single(WildX),
                  Single(Field(FALSE, <<"_t", "x", "com">>, FALSE, FALSE)),
                  Line(FALSE, <<WildX, BareY>>), Single(OnlyX)>>

MCQueries == {<<"com">>, <<"x">>, <<"x", "y">>, <<"_t", "x", "com">>, <<"other", "other", "x", "com">>}
               \cup {<<a, "com">> : a \in MCHostLabels}
               \cup {<<a, b, "com">> : a, b \in MCHostLabels}

Symmetry == Permutations({r1, r2})

=============================================================================
