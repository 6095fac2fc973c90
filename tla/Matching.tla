------------------------------ MODULE Matching ------------------------------
(***************************************************************************)
(* What the lines of the two lists mean: the scanners and the matching of  *)
(* internal/allowlist and internal/blocklist, and Shadowed of              *)
(* internal/policy, which tells the operator which allowlist entries the   *)
(* blocklist leaves without effect.                                        *)
(*                                                                         *)
(* A name is the sequence of its labels, the leftmost first.  As it is     *)
(* written, a label may be in capitals and the name may end in a dot.      *)
(***************************************************************************)
EXTENDS Naturals, Sequences

CONSTANTS HostLabels,   \* labels of letters, digits and inner hyphens
          Underscored   \* labels that have an underscore too

Star == "*"
ProbeLabel == "#"       \* shadowProbeLabel: no label of either kind
ASSUME LabelAssumption == {Star, ProbeLabel} \cap (HostLabels \cup Underscored) = {}

\* ToLower and TrimSuffix of the dot.
Normal(n) == [i \in DOMAIN n.labels |-> n.labels[i].text]

Bare(s) == [form |-> "bare", labels |-> s]     \* s and all below it
Wild(s) == [form |-> "wild", labels |-> s]     \* all below s
Only(s) == [form |-> "exact", labels |-> s]    \* s alone

(***************************************************************************)
(* The scanners.  A line is blank (or a comment), or has fields; ip says   *)
(* that an address comes before them.  A field is a written name, with eq  *)
(* for the "=" before it.                                                  *)
(***************************************************************************)
Starred(s) == Len(s) > 1 /\ s[1] = Star
Host(s) == IF Starred(s) THEN Tail(s) ELSE s
Entry(s) == IF Starred(s) THEN Wild(Tail(s)) ELSE Bare(s)

\* validateAllowlistEntry: no top-level domain, with or without the star.
ValidAllowlistEntry(s) ==
  Len(Host(s)) > 1 /\ \A i \in DOMAIN Host(s) : Host(s)[i] \in HostLabels

\* isValidHostname of the blocklist.
ValidHostname(s) ==
  s # <<>> /\ \A i \in DOMAIN Host(s) : Host(s)[i] \in HostLabels \cup Underscored

ValidAllowlistLine(l) ==
  l.blank \/ /\ ~l.ip /\ Len(l.fields) = 1
             /\ l.fields[1].eq => ~Starred(Normal(l.fields[1]))
             /\ ValidAllowlistEntry(Normal(l.fields[1]))

\* scanAllowlistReader: the first line that is not valid ends it.
ScanAllowlist(lines) ==
  LET valid(i) == \A j \in 1 .. i : ValidAllowlistLine(lines[j])
      entry(f) == IF f.eq THEN Only(Normal(f)) ELSE Entry(Normal(f))
  IN [form  |-> IF valid(Len(lines)) THEN "good" ELSE "bad",
      names |-> {entry(lines[i].fields[1]) :
                   i \in {j \in DOMAIN lines : valid(j) /\ ~lines[j].blank}}]

\* scanInto: what is not valid is skipped; only a hosts line has many names.
ScanInto(lines) ==
  LET read == {i \in DOMAIN lines : ~lines[i].blank /\ (lines[i].ip \/ Len(lines[i].fields) = 1)}
      fields == UNION {{lines[i].fields[k] : k \in DOMAIN lines[i].fields} : i \in read}
  IN {Entry(Normal(f)) : f \in {g \in fields : ~g.eq /\ ValidHostname(Normal(g))}}

(***************************************************************************)
(* The matching: the name itself, then each suffix of it.                  *)
(***************************************************************************)
Suffix(s, i) == SubSeq(s, i, Len(s))

\* Faulty form: the walk begins at the name itself, which "*." then covers.
AllowedApex(entries, n) ==
  \/ Only(n) \in entries
  \/ \E i \in 1 .. Len(n) : {Bare(Suffix(n, i)), Wild(Suffix(n, i))} \cap entries # {}

Allowed(entries, n) ==
  \/ {Bare(n), Only(n)} \cap entries # {}
  \/ \E i \in 2 .. Len(n) : {Bare(Suffix(n, i)), Wild(Suffix(n, i))} \cap entries # {}

\* IsBlocked of a blocklist that is enabled.
IsBlocked(entries, n) ==
  \/ Bare(n) \in entries
  \/ \E i \in 2 .. Len(n) : {Bare(Suffix(n, i)), Wild(Suffix(n, i))} \cap entries # {}

\* Faulty form: asks for the name behind the star.
ProbeApex(e) == e.labels

\* The name Shadowed asks the blocklist for: below a star, one that no entry
\* of the blocklist can name.
Probe(e) == IF e.form = "wild" THEN <<ProbeLabel>> \o e.labels ELSE e.labels

Shadowed(allow, block) == {e \in allow : IsBlocked(block, Probe(e))}

(***************************************************************************)
(* The reference: what an entry, and a field as it is written, say.        *)
(***************************************************************************)
Below(n, s) ==
  Len(n) > Len(s) /\ \A i \in 1 .. Len(s) : n[Len(n) - Len(s) + i] = s[i]

Covers(e, n) ==
  \/ e.form # "wild" /\ n = e.labels
  \/ e.form # "exact" /\ Below(n, e.labels)

Says(f, n) ==
  LET texts == [i \in DOMAIN f.labels |-> f.labels[i].text]
  IN \/ n = texts
     \/ ~f.eq /\ texts[1] # Star /\ Below(n, texts)
     \/ ~f.eq /\ texts[1] = Star /\ Below(n, Tail(texts))
=============================================================================
