----------------------------- MODULE MCBlocklist ----------------------------
(* Instances of Blocklist for TLC. *)
EXTENDS Blocklist, TLC

CONSTANTS n1, n2, f1, f2, u1, r1, r2

MCFiles == <<f1, f2>>
MCUrls == <<u1>>
NoUrls == <<>>

Holding(form, names) == [form |-> form, names |-> names]
MCContents == {Holding("missing", {}), Holding("bad", {n1}),
               Holding("good", {n1}), Holding("good", {n1, n2}), Holding("good", {})}

Symmetry == Permutations({r1, r2})

=============================================================================
