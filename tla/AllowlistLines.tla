--------------------------- MODULE AllowlistLines ---------------------------
(***************************************************************************)
(* The allowlist and the lines its files are written in.  Allowlist sees a *)
(* file as a set of entries or as unusable; here every content is what     *)
(* scanAllowlistReader makes of lines (Lines), so that what Allowed and    *)
(* Shadowed answer can be held against what the operator wrote.            *)
(***************************************************************************)
EXTENDS Allowlist, Matching

CONSTANTS Tokens,      \* what may stand between the dots of a written name
          Lines,       \* the lines of each content
          BlockLines,  \* the lines of the blocklist's files
          Queries      \* names that are asked for

WrittenLabel == [text : Tokens, upper : BOOLEAN]
WrittenField == [eq : BOOLEAN, dot : BOOLEAN, labels : Seq(WrittenLabel)]
WrittenLine == [blank : BOOLEAN, ip : BOOLEAN, fields : Seq(WrittenField)]

ASSUME LinesAssumption ==
  /\ Lines \in [Contents -> Seq(WrittenLine)] /\ BlockLines \in Seq(WrittenLine)
  /\ \A c \in Contents : c = ScanAllowlist(Lines[c])
  /\ Names = UNION {c.names : c \in Contents}

\* What the blocklist can hold.
Blocked == ScanInto(BlockLines)

ASSUME QueryAssumption == \A n \in Queries : n \in Seq({n[i] : i \in DOMAIN n})

\* The names of an entry can be asked for, and below a star one that the
\* blocklist does not name: there are more labels than lines.
ASSUME ManyNamesAssumption ==
  \A e \in Names :
    IF e.form = "wild"
    THEN \E n \in Queries : Len(n) = Len(e.labels) + 1 /\ Tail(n) = e.labels
                              /\ \A b \in Blocked : b.labels # n
    ELSE e.labels \in Queries

-----------------------------------------------------------------------------
(* Properties                                                              *)

\* The fields of the lines that are not blank.
Fields(t) == UNION {{t[i].fields[k] : k \in DOMAIN t[i].fields} : i \in {j \in DOMAIN t : ~t[j].blank}}

\* After a reload that nothing overlapped and that replied "reloaded",
\* Allowed lets a name pass exactly if a line of the files says so, as the
\* operator wrote it: in any case, with or without the final dot, a bare
\* name for itself and all below it, "*." for what is below only and "=" for
\* the name alone.
AllowedAsWritten ==
  LET fields == UNION {Fields(Lines[disk[f]]) : f \in FileSet}
  IN \A r \in alone : pc[r] = "done" /\ reply[r] = "reloaded" =>
       \A n \in Queries : Allowed(allow, n) <=> \E f \in fields : Says(f, n)

ShadowedExactlyIn(A) ==
  \A B \in SUBSET Blocked : \A e \in A :
    e \in Shadowed(A, B) <=> \A n \in Queries : Covers(e, n) => IsBlocked(B, n)

ToldExactly == {A \in SUBSET Names : ShadowedExactlyIn(A)}

\* The warning about shadowed entries is exact on every allowlist that can be
\* live: whatever the blocklist holds, Shadowed names an entry if and only if
\* IsBlocked blocks every name the entry allows.
ShadowedIsExact == allow \in ToldExactly

=============================================================================
