----------------------------- MODULE Allowlist ------------------------------
(***************************************************************************)
(* Loading the allowlist (internal/allowlist/allowlist.go).  It is loaded  *)
(* once before any listener starts; a load that fails stops the process,   *)
(* so that is the initial state here.  Every --allowlist-reload is served  *)
(* by a goroutine of its own (internal/statistics/socket.go) that rescans  *)
(* the files and swaps the result in, or fails and changes nothing.        *)
(*                                                                         *)
(* A file is good, or bad: missing, unreadable or with an invalid line.    *)
(* Reading one file is one step.                                           *)
(***************************************************************************)
EXTENDS Naturals, Sequences

CONSTANTS Names,     \* names that lists mention
          Files,     \* cfg.Allowlist.Files
          Reloads,   \* reload requests
          Contents,  \* what a file may hold
          MaxEdits   \* bound on changes of the files

FileSet == {Files[i] : i \in DOMAIN Files}

ASSUME FilesAssumption == Files \in Seq(FileSet)
ASSUME EditsAssumption == MaxEdits \in Nat
ASSUME ContentAssumption == Contents \subseteq [names : SUBSET Names, form : {"good", "bad"}]

VARIABLES
  disk,    \* what each file holds
  allow,   \* the live set: domains, wildcard and exact
  pc,      \* where each reload is
  at,      \* the index of its file
  found,   \* newDomains, newWildcard and newExact
  reply,   \* what it tells the operator
  edits,   \* number of edits
  steady,  \* history: <<f, n>> if file f listed n whenever it was good
  ever,    \* history: names that some good file listed
  alone,   \* history: reloads that no edit or other reload overlapped or followed
  prior    \* history: the live set when a reload began

work == <<pc, at, found, reply>>
ghosts == <<steady, ever, alone, prior>>
vars == <<disk, allow, work, edits, ghosts>>

Listed(d) == UNION {d[f].names : f \in FileSet}
Loadable(d) == (\A f \in FileSet : d[f].form = "good") /\ Listed(d) # {}

\* loadAllowlistAtStartup succeeded.
Init ==
  /\ disk \in [FileSet -> Contents] /\ Loadable(disk)
  /\ allow = Listed(disk)
  /\ pc = [r \in Reloads |-> "idle"] /\ at = [r \in Reloads |-> 1]
  /\ found = [r \in Reloads |-> {}] /\ reply = [r \in Reloads |-> "none"]
  /\ edits = 0
  /\ steady = {p \in FileSet \X Names : p[2] \in disk[p[1]].names}
  /\ ever = Listed(disk) /\ alone = {} /\ prior = [r \in Reloads |-> {}]

-----------------------------------------------------------------------------
Running(r) == pc[r] = "scan"

\* RELOAD-ALLOWLIST calls LoadFiles with fresh maps.
Begin(r) ==
  /\ pc[r] = "idle"
  /\ pc' = [pc EXCEPT ![r] = "scan"]
  /\ alone' = IF \E q \in Reloads : Running(q) THEN {} ELSE {r}
  /\ prior' = [prior EXCEPT ![r] = allow]
  /\ UNCHANGED <<disk, allow, at, found, reply, edits, steady, ever>>

\* scanAllowlistFile of a file without errors.
ScanGood(r) ==
  /\ Running(r) /\ at[r] <= Len(Files) /\ disk[Files[at[r]]].form = "good"
  /\ found' = [found EXCEPT ![r] = @ \cup disk[Files[at[r]]].names]
  /\ at' = [at EXCEPT ![r] = @ + 1]
  /\ UNCHANGED <<disk, allow, pc, reply, edits, ghosts>>

\* Faulty form: a file that fails is passed over, with what was read of it.
ScanBadSkips(r) ==
  /\ Running(r) /\ at[r] <= Len(Files) /\ disk[Files[at[r]]].form = "bad"
  /\ found' = [found EXCEPT ![r] = @ \cup disk[Files[at[r]]].names]
  /\ at' = [at EXCEPT ![r] = @ + 1]
  /\ UNCHANGED <<disk, allow, pc, reply, edits, ghosts>>

\* The first error ends the load; the live set stays.
ScanBad(r) ==
  /\ Running(r) /\ at[r] <= Len(Files) /\ disk[Files[at[r]]].form = "bad"
  /\ pc' = [pc EXCEPT ![r] = "done"]
  /\ reply' = [reply EXCEPT ![r] = "failed"]
  /\ UNCHANGED <<disk, allow, at, found, edits, ghosts>>

\* Faulty form: entries are added to the live maps.
FinishAdds(r) ==
  /\ Running(r) /\ at[r] > Len(Files)
  /\ pc' = [pc EXCEPT ![r] = "done"]
  /\ IF found[r] = {}
     THEN allow' = allow /\ reply' = [reply EXCEPT ![r] = "failed"]
     ELSE allow' = allow \cup found[r] /\ reply' = [reply EXCEPT ![r] = "reloaded"]
  /\ UNCHANGED <<disk, at, found, edits, ghosts>>

\* Nothing found is an error; otherwise the new maps replace the live ones.
Finish(r) ==
  /\ Running(r) /\ at[r] > Len(Files)
  /\ pc' = [pc EXCEPT ![r] = "done"]
  /\ IF found[r] = {}
     THEN allow' = allow /\ reply' = [reply EXCEPT ![r] = "failed"]
     ELSE allow' = found[r] /\ reply' = [reply EXCEPT ![r] = "reloaded"]
  /\ UNCHANGED <<disk, at, found, edits, ghosts>>

\* A file changes.
Edit(f, c) ==
  /\ edits < MaxEdits /\ c # disk[f]
  /\ edits' = edits + 1
  /\ disk' = [disk EXCEPT ![f] = c]
  /\ steady' = {p \in steady : p[1] = f /\ c.form = "good" => p[2] \in c.names}
  /\ ever' = IF c.form = "good" THEN ever \cup c.names ELSE ever
  /\ alone' = {}
  /\ UNCHANGED <<allow, work, prior>>

ReloadStep(r) == Begin(r) \/ ScanGood(r) \/ ScanBad(r) \/ Finish(r)

Next ==
  \/ \E r \in Reloads : ReloadStep(r)
  \/ \E f \in FileSet, c \in Contents : Edit(f, c)

Spec == Init /\ [][Next]_vars

-----------------------------------------------------------------------------
(* Properties                                                              *)

\* Every variable has its type.
TypeOK ==
  /\ disk \in [FileSet -> Contents] /\ allow \subseteq Names
  /\ pc \in [Reloads -> {"idle", "scan", "done"}] /\ at \in [Reloads -> 1..(Len(Files) + 1)]
  /\ found \in [Reloads -> SUBSET Names] /\ reply \in [Reloads -> {"none", "reloaded", "failed"}]
  /\ edits \in 0..MaxEdits
  /\ steady \subseteq FileSet \X Names /\ ever \subseteq Names
  /\ alone \subseteq Reloads /\ prior \in [Reloads -> SUBSET Names]

\* "a bad edit never widens or empties it": whatever is edited and however
\* reloads overlap, the live allowlist is not empty, has every name that its
\* file never dropped, and no name that only a file with errors listed.
BadEditHarmless ==
  /\ allow # {} /\ allow \subseteq ever
  /\ \A p \in steady : p[2] \in allow

\* A reload that nothing overlapped does what it replies: "reloaded" if the
\* files are sound, and then the live set is theirs, so removed names are
\* refused; "FAILED, previous list still active" otherwise, and it is.
ReplyIsTrue ==
  \A r \in alone : pc[r] = "done" =>
    IF Loadable(disk)
    THEN reply[r] = "reloaded" /\ allow = Listed(disk)
    ELSE reply[r] = "failed" /\ allow = prior[r]

=============================================================================
