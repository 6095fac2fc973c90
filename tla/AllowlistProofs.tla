-------------------------- MODULE AllowlistProofs ---------------------------
(***************************************************************************)
(* Theorems about Allowlist, for any files, contents, reloads and edits,   *)
(* and about Matching, for any lists and names: the walk over the suffixes *)
(* of a name finds an entry exactly if an entry covers the name, and the   *)
(* one name Shadowed asks for is blocked exactly if all names of the entry *)
(* are.  Together they say what the live allowlist lets through.           *)
(***************************************************************************)
EXTENDS AllowlistLines, TLAPS

\* The history is right about the files as they are.
HistorySound ==
  /\ \A p \in steady : disk[p[1]].form = "good" => p[2] \in disk[p[1]].names
  /\ \A f \in FileSet : disk[f].form = "good" => disk[f].names \subseteq ever

\* A reload has found every steady name of the files behind it, and nothing that
\* no good file listed.
ScanSound(r) ==
  /\ found[r] \subseteq ever
  /\ \A i \in 1..Len(Files) : \A p \in steady : i < at[r] /\ p[1] = Files[i] => p[2] \in found[r]

IInv == TypeOK /\ HistorySound /\ (\A r \in Reloads : ScanSound(r)) /\ BadEditHarmless

-----------------------------------------------------------------------------
\* The files are numbered from 1.
LEMMA FileNumbers == Len(Files) \in Nat /\ DOMAIN Files = 1..Len(Files)
BY FilesAssumption, SMT, SMTT(30)

\* The initial states satisfy the inductive invariant.
LEMMA InitEstablishes == Init => IInv
<1> SUFFICES ASSUME Init PROVE IInv
  BY Zenon
<1>1. \A f \in FileSet : disk[f].names \subseteq Names /\ disk[f].form = "good"
  BY ContentAssumption, SMT, SMTT(30) DEF Init, Loadable
<1>2. TypeOK
  BY <1>1, FileNumbers, EditsAssumption, SMT, SMTT(30) DEF Init, TypeOK, Listed
<1>3. HistorySound
  BY Zenon DEF Init, HistorySound, Listed
<1>4. ASSUME NEW r \in Reloads PROVE ScanSound(r)
  BY SMT, SMTT(30) DEF Init, ScanSound
<1>5. BadEditHarmless
  BY Zenon DEF Init, BadEditHarmless, Listed, Loadable
<1> QED
  BY <1>2, <1>3, <1>4, <1>5, Zenon DEF IInv

\* A reload begins.
LEMMA BeginStep == ASSUME IInv, NEW r \in Reloads, Begin(r) PROVE IInv'
<1>1. TypeOK'
  BY Zenon DEF Begin, IInv, TypeOK
<1>2. HistorySound' /\ BadEditHarmless' /\ \A q \in Reloads : ScanSound(q)'
  BY Zenon DEF Begin, IInv, HistorySound, BadEditHarmless, ScanSound
<1> QED
  BY <1>1, <1>2, Zenon DEF IInv

\* A good file is scanned.
LEMMA ScanGoodStep == ASSUME IInv, NEW r \in Reloads, ScanGood(r) PROVE IInv'
<1> DEFINE f == Files[at[r]]
<1>1. /\ at[r] \in 1..Len(Files) /\ f \in FileSet /\ disk[f].form = "good"
      /\ disk[f].names \subseteq Names
  <2>1. TypeOK /\ at[r] <= Len(Files) /\ disk[f].form = "good"
    BY Zenon DEF IInv, ScanGood
  <2>2. at[r] \in 1..(Len(Files) + 1)
    BY <2>1, Zenon DEF TypeOK
  <2>3. at[r] \in 1..Len(Files)
    BY <2>1, <2>2, FileNumbers, SMT, SMTT(30)
  <2>4. f \in FileSet
    BY <2>3, FileNumbers, Zenon DEF FileSet
  <2>5. disk[f] \in Contents
    BY <2>1, <2>4, Zenon DEF TypeOK
  <2> QED
    BY <2>1, <2>3, <2>4, <2>5, ContentAssumption, Zenon
<1>2. /\ found' = [found EXCEPT ![r] = @ \cup disk[f].names] /\ at' = [at EXCEPT ![r] = @ + 1]
      /\ disk' = disk /\ allow' = allow /\ pc' = pc /\ reply' = reply /\ edits' = edits
      /\ steady' = steady /\ ever' = ever /\ alone' = alone /\ prior' = prior
  BY Zenon DEF ScanGood, ghosts
<1>3. TypeOK'
  BY <1>1, <1>2, FileNumbers, SMT, SMTT(30) DEF IInv, TypeOK
<1>4. HistorySound' /\ BadEditHarmless'
  BY <1>2, Zenon DEF IInv, HistorySound, BadEditHarmless
<1>5. ASSUME NEW q \in Reloads PROVE ScanSound(q)'
  <2>1. ScanSound(q) /\ HistorySound /\ TypeOK
    BY Zenon DEF IInv
  <2>2. CASE q = r
    <3>1. found'[q] = found[q] \cup disk[f].names /\ at'[q] = at[q] + 1
      BY <1>2, <2>1, <2>2, Zenon DEF TypeOK
    <3>2. found'[q] \subseteq ever
      BY <1>1, <2>1, <3>1, ZenonT(40) DEF ScanSound, HistorySound
    <3>3. ASSUME NEW i \in 1..Len(Files), NEW p \in steady, i < at'[q], p[1] = Files[i]
          PROVE  p[2] \in found'[q]
      <4>1. CASE i < at[q]
        BY <2>1, <3>1, <3>3, <4>1, Zenon DEF ScanSound
      <4>2. CASE i = at[q]
        BY <1>1, <2>1, <2>2, <3>1, <3>3, <4>2, Zenon DEF HistorySound
      <4> QED
        BY <1>1, <2>2, <3>1, <3>3, <4>1, <4>2, FileNumbers, SMT, SMTT(30)
    <3> QED
      BY <1>2, <3>2, <3>3, Zenon DEF ScanSound
  <2>3. CASE q # r
    <3>1. found'[q] = found[q] /\ at'[q] = at[q]
      BY <1>2, <2>1, <2>3, Zenon DEF TypeOK
    <3> QED
      BY <1>2, <2>1, <3>1, Zenon DEF ScanSound
  <2> QED
    BY <2>2, <2>3, Zenon
<1> QED
  BY <1>3, <1>4, <1>5, Zenon DEF IInv

\* A file with errors ends the reload.
LEMMA ScanBadStep == ASSUME IInv, NEW r \in Reloads, ScanBad(r) PROVE IInv'
<1>1. TypeOK'
  BY Zenon DEF ScanBad, ghosts, IInv, TypeOK
<1>2. HistorySound' /\ BadEditHarmless' /\ \A q \in Reloads : ScanSound(q)'
  BY Zenon DEF ScanBad, ghosts, IInv, HistorySound, BadEditHarmless, ScanSound
<1> QED
  BY <1>1, <1>2, Zenon DEF IInv

\* All files are scanned: the swap, unless nothing was found.
LEMMA FinishStep == ASSUME IInv, NEW r \in Reloads, Finish(r) PROVE IInv'
<1>1. /\ disk' = disk /\ at' = at /\ found' = found /\ edits' = edits
      /\ steady' = steady /\ ever' = ever /\ alone' = alone /\ prior' = prior
  BY Zenon DEF Finish, ghosts
<1>2. allow' = allow \/ (found[r] # {} /\ allow' = found[r])
  BY Zenon DEF Finish
<1>3. TypeOK'
  <2>1. TypeOK
    BY Zenon DEF IInv
  <2>2. allow' \subseteq Names
    BY <1>2, <2>1, SMT, SMTT(30) DEF TypeOK
  <2>3. pc' \in [Reloads -> {"idle", "scan", "done"}]
    BY <2>1, Zenon DEF Finish, TypeOK
  <2>4. reply' \in [Reloads -> {"none", "reloaded", "failed"}]
    BY <2>1, Zenon DEF Finish, TypeOK
  <2> QED
    BY <1>1, <2>1, <2>2, <2>3, <2>4, Zenon DEF TypeOK
<1>4. HistorySound' /\ \A q \in Reloads : ScanSound(q)'
  BY <1>1, Zenon DEF IInv, HistorySound, ScanSound
<1>5. \A p \in steady : p[2] \in found[r]
  <2> SUFFICES ASSUME NEW p \in steady PROVE p[2] \in found[r]
    BY Zenon
  <2>1. PICK i \in 1..Len(Files) : p[1] = Files[i]
    BY FileNumbers, ZenonT(40) DEF IInv, TypeOK, FileSet
  <2>2. i < at[r]
    BY FileNumbers, SMT, SMTT(30) DEF Finish, IInv, TypeOK
  <2> QED
    BY <2>1, <2>2, Zenon DEF IInv, ScanSound
<1>6. BadEditHarmless'
  BY <1>1, <1>2, <1>5, Zenon DEF IInv, BadEditHarmless, ScanSound
<1> QED
  BY <1>3, <1>4, <1>6, Zenon DEF IInv

\* A file changes: the history only forgets names that a good file drops.
LEMMA EditStep ==
  ASSUME IInv, NEW f \in FileSet, NEW c \in Contents, Edit(f, c) PROVE IInv'
<1>1. /\ disk' = [disk EXCEPT ![f] = c] /\ steady' \subseteq steady /\ ever \subseteq ever'
      /\ allow' = allow /\ found' = found /\ at' = at
  BY Zenon DEF Edit, work
<1>2. c.names \subseteq Names
  BY ContentAssumption, Zenon
<1>3. TypeOK'
  BY <1>2, EditsAssumption, SMT, SMTT(30) DEF Edit, work, IInv, TypeOK
<1>4. HistorySound'
  <2>1. \A p \in steady' : p[1] \in FileSet
    BY <1>1, ZenonT(40) DEF IInv, TypeOK
  <2> QED
    BY <1>1, <2>1, SMT, SMTT(30) DEF Edit, IInv, HistorySound, TypeOK
<1>5. BadEditHarmless' /\ \A r \in Reloads : ScanSound(r)'
  BY <1>1, Zenon DEF IInv, BadEditHarmless, ScanSound
<1> QED
  BY <1>3, <1>4, <1>5, Zenon DEF IInv

-----------------------------------------------------------------------------
\* The inductive invariant holds in every reachable state.
THEOREM Invariance == Spec => []IInv
<1>1. IInv /\ [Next]_vars => IInv'
  <2> SUFFICES ASSUME IInv, [Next]_vars PROVE IInv'
    BY Zenon
  <2>1. CASE UNCHANGED vars
    BY <2>1, Zenon DEF vars, work, ghosts, IInv, TypeOK, HistorySound, ScanSound, BadEditHarmless
  <2> QED
    BY <2>1, BeginStep, ScanGoodStep, ScanBadStep, FinishStep, EditStep, Zenon DEF Next, ReloadStep
<1> QED
  BY InitEstablishes, <1>1, PTL DEF Spec

\* Every variable of the loader keeps its type.
THEOREM AllowlistTypes == Spec => []TypeOK
<1>1. IInv => TypeOK
  BY Zenon DEF IInv
<1> QED
  BY Invariance, <1>1, PTL

\* No edit of the files and no overlap of reloads empties the live allowlist,
\* drops a name its file kept, or admits a name only a file with errors listed.
THEOREM BadEditsAreHarmless == Spec => []BadEditHarmless
<1>1. IInv => BadEditHarmless
  BY Zenon DEF IInv
<1> QED
  BY Invariance, <1>1, PTL

-----------------------------------------------------------------------------
(* Reloads that nothing overlaps                                           *)

\* A reload that has not begun is at its first file with empty maps.
Fresh == \A r \in Reloads : pc[r] = "idle" => at[r] = 1 /\ found[r] = {}

\* What the files behind a reload hold now.
Behind(r) == UNION {disk[Files[i]].names : i \in {j \in DOMAIN Files : j < at[r]}}

\* What ReplyIsTrue says of one reload.
Told(r) ==
  IF Loadable(disk)
  THEN reply[r] = "reloaded" /\ allow = Listed(disk)
  ELSE reply[r] = "failed" /\ allow = prior[r]

\* A reload that nothing overlapped is the only one at work; the files behind it
\* are good and what it found is what they hold, and the live set is still the one
\* it met.
Lone(r) ==
  /\ \A q \in Reloads : Running(q) => q = r
  /\ pc[r] # "idle"
  /\ pc[r] = "scan" =>
       /\ allow = prior[r] /\ found[r] = Behind(r)
       /\ \A i \in DOMAIN Files : i < at[r] => disk[Files[i]].form = "good"
  /\ pc[r] = "done" => Told(r)

LoneInv == Fresh /\ \A r \in alone : Lone(r)

\* A reload that begins with none at work is alone, with nothing behind it.
LEMMA LoneBegin == ASSUME IInv, LoneInv, NEW r \in Reloads, Begin(r) PROVE LoneInv'
<1>1. TypeOK /\ Fresh
  BY Zenon DEF IInv, LoneInv
<1>2. /\ disk' = disk /\ allow' = allow /\ at' = at /\ found' = found /\ reply' = reply
      /\ pc[r] = "idle" /\ pc' = [pc EXCEPT ![r] = "scan"]
      /\ prior' = [prior EXCEPT ![r] = allow]
  BY Zenon DEF Begin
<1>3. Fresh'
  BY <1>1, <1>2, Zenon DEF Fresh, TypeOK
<1>4. ASSUME NEW q \in alone' PROVE Lone(q)'
  <2>1. q = r /\ \A p \in Reloads : ~Running(p)
    BY <1>4, Zenon DEF Begin
  <2>2. at[r] = 1 /\ found[r] = {}
    BY <1>1, <1>2, Zenon DEF Fresh
  <2>3. \A i \in DOMAIN Files : ~(i < at[r])
    BY <2>2, FileNumbers, SMT, SMTT(30)
  <2>4. Behind(r)' = {}
    BY <1>2, <2>3, Zenon DEF Behind
  <2>5. pc'[r] = "scan" /\ prior'[r] = allow' /\ \A p \in Reloads : Running(p)' => p = r
    BY <1>1, <1>2, <2>1, Zenon DEF TypeOK, Running
  <2> QED
    BY <1>2, <2>1, <2>2, <2>3, <2>4, <2>5, Zenon DEF Lone
<1> QED
  BY <1>3, <1>4, Zenon DEF LoneInv

\* A good file that a lone reload scans goes into its maps whole.
LEMMA LoneScanGood == ASSUME IInv, LoneInv, NEW r \in Reloads, ScanGood(r) PROVE LoneInv'
<1>1. TypeOK /\ Fresh /\ at[r] \in 1..Len(Files)
  BY FileNumbers, SMT, SMTT(30) DEF IInv, LoneInv, ScanGood, TypeOK
<1>2. /\ disk' = disk /\ allow' = allow /\ pc' = pc /\ reply' = reply /\ alone' = alone
      /\ prior' = prior /\ pc[r] = "scan" /\ disk[Files[at[r]]].form = "good"
      /\ found' = [found EXCEPT ![r] = @ \cup disk[Files[at[r]]].names]
      /\ at' = [at EXCEPT ![r] = @ + 1]
  BY Zenon DEF ScanGood, ghosts, Running
<1>3. Fresh'
  BY <1>1, <1>2, Zenon DEF Fresh, TypeOK
<1>4. ASSUME NEW q \in alone PROVE Lone(q)'
  <2>1. q = r /\ Lone(r)
    BY <1>2, Zenon DEF LoneInv, Lone, Running
  <2>2. found'[r] = found[r] \cup disk[Files[at[r]]].names /\ at'[r] = at[r] + 1
    BY <1>1, <1>2, Zenon DEF TypeOK
  <2>3. \A i \in DOMAIN Files : i < at'[r] <=> i < at[r] \/ i = at[r]
    BY <1>1, <2>2, FileNumbers, SMT, SMTT(30)
  <2>4. found'[r] = Behind(r)'
    <3>1. Behind(r)' = Behind(r) \cup disk[Files[at[r]]].names
      BY <1>1, <1>2, <2>3, FileNumbers, Zenon DEF Behind
    <3> QED
      BY <1>2, <2>1, <2>2, <3>1, Zenon DEF Lone
  <2>5. \A i \in DOMAIN Files : i < at'[r] => disk[Files[i]].form = "good"
    BY <1>2, <2>1, <2>3, Zenon DEF Lone
  <2> QED
    BY <1>2, <2>1, <2>4, <2>5, Zenon DEF Lone, Running
<1> QED
  BY <1>2, <1>3, <1>4, Zenon DEF LoneInv

\* A file with errors ends a lone reload: the files cannot be loaded, and the
\* live set is still the one it met.
LEMMA LoneScanBad == ASSUME IInv, LoneInv, NEW r \in Reloads, ScanBad(r) PROVE LoneInv'
<1>1. TypeOK /\ Fresh /\ at[r] \in 1..Len(Files)
  BY FileNumbers, SMT, SMTT(30) DEF IInv, LoneInv, ScanBad, TypeOK
<1>2. /\ disk' = disk /\ allow' = allow /\ at' = at /\ found' = found /\ alone' = alone
      /\ prior' = prior /\ pc[r] = "scan" /\ disk[Files[at[r]]].form = "bad"
      /\ pc' = [pc EXCEPT ![r] = "done"] /\ reply' = [reply EXCEPT ![r] = "failed"]
  BY Zenon DEF ScanBad, ghosts, Running
<1>3. Fresh'
  BY <1>1, <1>2, Zenon DEF Fresh, TypeOK
<1>4. ASSUME NEW q \in alone PROVE Lone(q)'
  <2>1. q = r /\ Lone(r) /\ allow = prior[r]
    BY <1>2, ZenonT(40) DEF LoneInv, Lone, Running
  <2>2. ~Loadable(disk)
    BY <1>1, <1>2, FileNumbers, ZenonT(40) DEF Loadable, FileSet
  <2>3. pc'[r] = "done" /\ reply'[r] = "failed" /\ \A p \in Reloads : Running(p)' => p = r
    BY <1>1, <1>2, <2>1, Zenon DEF TypeOK, Running, Lone
  <2>4. Told(r)'
    BY <1>2, <2>1, <2>2, <2>3, SMT, SMTT(30) DEF Told, Loadable, Listed
  <2> QED
    BY <2>1, <2>3, <2>4, Zenon DEF Lone
<1> QED
  BY <1>2, <1>3, <1>4, Zenon DEF LoneInv

\* A lone reload that has gone through the files found exactly what they hold.
LEMMA LoneFinish == ASSUME IInv, LoneInv, NEW r \in Reloads, Finish(r) PROVE LoneInv'
<1>1. TypeOK /\ Fresh /\ \A i \in DOMAIN Files : i < at[r]
  BY FileNumbers, SMT, SMTT(30) DEF IInv, LoneInv, Finish, TypeOK
<1>2. /\ disk' = disk /\ at' = at /\ found' = found /\ alone' = alone
      /\ prior' = prior /\ pc[r] = "scan" /\ pc' = [pc EXCEPT ![r] = "done"]
  BY Zenon DEF Finish, ghosts, Running
<1>3. Fresh'
  BY <1>1, <1>2, Zenon DEF Fresh, TypeOK
<1>4. ASSUME NEW q \in alone PROVE Lone(q)'
  <2>1. q = r /\ Lone(r) /\ allow = prior[r] /\ found[r] = Behind(r)
    BY <1>2, Zenon DEF LoneInv, Lone, Running
  <2>2. Behind(r) = Listed(disk)
    BY <1>1, Zenon DEF Behind, Listed, FileSet
  <2>3. \A f \in FileSet : disk[f].form = "good"
    BY <1>1, <1>2, <2>1, Zenon DEF Lone, FileSet
  <2>4. pc'[r] = "done" /\ \A p \in Reloads : Running(p)' => p = r
    BY <1>1, <1>2, <2>1, Zenon DEF TypeOK, Running, Lone
  <2>5. IF found[r] = {} THEN allow' = allow /\ reply'[r] = "failed"
                         ELSE allow' = found[r] /\ reply'[r] = "reloaded"
    BY <1>1, Zenon DEF Finish, TypeOK
  <2>6. Told(r)'
    BY <1>2, <2>1, <2>2, <2>3, <2>5, SMT, SMTT(30) DEF Told, Loadable, Listed
  <2> QED
    BY <2>1, <2>4, <2>6, Zenon DEF Lone
<1> QED
  BY <1>2, <1>3, <1>4, Zenon DEF LoneInv

\* The facts about lone reloads hold in every reachable state.
THEOREM LoneInvariance == Spec => []LoneInv
<1>1. Init => LoneInv
  BY SMT, ZenonT(40) DEF Init, LoneInv, Fresh
<1>2. IInv /\ LoneInv /\ [Next]_vars => LoneInv'
  <2> SUFFICES ASSUME IInv, LoneInv, [Next]_vars PROVE LoneInv'
    BY Zenon
  <2>1. CASE UNCHANGED vars
    BY <2>1, SMT, SMTT(30) DEF vars, work, ghosts, LoneInv, Fresh, Lone, Behind, Running, Told, Loadable, Listed
  <2>2. ASSUME NEW f \in FileSet, NEW c \in Contents, Edit(f, c) PROVE LoneInv'
    BY <2>2, Zenon DEF Edit, work, LoneInv, Fresh
  <2> QED
    BY <2>1, <2>2, LoneBegin, LoneScanGood, LoneScanBad, LoneFinish, Zenon DEF Next, ReloadStep
<1> QED
  BY Invariance, <1>1, <1>2, PTL DEF Spec

\* A reload that no edit and no other reload overlapped tells the operator the
\* truth: "reloaded" exactly if all files are good and not empty, with the live set
\* what they hold, and "failed" with the live set untouched otherwise.
THEOREM LoneReloadTellsTruth == Spec => []ReplyIsTrue
<1>1. LoneInv => ReplyIsTrue
  BY Zenon DEF LoneInv, Lone, ReplyIsTrue, Told
<1> QED
  BY LoneInvariance, <1>1, PTL

-----------------------------------------------------------------------------
(* What the lines mean                                                     *)

Labels == HostLabels \cup Underscored
AnyName == Seq(Labels \cup {Star, ProbeLabel})
Entries(L) == [form : {"bare", "wild", "exact"}, labels : Seq(L) \ {<<>>}]

-----------------------------------------------------------------------------
\* A suffix as Join of parts[i:] makes it: its length and its labels.
LEMMA SuffixShape ==
  ASSUME NEW L, NEW n \in Seq(L), NEW i \in 1 .. Len(n)
  PROVE  /\ Suffix(n, i) \in Seq(L)
         /\ Len(Suffix(n, i)) = Len(n) - i + 1
         /\ \A k \in 1 .. (Len(n) - i + 1) : Suffix(n, i)[k] = n[i + k - 1]
BY SMT, SMTT(30) DEF Suffix

\* Two names with the same labels in the same places are the same.
LEMMA SameName ==
  ASSUME NEW L, NEW s \in Seq(L), NEW t \in Seq(L), Len(s) = Len(t),
         \A k \in 1 .. Len(s) : s[k] = t[k]
  PROVE  s = t
BY SMT, SMTT(30)

\* A name is below s exactly if the walk, which begins one label in, meets s.
LEMMA BelowIsSuffix ==
  ASSUME NEW L, NEW n \in Seq(L), NEW s \in Seq(L), s # <<>>
  PROVE  Below(n, s) <=> \E i \in 2 .. Len(n) : Suffix(n, i) = s
<1>0. Len(n) \in Nat /\ Len(s) \in Nat /\ Len(s) > 0
  BY SMT, SMTT(30)
<1>1. ASSUME Below(n, s) PROVE \E i \in 2 .. Len(n) : Suffix(n, i) = s
  <2> DEFINE j == Len(n) - Len(s) + 1
  <2>1. j \in 2 .. Len(n) /\ j \in 1 .. Len(n) /\ Len(n) - j + 1 = Len(s)
    BY <1>0, <1>1, SMT, SMTT(30) DEF Below
  <2>2. \A k \in 1 .. Len(s) : n[j + k - 1] = s[k]
    <3> TAKE k \in 1 .. Len(s)
    <3>1. j + k - 1 = Len(n) - Len(s) + k
      BY <1>0, SMT, SMTT(30)
    <3> QED BY <1>1, <3>1, Zenon DEF Below
  <2> HIDE DEF j
  <2>3. Suffix(n, j) = s
    <3>1. /\ Suffix(n, j) \in Seq(L) /\ Len(Suffix(n, j)) = Len(s)
          /\ \A k \in 1 .. Len(s) : Suffix(n, j)[k] = n[j + k - 1]
      BY <2>1, SuffixShape, Zenon
    <3> QED BY <3>1, <2>2, SameName, Zenon
  <2> QED BY <2>1, <2>3, Zenon
<1>2. ASSUME NEW i \in 2 .. Len(n), Suffix(n, i) = s PROVE Below(n, s)
  <2>1. i \in 1 .. Len(n)
    BY <1>0, SMT, SMTT(30)
  <2>2. Len(s) = Len(n) - i + 1 /\ \A k \in 1 .. (Len(n) - i + 1) : s[k] = n[i + k - 1]
    BY <1>2, <2>1, SuffixShape, Zenon
  <2>3. Len(n) > Len(s)
    BY <2>2, <1>0, SMT, SMTT(30)
  <2>4. ASSUME NEW k \in 1 .. Len(s) PROVE n[Len(n) - Len(s) + k] = s[k]
    <3>1. Len(n) - Len(s) + k = i + k - 1 /\ k \in 1 .. (Len(n) - i + 1)
      BY <2>2, <1>0, SMT, SMTT(30)
    <3> QED BY <3>1, <2>2, Zenon
  <2> QED BY <2>3, <2>4, Zenon DEF Below
<1> QED BY <1>1, <1>2, Zenon

\* What is below a name is below all the name is below.
LEMMA BelowTransitive ==
  ASSUME NEW L, NEW n \in Seq(L), NEW s \in Seq(L), NEW t \in Seq(L), Below(n, s), Below(s, t)
  PROVE  Below(n, t)
<1>0. Len(n) \in Nat /\ Len(s) \in Nat /\ Len(t) \in Nat
  BY SMT, SMTT(30)
<1>1. Len(n) > Len(t)
  BY <1>0, SMT, SMTT(30) DEF Below
<1>2. ASSUME NEW k \in 1 .. Len(t) PROVE n[Len(n) - Len(t) + k] = t[k]
  <2> DEFINE m == Len(s) - Len(t) + k
  <2>1. m \in 1 .. Len(s) /\ s[m] = t[k]
    BY <1>0, SMT, SMTT(30) DEF Below
  <2>2. Len(n) - Len(s) + m = Len(n) - Len(t) + k
    BY <1>0, SMT, SMTT(30)
  <2> HIDE DEF m
  <2>3. n[Len(n) - Len(s) + m] = s[m]
    BY <2>1, Zenon DEF Below
  <2> QED BY <2>1, <2>2, <2>3, Zenon
<1> QED BY <1>1, <1>2, Zenon DEF Below

-----------------------------------------------------------------------------
\* Allowed lets a name through exactly if some entry of the allowlist covers
\* it, for every list and every name.
THEOREM AllowedIsCovered ==
  ASSUME NEW L, NEW A \in SUBSET Entries(L), NEW n \in Seq(L)
  PROVE  Allowed(A, n) <=> \E e \in A : Covers(e, n)
<1>1. ASSUME NEW e \in A, Covers(e, n) PROVE Allowed(A, n)
  <2>1. e.labels \in Seq(L) /\ e.labels # <<>> /\ e.form \in {"bare", "wild", "exact"}
        /\ e = [form |-> e.form, labels |-> e.labels]
    BY Zenon DEF Entries
  <2>2. CASE e.form # "wild" /\ n = e.labels
    BY <2>1, <2>2, Zenon DEF Allowed, Bare, Only
  <2>3. CASE e.form # "exact" /\ Below(n, e.labels)
    <3>1. PICK i \in 2 .. Len(n) : Suffix(n, i) = e.labels
      BY <2>1, <2>3, BelowIsSuffix, ZenonT(40)
    <3>2. e \in {Bare(Suffix(n, i)), Wild(Suffix(n, i))}
      BY <2>1, <2>3, <3>1, Zenon DEF Bare, Wild
    <3> QED BY <3>2, Zenon DEF Allowed
  <2> QED BY <1>1, <2>2, <2>3, Zenon DEF Covers
<1>2. ASSUME Allowed(A, n) PROVE \E e \in A : Covers(e, n)
  <2>1. CASE {Bare(n), Only(n)} \cap A # {}
    <3>1. Covers(Bare(n), n) /\ Covers(Only(n), n)
      BY Zenon DEF Covers, Bare, Only
    <3> QED BY <2>1, <3>1, Zenon
  <2>2. CASE \E i \in 2 .. Len(n) : {Bare(Suffix(n, i)), Wild(Suffix(n, i))} \cap A # {}
    <3>1. PICK i \in 2 .. Len(n), e \in A : e \in {Bare(Suffix(n, i)), Wild(Suffix(n, i))}
      BY <2>2, Zenon
    <3>2. e.labels = Suffix(n, i) /\ e.form # "exact"
      BY <3>1, SMT, SMTT(30) DEF Bare, Wild
    <3>3. e.labels \in Seq(L) /\ e.labels # <<>>
      BY Zenon DEF Entries
    <3>4. Below(n, e.labels)
      BY <3>2, <3>3, BelowIsSuffix, Zenon
    <3> QED BY <3>2, <3>4, Zenon DEF Covers
  <2> QED BY <1>2, <2>1, <2>2, Zenon DEF Allowed
<1> QED BY <1>1, <1>2, Zenon

\* The same for IsBlocked; a blocklist has no "=" entries.
LEMMA BlockedIsCovered ==
  ASSUME NEW L, NEW B \in SUBSET Entries(L), NEW n \in Seq(L), \A b \in B : b.form # "exact"
  PROVE  IsBlocked(B, n) <=> \E b \in B : Covers(b, n)
<1>1. Only(n) \notin B
  BY Zenon DEF Only
<1>2. IsBlocked(B, n) <=> Allowed(B, n)
  BY <1>1, Zenon DEF IsBlocked, Allowed
<1> QED BY <1>2, AllowedIsCovered, Zenon

\* An entry that covers the made-up name <<x>> \o s of Shadowed by being
\* above it covers every name below s.
LEMMA AboveProbe ==
  ASSUME NEW L, NEW n \in Seq(L), NEW s \in Seq(L), NEW t \in Seq(L), NEW x \in L,
         Below(<<x>> \o s, t), Below(n, s)
  PROVE  Below(n, t)
<1> DEFINE p == <<x>> \o s
<1>0. Len(n) \in Nat /\ Len(s) \in Nat /\ Len(t) \in Nat /\ Len(p) = Len(s) + 1
  BY SMT, SMTT(30)
<1>1. \A m \in 1 .. Len(s) : p[m + 1] = s[m]
  BY SMT, SMTT(30)
<1>p. Below(p, t)
  BY Zenon
<1> HIDE DEF p
<1>2. Len(t) <= Len(s) /\ Len(n) > Len(t)
  BY <1>0, <1>p, SMT, SMTT(30) DEF Below
<1>3. ASSUME NEW k \in 1 .. Len(t) PROVE n[Len(n) - Len(t) + k] = t[k]
  <2> DEFINE m == Len(s) - Len(t) + k
  <2>1. m \in 1 .. Len(s) /\ Len(p) - Len(t) + k = m + 1 /\ Len(n) - Len(s) + m = Len(n) - Len(t) + k
    BY <1>0, <1>2, SMT, SMTT(30)
  <2> HIDE DEF m
  <2>2. p[m + 1] = t[k]
    BY <2>1, <1>p, Zenon DEF Below
  <2>3. n[Len(n) - Len(s) + m] = s[m]
    BY <2>1, Zenon DEF Below
  <2> QED BY <1>1, <2>1, <2>2, <2>3, Zenon
<1> QED BY <1>2, <1>3, Zenon DEF Below

\* The name Shadowed asks for is a name, and the entry allows it.
LEMMA ProbeIsCovered ==
  ASSUME NEW e \in Entries(Labels)
  PROVE  Probe(e) \in AnyName /\ Covers(e, Probe(e))
<1>1. e.labels \in Seq(Labels) /\ e.labels \in AnyName /\ e.form \in {"bare", "wild", "exact"}
  BY SMT, SMTT(30) DEF Entries, AnyName
<1>2. CASE e.form = "wild"
  <2>1. Probe(e) = <<ProbeLabel>> \o e.labels
    BY <1>2, Zenon DEF Probe
  <2>2. Probe(e) \in AnyName
    BY <1>1, <2>1, SMT, SMTT(30) DEF AnyName
  <2>3. Below(<<ProbeLabel>> \o e.labels, e.labels)
    BY <1>1, SMT, SMTT(30) DEF Below
  <2> QED BY <1>2, <2>1, <2>2, <2>3, Zenon DEF Covers
<1>3. CASE e.form # "wild"
  BY <1>1, <1>3, Zenon DEF Probe, Covers
<1> QED BY <1>2, <1>3, Zenon

\* If IsBlocked blocks the name Shadowed asks for, it blocks every name the
\* entry allows, of whatever labels.
LEMMA ProbeDecides ==
  ASSUME NEW L, Labels \cup {ProbeLabel} \subseteq L, NEW e \in Entries(Labels),
         NEW B \in SUBSET Entries(Labels), \A b \in B : b.form # "exact",
         IsBlocked(B, Probe(e)), NEW n \in Seq(L), Covers(e, n)
  PROVE  IsBlocked(B, n)
<1>1. B \in SUBSET Entries(L)
  BY SMT, SMTT(30) DEF Entries
<1>2. \A m \in Seq(L) : IsBlocked(B, m) <=> \E b \in B : Covers(b, m)
  BY <1>1, BlockedIsCovered, Zenon
<1>4. e.labels \in Seq(L) /\ e.labels \in Seq(Labels) /\ e.form \in {"bare", "wild", "exact"}
  BY SMT, SMTT(30) DEF Entries
<1>3. Probe(e) \in Seq(L)
  BY <1>4, SMT, SMTT(30) DEF Probe
<1>5. \A b \in B : b.labels \in Seq(L) /\ b.labels \in Seq(Labels) /\ b.labels # <<>>
  BY <1>1, Zenon DEF Entries
<1>6. PICK b \in B : Covers(b, Probe(e))
  BY <1>2, <1>3, Zenon
<1>7. b.form # "exact"
  BY Zenon
<1>8. CASE e.form = "wild"
  <2>1. Probe(e) = <<ProbeLabel>> \o e.labels /\ Below(n, e.labels)
    BY <1>8, Zenon DEF Probe, Covers
  <2>2. Probe(e) # b.labels
    <3>1. Len(Probe(e)) >= 1 /\ Probe(e)[1] = ProbeLabel
      BY <2>1, <1>4, SMT, SMTT(30)
    <3>2. ProbeLabel \notin Labels
      BY LabelAssumption, Zenon DEF Labels
    <3> QED BY <3>1, <3>2, <1>5, SMT, SMTT(30)
  <2>3. Below(<<ProbeLabel>> \o e.labels, b.labels)
    BY <1>6, <2>1, <2>2, Zenon DEF Covers
  <2>4. Below(n, b.labels)
    BY <1>4, <1>5, <2>1, <2>3, AboveProbe, Zenon
  <2> QED BY <1>2, <1>7, <2>4, Zenon DEF Covers
<1>9. CASE e.form # "wild"
  <2>1. Probe(e) = e.labels /\ (n = e.labels \/ Below(n, e.labels))
    BY <1>9, Zenon DEF Probe, Covers
  <2>2. CASE n = e.labels
    BY <2>1, <2>2, Zenon
  <2>3. CASE Below(n, e.labels)
    <3>1. e.labels = b.labels \/ Below(e.labels, b.labels)
      BY <1>6, <2>1, Zenon DEF Covers
    <3>2. Below(n, b.labels)
      BY <1>4, <1>5, <2>3, <3>1, BelowTransitive, Zenon
    <3> QED BY <1>2, <1>7, <3>2, Zenon DEF Covers
  <2> QED BY <2>1, <2>2, <2>3, Zenon
<1> QED BY <1>8, <1>9, Zenon

\* Shadowed names an allowlist entry if and only if IsBlocked blocks every
\* name the entry allows, for every allowlist and every blocklist: the one
\* name it asks for decides.
THEOREM ShadowedCoversAll ==
  ASSUME NEW A \in SUBSET Entries(Labels), NEW B \in SUBSET Entries(Labels),
         \A b \in B : b.form # "exact", NEW e \in A
  PROVE  e \in Shadowed(A, B) <=> \A n \in AnyName : Covers(e, n) => IsBlocked(B, n)
<1> DEFINE L == Labels \cup {Star, ProbeLabel}
<1>1. AnyName = Seq(L) /\ Labels \cup {ProbeLabel} \subseteq L
  BY Zenon DEF AnyName
<1> HIDE DEF L
<1>2. ASSUME e \in Shadowed(A, B), NEW n \in AnyName, Covers(e, n) PROVE IsBlocked(B, n)
  BY <1>1, <1>2, ProbeDecides, Zenon DEF Shadowed
<1>3. ASSUME \A n \in AnyName : Covers(e, n) => IsBlocked(B, n) PROVE e \in Shadowed(A, B)
  <2>1. Probe(e) \in AnyName /\ Covers(e, Probe(e))
    BY ProbeIsCovered, Zenon
  <2> QED BY <1>3, <2>1, Zenon DEF Shadowed
<1> QED BY <1>2, <1>3, Zenon

-----------------------------------------------------------------------------
\* Lower-casing and trimming keep the sequence of labels.
LEMMA NormalShape ==
  ASSUME NEW f \in WrittenField
  PROVE  Normal(f) \in Seq(Tokens)
<1> DEFINE l == f.labels
<1>1. l \in Seq(WrittenLabel)
  BY Zenon DEF WrittenField
<1> HIDE DEF l
<1>2. DOMAIN l = 1 .. Len(l) /\ Len(l) \in Nat /\ \A i \in 1 .. Len(l) : l[i] \in WrittenLabel
  BY <1>1, SMT, SMTT(30)
<1>3. \A i \in 1 .. Len(l) : l[i].text \in Tokens
  BY <1>2, Zenon DEF WrittenLabel
<1>4. Normal(f) = [i \in 1 .. Len(l) |-> l[i].text]
  BY <1>2, Zenon DEF Normal, l
<1> QED BY <1>2, <1>3, <1>4, SMT, SMTT(30)

\* A valid name is entered with the labels it may have, and without "=".
LEMMA ValidEntryShape ==
  ASSUME NEW T, NEW s \in Seq(T), s # <<>>, \A i \in DOMAIN Host(s) : Host(s)[i] \in Labels
  PROVE  Entry(s) \in Entries(Labels) /\ Entry(s).form # "exact"
<1>1. Host(s) \in Seq(T) /\ Host(s) # <<>>
  <2>1. CASE Starred(s)
    <3>1. Tail(s) \in Seq(T) /\ Len(Tail(s)) = Len(s) - 1 /\ Len(s) > 1
      BY <2>1, SMT, SMTT(30) DEF Starred
    <3>2. Len(s) \in Nat /\ Len(Tail(s)) # 0
      BY <3>1, SMT, SMTT(30)
    <3>3. Tail(s) # <<>>
      <4> DEFINE t == Tail(s)
      <4>1. Len(t) # 0
        BY <3>2, Zenon
      <4> HIDE DEF t
      <4>2. t # <<>>
        BY <4>1, SMT, SMTT(30)
      <4> QED BY <4>2, Zenon DEF t
    <3>4. Host(s) = Tail(s)
      BY <2>1, Zenon DEF Host
    <3> QED BY <3>1, <3>3, <3>4, Zenon
  <2>2. CASE ~Starred(s)
    BY <2>2, Zenon DEF Host
  <2> QED BY <2>1, <2>2, Zenon
<1>2. Host(s) \in Seq(Labels)
  <2> DEFINE h == Host(s)
  <2>1. h \in Seq(T) /\ \A i \in DOMAIN h : h[i] \in Labels
    BY <1>1, Zenon
  <2> HIDE DEF h
  <2>2. h = [i \in 1 .. Len(h) |-> h[i]] /\ Len(h) \in Nat /\ \A i \in 1 .. Len(h) : h[i] \in Labels
    BY <2>1, SMT, SMTT(30)
  <2>3. h \in Seq(Labels)
    BY <2>2, SMT, SMTT(30)
  <2> QED BY <2>3, Zenon DEF h
<1>3. Entry(s) = Wild(Host(s)) \/ Entry(s) = Bare(Host(s))
  BY Zenon DEF Entry, Host
<1> QED BY <1>1, <1>2, <1>3, SMT, SMTT(30) DEF Entries, Wild, Bare

\* A written line has written fields.
LEMMA LineShape ==
  ASSUME NEW lines \in Seq(WrittenLine), NEW i \in DOMAIN lines
  PROVE  lines[i].fields \in Seq(WrittenField)
<1>1. lines[i] \in WrittenLine
  BY SMT, SMTT(30)
<1> QED BY <1>1, Zenon DEF WrittenLine

\* scanInto yields entries the matching is right about.
LEMMA ScannedBlocklist ==
  ASSUME NEW lines \in Seq(WrittenLine)
  PROVE  /\ ScanInto(lines) \in SUBSET Entries(Labels)
         /\ \A b \in ScanInto(lines) : b.form # "exact"
<1> SUFFICES ASSUME NEW b \in ScanInto(lines)
             PROVE  b \in Entries(Labels) /\ b.form # "exact"
  BY Zenon
<1>1. PICK i \in DOMAIN lines : \E k \in DOMAIN lines[i].fields :
        /\ b = Entry(Normal(lines[i].fields[k]))
        /\ ValidHostname(Normal(lines[i].fields[k]))
  BY SMT, ZenonT(40) DEF ScanInto
<1>2. PICK k \in DOMAIN lines[i].fields :
        /\ b = Entry(Normal(lines[i].fields[k]))
        /\ ValidHostname(Normal(lines[i].fields[k]))
  BY <1>1, Zenon
<1>3. lines[i].fields[k] \in WrittenField
  BY LineShape, SMT, SMTT(30)
<1>4. Normal(lines[i].fields[k]) \in Seq(Tokens)
  BY <1>3, NormalShape, Zenon
<1> QED BY <1>2, <1>4, ValidEntryShape, Zenon DEF ValidHostname, Labels

\* So does scanAllowlistReader.
LEMMA ScannedAllowlist ==
  ASSUME NEW lines \in Seq(WrittenLine)
  PROVE  ScanAllowlist(lines).names \in SUBSET Entries(Labels)
<1> SUFFICES ASSUME NEW e \in ScanAllowlist(lines).names PROVE e \in Entries(Labels)
  BY Zenon
<1>1. PICK i \in DOMAIN lines :
        /\ e = IF lines[i].fields[1].eq THEN Only(Normal(lines[i].fields[1]))
                ELSE Entry(Normal(lines[i].fields[1]))
        /\ ~lines[i].blank /\ \A j \in 1 .. i : ValidAllowlistLine(lines[j])
  BY Zenon DEF ScanAllowlist
<1> DEFINE f == lines[i].fields[1]
           s == Normal(f)
<1>2. ValidAllowlistLine(lines[i]) /\ lines[i].fields \in Seq(WrittenField)
  <2>1. i \in 1 .. i
    BY SMT, SMTT(30)
  <2> QED BY <1>1, <2>1, LineShape, Zenon
<1>3. Len(lines[i].fields) = 1 /\ ValidAllowlistEntry(s) /\ (f.eq => ~Starred(s))
  BY <1>1, <1>2, Zenon DEF ValidAllowlistLine
<1>4. f \in WrittenField
  BY <1>2, <1>3, SMT, SMTT(30)
<1>5. s \in Seq(Tokens)
  BY <1>4, NormalShape, Zenon
<1>6. e = IF f.eq THEN Only(s) ELSE Entry(s)
  BY <1>1, Zenon
<1> HIDE DEF s, f
<1>7. s # <<>> /\ \A m \in DOMAIN Host(s) : Host(s)[m] \in Labels
  <2>1. \A m \in DOMAIN Host(s) : Host(s)[m] \in Labels
    BY <1>3, Zenon DEF ValidAllowlistEntry, Labels
  <2>2. s # <<>>
    <3>1. Len(Host(s)) > 1
      BY <1>3, Zenon DEF ValidAllowlistEntry
    <3>2. CASE Starred(s)
      BY <3>2, <1>5, SMT, SMTT(30) DEF Starred
    <3>3. CASE ~Starred(s)
      BY <3>1, <3>3, <1>5, SMT, SMTT(30) DEF Host
    <3> QED BY <3>2, <3>3, Zenon
  <2> QED BY <2>1, <2>2, Zenon
<1>8. Entry(s) \in Entries(Labels)
  BY <1>5, <1>7, ValidEntryShape, Zenon
<1>9. CASE f.eq
  <2>1. Entry(s) = Bare(s)
    BY <1>3, <1>9, Zenon DEF Entry
  <2>2. s \in Seq(Labels) \ {<<>>}
    BY <1>8, <2>1, SMT, SMTT(30) DEF Bare, Entries
  <2> QED BY <1>6, <1>9, <2>2, Zenon DEF Only, Entries
<1>10. CASE ~f.eq
  BY <1>6, <1>8, <1>10, Zenon
<1> QED BY <1>9, <1>10, Zenon

\* What the operator is told of two files is exact: of the entries the
\* allowlist's lines yield, Shadowed names those whose every name the
\* blocklist's lines block, whatever the lines are.
THEOREM WarningIsExact ==
  ASSUME NEW allowed \in Seq(WrittenLine), NEW blocked \in Seq(WrittenLine)
  PROVE  LET A == ScanAllowlist(allowed).names
             B == ScanInto(blocked)
         IN Shadowed(A, B) =
              {e \in A : \A n \in AnyName : Covers(e, n) => IsBlocked(B, n)}
<1> DEFINE A == ScanAllowlist(allowed).names
           B == ScanInto(blocked)
<1>1. A \in SUBSET Entries(Labels)
  BY ScannedAllowlist, Zenon
<1>2. B \in SUBSET Entries(Labels) /\ \A b \in B : b.form # "exact"
  BY ScannedBlocklist, Zenon
<1> HIDE DEF A, B
<1>3. \A e \in A : e \in Shadowed(A, B) <=> \A n \in AnyName : Covers(e, n) => IsBlocked(B, n)
  BY <1>1, <1>2, ShadowedCoversAll, Zenon
<1>4. Shadowed(A, B) \subseteq A
  BY Zenon DEF Shadowed
<1>5. Shadowed(A, B) = {e \in A : \A n \in AnyName : Covers(e, n) => IsBlocked(B, n)}
  BY <1>3, <1>4, Zenon
<1> QED BY <1>5, Zenon DEF A, B

-----------------------------------------------------------------------------
(* What the live allowlist lets through                                    *)

\* The three kinds of entry are told apart.
LEMMA Kinds ==
  ASSUME NEW s
  PROVE  /\ Bare(s).form # "wild" /\ Bare(s).form # "exact" /\ Bare(s).labels = s
         /\ Wild(s).form = "wild" /\ Wild(s).form # "exact" /\ Wild(s).labels = s
         /\ Only(s).form # "wild" /\ Only(s).form = "exact" /\ Only(s).labels = s
BY Zenon DEF Bare, Wild, Only

\* The entry that scanAllowlistReader makes of a valid field covers the names
\* the field stands for.
LEMMA FieldMeansEntry ==
  ASSUME NEW f \in WrittenField, NEW L, NEW n \in Seq(L),
         ValidAllowlistEntry(Normal(f)), f.eq => ~Starred(Normal(f))
  PROVE  Covers(IF f.eq THEN Only(Normal(f)) ELSE Entry(Normal(f)), n) <=> Says(f, n)
<1> DEFINE s == Normal(f)
<1>1. s \in Seq(Tokens)
  BY NormalShape, Zenon
<1>2. Says(f, n) <=> \/ n = s
                     \/ ~f.eq /\ s[1] # Star /\ Below(n, s)
                     \/ ~f.eq /\ s[1] = Star /\ Below(n, Tail(s))
  BY Zenon DEF Says, Normal
<1>3. ValidAllowlistEntry(s) /\ (f.eq => ~Starred(s)) /\ f.eq \in BOOLEAN
  BY Zenon DEF WrittenField
<1> SUFFICES Covers(IF f.eq THEN Only(s) ELSE Entry(s), n) <=> Says(f, n)
  BY Zenon
<1> HIDE DEF s
<1>4. CASE f.eq
  <2>1. Covers(Only(s), n) <=> n = s
    BY Kinds, Zenon DEF Covers
  <2> QED BY <1>2, <1>4, <2>1, Zenon
<1>5. CASE ~f.eq /\ Starred(s)
  <2>1. Entry(s) = Wild(Tail(s)) /\ s[1] = Star /\ Len(s) > 1
    BY <1>5, Zenon DEF Entry, Starred
  <2>2. n = s => Below(n, Tail(s))
    <3> DEFINE t == Tail(s)
    <3>1. /\ Len(s) \in Nat /\ Len(t) = Len(s) - 1
          /\ \A i \in 1 .. Len(t) : s[1 + i] = t[i]
      BY <1>1, <2>1, SMT, SMTT(30)
    <3> HIDE DEF t
    <3>2. Len(s) > Len(t) /\ Len(s) - Len(t) = 1
      BY <3>1, SMT, SMTT(30)
    <3>3. Below(s, t)
      BY <3>1, <3>2, Zenon DEF Below
    <3> QED BY <3>3, Zenon DEF t
  <2>3. Covers(Wild(Tail(s)), n) <=> Below(n, Tail(s))
    <3> DEFINE e == Wild(Tail(s))
    <3>1. e.form = "wild" /\ e.form # "exact" /\ e.labels = Tail(s)
      BY Kinds, Zenon
    <3> HIDE DEF e
    <3>2. Covers(e, n) <=> Below(n, Tail(s))
      BY <3>1, Zenon DEF Covers
    <3> QED BY <3>2, Zenon DEF e
  <2> QED BY <1>2, <1>5, <2>1, <2>2, <2>3, Zenon
<1>6. CASE ~f.eq /\ ~Starred(s)
  <2>1. Entry(s) = Bare(s) /\ Len(s) > 1
    BY <1>3, <1>6, Zenon DEF Entry, ValidAllowlistEntry, Host
  <2>2. s[1] # Star
    BY <1>6, <2>1, Zenon DEF Starred
  <2>3. Covers(Bare(s), n) <=> n = s \/ Below(n, s)
    <3> DEFINE e == Bare(s)
    <3>1. e.form # "wild" /\ e.form # "exact" /\ e.labels = s
      BY Kinds, Zenon
    <3> HIDE DEF e
    <3>2. Covers(e, n) <=> n = s \/ Below(n, s)
      BY <3>1, Zenon DEF Covers
    <3> QED BY <3>2, Zenon DEF e
  <2> QED BY <1>2, <1>6, <2>1, <2>2, <2>3, Zenon
<1> QED BY <1>3, <1>4, <1>5, <1>6, Zenon

\* A file that scans without error allows exactly what its fields say.
LEMMA GoodFileMeans ==
  ASSUME NEW t \in Seq(WrittenLine), ScanAllowlist(t).form = "good", NEW L, NEW n \in Seq(L)
  PROVE  (\E e \in ScanAllowlist(t).names : Covers(e, n)) <=> \E f \in Fields(t) : Says(f, n)
<1> DEFINE entry(f) == IF f.eq THEN Only(Normal(f)) ELSE Entry(Normal(f))
           lines == {j \in DOMAIN t : ~t[j].blank}
<1>1. DOMAIN t = 1 .. Len(t) /\ Len(t) \in Nat
  BY SMT, SMTT(30)
<1>2. \A j \in 1 .. Len(t) : ValidAllowlistLine(t[j])
  BY Zenon DEF ScanAllowlist
<1>3. \A i \in DOMAIN t : \A j \in 1 .. i : ValidAllowlistLine(t[j])
  BY <1>1, <1>2, SMT, SMTT(30)
<1>4. ScanAllowlist(t).names = {entry(t[i].fields[1]) : i \in lines}
  BY <1>3, Zenon DEF ScanAllowlist
<1>5. \A i \in lines : /\ t[i].fields \in Seq(WrittenField) /\ Len(t[i].fields) = 1
                       /\ t[i].fields[1].eq => ~Starred(Normal(t[i].fields[1]))
                       /\ ValidAllowlistEntry(Normal(t[i].fields[1]))
  BY <1>1, <1>2, LineShape, Zenon DEF ValidAllowlistLine
<1>6. \A i \in lines : t[i].fields[1] \in WrittenField /\ DOMAIN t[i].fields = {1}
  BY <1>5, SMT, SMTT(30)
<1>7. Fields(t) = {t[i].fields[1] : i \in lines}
  <2>1. \A x : x \in Fields(t) <=> \E i \in lines : \E k \in DOMAIN t[i].fields : x = t[i].fields[k]
    BY SMT, SMTT(30) DEF Fields
  <2>2. \A i \in lines : \A k : k \in DOMAIN t[i].fields <=> k = 1
    BY <1>6, Zenon
  <2> HIDE DEF lines
  <2>3. \A x : x \in Fields(t) <=> \E i \in lines : x = t[i].fields[1]
    BY <2>1, <2>2, ZenonT(40)
  <2> QED
    BY <2>3, ZenonT(40)
<1>8. \A i \in lines : Covers(entry(t[i].fields[1]), n) <=> Says(t[i].fields[1], n)
  BY <1>5, <1>6, FieldMeansEntry, Zenon
<1> HIDE DEF entry, lines
<1> QED BY <1>4, <1>7, <1>8, ZenonT(40)

\* A file's entries are entries the matching is right about.
LEMMA NamesAreEntries == Names \in SUBSET Entries(Labels)
<1>1. ASSUME NEW c \in Contents PROVE c.names \in SUBSET Entries(Labels)
  <2>1. Lines[c] \in Seq(WrittenLine) /\ c = ScanAllowlist(Lines[c])
    BY LinesAssumption, Zenon
  <2>2. ScanAllowlist(Lines[c]).names \in SUBSET Entries(Labels)
    BY <2>1, ScannedAllowlist, Zenon
  <2> QED BY <2>1, <2>2, Zenon
<1> QED BY <1>1, LinesAssumption, Zenon

\* After a reload that nothing overlapped and that replied "reloaded", the
\* live allowlist lets a name pass exactly if a line of the files says so,
\* whatever the files hold and however reloads and edits went before.
THEOREM LiveListAsWritten == Spec => []AllowedAsWritten
<1>1. IInv /\ LoneInv => AllowedAsWritten
  <2> DEFINE fields == UNION {Fields(Lines[disk[f]]) : f \in FileSet}
  <2> SUFFICES ASSUME IInv, LoneInv, NEW r \in alone, pc[r] = "done", reply[r] = "reloaded",
                      NEW n \in Queries
               PROVE  Allowed(allow, n) <=> \E f \in fields : Says(f, n)
    BY Zenon DEF AllowedAsWritten
  <2>1. Told(r) /\ disk \in [FileSet -> Contents]
    BY Zenon DEF LoneInv, Lone, IInv, TypeOK
  <2>2. allow = Listed(disk) /\ \A f \in FileSet : disk[f].form = "good"
    BY <2>1, Zenon DEF Told, Loadable
  <2> DEFINE L == Labels \cup {n[i] : i \in DOMAIN n}
  <2>3. n \in Seq(L)
    <3>1. n \in Seq({n[i] : i \in DOMAIN n})
      BY QueryAssumption, Zenon
    <3> QED BY <3>1, SMT, SMTT(30)
  <2>4. allow \in SUBSET Entries(L)
    <3>1. Entries(Labels) \subseteq Entries(L)
      BY SMT, SMTT(30) DEF Entries
    <3>2. allow \subseteq Names
      BY Zenon DEF IInv, TypeOK
    <3> QED BY <3>1, <3>2, NamesAreEntries, Zenon
  <2> HIDE DEF L
  <2>5. Allowed(allow, n) <=> \E e \in allow : Covers(e, n)
    BY <2>3, <2>4, AllowedIsCovered, Zenon
  <2>6. ASSUME NEW f \in FileSet
        PROVE (\E e \in disk[f].names : Covers(e, n)) <=> \E g \in Fields(Lines[disk[f]]) : Says(g, n)
    <3>1. Lines[disk[f]] \in Seq(WrittenLine) /\ disk[f] = ScanAllowlist(Lines[disk[f]])
      BY <2>1, LinesAssumption, Zenon
    <3> QED BY <2>2, <2>3, <3>1, GoodFileMeans, Zenon
  <2>7. (\E e \in allow : Covers(e, n)) <=> \E f \in fields : Says(f, n)
    BY <2>2, <2>6, Zenon DEF Listed
  <2> QED BY <2>5, <2>7, Zenon
<1> QED
  BY Invariance, LoneInvariance, <1>1, PTL

\* Enough names are asked for to tell a shadowed entry: below a star, one that
\* the blocklist does not name fares as the made-up name of Shadowed.
LEMMA QueriesDecide ==
  ASSUME NEW A \in SUBSET Names, NEW B \in SUBSET Blocked, NEW e \in A
  PROVE  e \in Shadowed(A, B) <=> \A n \in Queries : Covers(e, n) => IsBlocked(B, n)
<1>0. /\ B \in SUBSET Entries(Labels) /\ (\A b \in B : b.form # "exact")
      /\ e \in Entries(Labels) /\ e \in Names
  BY ScannedBlocklist, NamesAreEntries, LinesAssumption, Zenon DEF Blocked
<1>1. ASSUME e \in Shadowed(A, B), NEW n \in Queries, Covers(e, n) PROVE IsBlocked(B, n)
  <2> DEFINE L == Labels \cup {ProbeLabel} \cup {n[i] : i \in DOMAIN n}
  <2>1. n \in Seq(L)
    <3>1. n \in Seq({n[i] : i \in DOMAIN n})
      BY QueryAssumption, Zenon
    <3> QED BY <3>1, SMT, SMTT(30)
  <2>2. Labels \cup {ProbeLabel} \subseteq L
    BY Zenon
  <2> HIDE DEF L
  <2> QED BY <1>0, <1>1, <2>1, <2>2, ProbeDecides, Zenon DEF Shadowed
<1>2. ASSUME \A n \in Queries : Covers(e, n) => IsBlocked(B, n) PROVE e \in Shadowed(A, B)
  <2>1. CASE e.form # "wild"
    <3>1. e.labels \in Queries
      BY <1>0, <2>1, ManyNamesAssumption, Zenon
    <3>2. Covers(e, e.labels) /\ Probe(e) = e.labels
      BY <2>1, Zenon DEF Covers, Probe
    <3> QED BY <1>2, <3>1, <3>2, Zenon DEF Shadowed
  <2>2. CASE e.form = "wild"
    <3>1. PICK n \in Queries : /\ Len(n) = Len(e.labels) + 1 /\ Tail(n) = e.labels
                               /\ \A b \in Blocked : b.labels # n
      BY <1>0, <2>2, ManyNamesAssumption, Zenon
    <3> DEFINE L == Labels \cup {ProbeLabel} \cup {n[i] : i \in DOMAIN n}
               p == <<ProbeLabel>> \o e.labels
    <3>2. n \in Seq(L)
      <4>1. n \in Seq({n[i] : i \in DOMAIN n})
        BY QueryAssumption, Zenon
      <4> QED BY <4>1, SMT, SMTT(30)
    <3>3. B \in SUBSET Entries(L) /\ e.labels \in Seq(L) /\ p \in Seq(L) /\ e.labels \in Seq(Labels)
      BY <1>0, SMT, SMTT(30) DEF Entries
    <3> HIDE DEF L
    <3>4. \A k \in 1 .. Len(e.labels) : n[k + 1] = e.labels[k] /\ p[k + 1] = e.labels[k]
      BY <3>1, <3>2, <3>3, SMT, SMTT(30)
    <3>5. Len(p) = Len(n) /\ Len(n) = Len(e.labels) + 1 /\ Len(e.labels) \in Nat
      BY <3>1, <3>3, SMT, SMTT(30)
    <3> HIDE DEF p
    <3>6. Covers(e, n)
      BY <2>2, <3>4, <3>5, SMT, SMTT(30) DEF Covers, Below
    <3>7. PICK b \in B : Covers(b, n)
      BY <1>0, <1>2, <3>2, <3>3, <3>6, BlockedIsCovered, Zenon
    <3>8. b.labels # n /\ b.form # "exact" /\ b.labels \in Seq(L)
      BY <1>0, <3>1, <3>3, Zenon DEF Entries
    <3>9. Below(n, b.labels)
      BY <3>7, <3>8, Zenon DEF Covers
    <3>10. Below(p, b.labels)
      <4>1. Len(b.labels) \in Nat /\ Len(n) > Len(b.labels)
        BY <3>8, <3>9, SMT, SMTT(30) DEF Below
      <4>2. ASSUME NEW i \in 1 .. Len(b.labels) PROVE p[Len(p) - Len(b.labels) + i] = b.labels[i]
        <5> DEFINE k == Len(e.labels) - Len(b.labels) + i
        <5>1. k \in 1 .. Len(e.labels) /\ Len(n) - Len(b.labels) + i = k + 1
          <6>1. ASSUME NEW x \in Nat, NEW y \in Nat, NEW z \in Nat, z = x + 1, z > y, NEW j \in 1 .. y
                PROVE  x - y + j \in 1 .. x /\ z - y + j = x - y + j + 1
            BY <6>1, SMT, SMTT(30)
          <6>2. Len(n) \in Nat
            BY <3>5, SMT, SMTT(30)
          <6> QED BY <3>5, <4>1, <6>1, <6>2, ZenonT(40)
        <5> HIDE DEF k
        <5>2. n[k + 1] = b.labels[i]
          BY <3>9, <5>1, Zenon DEF Below
        <5> QED BY <3>4, <3>5, <5>1, <5>2, Zenon
      <4> QED BY <3>5, <4>1, <4>2, Zenon DEF Below
    <3>11. Covers(b, p)
      BY <3>8, <3>10, Zenon DEF Covers
    <3>12. IsBlocked(B, p) /\ Probe(e) = p
      BY <1>0, <2>2, <3>3, <3>11, BlockedIsCovered, Zenon DEF Probe, p
    <3> QED BY <3>12, Zenon DEF Shadowed
  <2> QED BY <2>1, <2>2, Zenon
<1> QED BY <1>1, <1>2, Zenon

\* On every allowlist that can be live, and whatever part of its lines the
\* blocklist holds, the warning names an entry exactly if every name the
\* entry allows is blocked.
THEOREM LiveWarningIsExact == Spec => []ShadowedIsExact
<1>1. IInv => ShadowedIsExact
  <2> SUFFICES ASSUME IInv PROVE allow \in ToldExactly
    BY Zenon DEF ShadowedIsExact
  <2>1. allow \in SUBSET Names
    BY Zenon DEF IInv, TypeOK
  <2>2. ShadowedExactlyIn(allow)
    BY <2>1, QueriesDecide, Zenon DEF ShadowedExactlyIn
  <2> QED BY <2>1, <2>2, Zenon DEF ToldExactly
<1> QED
  BY Invariance, <1>1, PTL

=============================================================================
