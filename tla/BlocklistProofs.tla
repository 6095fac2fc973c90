-------------------------- MODULE BlocklistProofs ---------------------------
(***************************************************************************)
(* Theorems about Blocklist, for any files, URLs, contents, reloads and    *)
(* edits.                                                                  *)
(***************************************************************************)
EXTENDS Blocklist, FiniteSetTheorems, TLAPS

\* The names that the i-th file has listed all the time.
SteadyIn(i) == {n \in Names : <<Files[i], n>> \in steady}

\* The history is right about the files as they are.
HistorySound ==
  \A p \in steady : disk[p[1]].form = "good" /\ p[2] \in disk[p[1]].names

\* The startup loader has put the files behind it into the live set, where no
\* reload loses them, and holds those of the file it is about to merge.
BootSound ==
  /\ \A i \in 1..Len(Files) : i < at => SteadyIn(i) \subseteq block
  /\ boot = "merge" /\ at <= Len(Files) => SteadyIn(at) \subseteq held
  /\ boot = "count" /\ at <= Len(Files) => SteadyIn(at) \subseteq block
  /\ boot \in {"merge", "count"} => at <= Len(Sources)
  /\ boot \in {"tally", "done"} => at > Len(Files)

\* So has a reload, in its own maps, and it has counted no more files than that.
ScanSound(r) ==
  /\ filesOK[r] < rat[r]
  /\ \A i \in 1..Len(Files) : i < rat[r] => SteadyIn(i) \subseteq found[r]

\* The names of all steady files are blocked after a swap.
SwapSound == (\E r \in Reloads : rpc[r] \in {"count", "done"}) => SteadyNames \subseteq block

IInv == TypeOK /\ HistorySound /\ BootSound /\ (\A r \in Reloads : ScanSound(r)) /\ SwapSound

-----------------------------------------------------------------------------
\* Files come before URLs.
LEMMA SourceFacts ==
  /\ Len(Files) \in Nat /\ DOMAIN Files = 1..Len(Files)
  /\ Len(Sources) \in Nat /\ Len(Sources) >= Len(Files)
  /\ \A i \in 1..Len(Files) : Sources[i] = Files[i] /\ Files[i] \in SourceSet
  /\ \A i \in 1..Len(Sources) : Sources[i] \in SourceSet
<1>1. Files \in Seq(SourceSet) /\ Urls \in Seq(SourceSet)
  BY SourcesAssumption, SMT, SMTT(30) DEF SourceSet
<1> QED
  BY <1>1, SMT, SMTT(30) DEF Sources

\* A set that has the steady names of every file has all of them.
LEMMA SteadyCovered ==
  ASSUME NEW X, \A i \in 1..Len(Files) : SteadyIn(i) \subseteq X
  PROVE  SteadyNames \subseteq X
<1> SUFFICES ASSUME NEW n \in SteadyNames PROVE n \in X
  BY Zenon
<1>1. PICK f \in FileSet : n \in Names /\ <<f, n>> \in steady
  BY Zenon DEF SteadyNames
<1>2. PICK i \in 1..Len(Files) : f = Files[i]
  BY SourceFacts, Zenon DEF FileSet
<1> QED
  BY <1>1, <1>2, Zenon DEF SteadyIn

\* A steady name is in its file, which is good.
LEMMA SteadyListed ==
  ASSUME HistorySound, NEW i \in 1..Len(Files)
  PROVE  /\ SteadyIn(i) # {} => disk[Files[i]].form = "good"
         /\ SteadyIn(i) \subseteq disk[Files[i]].names
BY Zenon DEF HistorySound, SteadyIn

-----------------------------------------------------------------------------
\* The initial states satisfy the inductive invariant.
LEMMA InitEstablishes == Init => IInv
<1> SUFFICES ASSUME Init PROVE IInv
  BY Zenon
<1>1. TypeOK
  BY SourceFacts, EditsAssumption, SMT, SMTT(30) DEF Init, TypeOK
<1>2. HistorySound
  BY Zenon DEF Init, HistorySound
<1>3. BootSound
  BY SourceFacts, SMT, SMTT(30) DEF Init, BootSound
<1>4. SwapSound /\ \A r \in Reloads : ScanSound(r)
  BY SourceFacts, SMT, SMTT(30) DEF Init, SwapSound, ScanSound
<1> QED
  BY <1>1, <1>2, <1>3, <1>4, Zenon DEF IInv

\* A step of the startup loader changes neither the files nor the reloads, and
\* never takes a name out of the live set.
LEMMA BootFrame ==
  ASSUME IInv, BootStep, TypeOK', BootSound' PROVE IInv'
<1>1. /\ disk' = disk /\ steady' = steady /\ rpc' = rpc /\ rat' = rat /\ found' = found
      /\ filesOK' = filesOK /\ block \subseteq block'
  BY Zenon DEF BootStep, BootScan, BootSkip, BootMerge, BootCount, BootLoaded, BootTally,
         reloads, ghosts
<1>2. HistorySound' /\ SwapSound' /\ \A r \in Reloads : ScanSound(r)'
  BY <1>1, Zenon DEF IInv, HistorySound, SwapSound, SteadyNames, ScanSound, SteadyIn
<1> QED
  BY <1>2, Zenon DEF IInv

\* Every step of the startup loader keeps the invariant.
LEMMA BootKeeps == ASSUME IInv, BootStep PROVE IInv'
<1>1. TypeOK /\ BootSound /\ HistorySound
  BY Zenon DEF IInv
<1>2. /\ at \in Nat /\ at >= 1 /\ Len(Files) \in Nat /\ Len(Sources) \in Nat
      /\ Len(Sources) >= Len(Files)
  BY <1>1, SourceFacts, SMT, SMTT(30) DEF TypeOK
<1>3. steady' = steady /\ disk' = disk
  BY Zenon DEF BootStep, BootScan, BootSkip, BootMerge, BootCount, BootLoaded, BootTally, ghosts
<1>4. CASE BootScan
  <2>1. Src(at).names \subseteq Names
    BY <1>1, <1>2, <1>4, SourceFacts, ContentAssumption, SMT, SMTT(30) DEF BootScan, Src, TypeOK
  <2>2. TypeOK'
    BY <1>1, <1>4, <2>1, Zenon DEF BootScan, TypeOK, reloads, ghosts
  <2>3. at <= Len(Files) => SteadyIn(at) \subseteq Src(at).names
    BY <1>1, <1>2, SteadyListed, SourceFacts, SMT, SMTT(30) DEF Src
  <2>4. BootSound'
    BY <1>1, <1>2, <1>3, <1>4, <2>3, Zenon DEF BootScan, BootSound, SteadyIn
  <2> QED
    BY <2>2, <2>4, BootFrame, Zenon
<1>5. CASE BootSkip
  <2>1. TypeOK'
    BY <1>1, <1>2, <1>5, SMT, SMTT(30) DEF BootSkip, TypeOK, reloads, ghosts
  <2>2. at <= Len(Files) => SteadyIn(at) = {}
    BY <1>1, <1>2, <1>5, SteadyListed, SourceFacts, SMT, SMTT(30) DEF BootSkip, Src
  <2>3. BootSound'
    BY <1>1, <1>2, <1>3, <1>5, <2>2, SMT, SMTT(30) DEF BootSkip, BootSound, SteadyIn, IsUrl
  <2> QED
    BY <2>1, <2>3, BootFrame, Zenon
<1>6. CASE BootMerge
  <2>1. TypeOK'
    BY <1>1, <1>2, <1>6, SMT, SMTT(30) DEF BootMerge, BootSound, TypeOK, reloads, ghosts
  <2>2. BootSound'
    BY <1>1, <1>2, <1>3, <1>6, SMT, SMTT(30) DEF BootMerge, BootSound, SteadyIn, IsUrl
  <2> QED
    BY <2>1, <2>2, BootFrame, Zenon
<1>7. CASE BootCount
  <2>1. TypeOK'
    BY <1>1, <1>2, <1>7, SMT, SMTT(30) DEF BootCount, BootSound, TypeOK, reloads, ghosts
  <2>2. BootSound'
    BY <1>1, <1>2, <1>3, <1>7, SMT, SMTT(30) DEF BootCount, BootSound, SteadyIn
  <2> QED
    BY <2>1, <2>2, BootFrame, Zenon
<1>8. CASE BootLoaded \/ BootTally
  <2>0. /\ boot' \in {"scan", "merge", "count", "tally", "done"} /\ at' \in 1..(Len(Sources) + 1)
        /\ counted' \in Nat
    BY <1>1, <1>2, <1>8, SMT, SMTT(30) DEF BootLoaded, BootTally, TypeOK
  <2>1. TypeOK'
    BY <1>1, <1>8, <2>0, Zenon DEF BootLoaded, BootTally, TypeOK, reloads, ghosts
  <2>2. BootSound'
    BY <1>1, <1>2, <1>3, <1>8, SMT, SMTT(30) DEF BootLoaded, BootTally, BootSound, SteadyIn
  <2> QED
    BY <2>1, <2>2, BootFrame, Zenon
<1> QED
  BY <1>4, <1>5, <1>6, <1>7, <1>8, ZenonT(40) DEF BootStep

-----------------------------------------------------------------------------
(* Reloads and edits                                                       *)

\* A reload begins, or sets the count after its swap.
LEMMA ReloadEndsKeep ==
  ASSUME IInv, NEW r \in Reloads, ReloadBegin(r) \/ ReloadCount(r) PROVE IInv'
<1>1. /\ disk' = disk /\ steady' = steady /\ block' = block /\ boot' = boot /\ at' = at
      /\ held' = held /\ rat' = rat /\ found' = found /\ filesOK' = filesOK
  BY Zenon DEF ReloadBegin, ReloadCount, loader, ghosts
<1>2. TypeOK'
  <2>1. TypeOK /\ filesOK[r] \in Nat
    BY SourceFacts, SMT, SMTT(30) DEF IInv, TypeOK
  <2> QED
    BY <2>1, Zenon DEF ReloadBegin, ReloadCount, TypeOK, loader, ghosts
<1>3. (\E q \in Reloads : rpc'[q] \in {"count", "done"})
        => \E q \in Reloads : rpc[q] \in {"count", "done"}
  BY Zenon DEF ReloadBegin, ReloadCount, IInv, TypeOK
<1>4. HistorySound' /\ BootSound' /\ \A q \in Reloads : ScanSound(q)'
  BY <1>1, Zenon DEF IInv, HistorySound, BootSound, ScanSound, SteadyIn
<1>5. SwapSound'
  BY <1>1, <1>3, Zenon DEF IInv, SwapSound, SteadyNames
<1> QED
  BY <1>2, <1>4, <1>5, Zenon DEF IInv

\* A reload scans a file: a good one is taken whole.
LEMMA ReloadScanKeeps == ASSUME IInv, NEW r \in Reloads, ReloadScan(r) PROVE IInv'
<1> DEFINE c == disk[Files[rat[r]]]
<1>1. TypeOK /\ HistorySound /\ ScanSound(r) /\ rat[r] \in 1..Len(Files)
  <2>1. TypeOK /\ HistorySound /\ ScanSound(r)
    BY Zenon DEF IInv
  <2>2. rat[r] \in 1..(Len(Files) + 1) /\ rat[r] <= Len(Files)
    BY <2>1, Zenon DEF TypeOK, ReloadScan
  <2> QED
    BY <2>1, <2>2, SourceFacts, SMT, SMTT(30)
<1>2. c \in Contents /\ c.names \subseteq Names /\ c.form \in Forms
  BY <1>1, SourceFacts, ContentAssumption, SMT, SMTT(30) DEF TypeOK
<1>3. PICK s \in Scanned(c) : found' = [found EXCEPT ![r] = @ \cup s]
  BY Zenon DEF ReloadScan
<1>4. s \subseteq c.names /\ (c.form = "good" => s = c.names)
  BY <1>2, <1>3, Zenon DEF Scanned, Forms
<1>5. /\ disk' = disk /\ steady' = steady /\ block' = block /\ boot' = boot /\ at' = at
      /\ held' = held /\ rpc' = rpc /\ counted' = counted /\ edits' = edits
      /\ current' = current /\ alone' = alone /\ rat' = [rat EXCEPT ![r] = @ + 1]
  BY Zenon DEF ReloadScan, loader, ghosts
<1>6. filesOK' \in [Reloads -> 0..Len(Files)] /\ \A q \in Reloads : filesOK'[q] < rat'[q]
  <2>1. \A q \in Reloads : filesOK[q] < rat[q]
    BY Zenon DEF IInv, ScanSound
  <2>2. filesOK' = [filesOK EXCEPT ![r] = @ + 1] \/ filesOK' = filesOK
    BY Zenon DEF ReloadScan
  <2>3. filesOK \in [Reloads -> 0..Len(Files)] /\ rat \in [Reloads -> 1..(Len(Files) + 1)]
    BY <1>1, Zenon DEF TypeOK
  <2>4. filesOK[r] + 1 \in 0..Len(Files)
    BY <1>1, <2>1, <2>3, SourceFacts, SMT, SMTT(30)
  <2>5. filesOK' \in [Reloads -> 0..Len(Files)]
    BY <2>2, <2>3, <2>4, Zenon
  <2>6. ASSUME NEW q \in Reloads PROVE filesOK'[q] < rat'[q]
    <3>1. filesOK[q] \in Nat /\ rat[q] \in Nat /\ filesOK[q] < rat[q]
      BY <2>1, <2>3, SourceFacts, SMT, SMTT(30)
    <3>2. /\ rat'[q] = IF q = r THEN rat[q] + 1 ELSE rat[q]
          /\ filesOK'[q] = filesOK[q] \/ (q = r /\ filesOK'[q] = filesOK[q] + 1)
      BY <1>5, <2>2, <2>3, Zenon
    <3> QED
      BY <3>1, <3>2, SMT, SMTT(30)
  <2> QED
    BY <2>5, <2>6, Zenon
<1>7. TypeOK'
  <2>1. found' \in [Reloads -> SUBSET Names]
    BY <1>1, <1>2, <1>3, <1>4, Zenon DEF TypeOK
  <2>2. rat' \in [Reloads -> 1..(Len(Files) + 1)]
    BY <1>1, <1>5, SourceFacts, SMT, SMTT(30) DEF TypeOK
  <2> QED
    BY <1>1, <1>5, <1>6, <2>1, <2>2, Zenon DEF TypeOK
<1>8. HistorySound' /\ BootSound' /\ SwapSound'
  BY <1>5, Zenon DEF IInv, HistorySound, BootSound, SwapSound, SteadyNames, SteadyIn
<1>9. ASSUME NEW q \in Reloads, NEW i \in 1..Len(Files), i < rat'[q]
      PROVE  SteadyIn(i) \subseteq found'[q]
  <2>1. CASE q = r /\ i = rat[r]
    BY <1>1, <1>3, <1>4, <2>1, SteadyListed, Zenon DEF TypeOK
  <2>2. CASE ~(q = r /\ i = rat[r])
    <3>1. i < rat[q]
      BY <1>1, <1>5, <1>9, <2>2, SourceFacts, SMT, SMTT(30) DEF TypeOK
    <3>2. SteadyIn(i) \subseteq found[q]
      BY <3>1, Zenon DEF IInv, ScanSound
    <3> QED
      BY <1>1, <1>3, <3>2, Zenon DEF TypeOK
  <2> QED
    BY <2>1, <2>2, Zenon
<1>10. \A q \in Reloads : ScanSound(q)'
  BY <1>5, <1>6, <1>9, Zenon DEF ScanSound, SteadyIn
<1> QED
  BY <1>7, <1>8, <1>10, Zenon DEF IInv

\* A reload swaps its maps in when all files are behind it.
LEMMA ReloadSwapKeeps == ASSUME IInv, NEW r \in Reloads, ReloadSwap(r) PROVE IInv'
<1>1. TypeOK /\ ScanSound(r) /\ rat[r] > Len(Files)
  BY Zenon DEF ReloadSwap, IInv
<1>2. /\ disk' = disk /\ steady' = steady /\ block' = found[r] /\ boot' = boot /\ at' = at
      /\ held' = held /\ rat' = rat /\ found' = found /\ filesOK' = filesOK
  BY Zenon DEF ReloadSwap, loader, ghosts
<1>3. TypeOK'
  BY <1>1, Zenon DEF ReloadSwap, TypeOK, loader, ghosts
<1>4. \A i \in 1..Len(Files) : SteadyIn(i) \subseteq found[r]
  <2> SUFFICES ASSUME NEW i \in 1..Len(Files) PROVE SteadyIn(i) \subseteq found[r]
    BY Zenon
  <2>1. i < rat[r]
    BY <1>1, SourceFacts, SMT, SMTT(30) DEF TypeOK
  <2> QED
    BY <1>1, <2>1, Zenon DEF ScanSound
<1>5. SteadyNames \subseteq found[r]
  BY <1>4, SteadyCovered, Zenon
<1>6. at \in Nat /\ Len(Files) \in Nat /\ at >= 1
  BY <1>1, SourceFacts, SMT, SMTT(30) DEF TypeOK
<1>7. HistorySound' /\ BootSound' /\ \A q \in Reloads : ScanSound(q)'
  BY <1>2, <1>4, <1>6, SMT, SMTT(30) DEF IInv, HistorySound, BootSound, ScanSound, SteadyIn
<1>8. SwapSound'
  BY <1>2, <1>5, Zenon DEF SwapSound, SteadyNames
<1> QED
  BY <1>3, <1>7, <1>8, Zenon DEF IInv

\* A source changes: the history only forgets.
LEMMA EditKeeps ==
  ASSUME IInv, NEW f \in SourceSet, NEW c \in Contents, Edit(f, c) PROVE IInv'
<1>1. /\ disk' = [disk EXCEPT ![f] = c] /\ steady' \subseteq steady /\ block' = block
      /\ boot' = boot /\ at' = at /\ held' = held
      /\ rpc' = rpc /\ rat' = rat /\ found' = found /\ filesOK' = filesOK
  BY Zenon DEF Edit, loader, reloads
<1>2. TypeOK'
  BY <1>1, EditsAssumption, SMT, SMTT(30) DEF Edit, IInv, TypeOK
<1>3. HistorySound'
  <2>1. \A p \in steady' : p[1] \in SourceSet
    BY <1>1, ZenonT(40) DEF IInv, TypeOK, SourceSet
  <2> QED
    BY <1>1, <2>1, ZenonT(40) DEF Edit, IInv, HistorySound, TypeOK
<1>4. BootSound' /\ SwapSound' /\ \A r \in Reloads : ScanSound(r)'
  BY <1>1, Zenon DEF IInv, BootSound, SwapSound, ScanSound, SteadyNames, SteadyIn
<1> QED
  BY <1>2, <1>3, <1>4, Zenon DEF IInv

-----------------------------------------------------------------------------
\* The inductive invariant holds in every reachable state.
THEOREM Invariance == Spec => []IInv
<1>1. IInv /\ [Next]_vars => IInv'
  <2> SUFFICES ASSUME IInv, [Next]_vars PROVE IInv'
    BY Zenon
  <2>1. CASE UNCHANGED vars
    BY <2>1, ZenonT(40) DEF vars, loader, reloads, ghosts, IInv, TypeOK, HistorySound, BootSound,
                ScanSound, SwapSound, SteadyNames, SteadyIn
  <2> QED
    BY <2>1, BootKeeps, ReloadEndsKeep, ReloadScanKeeps, ReloadSwapKeeps, EditKeeps, Zenon
       DEF Next, ReloadStep
<1> QED
  BY InitEstablishes, <1>1, PTL DEF Spec

\* Every variable of the loaders keeps its type: no index runs past the sources.
THEOREM BlocklistTypes == Spec => []TypeOK
<1>1. IInv => TypeOK
  BY Zenon DEF IInv
<1> QED
  BY Invariance, <1>1, PTL

\* Once the files have been gone through, no reload, edit of other files or
\* overlap of loads ever unblocks a name that its file has listed all the time.
THEOREM NoGapInBlocking == Spec => []ListedStaysBlocked
<1>1. ASSUME IInv PROVE ListedStaysBlocked
  <2>1. ASSUME boot \in {"tally", "done"} PROVE SteadyNames \subseteq block
    <3>1. \A i \in 1..Len(Files) : SteadyIn(i) \subseteq block
      BY <1>1, <2>1, SourceFacts, SMT, SMTT(30) DEF IInv, TypeOK, BootSound
    <3> QED
      BY <3>1, SteadyCovered, Zenon
  <2> QED
    BY <1>1, <2>1, Zenon DEF ListedStaysBlocked, IInv, SwapSound
<1> QED
  BY Invariance, <1>1, PTL

-----------------------------------------------------------------------------
(* Reloads that nothing overlaps                                           *)

\* A reload that has not begun is at its first file with empty maps.
Fresh ==
  \A r \in Reloads : rpc[r] = "idle" => rat[r] = 1 /\ found[r] = {} /\ filesOK[r] = 0

\* The files before the k-th, and those of them that can be read to the end.
Before(k) == {i \in DOMAIN Files : i < k}
GoodBefore(k) == {i \in Before(k) : disk[Files[i]].form = "good"}

\* What a reload has in its maps and its count, when no source changed since it
\* began: all of the good files behind it, and nothing but names of the files
\* behind it that could be opened.
Exact(r) ==
  /\ \A i \in GoodBefore(rat[r]) : disk[Files[i]].names \subseteq found[r]
  /\ \A n \in found[r] : \E i \in Before(rat[r]) :
       disk[Files[i]].form # "missing" /\ n \in disk[Files[i]].names
  /\ filesOK[r] = Cardinality(GoodBefore(rat[r]))

\* A reload that nothing overlapped is the only load at work, and from its swap on
\* the live set and then the count are its own.
Lone(r) ==
  /\ boot = "done" /\ (\A q \in Reloads : Running(q) => q = r)
  /\ rpc[r] # "idle" /\ Exact(r)
  /\ rpc[r] \in {"count", "done"} => rat[r] > Len(Files) /\ block = found[r]
  /\ rpc[r] = "done" => counted = filesOK[r]

LoneInv == Fresh /\ \A r \in alone : Lone(r)

\* One file more is behind: it counts if it is good.
LEMMA OneMoreBefore ==
  ASSUME NEW k \in 1..Len(Files)
  PROVE  /\ Before(k + 1) = Before(k) \cup {k}
         /\ GoodBefore(k + 1) =
              IF disk[Files[k]].form = "good" THEN GoodBefore(k) \cup {k} ELSE GoodBefore(k)
         /\ Cardinality(GoodBefore(k + 1)) =
              IF disk[Files[k]].form = "good" THEN Cardinality(GoodBefore(k)) + 1
                                              ELSE Cardinality(GoodBefore(k))
<1>1. \A i \in DOMAIN Files : i < k + 1 <=> i < k \/ i = k
  BY SourceFacts, SMT, SMTT(30)
<1>2. k \in DOMAIN Files /\ k \notin Before(k)
  BY SourceFacts, SMT, SMTT(30) DEF Before
<1>3. Before(k + 1) = Before(k) \cup {k}
  BY <1>1, <1>2, Zenon DEF Before
<1>4. GoodBefore(k + 1) =
        IF disk[Files[k]].form = "good" THEN GoodBefore(k) \cup {k} ELSE GoodBefore(k)
  BY <1>3, Zenon DEF GoodBefore
<1>5. IsFiniteSet(GoodBefore(k)) /\ k \notin GoodBefore(k)
  <2>1. IsFiniteSet(1..Len(Files))
    BY FS_Interval, SourceFacts, SMT, SMTT(30)
  <2>2. GoodBefore(k) \in SUBSET (1..Len(Files))
    BY SourceFacts, Zenon DEF GoodBefore, Before
  <2> QED
    BY <1>2, <2>1, <2>2, FS_Subset, Zenon DEF GoodBefore
<1>6. Cardinality(GoodBefore(k) \cup {k}) = Cardinality(GoodBefore(k)) + 1
  BY <1>5, FS_AddElement, Zenon
<1> QED
  BY <1>3, <1>4, <1>6, Zenon

\* A reload that begins when nothing is at work has nothing behind it.
LEMMA LoneBegin == ASSUME IInv, LoneInv, NEW r \in Reloads, ReloadBegin(r) PROVE LoneInv'
<1>1. TypeOK /\ Fresh
  BY Zenon DEF IInv, LoneInv
<1>2. /\ disk' = disk /\ boot' = boot /\ rat' = rat /\ found' = found /\ filesOK' = filesOK
      /\ rpc[r] = "idle" /\ rpc' = [rpc EXCEPT ![r] = "scan"]
  BY Zenon DEF ReloadBegin, loader
<1>3. Fresh'
  BY <1>1, <1>2, Zenon DEF Fresh, TypeOK
<1>4. ASSUME NEW q \in alone' PROVE Lone(q)'
  <2>1. q = r /\ boot = "done" /\ \A p \in Reloads : ~Running(p)
    BY <1>4, Zenon DEF ReloadBegin, Quiet
  <2>2. rat[r] = 1 /\ found[r] = {} /\ filesOK[r] = 0
    BY <1>1, <1>2, Zenon DEF Fresh
  <2>3. Before(rat[r]) = {}
    BY <2>2, SourceFacts, SMT, SMTT(30) DEF Before
  <2>4. GoodBefore(rat[r]) = {} /\ Cardinality({}) = 0
    BY <2>3, FS_EmptySet, Zenon DEF GoodBefore
  <2>5. Exact(r)
    BY <2>2, <2>4, Zenon DEF Exact
  <2>6. rpc'[r] = "scan" /\ \A p \in Reloads : Running(p)' => p = r
    BY <1>1, <1>2, <2>1, Zenon DEF TypeOK, Running
  <2> QED
    BY <1>2, <2>1, <2>5, <2>6, Zenon DEF Lone, Exact, GoodBefore, Before
<1> QED
  BY <1>3, <1>4, Zenon DEF LoneInv

\* A lone reload scans a file and stays exact.
LEMMA LoneScan == ASSUME IInv, LoneInv, NEW r \in Reloads, ReloadScan(r) PROVE LoneInv'
<1> DEFINE k == rat[r]
           c == disk[Files[k]]
<1>1. TypeOK /\ Fresh /\ k \in 1..Len(Files)
  <2>1. TypeOK /\ Fresh
    BY Zenon DEF IInv, LoneInv
  <2>2. k \in 1..(Len(Files) + 1) /\ k <= Len(Files)
    BY <2>1, Zenon DEF TypeOK, ReloadScan
  <2> QED
    BY <2>1, <2>2, SourceFacts, SMT, SMTT(30)
<1>2. /\ disk' = disk /\ boot' = boot /\ block' = block /\ counted' = counted /\ rpc' = rpc
      /\ alone' = alone /\ rpc[r] = "scan" /\ rat' = [rat EXCEPT ![r] = @ + 1]
      /\ filesOK' = IF c.form = "good" THEN [filesOK EXCEPT ![r] = @ + 1] ELSE filesOK
  BY Zenon DEF ReloadScan, loader, ghosts
<1>3. PICK s \in Scanned(c) : found' = [found EXCEPT ![r] = @ \cup s]
  BY Zenon DEF ReloadScan
<1>4. c.form \in Forms
  BY <1>1, SourceFacts, ContentAssumption, SMT, SMTT(30) DEF TypeOK
<1>5. /\ c.form = "good" => s = c.names
      /\ \A n \in s : c.form # "missing" /\ n \in c.names
  BY <1>3, <1>4, Zenon DEF Scanned, Forms
<1>6. /\ rat'[r] = k + 1 /\ found'[r] = found[r] \cup s
      /\ filesOK'[r] = IF c.form = "good" THEN filesOK[r] + 1 ELSE filesOK[r]
      /\ \A q \in Reloads \ {r} :
           rat'[q] = rat[q] /\ found'[q] = found[q] /\ filesOK'[q] = filesOK[q]
  BY <1>1, <1>2, <1>3, Zenon DEF TypeOK
<1>7. Fresh'
  BY <1>1, <1>2, <1>6, Zenon DEF Fresh, TypeOK
<1>8. ASSUME NEW q \in alone PROVE Lone(q)'
  <2>1. q = r /\ Lone(r) /\ Exact(r)
    BY <1>2, Zenon DEF LoneInv, Lone, Running
  <2>2. /\ GoodBefore(rat[r])' = GoodBefore(k + 1) /\ Before(rat[r])' = Before(k + 1)
    BY <1>2, <1>6, Zenon DEF GoodBefore, Before
  <2>3. \A i \in GoodBefore(k + 1) : disk[Files[i]].names \subseteq found'[r]
    <3>1. \A i \in GoodBefore(k + 1) : i \in GoodBefore(k) \/ (i = k /\ c.form = "good")
      BY <1>1, OneMoreBefore, Zenon
    <3>2. \A i \in GoodBefore(k) : disk[Files[i]].names \subseteq found[r]
      BY <2>1, Zenon DEF Exact
    <3> QED
      BY <1>5, <1>6, <3>1, <3>2, Zenon
  <2>4. \A n \in found'[r] : \E i \in Before(k + 1) :
          disk[Files[i]].form # "missing" /\ n \in disk[Files[i]].names
    <3>1. Before(k + 1) = Before(k) \cup {k}
      BY <1>1, OneMoreBefore, Zenon
    <3>2. \A n \in found[r] : \E i \in Before(k) :
            disk[Files[i]].form # "missing" /\ n \in disk[Files[i]].names
      BY <2>1, Zenon DEF Exact
    <3> QED
      BY <1>5, <1>6, <3>1, <3>2, Zenon
  <2>5. filesOK'[r] = Cardinality(GoodBefore(k + 1))
    BY <1>1, <1>6, <2>1, OneMoreBefore, Zenon DEF Exact
  <2>6. Exact(r)'
    BY <1>2, <2>2, <2>3, <2>4, <2>5, Zenon DEF Exact
  <2> QED
    BY <1>2, <2>1, <2>6, Zenon DEF Lone, Running
<1> QED
  BY <1>2, <1>7, <1>8, Zenon DEF LoneInv

\* The swap makes the live set, and ReloadCount the count, what a lone reload found.
LEMMA LoneEnd ==
  ASSUME IInv, LoneInv, NEW r \in Reloads, ReloadSwap(r) \/ ReloadCount(r) PROVE LoneInv'
<1>1. TypeOK /\ Fresh
  BY Zenon DEF IInv, LoneInv
<1>2. /\ disk' = disk /\ boot' = boot /\ rat' = rat /\ found' = found /\ filesOK' = filesOK
      /\ alone' = alone /\ rpc[r] \in {"scan", "count"}
      /\ \A q \in Reloads : q # r => rpc'[q] = rpc[q]
      /\ rpc'[r] = IF rpc[r] = "scan" THEN "count" ELSE "done"
      /\ rpc[r] = "scan" => rat[r] > Len(Files) /\ block' = found[r]
      /\ rpc[r] = "count" => block' = block /\ counted' = filesOK[r]
  BY <1>1, Zenon DEF ReloadSwap, ReloadCount, loader, ghosts, TypeOK
<1>3. Fresh'
  BY <1>1, <1>2, Zenon DEF Fresh
<1>4. ASSUME NEW q \in alone PROVE Lone(q)'
  <2>1. q = r /\ Lone(r)
    BY <1>2, Zenon DEF LoneInv, Lone, Running
  <2>2. Exact(r)'
    BY <1>2, <2>1, Zenon DEF Lone, Exact, GoodBefore, Before
  <2>3. \A p \in Reloads : Running(p)' => p = r
    BY <1>2, <2>1, Zenon DEF Lone, Running
  <2> QED
    BY <1>2, <2>1, <2>2, <2>3, Zenon DEF Lone
<1> QED
  BY <1>2, <1>3, <1>4, Zenon DEF LoneInv

\* The facts about lone reloads hold in every reachable state: the startup loader
\* has ended before one begins, and an edit ends its being alone.
THEOREM LoneInvariance == Spec => []LoneInv
<1>1. Init => LoneInv
  BY Zenon DEF Init, LoneInv, Fresh
<1>2. IInv /\ LoneInv /\ [Next]_vars => LoneInv'
  <2> SUFFICES ASSUME IInv, LoneInv, [Next]_vars PROVE LoneInv'
    BY Zenon
  <2>1. CASE UNCHANGED vars
    <3>1. /\ disk' = disk /\ block' = block /\ counted' = counted /\ boot' = boot /\ rpc' = rpc
          /\ rat' = rat /\ found' = found /\ filesOK' = filesOK /\ alone' = alone
      BY <2>1, Zenon DEF vars, loader, reloads, ghosts
    <3>2. Fresh'
      BY <3>1, Zenon DEF LoneInv, Fresh
    <3>3. ASSUME NEW r \in alone PROVE Lone(r)'
      <4>1. Lone(r)
        BY Zenon DEF LoneInv
      <4>2. Exact(r)'
        BY <3>1, <4>1, Zenon DEF Lone, Exact, GoodBefore, Before
      <4> QED
        BY <3>1, <4>1, <4>2, Zenon DEF Lone, Running
    <3> QED
      BY <3>1, <3>2, <3>3, Zenon DEF LoneInv
  <2>2. CASE BootStep
    <3>1. boot # "done" /\ alone' = alone /\ rpc' = rpc /\ rat' = rat /\ found' = found
          /\ filesOK' = filesOK
      BY <2>2, Zenon DEF BootStep, BootScan, BootSkip, BootMerge, BootCount, BootLoaded, BootTally,
                  reloads, ghosts
    <3> QED
      BY <3>1, Zenon DEF LoneInv, Fresh, Lone
  <2>3. ASSUME NEW f \in SourceSet, NEW c \in Contents, Edit(f, c) PROVE LoneInv'
    BY <2>3, Zenon DEF Edit, reloads, LoneInv, Fresh
  <2> QED
    BY <2>1, <2>2, <2>3, LoneBegin, LoneScan, LoneEnd, Zenon DEF Next, ReloadStep
<1> QED
  BY Invariance, <1>1, <1>2, PTL DEF Spec

\* A reload that no other load overlapped leaves in the live set all names of the
\* files it could read and, if it could read one, no name that no file it could open
\* holds, and reports the number of files it read.
THEOREM LoneReloadsAreExact == Spec => []LoneReloadExact
<1>1. ASSUME IInv, LoneInv, NEW r \in alone, rpc[r] = "done"
      PROVE  /\ Listed(GoodFiles) \subseteq block
             /\ GoodFiles # {} => block \subseteq Listed({f \in FileSet : disk[f].form # "missing"})
             /\ counted = Cardinality({i \in DOMAIN Files : disk[Files[i]].form = "good"})
  <2>1. Exact(r) /\ rat[r] > Len(Files) /\ block = found[r] /\ counted = filesOK[r]
    BY <1>1, Zenon DEF LoneInv, Lone
  <2>2. \A i \in DOMAIN Files : i < rat[r]
    BY <1>1, <2>1, SourceFacts, SMT, SMTT(30) DEF IInv, TypeOK
  <2>3. /\ Before(rat[r]) = DOMAIN Files
        /\ GoodBefore(rat[r]) = {i \in DOMAIN Files : disk[Files[i]].form = "good"}
    BY <2>2, Zenon DEF Before, GoodBefore
  <2>4. Listed(GoodFiles) \subseteq block
    BY <2>1, <2>3, SMT, SMTT(30) DEF Exact, Listed, GoodFiles, FileSet
  <2>5. block \subseteq Listed({f \in FileSet : disk[f].form # "missing"})
    BY <2>1, <2>3, Zenon DEF Exact, Listed, FileSet
  <2> QED
    BY <2>1, <2>3, <2>4, <2>5, Zenon DEF Exact
<1>2. IInv /\ LoneInv => LoneReloadExact
  BY <1>1, Zenon DEF LoneReloadExact
<1> QED
  BY Invariance, LoneInvariance, <1>2, PTL

=============================================================================
