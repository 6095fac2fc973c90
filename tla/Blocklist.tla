----------------------------- MODULE Blocklist ------------------------------
(***************************************************************************)
(* Loading the blocklist (internal/blocklist/blocklist.go and the          *)
(* goroutines of cmd/rcvd/main.go that call it).  The startup loader adds  *)
(* the files one by one and then the URLs, in the background; each         *)
(* --blocklist-reload starts a goroutine that rescans all the files and    *)
(* swaps the result in.  Loads overlap each other and edits of the files.  *)
(*                                                                         *)
(* A source (file or URL) is good, missing (open or fetch fails), or bad   *)
(* (the scan fails part of the way).  Reading one source is one step.      *)
(* Invalid lines are skipped and are not names here.                       *)
(***************************************************************************)
EXTENDS Naturals, Sequences, FiniteSets

CONSTANTS Names,     \* names that lists mention
          Files,     \* cfg.Blocklists.Files
          Urls,      \* cfg.Blocklists.UpdateURLs
          Reloads,   \* reload requests
          Contents,  \* what a source may hold
          MaxEdits   \* bound on changes of the sources

Forms == {"good", "bad", "missing"}

FileSet == {Files[i] : i \in DOMAIN Files}
UrlSet == {Urls[i] : i \in DOMAIN Urls}

ASSUME SourcesAssumption == Files \in Seq(FileSet) /\ Urls \in Seq(UrlSet)
ASSUME EditsAssumption == MaxEdits \in Nat
ASSUME ContentAssumption == Contents \subseteq [names : SUBSET Names, form : Forms]

VARIABLES
  disk,     \* what each source holds
  block,    \* the live set: domains and wildcard
  counted,  \* stats.BlocklistFilesLoaded
  boot,     \* where the startup loader is
  at,       \* the index of its source
  held,     \* names it scanned and has not merged
  rpc,      \* where each reload is
  rat,      \* the index of its file
  found,    \* newDomains and newWildcard
  filesOK,  \* res.FilesOK
  edits,    \* number of edits
  steady,   \* history: <<f, n>> if file f was good and listed n all the time
  current,  \* history: reloads since whose start no source changed
  alone     \* history: those of them that no other load overlapped or followed

loader == <<boot, at, held>>
reloads == <<rpc, rat, found, filesOK>>
ghosts == <<steady, current, alone>>
vars == <<disk, block, counted, loader, reloads, edits, ghosts>>

Sources == Files \o Urls
SourceSet == FileSet \cup UrlSet
Src(i) == disk[Sources[i]]
IsUrl(i) == i > Len(Files)

Init ==
  /\ disk \in [SourceSet -> Contents]
  /\ block = {} /\ counted = 0
  /\ boot = "scan" /\ at = 1 /\ held = {}
  /\ rpc = [r \in Reloads |-> "idle"] /\ rat = [r \in Reloads |-> 1]
  /\ found = [r \in Reloads |-> {}] /\ filesOK = [r \in Reloads |-> 0]
  /\ edits = 0
  /\ steady = {p \in FileSet \X Names : disk[p[1]].form = "good" /\ p[2] \in disk[p[1]].names}
  /\ current = {} /\ alone = {}

-----------------------------------------------------------------------------
(* The startup loader                                                      *)

\* LoadFiles or loadURL scans one source into fresh maps.
BootScan ==
  /\ boot = "scan" /\ at <= Len(Sources) /\ Src(at).form = "good"
  /\ held' = Src(at).names /\ boot' = "merge"
  /\ UNCHANGED <<disk, block, counted, at, reloads, edits, ghosts>>

\* A file that cannot be loaded is skipped; a URL ends LoadURLs.
BootSkip ==
  /\ boot = "scan" /\ at <= Len(Sources) /\ Src(at).form # "good"
  /\ IF IsUrl(at) THEN boot' = "done" /\ at' = at ELSE boot' = boot /\ at' = at + 1
  /\ UNCHANGED <<disk, block, counted, held, reloads, edits, ghosts>>

\* parseFile adds what was scanned to the live maps.
BootMerge ==
  /\ boot = "merge"
  /\ block' = block \cup held /\ held' = {}
  /\ IF IsUrl(at) THEN boot' = "scan" /\ at' = at + 1 ELSE boot' = "count" /\ at' = at
  /\ UNCHANGED <<disk, counted, reloads, edits, ghosts>>

\* AddBlocklistFile, once per file as it is loaded.
BootCount ==
  /\ boot = "count"
  /\ counted' = counted + 1 /\ boot' = "scan" /\ at' = at + 1
  /\ UNCHANGED <<disk, block, held, reloads, edits, ghosts>>

\* All sources are loaded; the URLs are counted now.
BootLoaded ==
  /\ boot = "scan" /\ at > Len(Sources)
  /\ boot' = "tally" /\ at' = Len(Files) + 1
  /\ UNCHANGED <<disk, block, counted, held, reloads, edits, ghosts>>

\* AddBlocklistFile, once per URL.
BootTally ==
  /\ boot = "tally"
  /\ IF at <= Len(Sources)
     THEN counted' = counted + 1 /\ at' = at + 1 /\ boot' = boot
     ELSE boot' = "done" /\ UNCHANGED <<counted, at>>
  /\ UNCHANGED <<disk, block, held, reloads, edits, ghosts>>

-----------------------------------------------------------------------------
(* Reloads                                                                 *)

Running(r) == rpc[r] \notin {"idle", "done"}
Quiet == boot = "done" /\ \A r \in Reloads : ~Running(r)

\* Faulty form: the live maps are emptied before the scan.
ReloadBeginClears(r) ==
  /\ rpc[r] = "idle"
  /\ rpc' = [rpc EXCEPT ![r] = "scan"]
  /\ block' = {}
  /\ current' = current \cup {r}
  /\ alone' = IF Quiet THEN {r} ELSE {}
  /\ UNCHANGED <<disk, counted, loader, rat, found, filesOK, edits, steady>>

\* RELOAD-BLOCKLIST starts a goroutine and returns.
ReloadBegin(r) ==
  /\ rpc[r] = "idle"
  /\ rpc' = [rpc EXCEPT ![r] = "scan"]
  /\ current' = current \cup {r}
  /\ alone' = IF Quiet THEN {r} ELSE {}
  /\ UNCHANGED <<disk, block, counted, loader, rat, found, filesOK, edits, steady>>

\* What scanInto leaves in the maps: all of a good file, what comes before the
\* error in a bad one.
Scanned(c) ==
  CASE c.form = "good" -> {c.names}
    [] c.form = "bad" -> SUBSET c.names
    [] c.form = "missing" -> {{}}

\* ReplaceFromFiles scans a file; one that fails is left out of FilesOK.
ReloadScan(r) ==
  /\ rpc[r] = "scan" /\ rat[r] <= Len(Files)
  /\ LET c == disk[Files[rat[r]]]
     IN  /\ \E s \in Scanned(c) : found' = [found EXCEPT ![r] = @ \cup s]
         /\ filesOK' = IF c.form = "good" THEN [filesOK EXCEPT ![r] = @ + 1] ELSE filesOK
  /\ rat' = [rat EXCEPT ![r] = @ + 1]
  /\ UNCHANGED <<disk, block, counted, loader, rpc, edits, ghosts>>

\* Faulty form: the reload only adds, as the startup loader does.
ReloadSwapAdds(r) ==
  /\ rpc[r] = "scan" /\ rat[r] > Len(Files)
  /\ block' = block \cup found[r]
  /\ rpc' = [rpc EXCEPT ![r] = "count"]
  /\ UNCHANGED <<disk, counted, loader, rat, found, filesOK, edits, ghosts>>

\* The new maps replace the live ones.
ReloadSwap(r) ==
  /\ rpc[r] = "scan" /\ rat[r] > Len(Files)
  /\ block' = found[r]
  /\ rpc' = [rpc EXCEPT ![r] = "count"]
  /\ UNCHANGED <<disk, counted, loader, rat, found, filesOK, edits, ghosts>>

\* SetBlocklistFiles.
ReloadCount(r) ==
  /\ rpc[r] = "count"
  /\ counted' = filesOK[r]
  /\ rpc' = [rpc EXCEPT ![r] = "done"]
  /\ UNCHANGED <<disk, block, loader, rat, found, filesOK, edits, ghosts>>

-----------------------------------------------------------------------------
\* A source changes.
Edit(f, c) ==
  /\ edits < MaxEdits /\ c # disk[f]
  /\ edits' = edits + 1
  /\ disk' = [disk EXCEPT ![f] = c]
  /\ steady' = {p \in steady : p[1] = f => c.form = "good" /\ p[2] \in c.names}
  /\ current' = {} /\ alone' = {}
  /\ UNCHANGED <<block, counted, loader, reloads>>

BootStep == BootScan \/ BootSkip \/ BootMerge \/ BootCount \/ BootLoaded \/ BootTally
ReloadStep(r) == ReloadBegin(r) \/ ReloadScan(r) \/ ReloadSwap(r) \/ ReloadCount(r)

Next ==
  \/ BootStep
  \/ \E r \in Reloads : ReloadStep(r)
  \/ \E f \in SourceSet, c \in Contents : Edit(f, c)

Spec == Init /\ [][Next]_vars

-----------------------------------------------------------------------------
(* Properties                                                              *)

\* Every variable has its type.
TypeOK ==
  /\ disk \in [SourceSet -> Contents]
  /\ block \subseteq Names /\ held \subseteq Names /\ counted \in Nat
  /\ boot \in {"scan", "merge", "count", "tally", "done"} /\ at \in 1..(Len(Sources) + 1)
  /\ rpc \in [Reloads -> {"idle", "scan", "count", "done"}]
  /\ rat \in [Reloads -> 1..(Len(Files) + 1)]
  /\ found \in [Reloads -> SUBSET Names] /\ filesOK \in [Reloads -> 0..Len(Files)]
  /\ edits \in 0..MaxEdits
  /\ steady \subseteq FileSet \X Names /\ current \subseteq Reloads /\ alone \subseteq Reloads

SteadyNames == {n \in Names : \E f \in FileSet : <<f, n>> \in steady}

\* Once the startup loader or some reload has gone through the files, a name
\* that a good file has listed all the time is blocked in every state: no reload,
\* edit of other files or overlap of loads opens a gap (ReplaceFromFiles scans
\* first and swaps then, parseFile only adds).
ListedStaysBlocked ==
  boot \in {"tally", "done"} \/ (\E r \in Reloads : rpc[r] \in {"count", "done"})
    => SteadyNames \subseteq block

GoodFiles == {f \in FileSet : disk[f].form = "good"}
Listed(F) == UNION {disk[f].names : f \in F}

\* A reload that no other load overlapped makes the live set what the files hold
\* ("both added and removed domains take effect"; a file that fails contributes
\* at most its own names, and takes nothing from what the others list), and leaves
\* the count of the files it could read.  If it could read none, nothing is said of
\* the live set: the code swaps in what is left, also nothing at all, while its
\* comment says that a vanished file "should not wipe the whole live set".
LoneReloadExact ==
  \A r \in alone : rpc[r] = "done" =>
    /\ Listed(GoodFiles) \subseteq block
    /\ GoodFiles # {} => block \subseteq Listed({f \in FileSet : disk[f].form # "missing"})
    /\ counted = Cardinality({i \in DOMAIN Files : disk[Files[i]].form = "good"})

\* "entries removed from the files on disk are also removed from the live set":
\* when all loads are over, and a reload was started after the last edit, only
\* names of the files are blocked.
RemovalsTakeEffect ==
  Quiet /\ (\E r \in current : rpc[r] = "done") => block \subseteq Listed(FileSet)

=============================================================================
