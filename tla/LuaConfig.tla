------------------------------ MODULE LuaConfig ------------------------------
(***************************************************************************)
(* The configuration tables of LuaConfig.cpp: everything g_stateMutex      *)
(* guards, and the operations on it.  A script file contributes depots,    *)
(* with or without a decryption key, and manifest pins; a reload replaces  *)
(* the contribution of one file in one exclusive section of g_stateMutex,  *)
(* so each section is one action here.  ParseFile is two actions: the run  *)
(* of the script, which only stages its effects and can block in HTTP with *)
(* no lock held, and the commit.                                           *)
(***************************************************************************)
EXTENDS Naturals, FiniteSets

CONSTANTS
  Files,        \* script paths
  Depots,       \* depot and app ids
  Keys,         \* 64-digit decryption keys
  NoKey,        \* an id listed without a key: the empty string of the code
  Absent,       \* an id that is not in a table
  Gids,         \* manifest ids
  NoGid,        \* no manifest pin
  NoFile,       \* no file is being parsed
  MaxTime,      \* last-write times are 1..MaxTime (0: unknown)
  MaxParses,    \* bound on the number of commits, for model checking
  Scripts       \* what one run of a file can stage

(***************************************************************************)
(* The effect of one run of a file, per id: the last non-empty key its     *)
(* addappid calls give (NoKey when it lists the id without one, Absent     *)
(* when it does not list it), the last gid setManifestid gives, the ids it *)
(* writes to the tables no unload touches (addtoken, setstat, ...),        *)
(* whether it defines fetch_manifest_code, and whether it was read to the  *)
(* end of a statement.                                                     *)
(***************************************************************************)
Script ==
  [keys : [Depots -> Keys \cup {NoKey, Absent}],
   gids : [Depots -> Gids \cup {NoGid}],
   codeFunc : BOOLEAN,
   complete : BOOLEAN]

ASSUME FilesAssumption == IsFiniteSet(Files) /\ NoFile \notin Files
ASSUME KeysAssumption == NoKey \notin Keys /\ Absent \notin Keys /\ NoKey # Absent
ASSUME GidsAssumption == NoGid \notin Gids
ASSUME ScriptsAssumption == Scripts \subseteq Script
ASSUME BoundsAssumption == MaxTime \in Nat /\ MaxParses \in Nat

VARIABLES
  depotKeySet,            \* DepotKeySet
  manifestOverrides,      \* ManifestOverrides: the active pins
  fileDepots,             \* g_fileDepots ({}: no entry)
  fileManifestOverrides,  \* g_fileManifestOverrides
  fileParseSequence,      \* g_fileParseSequence (0: no entry)
  nextFileParseSequence,  \* g_nextFileParseSequence
  depotRefCount,          \* g_depotRefCount (0: no entry)
  fileMtime,              \* g_fileMtime
  purchaseTime,           \* g_purchaseTime (0: no entry)
  pendingRemovals,        \* g_pendingRemovals
  pendingAdditions,       \* g_pendingAdditions
  hasManifestCodeFunc,    \* g_hasManifestCodeFunc: a script defined the callback
  staged,                 \* t_stagedOps of the thread that loads files
  started,                \* the initial ParseDirectory calls are over
  loaded,                 \* history: the run each file's tables come from
  runtimeIds,             \* history: ids a callback listed, no file has since
  runtimePins             \* history: pins a callback set, not rebuilt since

tableVars == <<depotKeySet, manifestOverrides, fileDepots, fileManifestOverrides,
               fileParseSequence, nextFileParseSequence, depotRefCount, fileMtime,
               purchaseTime, pendingRemovals, pendingAdditions>>
historyVars == <<loaded, runtimeIds, runtimePins>>
vars == <<tableVars, hasManifestCodeFunc, staged, started, historyVars>>

NoScript == [keys |-> [d \in Depots |-> Absent], gids |-> [d \in Depots |-> NoGid],
             codeFunc |-> FALSE, complete |-> TRUE]
NothingStaged == [file |-> NoFile, script |-> NoScript, mtime |-> 0]

Listed(s) == {d \in Depots : s.keys[d] # Absent}
Pinned(s) == {d \in Depots : s.gids[d] # NoGid}

Init ==
  /\ depotKeySet = [d \in Depots |-> Absent]
  /\ manifestOverrides = [d \in Depots |-> NoGid]
  /\ fileDepots = [f \in Files |-> {}]
  /\ fileManifestOverrides = [f \in Files |-> [d \in Depots |-> NoGid]]
  /\ fileParseSequence = [f \in Files |-> 0]
  /\ nextFileParseSequence = 0
  /\ depotRefCount = [d \in Depots |-> 0]
  /\ fileMtime = [f \in Files |-> 0]
  /\ purchaseTime = [d \in Depots |-> 0]
  /\ pendingRemovals = {}
  /\ pendingAdditions = {}
  /\ hasManifestCodeFunc = FALSE
  /\ staged = NothingStaged
  /\ started = FALSE
  /\ loaded = [f \in Files |-> NoScript]
  /\ runtimeIds = {}
  /\ runtimePins = {}

-----------------------------------------------------------------------------
(* Helpers of the two exclusive sections.  A definition followed by another *)
(* with the same parameters is what the code does not do: a plausible slip, *)
(* kept to show which property notices it.                                 *)

PinnedBy(f) == {d \in Depots : fileManifestOverrides[f][d] # NoGid}

\* A file is tracked when it has an entry in either per-file table.
TrackedByDepots(f) == fileDepots[f] # {}
Tracked(f) == fileDepots[f] # {} \/ PinnedBy(f) # {}

(***************************************************************************)
(* RebuildManifestOverride: the pin of the most recently parsed file, out  *)
(* of the given per-file pins and parse sequences.                         *)
(***************************************************************************)
OldestPin(pins, sequence, d) ==
  LET candidates == {f \in Files : pins[f][d] # NoGid /\ sequence[f] # 0}
      oldest == CHOOSE f \in candidates :
                  \A g \in candidates : sequence[g] >= sequence[f]
  IN  IF candidates = {} THEN NoGid ELSE pins[oldest][d]
NewestPin(pins, sequence, d) ==
  LET candidates == {f \in Files : pins[f][d] # NoGid /\ sequence[f] # 0}
      newest == CHOOSE f \in candidates :
                  \A g \in candidates : sequence[g] <= sequence[f]
  IN  IF candidates = {} THEN NoGid ELSE pins[newest][d]

\* The ids that lose their last provider when f's entry is erased.
LastProvided(f) == {d \in fileDepots[f] : depotRefCount[d] = 1}

\* The tables once UnloadFileLocked has erased f's entries.
KeysWithout(f) == [d \in Depots |-> IF d \in LastProvided(f) THEN Absent ELSE depotKeySet[d]]
RefCountWithout(f) ==
  [d \in Depots |-> IF d \in fileDepots[f] THEN depotRefCount[d] - 1 ELSE depotRefCount[d]]
PurchaseWithout(f) == [d \in Depots |-> IF d \in LastProvided(f) THEN 0 ELSE purchaseTime[d]]

\* addappid: a key replaces whatever is there, an empty one only nothing.
KeyAfterAdd(old, given) ==
  IF given = Absent \/ (given = NoKey /\ old # Absent) THEN old ELSE given

\* The ids a commit gives their first provider.
NewInFile(f, s) == Listed(s) \ fileDepots[f]
FirstProvided(f, s) == {d \in Listed(s) : RefCountWithout(f)[d] = 0}

\* The pins of every file once f's are those of the run s.
PinsWith(f, s) == [fileManifestOverrides EXCEPT ![f] = s.gids]

Later(a, b) == IF a > b THEN a ELSE b

-----------------------------------------------------------------------------
(* Operations                                                              *)

(***************************************************************************)
(* ParseFile up to the commit: the file opens, its last-write time is      *)
(* taken and its statements run, which only stages what they do to the     *)
(* configuration; Lua globals and the flag read from them change now.  A   *)
(* file that cannot be opened changes nothing and has no step.             *)
(***************************************************************************)
RunScript(f, s, mtime) ==
  /\ staged = NothingStaged
  /\ nextFileParseSequence < MaxParses
  /\ staged' = [file |-> f, script |-> s, mtime |-> mtime]
  /\ hasManifestCodeFunc' = (hasManifestCodeFunc \/ s.codeFunc)
  /\ UNCHANGED <<tableVars, started, historyVars>>

(***************************************************************************)
(* The commit of an incomplete run of a file whose previous version is     *)
(* loaded: the staged operations are thrown away.                          *)
(***************************************************************************)
KeepPrevious ==
  /\ staged.file \in Files
  /\ ~staged.script.complete
  /\ Tracked(staged.file)
  /\ staged' = NothingStaged
  /\ UNCHANGED <<tableVars, hasManifestCodeFunc, started, historyVars>>

(***************************************************************************)
(* Every other commit: UnloadFileLocked, a fresh parse sequence, then the  *)
(* staged operations, all in one exclusive section.                        *)
(***************************************************************************)
Commit ==
  LET f == staged.file
      s == staged.script
      rebuilt == PinnedBy(f) \cup Pinned(s)
  IN
  /\ f \in Files
  /\ s.complete \/ ~Tracked(f)
  /\ fileDepots' = [fileDepots EXCEPT ![f] = Listed(s)]
  /\ depotRefCount' = [d \in Depots |->
       RefCountWithout(f)[d] + (IF d \in Listed(s) THEN 1 ELSE 0)]
  /\ depotKeySet' = [d \in Depots |-> KeyAfterAdd(KeysWithout(f)[d], s.keys[d])]
  /\ purchaseTime' = [d \in Depots |->
       IF d \in Listed(s) THEN Later(PurchaseWithout(f)[d], staged.mtime)
       ELSE PurchaseWithout(f)[d]]
  /\ pendingRemovals' = pendingRemovals \cup LastProvided(f)
  /\ pendingAdditions' = pendingAdditions \cup FirstProvided(f, s)
  /\ nextFileParseSequence' = nextFileParseSequence + 1
  /\ fileParseSequence' = [fileParseSequence EXCEPT ![f] = nextFileParseSequence + 1]
  /\ fileMtime' = [fileMtime EXCEPT ![f] = staged.mtime]
  /\ fileManifestOverrides' = PinsWith(f, s)
  /\ manifestOverrides' = [d \in Depots |->
       IF d \in rebuilt THEN NewestPin(fileManifestOverrides', fileParseSequence', d)
       ELSE manifestOverrides[d]]
  /\ staged' = NothingStaged
  /\ loaded' = [loaded EXCEPT ![f] = s]
  /\ runtimeIds' = runtimeIds \ Listed(s)
  /\ runtimePins' = runtimePins \ rebuilt
  /\ UNCHANGED <<hasManifestCodeFunc, started>>

(***************************************************************************)
(* UnloadFile.  The early return for a file in neither table leaves its    *)
(* parse sequence and last-write time behind.                              *)
(***************************************************************************)
UnloadFile(f) ==
  /\ started
  /\ staged = NothingStaged
  /\ Tracked(f)
  /\ fileDepots' = [fileDepots EXCEPT ![f] = {}]
  /\ depotRefCount' = RefCountWithout(f)
  /\ depotKeySet' = KeysWithout(f)
  /\ purchaseTime' = PurchaseWithout(f)
  /\ pendingRemovals' = pendingRemovals \cup LastProvided(f)
  /\ fileParseSequence' = [fileParseSequence EXCEPT ![f] = 0]
  /\ fileMtime' = [fileMtime EXCEPT ![f] = 0]
  /\ fileManifestOverrides' = PinsWith(f, NoScript)
  /\ manifestOverrides' = [d \in Depots |->
       IF d \in PinnedBy(f) THEN NewestPin(fileManifestOverrides', fileParseSequence, d)
       ELSE manifestOverrides[d]]
  /\ loaded' = [loaded EXCEPT ![f] = NoScript]
  /\ runtimePins' = runtimePins \ PinnedBy(f)
  /\ UNCHANGED <<pendingAdditions, nextFileParseSequence, hasManifestCodeFunc,
                 staged, started, runtimeIds>>

(***************************************************************************)
(* addappid and setManifestid called by a manifest callback, on a thread   *)
(* that is not parsing a file: ApplyConfigOp runs the operation at once,   *)
(* with g_currentFile empty, so no file is charged with it.                *)
(***************************************************************************)
AddAppIdAtRuntime(d, key) ==
  /\ started
  /\ hasManifestCodeFunc
  /\ depotKeySet' = [depotKeySet EXCEPT ![d] = KeyAfterAdd(@, key)]
  /\ runtimeIds' = IF depotRefCount[d] = 0 THEN runtimeIds \cup {d} ELSE runtimeIds
  /\ UNCHANGED <<manifestOverrides, fileDepots, fileManifestOverrides, fileParseSequence,
                 nextFileParseSequence, depotRefCount, fileMtime, purchaseTime,
                 pendingRemovals, pendingAdditions, hasManifestCodeFunc, staged, started, loaded, runtimePins>>

SetManifestIdAtRuntime(d, gid) ==
  /\ started
  /\ hasManifestCodeFunc
  /\ manifestOverrides' = [manifestOverrides EXCEPT ![d] = gid]
  /\ runtimePins' = runtimePins \cup {d}
  /\ UNCHANGED <<depotKeySet, fileDepots, fileManifestOverrides, fileParseSequence,
                 nextFileParseSequence, depotRefCount, fileMtime, purchaseTime,
                 pendingRemovals, pendingAdditions, hasManifestCodeFunc, staged, started, loaded, runtimeIds>>

TakePendingRemovals ==
  /\ started
  /\ pendingRemovals' = {}
  /\ UNCHANGED <<depotKeySet, manifestOverrides, fileDepots, fileManifestOverrides,
                 fileParseSequence, nextFileParseSequence, depotRefCount, fileMtime,
                 purchaseTime, pendingAdditions, hasManifestCodeFunc, staged, started,
                 historyVars>>

ClearPendingAdditions ==
  /\ pendingAdditions' = {}
  /\ UNCHANGED <<depotKeySet, manifestOverrides, fileDepots, fileManifestOverrides,
                 fileParseSequence, nextFileParseSequence, depotRefCount, fileMtime,
                 purchaseTime, pendingRemovals, hasManifestCodeFunc, staged, historyVars>>

TakePendingAdditions == started /\ ClearPendingAdditions /\ UNCHANGED started

(***************************************************************************)
(* The last initial ParseDirectory returns: its parse-time additions are   *)
(* discarded (the initial fill reads the whole table), and the watchers    *)
(* and hooks start.                                                        *)
(***************************************************************************)
FinishStartup ==
  /\ ~started
  /\ staged = NothingStaged
  /\ ClearPendingAdditions
  /\ started' = TRUE

Next ==
  \/ \E f \in Files, s \in Scripts, mtime \in 0 .. MaxTime : RunScript(f, s, mtime)
  \/ KeepPrevious
  \/ Commit
  \/ \E f \in Files : UnloadFile(f)
  \/ \E d \in Depots, key \in Keys \cup {NoKey} : AddAppIdAtRuntime(d, key)
  \/ \E d \in Depots, gid \in Gids : SetManifestIdAtRuntime(d, gid)
  \/ TakePendingRemovals
  \/ TakePendingAdditions
  \/ FinishStartup

Spec == Init /\ [][Next]_vars

-----------------------------------------------------------------------------
(* Readers                                                                 *)

\* HasDepot(d, false) and GetAllDepotIds.
HasDepot(d) == depotKeySet[d] # Absent
AllDepotIds == {d \in Depots : HasDepot(d)}

-----------------------------------------------------------------------------
(* Properties                                                              *)

\* The type invariant of the tables.
TypeOK ==
  /\ depotKeySet \in [Depots -> Keys \cup {NoKey, Absent}]
  /\ manifestOverrides \in [Depots -> Gids \cup {NoGid}]
  /\ fileDepots \in [Files -> SUBSET Depots]
  /\ fileManifestOverrides \in [Files -> [Depots -> Gids \cup {NoGid}]]
  /\ fileParseSequence \in [Files -> Nat]
  /\ nextFileParseSequence \in Nat
  /\ depotRefCount \in [Depots -> Nat]
  /\ fileMtime \in [Files -> Nat]
  /\ purchaseTime \in [Depots -> Nat]
  /\ pendingRemovals \subseteq Depots
  /\ pendingAdditions \subseteq Depots
  /\ hasManifestCodeFunc \in BOOLEAN
  /\ staged \in [file : Files \cup {NoFile}, script : Script, mtime : Nat]
  /\ started \in BOOLEAN
  /\ loaded \in [Files -> Script]
  /\ runtimeIds \subseteq Depots
  /\ runtimePins \subseteq Depots

Providers(d) == {f \in Files : d \in fileDepots[f]}

\* The reference count of a depot is the number of files that list it, whatever
\* sequence of loads, reloads, unloads and callback additions led there.
RefCountIsProviders ==
  \A d \in Depots : depotRefCount[d] = Cardinality(Providers(d))

\* A depot is wanted exactly when a loaded file lists it or a callback added it
\* since its last provider went: no unload takes a depot another file still
\* provides, and none survives its last provider.
WantedIsProvided ==
  \A d \in Depots : HasDepot(d) <=> Providers(d) # {} \/ d \in runtimeIds

\* The per-file tables hold what the last applied run of the file staged.
TablesMatchLoaded ==
  \A f \in Files : /\ fileDepots[f] = Listed(loaded[f])
                   /\ fileManifestOverrides[f] = loaded[f].gids

\* What is wanted, and why, follows from the files that are loaded now.
DepotsFollowFiles == RefCountIsProviders /\ WantedIsProvided /\ TablesMatchLoaded

\* A depot that some loaded file gives a key for has a key: neither a file that
\* lists it without one nor the unload of another provider loses it.
KeyNotLost ==
  \A f \in Files, d \in Depots : loaded[f].keys[d] \in Keys => depotKeySet[d] \in Keys

\* The active pin of a depot is the one of the most recently parsed file that
\* pins it, unless a callback has set a pin since the last rebuild.
ActivePinIsNewest ==
  \A d \in Depots \ runtimePins :
    LET pinning == {f \in Files : d \in PinnedBy(f)} IN
    /\ pinning = {} => manifestOverrides[d] = NoGid
    /\ \A f \in pinning :
         (\A g \in pinning : fileParseSequence[g] <= fileParseSequence[f])
           => manifestOverrides[d] = fileManifestOverrides[f][d]

\* A provided depot is stamped with a purchase time no earlier than the
\* last-write time of any file that provides it now.
PurchaseTimeCoversProviders ==
  \A d \in Depots : \A f \in Providers(d) : purchaseTime[d] >= fileMtime[f]

\* The merged tables follow from the files that are loaded now, in whatever order
\* they were loaded, reloaded and unloaded.
SettingsFollowFiles == KeyNotLost /\ ActivePinIsNewest /\ PurchaseTimeCoversProviders

\* Every table follows from the files that are loaded: what is wanted and why, keys, pins
\* and purchase times.
TablesFollowFiles == TypeOK /\ DepotsFollowFiles /\ SettingsFollowFiles

\* A half-saved file never replaces a loaded version: the tables of a file that
\* contributes something go to a complete run of it or to nothing.
NoTruncatedReplacement ==
  [][\A f \in Files :
       (Listed(loaded[f]) \cup Pinned(loaded[f]) # {} /\ loaded'[f] # loaded[f]) =>
          loaded'[f].complete]_vars

\* Every depot whose membership changes is queued by the same step, except the
\* ones a callback adds: LuaConfig implements DepotRegistry.
Registry == INSTANCE DepotRegistry WITH wanted <- AllDepotIds
ImplementsRegistry == Registry!RegistrySpec
=============================================================================
