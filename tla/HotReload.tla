------------------------------ MODULE HotReload ------------------------------
(***************************************************************************)
(* From the scripts on disk to the tables: the directory watches           *)
(* (DirectoryWatch.cpp), the Lua watcher thread that debounces and applies *)
(* their events (LuaFileWatcher.cpp), and the config watcher that stops    *)
(* it, rescans the directories and starts it again (ConfigFileWatcher.cpp, *)
(* ReloadDirectories).  Editors write the files at any time.  What a table *)
(* entry contains is LuaConfig; here an entry is the version it came from. *)
(***************************************************************************)
EXTENDS Naturals, Sequences

CONSTANTS
  Files,        \* script files
  Dirs,         \* directories
  DirOf,        \* the directory of each file
  DefaultDir,   \* the directory that is always merged in
  Trailing,     \* directories the settings spell with a trailing separator
  Versions,     \* complete contents of a file
  Gone,         \* not on disk; not in the tables
  Truncated,    \* half saved, or empty
  Locked,       \* the writer keeps it from being opened
  BufferSize,   \* events a directory's kernel buffer holds
  IOFails,      \* opening a directory or reading its changes may fail
  MaxChanges    \* bound on what editors and the user do, for model checking

ASSUME DirsAssumption == DirOf \in [Files -> Dirs] /\ DefaultDir \in Dirs /\ Trailing \subseteq Dirs
ASSUME ContentsAssumption ==
  /\ Gone # Truncated /\ Gone # Locked /\ Truncated # Locked
  /\ {Gone, Truncated, Locked} \cap Versions = {}
ASSUME BoundsAssumption == BufferSize \in Nat /\ MaxChanges \in Nat /\ IOFails \in BOOLEAN

Contents == Versions \cup {Gone, Truncated, Locked}

VARIABLES
  disk,         \* what each file holds
  configured,   \* the merged directories the settings name
  open,         \* directories with an open handle and a read issued
  signaled,     \* the read of a directory has completed
  completed,    \* the events that read returned
  kernel,       \* the events since, in the kernel's buffer
  overflowed,   \* that buffer ran over; its events are gone
  luaRunning,      \* g_running of the Lua watcher
  watcherPc,    \* off, open, wait, debounce, apply
  toOpen,       \* directories the Lua watcher still has to open
  batch,        \* accumulated and order: the changes to apply
  reading,      \* the file ParseFile has read and not yet committed
  configPc,     \* idle, stopping, scan, parse
  toScan,       \* directories ReloadDirectories has yet to list
  toParse,      \* listed files it has yet to parse
  loaded,       \* the version each table entry came from
  changes,      \* changes made so far
  missed        \* history: files changed while nothing recorded it

diskVars == <<disk, changes>>
kernelVars == <<signaled, completed, kernel, overflowed>>
watcherVars == <<luaRunning, watcherPc, toOpen>>
configVars == <<configured, configPc, toScan, toParse>>
watchVars == <<diskVars, open, kernelVars, watcherVars, batch, reading, configVars, loaded, missed>>

(***************************************************************************)
(* Table entries are named by path strings.  The scan appends a separator  *)
(* only where the directory has none; the watcher always appends one.      *)
(***************************************************************************)
Names == Files \X {"plain", "doubled"}
ScanName(f) == <<f, "plain">>
WatchName(f) == <<f, IF DirOf[f] \in Trailing THEN "doubled" ELSE "plain">>

FilesIn(d) == {f \in Files : DirOf[f] = d}
Event(f, there) == [file |-> f, there |-> there]
Events == [file : Files, there : BOOLEAN]
Mentioned(events) == {events[i].file : i \in DOMAIN events}
Latest(events, f, there) ==
  \E i \in DOMAIN events :
    /\ events[i] = Event(f, there)
    /\ \A j \in DOMAIN events : events[j].file = f => j <= i
NoFile == [name |-> <<>>, content |-> Gone]

\* As InitThread starts: ParseDirectory of every directory is a rescan with nothing
\* tracked, after which the watcher is started.
WatchInit ==
  /\ disk \in [Files -> Versions \cup {Gone, Truncated}]
  /\ configured \in {ds \in SUBSET Dirs : DefaultDir \in ds}
  /\ open = {}
  /\ signaled = [d \in Dirs |-> FALSE]
  /\ completed = [d \in Dirs |-> <<>>]
  /\ kernel = [d \in Dirs |-> <<>>]
  /\ overflowed = [d \in Dirs |-> FALSE]
  /\ luaRunning = FALSE
  /\ watcherPc = "off"
  /\ toOpen = {}
  /\ batch = <<>>
  /\ reading = NoFile
  /\ configPc = "scan"
  /\ toScan = configured
  /\ toParse = {}
  /\ loaded = [n \in Names |-> Gone]
  /\ changes = 0
  /\ missed = {}

-----------------------------------------------------------------------------
(* The disk and the kernel                                                 *)

\* A change completes the read that is waiting, or is buffered, or is lost.
Record(f, there) ==
  LET d == DirOf[f] IN
  CASE d \notin open \/ overflowed[d] ->
         /\ missed' = missed \cup {f}
         /\ UNCHANGED kernelVars
    [] d \in open /\ ~overflowed[d] /\ ~signaled[d] ->
         /\ signaled' = [signaled EXCEPT ![d] = TRUE]
         /\ completed' = [completed EXCEPT ![d] = <<Event(f, there)>>]
         /\ UNCHANGED <<kernel, overflowed, missed>>
    [] d \in open /\ ~overflowed[d] /\ signaled[d] /\ Len(kernel[d]) < BufferSize ->
         /\ kernel' = [kernel EXCEPT ![d] = Append(@, Event(f, there))]
         /\ UNCHANGED <<signaled, completed, overflowed, missed>>
    [] OTHER ->
         /\ overflowed' = [overflowed EXCEPT ![d] = TRUE]
         /\ kernel' = [kernel EXCEPT ![d] = <<>>]
         /\ missed' = missed \cup Mentioned(kernel[d]) \cup {f}
         /\ UNCHANGED <<signaled, completed>>

\* An editor writes, half writes, locks, or deletes a file.  A rename is a deletion
\* and a write.
Change(f, content) ==
  /\ changes < MaxChanges
  /\ content # disk[f]
  /\ disk' = [disk EXCEPT ![f] = content]
  /\ changes' = changes + 1
  /\ Record(f, content # Gone)
  /\ UNCHANGED <<open, watcherVars, batch, reading, configVars, loaded>>

-----------------------------------------------------------------------------
(* The Lua watcher                                                         *)

OpenDirectory(d, opens) ==
  /\ watcherPc = "open"
  /\ d \in toOpen
  /\ opens \/ IOFails
  /\ toOpen' = toOpen \ {d}
  /\ open' = IF opens THEN open \cup {d} ELSE open
  /\ UNCHANGED <<diskVars, kernelVars, luaRunning, watcherPc, batch, reading, configVars,
                 loaded, missed>>

\* With no directory open the thread ends, and leaves g_running set.
Opened ==
  /\ watcherPc = "open"
  /\ toOpen = {}
  /\ watcherPc' = IF open = {} THEN "off" ELSE "wait"
  /\ UNCHANGED <<diskVars, open, kernelVars, luaRunning, toOpen, batch, reading, configVars,
                 loaded, missed>>

\* The last action on a path wins, at the place of the first.
FirstActionWins(acc, e) == IF e.file \in Mentioned(acc) THEN acc ELSE Append(acc, e)
Merge(acc, e) ==
  IF e.file \in Mentioned(acc)
  THEN [i \in DOMAIN acc |-> IF acc[i].file = e.file THEN e ELSE acc[i]]
  ELSE Append(acc, e)
MergeChanges(acc, events) ==
  LET merged[i \in 0 .. Len(events)] == IF i = 0 THEN acc ELSE Merge(merged[i - 1], events[i])
  IN  merged[Len(events)]

\* The first read of a burst, and each further one within the debounce window; the
\* next read is issued at once and returns what the kernel has meanwhile.
Drain(d, reissues) ==
  /\ watcherPc \in {"wait", "debounce"}
  /\ luaRunning
  /\ d \in open
  /\ signaled[d]
  /\ reissues \/ IOFails
  /\ watcherPc' = "debounce"
  /\ batch' = MergeChanges(batch, completed[d])
  /\ open' = IF reissues THEN open ELSE open \ {d}
  /\ missed' = IF reissues THEN missed ELSE missed \cup Mentioned(kernel[d])
  /\ signaled' = [signaled EXCEPT ![d] = reissues /\ (overflowed[d] \/ kernel[d] # <<>>)]
  /\ completed' = [completed EXCEPT ![d] = IF reissues THEN kernel[d] ELSE <<>>]
  /\ kernel' = [kernel EXCEPT ![d] = <<>>]
  /\ overflowed' = [overflowed EXCEPT ![d] = FALSE]
  /\ UNCHANGED <<diskVars, luaRunning, toOpen, reading, configVars, loaded>>

\* Half a second without a further event, or a stop request: the batch is applied.
DebounceEnds ==
  /\ watcherPc = "debounce"
  /\ ~luaRunning \/ \A d \in open : ~signaled[d]
  /\ watcherPc' = "apply"
  /\ UNCHANGED <<diskVars, open, kernelVars, luaRunning, toOpen, batch, reading, configVars,
                 loaded, missed>>

\* ParseFile reads the file.  The history: a complete version read with no older
\* event of the file still to be applied makes good for the changes missed before.
Read(name, later) ==
  LET f == name[1] IN
  /\ reading = NoFile
  /\ reading' = [name |-> name, content |-> disk[f]]
  /\ missed' = IF /\ disk[f] \in Versions
                  /\ f \notin Mentioned(later \o completed[DirOf[f]] \o kernel[DirOf[f]])
               THEN missed \ {f} ELSE missed

\* ProcessChanges, first change of the rest of the batch: an unload or a parse.
ApplyUnload ==
  /\ watcherPc = "apply"
  /\ reading = NoFile
  /\ batch # <<>>
  /\ ~Head(batch).there
  /\ loaded' = [loaded EXCEPT ![WatchName(Head(batch).file)] = Gone]
  /\ batch' = Tail(batch)
  /\ UNCHANGED <<diskVars, open, kernelVars, watcherVars, reading, configVars, missed>>

ApplyParse ==
  /\ watcherPc = "apply"
  /\ batch # <<>>
  /\ Head(batch).there
  /\ Read(WatchName(Head(batch).file), Tail(batch))
  /\ batch' = Tail(batch)
  /\ UNCHANGED <<diskVars, open, kernelVars, watcherVars, configVars, loaded>>

\* The commit of ParseFile, on whichever thread runs it.
CommitKeepsNothing(name, content) ==
  IF content \in Versions THEN content ELSE Gone
Committed(name, content) ==
  IF content \in Versions \/ (content = Truncated /\ loaded[name] = Gone)
  THEN content ELSE loaded[name]

Commit ==
  /\ reading # NoFile
  /\ loaded' = [loaded EXCEPT ![reading.name] = Committed(reading.name, reading.content)]
  /\ reading' = NoFile
  /\ UNCHANGED <<diskVars, open, kernelVars, watcherVars, batch, configVars, missed>>

Applied ==
  /\ watcherPc = "apply"
  /\ reading = NoFile
  /\ batch = <<>>
  /\ watcherPc' = "wait"
  /\ UNCHANGED <<diskVars, open, kernelVars, luaRunning, toOpen, batch, reading, configVars,
                 loaded, missed>>

\* The stop request is seen: the handles are closed, with whatever they had recorded.
Exit ==
  /\ watcherPc = "wait"
  /\ ~luaRunning
  /\ watcherPc' = "off"
  /\ open' = {}
  /\ missed' = missed \cup UNION {Mentioned(completed[d]) \cup Mentioned(kernel[d]) : d \in open}
  /\ signaled' = [d \in Dirs |-> FALSE]
  /\ completed' = [d \in Dirs |-> <<>>]
  /\ kernel' = [d \in Dirs |-> <<>>]
  /\ overflowed' = [d \in Dirs |-> FALSE]
  /\ UNCHANGED <<diskVars, luaRunning, toOpen, batch, reading, configVars, loaded>>

-----------------------------------------------------------------------------
(* The config watcher                                                      *)

\* The settings name other directories: RestartLuaWatcher asks the watcher to stop ...
Reconfigure(dirs) ==
  /\ configPc = "idle"
  /\ changes < MaxChanges
  /\ DefaultDir \in dirs
  /\ dirs # configured
  /\ changes' = changes + 1
  /\ configured' = dirs
  /\ configPc' = "stopping"
  /\ luaRunning' = FALSE
  /\ UNCHANGED <<disk, open, kernelVars, watcherPc, toOpen, batch, reading, toScan, toParse,
                 loaded, missed>>

\* ... waits for its thread, and calls ReloadDirectories.
Join ==
  /\ configPc = "stopping"
  /\ watcherPc = "off"
  /\ configPc' = "scan"
  /\ toScan' = configured
  /\ toParse' = {}
  /\ UNCHANGED <<diskVars, open, kernelVars, watcherVars, batch, reading, configured, loaded,
                 missed>>

\* CollectLuaFiles of one directory.  A file found gone will be unloaded.
Scan(d) ==
  /\ configPc = "scan"
  /\ d \in toScan
  /\ toScan' = toScan \ {d}
  /\ toParse' = toParse \cup {ScanName(f) : f \in {g \in FilesIn(d) : disk[g] # Gone}}
  /\ missed' = missed \ {f \in FilesIn(d) : disk[f] = Gone}
  /\ UNCHANGED <<diskVars, open, kernelVars, watcherVars, batch, reading, configured,
                 configPc, loaded>>

\* Every tracked file the scan did not list is unloaded.
UnloadUnlisted(listed) == [n \in Names |-> IF n \in listed THEN loaded[n] ELSE Gone]
Scanned ==
  /\ configPc = "scan"
  /\ toScan = {}
  /\ configPc' = "parse"
  /\ loaded' = UnloadUnlisted(toParse)
  /\ UNCHANGED <<diskVars, open, kernelVars, watcherVars, batch, reading, configured, toScan,
                 toParse, missed>>

ParseListed(name) ==
  /\ configPc = "parse"
  /\ name \in toParse
  /\ Read(name, batch)
  /\ toParse' = toParse \ {name}
  /\ UNCHANGED <<diskVars, open, kernelVars, watcherVars, batch, configured, configPc, toScan,
                 loaded>>

\* The new watcher is started on the configured directories.
Start ==
  /\ configPc = "parse"
  /\ reading = NoFile
  /\ toParse = {}
  /\ configPc' = "idle"
  /\ luaRunning' = TRUE
  /\ watcherPc' = "open"
  /\ toOpen' = configured
  /\ UNCHANGED <<diskVars, open, kernelVars, batch, reading, configured, toScan, toParse,
                 loaded, missed>>

-----------------------------------------------------------------------------
WatcherStep ==
  \/ \E d \in Dirs, ok \in BOOLEAN : OpenDirectory(d, ok) \/ Drain(d, ok)
  \/ Opened
  \/ DebounceEnds
  \/ ApplyUnload
  \/ ApplyParse
  \/ Applied
  \/ Exit

ConfigStep ==
  \/ Join
  \/ \E d \in Dirs : Scan(d)
  \/ Scanned
  \/ \E name \in Names : ParseListed(name)
  \/ Start

EditorStep == \E f \in Files, content \in Contents : Change(f, content)

WatchNext ==
  \/ EditorStep
  \/ WatcherStep
  \/ Commit
  \/ ConfigStep
  \/ \E dirs \in SUBSET Dirs : Reconfigure(dirs)

WatchSpec == WatchInit /\ [][WatchNext]_watchVars

\* Both threads run on, and a script's run ends.  Nothing is assumed of the editors.
WatchFairSpec == WatchSpec /\ WF_watchVars(WatcherStep) /\ WF_watchVars(Commit) /\ WF_watchVars(ConfigStep)

-----------------------------------------------------------------------------
(* Properties                                                              *)

\* The type invariant.
WatchTypeOK ==
  /\ disk \in [Files -> Contents]
  /\ configured \in SUBSET Dirs /\ DefaultDir \in configured
  /\ open \subseteq Dirs
  /\ signaled \in [Dirs -> BOOLEAN] /\ overflowed \in [Dirs -> BOOLEAN]
  /\ completed \in [Dirs -> Seq(Events)] /\ kernel \in [Dirs -> Seq(Events)]
  /\ \A d \in Dirs : Mentioned(completed[d]) \cup Mentioned(kernel[d]) \subseteq FilesIn(d)
  /\ \A d \in Dirs : Len(kernel[d]) <= BufferSize
  /\ luaRunning \in BOOLEAN
  /\ watcherPc \in {"off", "open", "wait", "debounce", "apply"}
  /\ toOpen \subseteq Dirs
  /\ batch \in Seq(Events)
  /\ reading = NoFile \/ reading \in [name : Names, content : Contents]
  /\ configPc \in {"idle", "stopping", "scan", "parse"}
  /\ toScan \subseteq Dirs
  /\ toParse \subseteq Names
  /\ loaded \in [Names -> Versions \cup {Gone, Truncated}]
  /\ changes \in Nat
  /\ missed \subseteq Files

\* What is on record about a file, on its way to the tables.
Pending(f) == batch \o completed[DirOf[f]] \o kernel[DirOf[f]]

Agrees(f) == \A n \in {ScanName(f), WatchName(f)} : loaded[n] = disk[f]
Stable(f) == disk[f] \in Versions \cup {Gone}

\* What the table entry of a file is once the parse under way has committed, and
\* whether the file is in the tables as it is on disk, under one of its names.
Soon(n) == IF reading.name = n THEN Committed(n, reading.content) ELSE loaded[n]
UpToDate(f) == \E n \in {ScanName(f), WatchName(f)} : Soon(n) = disk[f]

\* Every complete version that is not in the tables is on its way there: whatever
\* the order of saves, debouncing, batches and restarts, the last event of the file
\* is pending and says whether the file exists, unless the change was never recorded.
NothingForgotten ==
  \A f \in Files :
    (DirOf[f] \in open /\ Stable(f) /\ f \notin missed /\ ~UpToDate(f)) =>
       Latest(Pending(f), f, disk[f] # Gone)

\* A deletion triggers a reload: when the watcher waits with nothing more on record
\* about a deleted file, no name of the file is in the tables.  A directory spelled
\* with a trailing separator breaks it, since the scan's name is never unloaded.
DeletionsReload ==
  \A f \in Files :
    (/\ configPc = "idle" /\ watcherPc = "wait"
     /\ DirOf[f] \in open /\ Pending(f) = <<>> /\ f \notin missed
     /\ disk[f] = Gone) =>
       \A n \in {ScanName(f), WatchName(f)} : loaded[n] = Gone

\* Once the watcher was restarted, only files of configured directories are loaded.
OnlyConfiguredLoaded ==
  configPc = "idle" =>
    \A n \in Names : loaded[n] # Gone => DirOf[n[1]] \in configured

\* A save never turns into an unload: an entry goes away only if its file is gone,
\* is back or listed and about to be parsed, changed unrecorded, or is not configured.
NoUnloadBySave ==
  [][\A f \in Files :
       (loaded[WatchName(f)] # Gone /\ loaded'[WatchName(f)] = Gone) =>
          \/ disk[f] = Gone
          \/ f \in missed
          \/ DirOf[f] \notin configured
          \/ Latest(Pending(f), f, TRUE)
          \/ ScanName(f) \in toParse]_watchVars

\* What was recorded about a file is not forgotten, nothing is kept from a directory that
\* is not configured, and no save unloads a file.
SavesAreApplied ==
  []WatchTypeOK /\ []NothingForgotten /\ []OnlyConfiguredLoaded /\ NoUnloadBySave

\* An editor that stops finds its files in the tables, short of unrecorded changes:
\* no burst of events, restart or rescan leaves the watcher behind for ever.
Converges ==
  <>[](\A f \in Files : (DirOf[f] \in open /\ Stable(f) /\ f \notin missed) => Agrees(f))
=============================================================================
