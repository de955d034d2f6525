------------------------------ MODULE Settings ------------------------------
(***************************************************************************)
(* The settings of one steam.exe (Config.cpp) and the thread that reloads  *)
(* them when amethysttool.toml changes (ConfigFileWatcher.cpp).  A load     *)
(* parses the whole file first and then sets four things one after the      *)
(* other: the manifest provider, its template, the user agent, and all the  *)
(* rest under Config's mutex.  InitThread loads before anything watches.    *)
(***************************************************************************)
CONSTANTS
  Processes,     \* steam.exe processes: the client and a short-lived forwarder
  Contents,      \* what a complete amethysttool.toml can say
  Default,       \* what MakeDefaultSnapshot says
  LuaPaths,      \* lua.paths of a content
  WantsAliases,  \* compatibility.denuvo_aliases of a content
  Misnamed,      \* contents whose manifest.url names no provider
  Absent,        \* no file
  Broken         \* a file that does not parse

Snapshots == Contents \cup {Default}

ASSUME SettingsAssumption ==
  /\ {Default, Absent, Broken} \cap Contents = {} /\ Absent # Broken
  /\ DOMAIN LuaPaths = Snapshots
  /\ WantsAliases \in [Snapshots -> BOOLEAN] /\ ~WantsAliases[Default]
  /\ Misnamed \subseteq Contents

VARIABLES
  config,      \* the file: absent, broken, or a content
  at,          \* where a process's thread is: InitThread, later the config watcher
  found,       \* the snapshot a load is about to apply
  settings,    \* what is in force, part by part
  loadedOnce,  \* g_loadedOnce
  watched,     \* the directories the Lua watcher was started with
  completed,   \* what the issued read has returned: none, others or config
  buffered,    \* what the kernel recorded since: also lost
  changed,     \* the watcher's local: the file was named since the last reload
  unheard      \* history: the file changed since it was read, and no record says so

watchVars == <<completed, buffered, changed>>
loadVars == <<found, settings, loadedOnce, watched>>
settingsVars == <<config, at, loadVars, watchVars, unheard>>

Parts == {"provider", "template", "agent", "rest"}
Fresh == [part \in Parts |-> Default]

SettingsInit(first) ==
  /\ config = first
  /\ at = [p \in Processes |-> "off"]
  /\ found = [p \in Processes |-> Default]
  /\ settings = [p \in Processes |-> Fresh]
  /\ loadedOnce = [p \in Processes |-> FALSE]
  /\ watched = [p \in Processes |-> {}]
  /\ completed = [p \in Processes |-> "none"]
  /\ buffered = [p \in Processes |-> "none"]
  /\ changed = [p \in Processes |-> FALSE]
  /\ unheard = [p \in Processes |-> FALSE]

Goes(p, place) == at' = [at EXCEPT ![p] = place]

-----------------------------------------------------------------------------
(* The directory watch (external): a record completes the issued read, is   *)
(* buffered, or finds the buffer full, which loses all that is in it.       *)

\* Processes whose watch is open.
Listening == {p \in Processes : at[p] \in {"idle", "debounce"} \/ (loadedOnce[p] /\ at[p] \in
                {"look", "parse", "provider", "template", "agent", "rest", "restart"})}
Deaf == "deaf"

\* A record naming `what` arrives at the processes of a set, each of which has room for it or not.
Record(what, listeners, full) ==
  /\ completed' = [p \in Processes |-> IF p \in listeners /\ completed[p] = "none" THEN what
                                       ELSE completed[p]]
  /\ buffered' = [p \in Processes |->
       IF p \notin listeners \/ completed[p] = "none" THEN buffered[p]
       ELSE IF p \in full \/ buffered[p] = "lost" THEN "lost"
       ELSE IF "config" \in {what, buffered[p]} THEN "config" ELSE what]

\* The file changes.  A process that listens has it recorded, unless it is lost.
Changes(content) ==
  \E full \in SUBSET Listening :
    /\ config' = content
    /\ Record("config", Listening, full)
    /\ unheard' = [p \in Processes |-> "config" \notin {completed'[p], buffered'[p]} /\ at[p] # "off"]
    /\ UNCHANGED changed

\* Another file of Steam's directory changes, and the records may overflow.
OthersChange ==
  \E full \in SUBSET Listening :
    /\ Record("others", Listening, full)
    /\ unheard' = [p \in Processes |-> unheard[p] \/
                     (buffered[p] = "config" /\ buffered'[p] = "lost" /\ completed[p] # "config")]
    /\ UNCHANGED <<config, at, loadVars, changed>>

-----------------------------------------------------------------------------
(* Config::Load                                                            *)

\* exists: without a file the defaults are applied.
Look(p) ==
  /\ at[p] = "look"
  /\ IF config = Absent
     THEN /\ found' = [found EXCEPT ![p] = Default]
          /\ unheard' = [unheard EXCEPT ![p] = FALSE]
          /\ Goes(p, "provider")
     ELSE Goes(p, "parse") /\ UNCHANGED <<found, unheard>>
  /\ UNCHANGED <<config, settings, loadedOnce, watched, watchVars>>

\* The file is parsed as a whole.  If that fails (it may also be gone by now), what is
\* in force stays, unless nothing was ever loaded.
DefaultsApply(p) == ~loadedOnce[p]
Parse(p) ==
  /\ at[p] = "parse"
  /\ IF config \in Contents \/ DefaultsApply(p)
     THEN /\ unheard' = [unheard EXCEPT ![p] = FALSE]
          /\ found' = [found EXCEPT ![p] = IF config \in Contents THEN config ELSE Default]
          /\ Goes(p, "provider")
     ELSE Goes(p, "idle") /\ UNCHANGED <<found, unheard>>
  /\ UNCHANGED <<config, settings, loadedOnce, watched, watchVars>>

\* ApplyManifestProvider: a name that is none gives the default provider.
ProviderOf(s) == IF s \in Misnamed THEN Default ELSE s

Sets(p, part, value) == settings' = [settings EXCEPT ![p][part] = value]

SetProvider(p) ==
  /\ at[p] = "provider"
  /\ Sets(p, "provider", ProviderOf(found[p]))
  /\ Goes(p, "template")
  /\ UNCHANGED <<config, found, loadedOnce, watched, watchVars, unheard>>

SetUrlTemplateOverride(p) ==
  /\ at[p] = "template"
  /\ Sets(p, "template", found[p])
  /\ Goes(p, "agent")
  /\ UNCHANGED <<config, found, loadedOnce, watched, watchVars, unheard>>

ApplyHttpUserAgent(p) ==
  /\ at[p] = "agent"
  /\ Sets(p, "agent", found[p])
  /\ Goes(p, "rest")
  /\ UNCHANGED <<config, found, loadedOnce, watched, watchVars, unheard>>

\* ApplySnapshotLocked, and what the caller does with luaPathsChanged: InitThread goes on
\* to the aliases, ReloadConfig restarts the Lua watcher or is done.
NeverChanged(p) == FALSE
LuaPathsChanged(p) == LuaPaths[settings[p].rest] # LuaPaths[found[p]]
ApplySnapshot(p) ==
  /\ at[p] = "rest"
  /\ Sets(p, "rest", found[p])
  /\ loadedOnce' = [loadedOnce EXCEPT ![p] = TRUE]
  /\ found' = [found EXCEPT ![p] = Default]
  /\ Goes(p, IF ~loadedOnce[p] THEN "alias" ELSE IF LuaPathsChanged(p) THEN "restart" ELSE "idle")
  /\ UNCHANGED <<config, watched, watchVars, unheard>>

Load(p) ==
  \/ Look(p) \/ Parse(p)
  \/ SetProvider(p) \/ SetUrlTemplateOverride(p) \/ ApplyHttpUserAgent(p) \/ ApplySnapshot(p)

-----------------------------------------------------------------------------
(* The Lua watcher's directories and the config watcher                    *)

\* InitThread parses and watches the configured directories; RestartLuaWatcher does it
\* again.  HotReload has the details.
Directories(p) ==
  /\ at[p] \in {"directories", "restart"}
  /\ watched' = [watched EXCEPT ![p] = LuaPaths[settings[p].rest]]
  /\ Goes(p, IF at[p] = "restart" THEN "idle" ELSE "open")
  /\ UNCHANGED <<config, found, settings, loadedOnce, watchVars, unheard>>

\* WatcherThread opens its watch and issues a read; it returns if it cannot.
OpenWatch(p) ==
  /\ at[p] = "open"
  /\ Goes(p, "idle") \/ Goes(p, Deaf)
  /\ UNCHANGED <<config, loadVars, watchVars, unheard>>

\* drainEvent takes what the read returned and issues the next one, which returns at
\* once if something was buffered; for a lost buffer it names nothing.
Forgets(p) == FALSE
Remembers(p) == changed[p]
Drain(p) ==
  /\ at[p] \in {"idle", "debounce"}
  /\ completed[p] # "none"
  /\ changed' = [changed EXCEPT ![p] = completed[p] = "config" \/ Remembers(p)]
  /\ completed' = [completed EXCEPT ![p] = IF buffered[p] = "lost" THEN "others" ELSE buffered[p]]
  /\ buffered' = [buffered EXCEPT ![p] = "none"]
  /\ Goes(p, "debounce")
  /\ UNCHANGED <<config, loadVars, unheard>>

\* Nothing happens in the directory for kDebounceMs.
Settle(p) ==
  /\ at[p] = "debounce"
  /\ completed[p] = "none"
  /\ changed' = [changed EXCEPT ![p] = FALSE]
  /\ Goes(p, IF changed[p] THEN "look" ELSE "idle")
  /\ UNCHANGED <<config, loadVars, completed, buffered, unheard>>

Watch(p) == Directories(p) \/ OpenWatch(p) \/ Drain(p) \/ Settle(p)

-----------------------------------------------------------------------------
(* Properties                                                              *)

\* When no load is under way, all the parts in force are those of one file: a file that
\* does not parse has changed none of them.
NoMixedSettings ==
  \A p \in Processes :
    at[p] \notin {"template", "agent", "rest"} =>
      /\ settings[p].provider = ProviderOf(settings[p].rest)
      /\ settings[p].template = settings[p].rest
      /\ settings[p].agent = settings[p].rest

\* A watcher that waits has reloaded what it heard of, and the Lua watcher's directories
\* are those of the settings; a broken file leaves the last good one in force.
SettingsFollow ==
  \A p \in Processes :
    (at[p] = "idle" /\ completed[p] = "none") =>
      /\ watched[p] = LuaPaths[settings[p].rest]
      /\ config # Broken /\ ~unheard[p] =>
           settings[p].rest = IF config = Absent THEN Default ELSE config

\* The settings in force are those of one file, the last good one the watcher heard of.
SettingsAreRight == NoMixedSettings /\ SettingsFollow
=============================================================================
