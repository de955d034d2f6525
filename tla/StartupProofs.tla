--------------------------- MODULE StartupProofs ---------------------------
(***************************************************************************)
(* Proofs about Startup and its parts, for every set of processes, files'  *)
(* contents, versions, games, images and threads, and every number of      *)
(* edits and faults.                                                       *)
(***************************************************************************)
EXTENDS Startup, TLAPS, FiniteSetTheorems

-----------------------------------------------------------------------------
(* The updater                                                             *)

\* Until the DLL is moved aside it is complete under its name, and until the new one is
\* written its backup is; what is written is a version the mirror has published.
UpdateInv ==
  /\ ACopySurvives
  /\ published \in Versions
  /\ update \in {"cleanup", "check", "fetch", "aside"} => Complete(self)
  /\ update \in {"write", "flush"} => Complete(old)
  /\ update \in {"fetch", "aside", "write", "flush"} => offered \in Versions

\* The version that was installed is there.
LEMMA InitUpdateInv == Init => UpdateInv
<1>1. (CHOOSE v \in Versions : TRUE) \in Versions
  BY UpdateAssumption
<1>2. QED
  BY <1>1 DEF Init, UpdateInit, UpdateInv, ACopySurvives, Complete

\* Every step of the updater, a kill included, leaves a complete copy where the next
\* step needs it.
LEMMA UpdateStepInv ==
  ASSUME UpdateInv, UpdateStep
  PROVE  UpdateInv'
<1> USE DEF UpdateInv, ACopySurvives, Complete, Then
<1>1. CASE Start
  BY <1>1 DEF Start
<1>2. CASE Stop
  BY <1>2 DEF Stop
<1>3. CASE Publish
  BY <1>3 DEF Publish
<1>4. CASE CleanupStagedBackup
  BY <1>4 DEF CleanupStagedBackup
<1>5. CASE Check
  BY <1>5 DEF Check
<1>6. CASE Fetch
  BY <1>6 DEF Fetch
<1>7. CASE MoveAside
  BY <1>7 DEF MoveAside
<1>8. CASE OpenSelf
  BY <1>8 DEF OpenSelf
<1>9. CASE FlushSelf
  BY <1>9 DEF FlushSelf
<1>10. CASE Restore
  BY <1>10 DEF Restore
<1>11. QED
  BY <1>1, <1>2, <1>3, <1>4, <1>5, <1>6, <1>7, <1>8, <1>9, <1>10 DEF UpdateStep, Stage

\* Nothing else touches the updater's files.
LEMMA NextUpdateInv ==
  ASSUME UpdateInv, [Next]_vars
  PROVE  UpdateInv'
<1>1. CASE UpdateStep
  BY <1>1, UpdateStepInv
<1>2. CASE UNCHANGED updateVars
  BY <1>2 DEF updateVars, UpdateInv, ACopySurvives, Complete
<1>3. UpdateStep \/ UNCHANGED updateVars
  BY DEF Next, Launch, Runs, Exit, Kill, Ends, Happens, Edit, AliasEvent, Passes, Redirects, Loads, Same, vars
<1>4. QED
  BY <1>1, <1>2, <1>3

\* Wherever Steam is killed, and however often the mirror publishes, a complete DLL is
\* left under the name or next to it.
THEOREM CopiesSurvive == Spec => []ACopySurvives
<1>1. UpdateInv /\ [Next]_vars => UpdateInv'
  BY NextUpdateInv
<1>2. UpdateInv => ACopySurvives
  BY DEF UpdateInv
<1>3. QED
  BY <1>1, <1>2, InitUpdateInv, PTL DEF Spec

-----------------------------------------------------------------------------
(* The host of cloud_redirect.dll                                          *)

\* The library is active before Initialize reads the set, so that a reload from then on
\* hands its set over.  A set that was read is the present one unless a reload is under
\* way, the hand-overs have crossed, or nobody was told.
CloudInv ==
  /\ hostAt \in {"config", "load", "symbols", "init", "activate", "read", "push", "done", "given up"}
  /\ syncAt \in {"idle", "check", "read", "push"}
  /\ hostAt \in {"read", "push", "done"} => hostActive
  /\ hostAt = "push" /\ syncAt = "push" => crossed
  /\ hostAt = "push" /\ syncAt \in {"idle", "push"} => toPush = depots \/ crossed \/ silent
  /\ syncAt = "push" => toSync = depots \/ crossed \/ silent
  /\ RedirectedSetFollows

\* Nothing is read at first.
LEMMA InitCloudInv == Init => CloudInv
  BY DEF Init, CloudInit, CloudInv, RedirectedSetFollows, AtRest

\* Every step of Initialize, of the watcher and of the scripts keeps it.
LEMMA CloudStepInv ==
  ASSUME CloudInv, CloudStep
  PROVE  CloudInv'
<1> USE DEF CloudInv, RedirectedSetFollows, AtRest, hostVars, syncVars
<1>1. CASE GiveUp
  BY <1>1 DEF GiveUp, Fallible
<1>2. CASE Prepare
  <2>1. hostAt' \in {"load", "symbols", "init", "activate"}
    <3>1. hostAt' = HostStep(hostAt) /\ hostAt \in {"config", "load", "symbols", "init"}
      BY <1>2 DEF Prepare, Fallible
    <3>2. /\ HostStep("config") = "load" /\ HostStep("load") = "symbols"
          /\ HostStep("symbols") = "init" /\ HostStep("init") = "activate"
      BY DEF HostStep
    <3>3. QED
      BY <3>1, <3>2
  <2>2. UNCHANGED <<depots, hostActive, toPush, syncVars, apps, crossed, silent>>
    BY <1>2 DEF Prepare
  <2>3. QED
    BY <2>1, <2>2
<1>3. CASE Activate
  BY <1>3 DEF Activate, HostStep
<1>4. CASE ReadApps
  BY <1>4 DEF ReadApps, HostStep
<1>5. CASE PushApps
  BY <1>5 DEF PushApps, HostStep
<1>6. CASE CheckActive
  BY <1>6 DEF CheckActive
<1>7. CASE ReadSync
  BY <1>7 DEF ReadSync
<1>8. CASE PushSync
  BY <1>8 DEF PushSync
<1>9. CASE Shutdown
  BY <1>9 DEF Shutdown
<1>10. ASSUME NEW ids \in SUBSET Depots, ReloadScripts(ids)
       PROVE  CloudInv'
  BY <1>10 DEF ReloadScripts
<1>11. ASSUME NEW ids \in SUBSET Depots, RestartWatcher(ids)
       PROVE  CloudInv'
  BY <1>11 DEF RestartWatcher
<1>12. ASSUME NEW id \in Depots, CallbackAdds(id)
       PROVE  CloudInv'
  BY <1>12 DEF CallbackAdds
<1>13. QED
  BY <1>1, <1>2, <1>3, <1>4, <1>5, <1>6, <1>7, <1>8, <1>9, <1>10, <1>11, <1>12 DEF CloudStep

\* Nothing else touches the host.
LEMMA NextCloudInv ==
  ASSUME CloudInv, [Next]_vars
  PROVE  CloudInv'
<1>1. CASE CloudStep
  BY <1>1, CloudStepInv
<1>2. CASE UNCHANGED cloudVars
  BY <1>2 DEF cloudVars, hostVars, syncVars, CloudInv, RedirectedSetFollows, AtRest
<1>3. CloudStep \/ UNCHANGED cloudVars
  BY DEF Next, Launch, Runs, Exit, Kill, Ends, Happens, Edit, AliasEvent, Passes, Redirects, Loads, Same, vars
<1>4. QED
  BY <1>1, <1>2, <1>3

\* A reload that runs while the library starts is not missed, for every set of games and
\* however often scripts are reloaded.
THEOREM RedirectedSetsFollow == Spec => []RedirectedSetFollows
<1>1. CloudInv /\ [Next]_vars => CloudInv'
  BY NextCloudInv
<1>2. CloudInv => RedirectedSetFollows
  BY DEF CloudInv
<1>3. QED
  BY <1>1, <1>2, InitCloudInv, PTL DEF Spec

-----------------------------------------------------------------------------
(* Images and proxies                                                      *)

\* Only Steam has an active image, and as long as the mutex can be created it is the one
\* that has claimed the process.
ImageInv ==
  /\ images \in [Images -> {"out", "inert", "active"}]
  /\ \A i \in Images : images[i] = "active" => IsSteamHost /\ (claimed = i \/ unguarded)

\* The library that was loaded with the proxy has bound all it provides before anybody
\* calls, so that no call looks for it and none is refused.
ForwardInv ==
  /\ callers \in [Callers -> [step : {"none", "look", "load", "bind", "use"}, export : Exports \cup {"none"}]]
  /\ "xinput1_4" \notin proxies => callers = [t \in Callers |-> NoCall] /\ refused = {}
  /\ "xinput1_4" \in proxies /\ ~withoutReal =>
       /\ real /\ bound = provided
       /\ \A t \in Callers : callers[t].step \in {"none", "use"}
       /\ refused \cap provided = {}

\* No process, no image and no call.
LEMMA InitLoaderInv == Init => ImageInv /\ ForwardInv
  BY LoaderAssumption DEF Init, LoaderInit, ImageInv, ForwardInv, NoCall

\* DllMain of an image makes it active only in Steam, with the mutex or without one.
LEMMA AttachInv ==
  ASSUME ImageInv, NEW image \in Images, images[image] = "out", Attach(image), UNCHANGED host
  PROVE  ImageInv'
<1>1. CASE IsSteamHost
  BY <1>1, LoaderAssumption DEF Attach, ClaimProcessForThisImage, ImageInv, IsSteamHost
<1>2. CASE ~IsSteamHost
  BY <1>2 DEF Attach, ImageInv, IsSteamHost
<1>3. QED
  BY <1>1, <1>2

\* Whatever is loaded and unloaded by whom, the active image is the one that has claimed
\* the process.
LEMMA LoaderStepImageInv ==
  ASSUME ImageInv, LoaderStep
  PROVE  ImageInv'
<1>1. CASE StartProcess
  BY <1>1 DEF StartProcess, ImageInv, IsSteamHost, imageVars
<1>2. CASE EndProcess
  BY <1>2 DEF EndProcess, ImageInv
<1>3. ASSUME NEW image \in Images, ForeignLoad(image)
      PROVE  ImageInv'
  BY <1>3, AttachInv DEF ForeignLoad
<1>4. ASSUME NEW image \in Images, Detach(image)
      PROVE  ImageInv'
  BY <1>4 DEF Detach, ImageInv, IsSteamHost
<1>5. ASSUME NEW proxy \in Proxies, LoadProxy(proxy)
      PROVE  ImageInv'
  <2>1. CASE images["AmethystTool"] = "out" /\ Attach("AmethystTool")
    BY <1>5, <2>1, AttachInv, LoaderAssumption DEF LoadProxy
  <2>2. CASE UNCHANGED imageVars
    BY <1>5, <2>2 DEF LoadProxy, ImageInv, IsSteamHost, imageVars
  <2>3. QED
    BY <1>5, <2>1, <2>2 DEF LoadProxy, AmethystToolLoad, LoadImage
<1>6. CASE UNCHANGED <<host, imageVars>>
  BY <1>6 DEF ImageInv, IsSteamHost, imageVars
<1>7. QED
  BY <1>1, <1>2, <1>3, <1>4, <1>5, <1>6 DEF LoaderStep, Appears, LoadRealXInput, Forward, CallExport

\* Whichever thread calls which export first, it finds the library and its pointer.
LEMMA LoaderStepForwardInv ==
  ASSUME ForwardInv, LoaderStep
  PROVE  ForwardInv'
<1> USE DEF ForwardInv, xinputVars, NoCall
<1>1. CASE EndProcess
  BY <1>1 DEF EndProcess
<1>2. ASSUME NEW proxy \in Proxies, LoadProxy(proxy)
      PROVE  ForwardInv'
  <2>1. proxies' = proxies \cup {proxy} /\ proxy \notin proxies /\ UNCHANGED <<available, provided, callers, refused>>
    BY <1>2 DEF LoadProxy
  <2>2. CASE proxy = "xinput1_4"
    <3>1. real' = available /\ bound' = (IF available THEN provided ELSE {}) /\ withoutReal' = ~available
      BY <1>2, <2>2 DEF LoadProxy, LoadAtOnce
    <3>2. ~withoutReal' => available /\ real' /\ bound' = provided
      BY <3>1, Zenon
    <3>3. callers = [t \in Callers |-> NoCall] /\ refused = {}
      BY <2>1, <2>2
    <3>4. \A t \in Callers : callers[t].step = "none"
      BY <3>3
    <3>5. QED
      BY <2>1, <2>2, <3>2, <3>3, <3>4
  <2>3. CASE proxy # "xinput1_4"
    BY <1>2, <2>1, <2>3 DEF LoadProxy
  <2>4. QED
    BY <2>2, <2>3
<1>3. ASSUME NEW t \in Callers, NEW e \in Exports, CallExport(t, e)
      PROVE  ForwardInv'
  BY <1>3 DEF CallExport
<1>4. ASSUME NEW t \in Callers, LoadRealXInput(t)
      PROVE  ForwardInv'
  BY <1>4 DEF LoadRealXInput, Steps
<1>5. ASSUME NEW t \in Callers, Forward(t)
      PROVE  ForwardInv'
  BY <1>5 DEF Forward
<1>6. CASE UNCHANGED <<proxies, provided, xinputVars, callers, refused>>
  BY <1>6
<1>7. QED
  BY <1>1, <1>2, <1>3, <1>4, <1>5, <1>6 DEF LoaderStep, StartProcess, Appears, ForeignLoad, Detach

\* Nothing else touches the proxies and the images.
LEMMA NextLoaderInv ==
  ASSUME ImageInv, ForwardInv, [Next]_vars
  PROVE  ImageInv' /\ ForwardInv'
<1>1. CASE LoaderStep
  BY <1>1, LoaderStepImageInv, LoaderStepForwardInv
<1>2. CASE UNCHANGED loaderVars
  BY <1>2 DEF loaderVars, imageVars, xinputVars, ImageInv, IsSteamHost, ForwardInv
<1>3. LoaderStep \/ UNCHANGED loaderVars
  BY DEF Next, Launch, Runs, Exit, Kill, Ends, Happens, Edit, AliasEvent, Passes, Redirects, Loads, Same, vars
<1>4. QED
  BY <1>1, <1>2, <1>3

\* Images that are active with the mutex are one.
LEMMA ImageInvIsOneActive == ImageInv => OneActiveImage
<1> SUFFICES ASSUME ImageInv PROVE OneActiveImage
  OBVIOUS
<1> DEFINE active == {i \in Images : images[i] = "active"}
<1>1. IsSteamHost \/ active = {}
  BY DEF ImageInv
<1>2. ASSUME ~unguarded
      PROVE  Cardinality(active) <= 1
  <2>1. active = {} \/ active = {claimed}
    BY <1>2 DEF ImageInv
  <2>2. QED
    <3>1. Cardinality({}) = 0 /\ Cardinality({claimed}) = 1
      BY FS_EmptySet, FS_Singleton
    <3>2. QED
      BY <2>1, <3>1
<1>3. QED
  BY <1>1, <1>2 DEF OneActiveImage

\* No run leaves the proxies' invariants.
LEMMA SpecLoaderInv == Spec => [](ImageInv /\ ForwardInv)
<1>1. ImageInv /\ ForwardInv /\ [Next]_vars => (ImageInv /\ ForwardInv)'
  BY NextLoaderInv
<1>2. QED
  BY <1>1, InitLoaderInv, PTL DEF Spec

\* For every set of images and proxies, at most one image of a Steam process runs, and none
\* of any other process, as long as the mutex can be created.
THEOREM OneImageRuns == Spec => []OneActiveImage
<1>1. ImageInv /\ ForwardInv => OneActiveImage
  BY ImageInvIsOneActive
<1>2. QED
  BY <1>1, SpecLoaderInv, PTL

\* For every set of threads and exports, no call of something the library exports is
\* refused, if the library could be loaded with the proxy.
THEOREM CallsReachTheLibrary == Spec => []CallsAreForwarded
<1>1. ImageInv /\ ForwardInv => CallsAreForwarded
  BY DEF ForwardInv, CallsAreForwarded
<1>2. QED
  BY <1>1, SpecLoaderInv, PTL

-----------------------------------------------------------------------------
(* Settings                                                                *)

\* Where a process has the directories of its settings watched, and what it may be at.
Beginning == {"off", "migrate", "copying"}
Loading == {"look", "parse", "provider", "template", "agent", "rest"}
Aliasing == {"alias", "inspect", "write", "fill", "rename"}
Watching == {"directories", "restart", "open", "idle", "debounce", Deaf}

SettingsTypeOK ==
  /\ config \in Contents \cup {Absent, Broken}
  /\ at \in [Processes -> Beginning \cup Loading \cup Aliasing \cup Watching]
  /\ found \in [Processes -> Snapshots]
  /\ settings \in [Processes -> [Parts -> Snapshots]]
  /\ loadedOnce \in [Processes -> BOOLEAN]
  /\ watched \in [Processes -> {{}} \cup {LuaPaths[s] : s \in Snapshots}]
  /\ completed \in [Processes -> {"none", "others", "config"}]
  /\ buffered \in [Processes -> {"none", "others", "config", "lost"}]
  /\ changed \in [Processes -> BOOLEAN]
  /\ unheard \in [Processes -> BOOLEAN]

\* In the middle of a load the parts that were set are those of the snapshot it found.
PartsInv ==
  \A p \in Processes :
    /\ at[p] \in {"template", "agent", "rest"} => settings[p].provider = ProviderOf(found[p])
    /\ at[p] \in {"agent", "rest"} => settings[p].template = found[p]
    /\ at[p] = "rest" => settings[p].agent = found[p]

\* Only a process that has loaded once waits and watches, and it watches the directories
\* of its settings; the kernel buffers a record only behind one that has been returned.
OrderInv ==
  \A p \in Processes :
    /\ at[p] \in Beginning => ~loadedOnce[p]
    /\ at[p] \in Aliasing \cup Watching => loadedOnce[p]
    /\ loadedOnce[p] /\ at[p] \notin Aliasing \cup {"directories", "restart"} =>
         watched[p] = LuaPaths[settings[p].rest]
    /\ changed[p] => at[p] = "debounce"
    /\ completed[p] = "none" => buffered[p] = "none"

\* A change of the file since it was read is on its way to the watcher, or is unheard of.
Heard(p) == changed[p] \/ completed[p] = "config" \/ buffered[p] = "config" \/ unheard[p]
OfFile == IF config = Absent THEN Default ELSE config
HeardInv ==
  \A p \in Processes :
    /\ at[p] \in {"provider", "template", "agent", "rest"} /\ config # Broken => Heard(p) \/ found[p] = OfFile
    /\ at[p] \in Aliasing \cup Watching /\ config # Broken => Heard(p) \/ settings[p].rest = OfFile
    /\ at[p] = "parse" /\ loadedOnce[p] /\ config = Absent => Heard(p)

SettingsInv == SettingsTypeOK /\ NoMixedSettings /\ PartsInv /\ OrderInv /\ HeardInv

\* What is written under a name is a build or a configuration, and what is renamed is
\* that; a foreign file that has the name by then appeared after the process had looked.
Writes(f) == IF f = "dll" THEN Builds ELSE Contents \cup {Broken}
AliasTypeOK ==
  /\ dll \in Builds
  /\ alias \in [Files -> Builds \cup Contents \cup {Broken, Absent, Foreign}]
  /\ alias["toml"] \in Contents \cup {Broken, Absent, Foreign}
  /\ copied \in Contents \cup {Broken, Absent, Foreign}
  /\ temp \in [Processes -> [Files -> Builds \cup Contents \cup {Broken, Absent, Half}]]
  /\ doing \in [Processes -> Files]
  /\ payload \in [Processes -> Builds \cup Contents \cup {Broken, Absent}]
  /\ late \in [Processes -> BOOLEAN]
AliasInv ==
  /\ AliasTypeOK
  /\ \A p \in Processes :
       /\ at[p] \in {"write", "fill", "rename"} =>
            /\ payload[p] \in Writes(doing[p])
            /\ alias[doing[p]] = Foreign => late[p]
       /\ at[p] = "rename" => temp[p][doing[p]] = payload[p]

\* The settings that SettingsAreRight asks for.
LEMMA SettingsInvIsRight == SettingsInv => SettingsAreRight
  BY DEF SettingsInv, PartsInv, OrderInv, HeardInv, Heard, OfFile, Watching, Aliasing, SettingsAreRight, SettingsFollow

\* Nothing is loaded at first.
LEMMA InitSettingsInv == Init => SettingsInv
<1> SUFFICES ASSUME Init PROVE SettingsInv
  OBVIOUS
<1>1. PICK first \in Contents \cup {Absent, Broken} : SettingsInit(first)
  BY AliasesAssumption DEF Init
<1>2. Default \in Snapshots /\ Fresh \in [Parts -> Snapshots]
  BY DEF Snapshots, Fresh
<1>3. SettingsTypeOK
  BY <1>1, <1>2 DEF SettingsInit, SettingsTypeOK, Beginning
<1>4. NoMixedSettings
  BY <1>1, SettingsAssumption DEF SettingsInit, NoMixedSettings, Fresh, Parts, ProviderOf
<1>5. PartsInv /\ OrderInv /\ HeardInv
  BY <1>1 DEF SettingsInit, PartsInv, OrderInv, HeardInv, Beginning, Aliasing, Watching, Deaf
<1>6. QED
  BY <1>3, <1>4, <1>5 DEF SettingsInv

\* Every step of a load and of the watcher keeps the invariant.
LEMMA LoadAndWatchInv ==
  ASSUME SettingsInv, NEW p \in Processes, Load(p) \/ Watch(p)
  PROVE  SettingsInv'
<1> USE SettingsAssumption DEF SettingsInv, Goes, loadVars, watchVars, Beginning, Loading, Aliasing, Watching, Deaf
<1>1. CASE Look(p)
  <2>1. SettingsTypeOK'
    BY <1>1 DEF Look, SettingsTypeOK, Snapshots, Parts, ProviderOf
  <2>2. NoMixedSettings'
    BY <1>1 DEF Look, NoMixedSettings, SettingsTypeOK, PartsInv, ProviderOf, Parts
  <2>3. PartsInv'
    BY <1>1 DEF Look, PartsInv, SettingsTypeOK, Parts, ProviderOf
  <2>4. OrderInv'
    BY <1>1 DEF Look, OrderInv, SettingsTypeOK, NoMixedSettings, Parts
  <2>5. HeardInv'
    BY <1>1 DEF Look, HeardInv, OrderInv, Heard, OfFile, SettingsTypeOK, Parts
  <2>6. QED
    BY <2>1, <2>2, <2>3, <2>4, <2>5
<1>2. CASE Parse(p)
  <2>1. SettingsTypeOK'
    <3>1. \E s \in Snapshots : found' = [found EXCEPT ![p] = s] \/ found' = found
      BY <1>2 DEF Parse, Snapshots
    <3>2. found' \in [Processes -> Snapshots]
      BY <3>1 DEF SettingsTypeOK
    <3>3. \E place \in {"provider", "idle"} : at' = [at EXCEPT ![p] = place]
      BY <1>2 DEF Parse
    <3>4. unheard' \in [Processes -> BOOLEAN]
      BY <1>2 DEF Parse, SettingsTypeOK
    <3>5. QED
      BY <1>2, <3>2, <3>3, <3>4 DEF Parse, SettingsTypeOK
  <2>2. NoMixedSettings'
    BY <1>2 DEF Parse, DefaultsApply, NoMixedSettings, SettingsTypeOK, PartsInv, ProviderOf, Parts
  <2>3. PartsInv'
    BY <1>2 DEF Parse, DefaultsApply, PartsInv, SettingsTypeOK, Parts, ProviderOf
  <2>4. OrderInv'
    BY <1>2 DEF Parse, DefaultsApply, OrderInv, SettingsTypeOK, NoMixedSettings, Parts
  <2>5. HeardInv'
    BY <1>2 DEF Parse, DefaultsApply, HeardInv, OrderInv, Heard, OfFile, SettingsTypeOK, Parts
  <2>6. QED
    BY <2>1, <2>2, <2>3, <2>4, <2>5
<1>3. CASE SetProvider(p)
  <2>1. SettingsTypeOK'
    BY <1>3 DEF SetProvider, Sets, SettingsTypeOK, Snapshots, Parts, ProviderOf
  <2>2. NoMixedSettings'
    BY <1>3 DEF SetProvider, Sets, NoMixedSettings, SettingsTypeOK, PartsInv, ProviderOf, Parts
  <2>3. PartsInv'
    BY <1>3 DEF SetProvider, Sets, PartsInv, SettingsTypeOK, Parts, ProviderOf
  <2>4. OrderInv'
    BY <1>3 DEF SetProvider, Sets, OrderInv, SettingsTypeOK, NoMixedSettings, Parts
  <2>5. HeardInv'
    BY <1>3 DEF SetProvider, Sets, HeardInv, OrderInv, Heard, OfFile, SettingsTypeOK, Parts
  <2>6. QED
    BY <2>1, <2>2, <2>3, <2>4, <2>5
<1>4. CASE SetUrlTemplateOverride(p)
  <2>1. SettingsTypeOK'
    BY <1>4 DEF SetUrlTemplateOverride, Sets, SettingsTypeOK, Snapshots, Parts, ProviderOf
  <2>2. NoMixedSettings'
    BY <1>4 DEF SetUrlTemplateOverride, Sets, NoMixedSettings, SettingsTypeOK, PartsInv, ProviderOf, Parts
  <2>3. PartsInv'
    BY <1>4 DEF SetUrlTemplateOverride, Sets, PartsInv, SettingsTypeOK, Parts, ProviderOf
  <2>4. OrderInv'
    BY <1>4 DEF SetUrlTemplateOverride, Sets, OrderInv, SettingsTypeOK, NoMixedSettings, Parts
  <2>5. HeardInv'
    BY <1>4 DEF SetUrlTemplateOverride, Sets, HeardInv, OrderInv, Heard, OfFile, SettingsTypeOK, Parts
  <2>6. QED
    BY <2>1, <2>2, <2>3, <2>4, <2>5
<1>5. CASE ApplyHttpUserAgent(p)
  <2>1. SettingsTypeOK'
    BY <1>5 DEF ApplyHttpUserAgent, Sets, SettingsTypeOK, Snapshots, Parts, ProviderOf
  <2>2. NoMixedSettings'
    BY <1>5 DEF ApplyHttpUserAgent, Sets, NoMixedSettings, SettingsTypeOK, PartsInv, ProviderOf, Parts
  <2>3. PartsInv'
    BY <1>5 DEF ApplyHttpUserAgent, Sets, PartsInv, SettingsTypeOK, Parts, ProviderOf
  <2>4. OrderInv'
    BY <1>5 DEF ApplyHttpUserAgent, Sets, OrderInv, SettingsTypeOK, NoMixedSettings, Parts
  <2>5. HeardInv'
    BY <1>5 DEF ApplyHttpUserAgent, Sets, HeardInv, OrderInv, Heard, OfFile, SettingsTypeOK, Parts
  <2>6. QED
    BY <2>1, <2>2, <2>3, <2>4, <2>5
<1>6. CASE ApplySnapshot(p)
  <2>1. SettingsTypeOK'
    BY <1>6 DEF ApplySnapshot, Sets, LuaPathsChanged, SettingsTypeOK, Snapshots, Parts, ProviderOf
  <2>2. NoMixedSettings'
    BY <1>6 DEF ApplySnapshot, Sets, LuaPathsChanged, NoMixedSettings, SettingsTypeOK, PartsInv, ProviderOf, Parts
  <2>3. PartsInv'
    BY <1>6 DEF ApplySnapshot, Sets, LuaPathsChanged, PartsInv, SettingsTypeOK, Parts, ProviderOf
  <2>4. OrderInv'
    BY <1>6 DEF ApplySnapshot, Sets, LuaPathsChanged, OrderInv, SettingsTypeOK, NoMixedSettings, Parts
  <2>5. HeardInv'
    BY <1>6 DEF ApplySnapshot, Sets, LuaPathsChanged, HeardInv, OrderInv, Heard, OfFile, SettingsTypeOK, Parts
  <2>6. QED
    BY <2>1, <2>2, <2>3, <2>4, <2>5
<1>7. CASE Directories(p)
  <2>1. SettingsTypeOK'
    BY <1>7 DEF Directories, SettingsTypeOK, Snapshots, Parts, ProviderOf
  <2>2. NoMixedSettings'
    BY <1>7 DEF Directories, NoMixedSettings, SettingsTypeOK, PartsInv, ProviderOf, Parts
  <2>3. PartsInv'
    BY <1>7 DEF Directories, PartsInv, SettingsTypeOK, Parts, ProviderOf
  <2>4. OrderInv'
    BY <1>7 DEF Directories, OrderInv, SettingsTypeOK, NoMixedSettings, Parts
  <2>5. HeardInv'
    BY <1>7 DEF Directories, HeardInv, OrderInv, Heard, OfFile, SettingsTypeOK, Parts
  <2>6. QED
    BY <2>1, <2>2, <2>3, <2>4, <2>5
<1>8. CASE OpenWatch(p)
  <2>1. SettingsTypeOK'
    BY <1>8 DEF OpenWatch, SettingsTypeOK, Snapshots, Parts, ProviderOf
  <2>2. NoMixedSettings'
    BY <1>8 DEF OpenWatch, NoMixedSettings, SettingsTypeOK, PartsInv, ProviderOf, Parts
  <2>3. PartsInv'
    BY <1>8 DEF OpenWatch, PartsInv, SettingsTypeOK, Parts, ProviderOf
  <2>4. OrderInv'
    BY <1>8 DEF OpenWatch, OrderInv, SettingsTypeOK, NoMixedSettings, Parts
  <2>5. HeardInv'
    BY <1>8 DEF OpenWatch, HeardInv, OrderInv, Heard, OfFile, SettingsTypeOK, Parts
  <2>6. QED
    BY <2>1, <2>2, <2>3, <2>4, <2>5
<1>9. CASE Drain(p)
  <2>1. SettingsTypeOK'
    BY <1>9 DEF Drain, Remembers, SettingsTypeOK, Snapshots, Parts, ProviderOf
  <2>2. NoMixedSettings'
    BY <1>9 DEF Drain, Remembers, NoMixedSettings, SettingsTypeOK, PartsInv, ProviderOf, Parts
  <2>3. PartsInv'
    BY <1>9 DEF Drain, Remembers, PartsInv, SettingsTypeOK, Parts, ProviderOf
  <2>4. OrderInv'
    BY <1>9 DEF Drain, Remembers, OrderInv, SettingsTypeOK, NoMixedSettings, Parts
  <2>5. HeardInv'
    BY <1>9 DEF Drain, Remembers, HeardInv, OrderInv, Heard, OfFile, SettingsTypeOK, Parts
  <2>6. QED
    BY <2>1, <2>2, <2>3, <2>4, <2>5
<1>10. CASE Settle(p)
  <2>1. SettingsTypeOK'
    BY <1>10 DEF Settle, SettingsTypeOK, Snapshots, Parts, ProviderOf
  <2>2. NoMixedSettings'
    BY <1>10 DEF Settle, NoMixedSettings, SettingsTypeOK, PartsInv, ProviderOf, Parts
  <2>3. PartsInv'
    BY <1>10 DEF Settle, PartsInv, SettingsTypeOK, Parts, ProviderOf
  <2>4. OrderInv'
    BY <1>10 DEF Settle, OrderInv, SettingsTypeOK, NoMixedSettings, Parts
  <2>5. HeardInv'
    BY <1>10 DEF Settle, HeardInv, OrderInv, Heard, OfFile, SettingsTypeOK, Parts
  <2>6. QED
    BY <2>1, <2>2, <2>3, <2>4, <2>5
<1>11. QED
  BY <1>1, <1>2, <1>3, <1>4, <1>5, <1>6, <1>7, <1>8, <1>9, <1>10 DEF Load, Watch

\* A process that moves on among the aliases takes nothing from its settings.
LEMMA MovesKeepSettings ==
  ASSUME SettingsInv, NEW p \in Processes, at[p] \in Aliasing,
         NEW place \in Aliasing \cup {"directories"}, at' = [at EXCEPT ![p] = place],
         UNCHANGED <<config, loadVars, watchVars, unheard>>
  PROVE  SettingsInv'
<1> USE DEF SettingsInv, loadVars, watchVars, Beginning, Loading, Aliasing, Watching, Deaf
<1>1. SettingsTypeOK'
  BY DEF SettingsTypeOK
<1>2. NoMixedSettings' /\ PartsInv'
  BY DEF NoMixedSettings, PartsInv, SettingsTypeOK, ProviderOf
<1>3. OrderInv'
  BY DEF OrderInv, SettingsTypeOK
<1>4. HeardInv'
  BY DEF HeardInv, Heard, OfFile, SettingsTypeOK, OrderInv
<1>5. QED
  BY <1>1, <1>2, <1>3, <1>4

\* A record only ever adds to what a watcher has to take.
LEMMA RecordTypes ==
  ASSUME SettingsInv, NEW what \in {"others", "config"}, NEW listeners, NEW full, Record(what, listeners, full)
  PROVE  /\ completed' \in [Processes -> {"none", "others", "config"}]
         /\ buffered' \in [Processes -> {"none", "others", "config", "lost"}]
         /\ \A p \in Processes : completed'[p] = "none" => buffered'[p] = "none"
         /\ \A p \in Processes : completed[p] = "config" => completed'[p] = "config"
         /\ \A p \in Processes : buffered[p] = "config" => buffered'[p] \in {"config", "lost"}
  BY DEF Record, SettingsInv, SettingsTypeOK, OrderInv

\* The file changes, in a process's hands or in the user's: it is recorded or unheard of.
LEMMA ChangesKeepSettings ==
  ASSUME SettingsInv, NEW content \in Contents \cup {Absent, Broken}, Changes(content), UNCHANGED loadVars,
         \/ UNCHANGED at
         \/ \E p \in Processes : at[p] = "migrate" /\ at' = [at EXCEPT ![p] = "copying"]
         \/ \E p \in Processes : at[p] = "copying" /\ at' = [at EXCEPT ![p] = "look"]
  PROVE  SettingsInv'
<1> USE DEF SettingsInv, loadVars, Beginning, Loading, Aliasing, Watching, Deaf
<1>1. PICK full \in SUBSET Listening : Record("config", Listening, full)
  BY DEF Changes
<1>2. /\ config' = content /\ UNCHANGED <<changed, found, settings, loadedOnce, watched>>
      /\ unheard' = [p \in Processes |-> "config" \notin {completed'[p], buffered'[p]} /\ at[p] # "off"]
  BY DEF Changes
<1>3. \A p \in Processes : at'[p] = at[p] \/ (at[p] = "migrate" /\ at'[p] = "copying") \/ (at[p] = "copying" /\ at'[p] = "look")
  BY DEF SettingsTypeOK
<1>4. SettingsTypeOK'
  BY <1>1, <1>2, RecordTypes DEF SettingsTypeOK
<1>5. NoMixedSettings' /\ PartsInv'
  BY <1>2, <1>3 DEF NoMixedSettings, PartsInv, ProviderOf
<1>6. OrderInv'
  BY <1>1, <1>2, <1>3, RecordTypes DEF OrderInv
<1>7. HeardInv'
  <2>1. \A p \in Processes : at[p] # "off" => Heard(p)'
    BY <1>2 DEF Heard
  <2>2. QED
    BY <1>2, <1>3, <2>1 DEF HeardInv
<1>8. QED
  BY <1>4, <1>5, <1>6, <1>7

\* Another file changes: a record of the configuration that is lost is unheard of.
LEMMA OthersKeepSettings ==
  ASSUME SettingsInv, OthersChange
  PROVE  SettingsInv'
<1> USE DEF SettingsInv, loadVars
<1>1. PICK full \in SUBSET Listening : Record("others", Listening, full)
  BY DEF OthersChange
<1>2. /\ UNCHANGED <<config, at, changed, found, settings, loadedOnce, watched>>
      /\ unheard' = [p \in Processes |-> unheard[p] \/
                       (buffered[p] = "config" /\ buffered'[p] = "lost" /\ completed[p] # "config")]
  BY DEF OthersChange
<1>3. SettingsTypeOK'
  BY <1>1, <1>2, RecordTypes DEF SettingsTypeOK
<1>4. NoMixedSettings' /\ PartsInv' /\ OrderInv'
  BY <1>1, <1>2, RecordTypes DEF NoMixedSettings, PartsInv, ProviderOf, OrderInv
<1>5. HeardInv'
  <2>1. \A p \in Processes : Heard(p) => Heard(p)'
    BY <1>1, <1>2, RecordTypes DEF Heard, SettingsTypeOK
  <2>2. QED
    BY <1>2, <2>1 DEF HeardInv, OfFile
<1>6. QED
  BY <1>3, <1>4, <1>5

\* A process that is started, or that ends, knows nothing.
LEMMA LifeKeepsSettings ==
  ASSUME SettingsInv, NEW p \in Processes, Launch(p) \/ Ends(p)
  PROVE  SettingsInv'
<1> USE SettingsAssumption DEF SettingsInv, Goes, Same, loadVars, watchVars, Beginning, Loading, Aliasing, Watching, Deaf
<1>1. CASE Launch(p)
  <2>1. SettingsTypeOK'
    BY <1>1 DEF Launch, SettingsTypeOK
  <2>2. NoMixedSettings' /\ PartsInv'
    BY <1>1 DEF Launch, SettingsTypeOK, NoMixedSettings, PartsInv, ProviderOf
  <2>3. OrderInv' /\ HeardInv'
    BY <1>1 DEF Launch, SettingsTypeOK, OrderInv, HeardInv, Heard, OfFile
  <2>4. QED
    BY <2>1, <2>2, <2>3
<1>2. CASE Ends(p)
  <2>1. Default \in Snapshots /\ Fresh \in [Parts -> Snapshots]
    BY DEF Snapshots, Fresh
  <2>2. SettingsTypeOK'
    BY <1>2, <2>1 DEF Ends, SettingsTypeOK
  <2>3. NoMixedSettings' /\ PartsInv'
    BY <1>2 DEF Ends, SettingsTypeOK, NoMixedSettings, PartsInv, ProviderOf, Fresh, Parts
  <2>4. OrderInv' /\ HeardInv'
    BY <1>2 DEF Ends, SettingsTypeOK, OrderInv, HeardInv, Heard, OfFile
  <2>5. QED
    BY <2>2, <2>3, <2>4
<1>3. QED
  BY <1>1, <1>2

-----------------------------------------------------------------------------
(* Aliases                                                                 *)

\* No alias is there but a foreign one, and nobody writes.
LEMMA InitAliasInv == Init => AliasInv
<1> SUFFICES ASSUME Init PROVE AliasInv
  OBVIOUS
<1>1. PICK first \in {Absent, Foreign} : AliasInit([f \in Files |-> first])
  BY DEF Init
<1>2. (CHOOSE build \in Builds : TRUE) \in Builds
  BY AliasesAssumption
<1>3. AliasTypeOK
  BY <1>1, <1>2 DEF AliasInit, AliasTypeOK, Files
<1>4. \A p \in Processes : at[p] = "off"
  BY DEF Init, SettingsInit
<1>5. QED
  BY <1>3, <1>4 DEF AliasInv

\* What is to be written is what was compared, and is no foreign file.
LEMMA InspectedPayload ==
  ASSUME SettingsTypeOK, AliasTypeOK, NEW f \in Files, Decide(f) \in {"create", "refresh"}
  PROVE  Source(f) \in Writes(f) /\ alias[f] # Foreign
  BY AliasesAssumption DEF Decide, Source, Writes, SettingsTypeOK, AliasTypeOK, Files

\* After an alias the next one is inspected, or the process is done with them.
LEMMA NextAliasTypes ==
  ASSUME AliasTypeOK, NEW p \in Processes, NextAlias(p)
  PROVE  /\ \E place \in {"inspect", "directories"} : at' = [at EXCEPT ![p] = place]
         /\ doing' \in [Processes -> Files] /\ payload' \in [Processes -> Builds \cup Contents \cup {Broken, Absent}]
         /\ late' \in [Processes -> BOOLEAN]
         /\ \A q \in Processes \ {p} : doing'[q] = doing[q] /\ payload'[q] = payload[q] /\ late'[q] = late[q]
<1>1. \E place \in {"inspect", "directories"} : at' = [at EXCEPT ![p] = place]
  BY DEF NextAlias, Goes
<1>2. QED
  BY <1>1 DEF NextAlias, AliasTypeOK, Files

\* It then has nothing to write, and nobody else is disturbed.
LEMMA NextAliasInv ==
  ASSUME SettingsTypeOK, AliasInv, NEW p \in Processes, NextAlias(p), AliasTypeOK',
         \A q \in Processes \ {p} : temp'[q] = temp[q],
         \A f \in Files : alias'[f] = Foreign => alias[f] = Foreign
  PROVE  AliasInv'
<1>1. PICK place \in {"inspect", "directories"} : at' = [at EXCEPT ![p] = place]
  BY NextAliasTypes DEF AliasInv
<1>2. at'[p] \notin {"write", "fill", "rename"}
  BY <1>1 DEF SettingsTypeOK
<1>3. \A q \in Processes \ {p} : at'[q] = at[q] /\ doing'[q] = doing[q] /\ payload'[q] = payload[q] /\ late'[q] = late[q]
  BY <1>1, NextAliasTypes DEF SettingsTypeOK, AliasInv
<1>4. \A q \in Processes : doing[q] \in Files
  BY DEF AliasInv, AliasTypeOK
<1>5. ASSUME NEW q \in Processes, q # p, at'[q] \in {"write", "fill", "rename"}
      PROVE  /\ payload'[q] \in Writes(doing'[q]) /\ (alias'[doing'[q]] = Foreign => late'[q])
             /\ at'[q] = "rename" => temp'[q][doing'[q]] = payload'[q]
  BY <1>3, <1>4, <1>5 DEF AliasInv, Writes
<1>6. QED
  BY <1>2, <1>5 DEF AliasInv, Writes

\* Every step of Apply keeps the aliases and what is written to them.
LEMMA ApplyInv ==
  ASSUME SettingsInv, AliasInv, NEW p \in Processes, Apply(p) \/ WriteFails(p)
  PROVE  AliasInv' /\ SettingsInv'
<1> USE DEF AliasInv, Goes, loadVars, watchVars
<1>0. SettingsTypeOK
  BY DEF SettingsInv
<1>1. CASE Sweep(p)
  <2>1. PICK place \in {"inspect", "directories"} : at' = [at EXCEPT ![p] = place]
    BY <1>1 DEF Sweep
  <2>2. AliasInv'
    BY <1>0, <1>1, <2>1 DEF Sweep, AliasTypeOK, SettingsTypeOK
  <2>3. QED
    BY <1>1, <2>1, <2>2, MovesKeepSettings DEF Sweep, Aliasing
<1>2. CASE Inspect(p)
  <2>1. CASE Decide(doing[p]) \in {"create", "refresh"}
    <3>1. /\ payload' = [payload EXCEPT ![p] = Source(doing[p])] /\ at' = [at EXCEPT ![p] = "write"]
          /\ UNCHANGED <<doing, late, dll, copied, alias, temp>>
      BY <1>2, <2>1 DEF Inspect
    <3>2. doing[p] \in Files /\ Source(doing[p]) \in Writes(doing[p]) /\ alias[doing[p]] # Foreign
      BY <1>0, <2>1, InspectedPayload DEF AliasTypeOK
    <3>3. Source(doing[p]) \in Builds \cup Contents \cup {Broken}
      BY <3>2 DEF Writes
    <3>4. AliasTypeOK'
      BY <3>1, <3>3 DEF AliasTypeOK
    <3>5. AliasInv'
      BY <1>0, <3>1, <3>2, <3>4 DEF AliasTypeOK, SettingsTypeOK, Writes
    <3>6. SettingsInv'
      BY <1>2, <3>1, MovesKeepSettings DEF Inspect, Aliasing
    <3>7. QED
      BY <3>5, <3>6
  <2>2. CASE NextAlias(p)
    <3>1. PICK place \in {"inspect", "directories"} : at' = [at EXCEPT ![p] = place]
      BY <2>2, NextAliasTypes
    <3>2. AliasTypeOK'
      BY <1>2, <2>2, NextAliasTypes DEF Inspect, AliasTypeOK
    <3>3. AliasInv'
      BY <1>0, <1>2, <2>2, <3>2, NextAliasInv DEF Inspect
    <3>4. SettingsInv'
      BY <1>2, <3>1, MovesKeepSettings DEF Inspect, Aliasing
    <3>5. QED
      BY <3>3, <3>4
  <2>3. QED
    BY <1>2, <2>1, <2>2 DEF Inspect
<1>3. CASE OpenTemp(p)
  <2>1. AliasTypeOK'
    BY <1>3 DEF OpenTemp, TempBecomes, Tag, AliasTypeOK
  <2>2. AliasInv'
    BY <1>0, <1>3, <2>1 DEF OpenTemp, TempBecomes, Tag, AliasTypeOK, SettingsTypeOK, Writes
  <2>3. QED
    BY <1>3, <2>2, MovesKeepSettings DEF OpenTemp, Aliasing
<1>4. CASE FillTemp(p)
  <2>1. AliasTypeOK'
    BY <1>4 DEF FillTemp, TempBecomes, Tag, AliasTypeOK
  <2>2. AliasInv'
    BY <1>0, <1>4, <2>1 DEF FillTemp, TempBecomes, Tag, AliasTypeOK, SettingsTypeOK, Writes
  <2>3. QED
    BY <1>4, <2>2, MovesKeepSettings DEF FillTemp, Aliasing
<1>5. CASE CommitTemp(p)
  <2> DEFINE f == doing[p]
  <2>1. PICK place \in {"inspect", "directories"} : at' = [at EXCEPT ![p] = place]
    BY <1>5, NextAliasTypes DEF CommitTemp
  <2>2. f \in Files /\ temp[p][f] \in Writes(f) /\ temp[p][f] # Foreign
    BY <1>5, AliasesAssumption DEF CommitTemp, AliasTypeOK, Writes
  <2>3. \/ alias' = alias
        \/ alias' = [alias EXCEPT ![f] = temp[p][f]]
    BY <1>5 DEF CommitTemp, Tag
  <2>4. alias' \in [Files -> Builds \cup Contents \cup {Broken, Absent, Foreign}] /\ alias'["toml"] \in Contents \cup {Broken, Absent, Foreign}
    BY <2>2, <2>3 DEF AliasTypeOK, Writes, Files
  <2>5. temp' \in [Processes -> [Files -> Builds \cup Contents \cup {Broken, Absent, Half}]]
    BY <1>5, <2>2 DEF CommitTemp, TempBecomes, Tag, AliasTypeOK
  <2>6. \A q \in Processes \ {p} : temp'[q] = temp[q]
    BY <1>5 DEF CommitTemp, TempBecomes, Tag, AliasTypeOK
  <2>7. AliasTypeOK'
    BY <1>5, <2>4, <2>5, NextAliasTypes DEF CommitTemp, AliasTypeOK
  <2>8. \A g \in Files : alias'[g] = Foreign => alias[g] = Foreign
    BY <2>2, <2>3 DEF AliasTypeOK
  <2>9. AliasInv'
    BY <1>0, <1>5, <2>6, <2>7, <2>8, NextAliasInv DEF CommitTemp
  <2>10. QED
    BY <1>5, <2>1, <2>9, MovesKeepSettings DEF CommitTemp, Aliasing
<1>6. CASE WriteFails(p)
  <2>1. PICK place \in {"inspect", "directories"} : at' = [at EXCEPT ![p] = place]
    BY <1>6, NextAliasTypes DEF WriteFails
  <2>2. temp' \in [Processes -> [Files -> Builds \cup Contents \cup {Broken, Absent, Half}]]
    BY <1>6 DEF WriteFails, TempBecomes, Tag, AliasTypeOK
  <2>3. \A q \in Processes \ {p} : temp'[q] = temp[q]
    BY <1>6 DEF WriteFails, TempBecomes, Tag, AliasTypeOK
  <2>4. AliasTypeOK'
    BY <1>6, <2>2, NextAliasTypes DEF WriteFails, AliasTypeOK
  <2>5. AliasInv'
    BY <1>0, <1>6, <2>3, <2>4, NextAliasInv DEF WriteFails
  <2>6. QED
    BY <1>6, <2>1, <2>5, MovesKeepSettings DEF WriteFails, Aliasing
<1>7. QED
  BY <1>1, <1>2, <1>3, <1>4, <1>5, <1>6 DEF Apply

\* Whatever moves nobody into a write and replaces no alias by a foreign file keeps them.
LEMMA OthersKeepAliases ==
  ASSUME AliasInv, AliasTypeOK',
         \A p \in Processes :
           at'[p] \in {"write", "fill", "rename"} =>
             /\ at'[p] = at[p] /\ doing'[p] = doing[p] /\ payload'[p] = payload[p] /\ temp'[p] = temp[p]
             /\ alias'[doing[p]] = Foreign => late'[p] \/ (alias[doing[p]] = Foreign /\ late'[p] = late[p])
  PROVE  AliasInv'
  BY DEF AliasInv, Writes

\* MigrateLegacyConfig copies a file that is not ours, or an alias of ours.
LEMMA MigrateInv ==
  ASSUME SettingsInv, AliasInv, NEW p \in Processes, Migrate(p) \/ EndCopy(p)
  PROVE  AliasInv' /\ SettingsInv'
<1> USE DEF Goes, loadVars, watchVars
<1>0. SettingsTypeOK /\ AliasTypeOK
  BY DEF SettingsInv, AliasInv
<1>1. CASE Migrate(p)
  <2>1. CASE at' = [at EXCEPT ![p] = "copying"] /\ copied' = alias["toml"] /\ Changes(Broken)
    <3>1. SettingsInv'
      BY <1>1, <2>1, ChangesKeepSettings DEF Migrate
    <3>2. AliasTypeOK'
      BY <1>0, <1>1, <2>1 DEF Migrate, applyVars, AliasTypeOK
    <3>3. AliasInv'
      BY <1>0, <1>1, <2>1, <3>2, OthersKeepAliases DEF Migrate, applyVars, SettingsTypeOK
    <3>4. QED
      BY <3>1, <3>3
  <2>2. CASE at' = [at EXCEPT ![p] = "look"] /\ UNCHANGED <<copied, config, watchVars, unheard>>
    <3>1. SettingsTypeOK'
      BY <1>0, <1>1, <2>2 DEF Migrate, SettingsTypeOK, Loading
    <3>2. NoMixedSettings' /\ PartsInv'
      BY <1>0, <1>1, <2>2 DEF Migrate, SettingsTypeOK, SettingsInv, NoMixedSettings, PartsInv, ProviderOf
    <3>3. OrderInv' /\ HeardInv'
      BY <1>0, <1>1, <2>2 DEF Migrate, SettingsTypeOK, SettingsInv, OrderInv, HeardInv, Heard, OfFile, Beginning, Loading, Aliasing,
        Watching, Deaf
    <3>4. AliasTypeOK'
      BY <1>0, <1>1, <2>2 DEF Migrate, applyVars, AliasTypeOK
    <3>5. AliasInv'
      BY <1>0, <1>1, <2>2, <3>4, OthersKeepAliases DEF Migrate, applyVars, SettingsTypeOK
    <3>6. QED
      BY <3>1, <3>2, <3>3, <3>5 DEF SettingsInv
  <2>3. QED
    BY <1>1, <2>1, <2>2 DEF Migrate
<1>2. CASE EndCopy(p)
  <2>1. (IF copied = Foreign THEN Legacy ELSE copied) \in Contents \cup {Absent, Broken}
    BY <1>0, AliasesAssumption DEF AliasTypeOK
  <2>2. SettingsInv'
    BY <1>2, <2>1, ChangesKeepSettings DEF EndCopy
  <2>3. AliasTypeOK'
    BY <1>0, <1>2 DEF EndCopy, aliasVars, applyVars, AliasTypeOK
  <2>4. AliasInv'
    BY <1>0, <1>2, <2>3, OthersKeepAliases DEF EndCopy, aliasVars, applyVars, SettingsTypeOK
  <2>5. QED
    BY <2>2, <2>4
<1>3. QED
  BY <1>1, <1>2

\* A process that starts has nothing under way, and one that ends leaves no name half
\* written.
LEMMA LifeKeepsAliases ==
  ASSUME SettingsInv, AliasInv, NEW p \in Processes, Launch(p) \/ Ends(p)
  PROVE  AliasInv'
<1> USE DEF Goes, Same, aliasVars, applyVars
<1>0. SettingsTypeOK /\ AliasTypeOK
  BY DEF SettingsInv, AliasInv
<1>1. CASE Launch(p)
  <2>1. AliasTypeOK'
    BY <1>0, <1>1 DEF Launch, AliasTypeOK
  <2>2. QED
    BY <1>0, <1>1, <2>1, OthersKeepAliases DEF Launch, SettingsTypeOK
<1>2. CASE Ends(p)
  <2>1. AliasTypeOK'
    BY <1>0, <1>2 DEF Ends, AliasEnds, AliasTypeOK, Files
  <2>2. QED
    <3>1. at' = [at EXCEPT ![p] = "off"] /\ at \in [Processes -> Beginning \cup Loading \cup Aliasing \cup Watching]
      BY <1>0, <1>2 DEF Ends, SettingsTypeOK
    <3>2. \A q \in Processes : at'[q] \in {"write", "fill", "rename"} => q # p /\ at'[q] = at[q]
      BY <3>1
    <3>3. /\ alias' = alias
          /\ \A q \in Processes : q # p => /\ doing'[q] = doing[q] /\ payload'[q] = payload[q]
                                          /\ temp'[q] = temp[q] /\ late'[q] = late[q]
      BY <1>0, <1>2 DEF Ends, AliasEnds, AliasTypeOK
    <3>4. QED
      BY <2>1, <3>2, <3>3, OthersKeepAliases DEF AliasInv
<1>3. QED
  BY <1>1, <1>2

\* Loads and watchers write no alias.
LEMMA LoadsKeepAliases ==
  ASSUME SettingsInv, AliasInv, NEW p \in Processes, Load(p) \/ Watch(p), UNCHANGED aliasVars
  PROVE  AliasInv'
<1> USE DEF aliasVars, applyVars
<1>0. SettingsTypeOK /\ AliasTypeOK
  BY DEF SettingsInv, AliasInv
<1>1. AliasTypeOK'
  BY <1>0 DEF AliasTypeOK
<1>2. \E place \in Loading \cup Watching \cup {"alias"} : at' = [at EXCEPT ![p] = place]
  BY DEF Load, Look, Parse, SetProvider, SetUrlTemplateOverride, ApplyHttpUserAgent, ApplySnapshot, Watch, Directories,
    OpenWatch, Drain, Settle, Goes, Loading, Watching, Deaf
<1>3. QED
  BY <1>0, <1>1, <1>2, OthersKeepAliases DEF SettingsTypeOK, Loading, Watching, Deaf

\* What the user, an upstream install, an update and time do to the files keeps both.
LEMMA FilesChangeInv ==
  ASSUME SettingsInv, AliasInv,
         \/ Edit
         \/ AliasEvent
         \/ OthersChange /\ UNCHANGED aliasVars
         \/ Age /\ UNCHANGED settingsVars
  PROVE  AliasInv' /\ SettingsInv'
<1> USE DEF Same, aliasVars, applyVars, settingsVars, loadVars, watchVars
<1>0. SettingsTypeOK /\ AliasTypeOK
  BY DEF SettingsInv, AliasInv
<1>1. CASE Edit
  <2>1. PICK content \in Contents \cup {Absent, Broken} : Changes(content)
    BY <1>1 DEF Edit
  <2>2. SettingsInv'
    BY <1>1, <2>1, ChangesKeepSettings DEF Edit
  <2>3. UNCHANGED <<at, aliasVars>>
    BY <1>1 DEF Edit
  <2>4. QED
    BY <2>2, <2>3 DEF AliasInv, AliasTypeOK, Writes
<1>2. CASE OthersChange /\ UNCHANGED aliasVars
  <2>1. UNCHANGED <<at, aliasVars>>
    BY <1>2 DEF OthersChange
  <2>2. QED
    BY <1>2, <2>1, OthersKeepSettings DEF AliasInv, AliasTypeOK, Writes
<1>3. ASSUME UNCHANGED settingsVars
      PROVE  SettingsInv'
  BY <1>3 DEF SettingsInv, SettingsTypeOK, NoMixedSettings, PartsInv, OrderInv, HeardInv, Heard, OfFile, ProviderOf
<1>4. CASE Age /\ UNCHANGED settingsVars
  BY <1>3, <1>4 DEF Age, AliasInv, AliasTypeOK, Writes
<1>5. CASE AliasEvent
  <2>1. UNCHANGED settingsVars
    BY <1>5 DEF AliasEvent
  <2>2. ASSUME NEW f \in Files, ForeignAppears(f)
        PROVE  AliasInv'
    <3>1. AliasTypeOK'
      BY <1>0, <2>2 DEF ForeignAppears, AliasTypeOK, Files
    <3>2. \A q \in Processes :
            at[q] \in {"write", "fill", "rename"} /\ alias'[doing[q]] = Foreign =>
              late'[q] \/ (alias[doing[q]] = Foreign /\ late'[q] = late[q])
      BY <1>0, <2>2 DEF ForeignAppears, AliasTypeOK
    <3>3. QED
      BY <2>1, <2>2, <3>1, <3>2, OthersKeepAliases DEF ForeignAppears
  <2>3. ASSUME NEW f \in Files, AliasDeleted(f)
        PROVE  AliasInv'
    <3>1. AliasTypeOK'
      BY <1>0, <2>3 DEF AliasDeleted, AliasTypeOK, Files
    <3>2. \A q \in Processes : alias'[doing[q]] = Foreign => alias[doing[q]] = Foreign
      BY <1>0, <2>3, AliasesAssumption DEF AliasDeleted, AliasTypeOK
    <3>3. QED
      BY <2>1, <2>3, <3>1, <3>2, OthersKeepAliases DEF AliasDeleted
  <2>4. CASE Updated
    <3>1. AliasTypeOK'
      BY <1>0, <2>4 DEF Updated, AliasTypeOK
    <3>2. QED
      BY <1>3, <2>1, <2>4, <3>1, OthersKeepAliases DEF Updated
  <2>5. QED
    BY <1>3, <1>5, <2>1, <2>2, <2>3, <2>4 DEF AliasEvent
<1>6. QED
  BY <1>1, <1>2, <1>4, <1>5

\* No step of the system leaves the two invariants.
LEMMA NextFilesInv ==
  ASSUME SettingsInv, AliasInv, [Next]_vars
  PROVE  SettingsInv' /\ AliasInv'
<1>1. ASSUME NEW p \in Processes, Launch(p) \/ Ends(p)
      PROVE  SettingsInv' /\ AliasInv'
  BY <1>1, LifeKeepsSettings, LifeKeepsAliases
<1>2. ASSUME NEW p \in Processes, Load(p) \/ Watch(p), UNCHANGED aliasVars
      PROVE  SettingsInv' /\ AliasInv'
  BY <1>2, LoadAndWatchInv, LoadsKeepAliases
<1>3. ASSUME NEW p \in Processes, Migrate(p) \/ EndCopy(p) \/ Apply(p) \/ WriteFails(p)
      PROVE  SettingsInv' /\ AliasInv'
  BY <1>3, MigrateInv, ApplyInv
<1>4. CASE Edit \/ AliasEvent \/ (OthersChange /\ UNCHANGED aliasVars) \/ (Age /\ UNCHANGED settingsVars)
  BY <1>4, FilesChangeInv
<1>5. CASE UNCHANGED <<settingsVars, aliasVars>>
  BY <1>5 DEF settingsVars, aliasVars, applyVars, loadVars, watchVars, SettingsInv, SettingsTypeOK, NoMixedSettings, PartsInv,
    OrderInv, HeardInv, Heard, OfFile, ProviderOf, AliasInv, AliasTypeOK, Writes
<1>6. \/ \E p \in Processes :
           \/ Launch(p) \/ Ends(p)
           \/ (Load(p) \/ Watch(p)) /\ UNCHANGED aliasVars
           \/ Migrate(p) \/ EndCopy(p) \/ Apply(p) \/ WriteFails(p)
      \/ Edit \/ AliasEvent \/ (OthersChange /\ UNCHANGED aliasVars) \/ (Age /\ UNCHANGED settingsVars)
      \/ UNCHANGED <<settingsVars, aliasVars>>
  BY DEF Next, Runs, Exit, Kill, Happens, Passes, Redirects, Loads, Same, vars
<1>7. QED
  BY <1>1, <1>2, <1>3, <1>4, <1>5, <1>6

\* No run leaves them.
LEMMA SpecFilesInv == Spec => [](SettingsInv /\ AliasInv)
<1>1. SettingsInv /\ AliasInv /\ [Next]_vars => (SettingsInv /\ AliasInv)'
  BY NextFilesInv
<1>2. QED
  BY <1>1, InitSettingsInv, InitAliasInv, PTL DEF Spec

\* Whenever no load is under way all the parts in force are of one file, the last good one
\* the watcher has heard of: for every set of processes and contents, however often the
\* file is edited, broken, or its records lost.
THEOREM SettingsStayRight == Spec => []SettingsAreRight
<1>1. SettingsInv /\ AliasInv => SettingsAreRight
  BY SettingsInvIsRight
<1>2. QED
  BY <1>1, SpecFilesInv, PTL

\* An external tool never finds a truncated alias, whatever processes write at once and
\* are killed.
THEOREM AliasesStayWhole == Spec => []AliasesAreWhole
<1>1. SettingsInv /\ AliasInv => AliasesAreWhole
  BY AliasesAssumption DEF AliasInv, AliasTypeOK, AliasesAreWhole
<1>2. QED
  BY <1>1, SpecFilesInv, PTL

\* Only a rename touches a foreign file that has one of the names.
LEMMA NextForeignFiles ==
  ASSUME SettingsInv, AliasInv, [Next]_vars, NEW f \in Files, alias[f] = Foreign
  PROVE  \/ alias'[f] \in {Foreign, Absent}
         \/ \E p \in Processes : late[p] /\ doing[p] = f
<1>0. AliasTypeOK
  BY DEF AliasInv
<1>1. ASSUME NEW p \in Processes, CommitTemp(p)
      PROVE  alias'[f] = Foreign \/ (late[p] /\ doing[p] = f)
  <2>1. CASE doing[p] = f
    BY <1>1, <2>1 DEF CommitTemp, AliasInv
  <2>2. CASE doing[p] # f
    BY <1>0, <1>1, <2>2 DEF CommitTemp, AliasTypeOK
  <2>3. QED
    BY <2>1, <2>2
<1>2. ASSUME NEW g \in Files, ForeignAppears(g) \/ AliasDeleted(g)
      PROVE  alias'[f] \in {Foreign, Absent}
  BY <1>0, <1>2 DEF ForeignAppears, AliasDeleted, AliasTypeOK
<1>3. CASE UNCHANGED alias
  BY <1>3
<1>4. \/ \E p \in Processes : CommitTemp(p)
      \/ \E g \in Files : ForeignAppears(g) \/ AliasDeleted(g)
      \/ UNCHANGED alias
  BY DEF Next, Launch, Runs, Exit, Kill, Ends, AliasEnds, Migrate, EndCopy, Apply, Sweep, Inspect, OpenTemp, FillTemp, WriteFails,
    Happens, Edit, AliasEvent, Updated, Passes, Age, Redirects, Loads, Same, vars, aliasVars, applyVars
<1>5. QED
  BY <1>1, <1>2, <1>3, <1>4

\* A file under an upstream name that is not ours is replaced only if it appeared between
\* the look at the name and the rename of the process that replaces it.
THEOREM ForeignFilesAreKept == Spec => ForeignFilesStay
<1>1. SettingsInv /\ AliasInv /\ [Next]_vars =>
        [\A f \in Files : alias[f] = Foreign =>
           \/ alias'[f] \in {Foreign, Absent}
           \/ \E p \in Processes : late[p] /\ doing[p] = f]_<<aliasVars, settingsVars>>
  BY NextForeignFiles
<1>2. QED
  BY <1>1, SpecFilesInv, PTL DEF Spec, ForeignFilesStay

=============================================================================
