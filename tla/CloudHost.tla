----------------------------- MODULE CloudHost -----------------------------
(***************************************************************************)
(* The host of cloud_redirect.dll (CloudRedirectHost) and the set of games *)
(* whose saves it redirects.  InitThread loads the library and hands it    *)
(* the set, while the watchers it started before already reload scripts;   *)
(* the Lua watcher hands it the set again after each of its reloads.  Both *)
(* read the set under the state mutex and hand it over after that.         *)
(***************************************************************************)
CONSTANT Depots  \* ids that scripts list

VARIABLES
  depots,     \* what GetAllDepotIds returns
  hostAt,     \* where Initialize is
  hostActive, \* g_active
  toPush,     \* what Initialize read
  syncAt,     \* where the Lua watcher is, after its reload
  toSync,     \* what SyncAppSet read
  apps,       \* the set cloud_redirect.dll has
  crossed,    \* history: one side read the set while the other had its own yet to hand over
  silent      \* history: the set changed and nobody has read it since

hostVars == <<hostAt, hostActive, toPush>>
syncVars == <<syncAt, toSync>>
cloudVars == <<depots, hostVars, syncVars, apps, crossed, silent>>

CloudInit ==
  /\ depots \in SUBSET Depots
  /\ hostAt = "config"
  /\ hostActive = FALSE
  /\ toPush = {} /\ toSync = {} /\ apps = {}
  /\ syncAt = "idle"
  /\ crossed = FALSE
  /\ silent = FALSE

-----------------------------------------------------------------------------
(* Initialize                                                              *)

\* Each of the first steps may be the last: the feature is off, the library is missing
\* or cannot be loaded, lacks an export it must have, or does not initialise.
Fallible == {"config", "load", "symbols", "init"}
GiveUp ==
  /\ hostAt \in Fallible
  /\ hostAt' = "given up"
  /\ UNCHANGED <<depots, hostActive, toPush, syncVars, apps, crossed, silent>>

\* The library is active before the set is read.
PushedFirst(step) ==
  [config |-> "load", load |-> "symbols", symbols |-> "init", init |-> "read", read |-> "push",
   push |-> "activate", activate |-> "done"][step]
HostStep(step) ==
  [config |-> "load", load |-> "symbols", symbols |-> "init", init |-> "activate",
   activate |-> "read", read |-> "push", push |-> "done"][step]

Prepare ==
  /\ hostAt \in Fallible
  /\ hostAt' = HostStep(hostAt)
  /\ UNCHANGED <<depots, hostActive, toPush, syncVars, apps, crossed, silent>>

Activate ==
  /\ hostAt = "activate"
  /\ hostActive' = TRUE
  /\ hostAt' = HostStep(hostAt)
  /\ UNCHANGED <<depots, toPush, syncVars, apps, crossed, silent>>

ReadApps ==
  /\ hostAt = "read"
  /\ toPush' = depots
  /\ silent' = FALSE
  /\ crossed' = (syncAt = "push")
  /\ hostAt' = HostStep(hostAt)
  /\ UNCHANGED <<depots, hostActive, syncVars, apps>>

PushApps ==
  /\ hostAt = "push"
  /\ apps' = toPush
  /\ hostAt' = HostStep(hostAt)
  /\ UNCHANGED <<depots, hostActive, toPush, syncVars, crossed, silent>>

-----------------------------------------------------------------------------
(* Scripts change                                                          *)

\* The Lua watcher has loaded and unloaded what changed; SyncAppSet follows.
ReloadScripts(ids) ==
  /\ syncAt = "idle"
  /\ depots' = ids
  /\ syncAt' = "check"
  /\ UNCHANGED <<hostVars, toSync, apps, crossed, silent>>

CheckActive ==
  /\ syncAt = "check"
  /\ syncAt' = IF hostActive THEN "read" ELSE "idle"
  /\ UNCHANGED <<depots, hostVars, toSync, apps, crossed, silent>>

ReadSync ==
  /\ syncAt = "read"
  /\ toSync' = depots
  /\ silent' = FALSE
  /\ crossed' = (hostAt = "push")
  /\ syncAt' = "push"
  /\ UNCHANGED <<depots, hostVars, apps>>

PushSync ==
  /\ syncAt = "push"
  /\ apps' = toSync
  /\ syncAt' = "idle"
  /\ UNCHANGED <<depots, hostVars, toSync, crossed, silent>>

\* RestartLuaWatcher loads other directories while no Lua watcher runs, and tells
\* Hooks_Package only.  So does a script's callback that adds an id.
RestartWatcher(ids) ==
  /\ syncAt = "idle"
  /\ ids # depots
  /\ depots' = ids
  /\ silent' = TRUE
  /\ UNCHANGED <<hostVars, syncVars, apps, crossed>>

CallbackAdds(id) ==
  /\ id \notin depots
  /\ depots' = depots \cup {id}
  /\ silent' = TRUE
  /\ UNCHANGED <<hostVars, syncVars, apps, crossed>>

\* Shutdown, once the watchers are stopped.
Shutdown ==
  /\ hostActive
  /\ hostAt = "done" /\ syncAt = "idle"
  /\ hostActive' = FALSE
  /\ hostAt' = "given up"
  /\ UNCHANGED <<depots, toPush, syncVars, apps, crossed, silent>>

CloudStep ==
  \/ GiveUp \/ Prepare \/ Activate \/ ReadApps \/ PushApps
  \/ CheckActive \/ ReadSync \/ PushSync \/ Shutdown
  \/ \E ids \in SUBSET Depots : ReloadScripts(ids) \/ RestartWatcher(ids)
  \/ \E id \in Depots : CallbackAdds(id)

-----------------------------------------------------------------------------
(* Properties                                                              *)

AtRest == hostAt = "done" /\ syncAt = "idle"

\* A reload that runs while the library is being started is not missed: either
\* Initialize reads the set after it, or its own sync finds the library active.  What
\* the code does miss is left out: the two hand-overs may cross, and changes made
\* otherwise than by the Lua watcher wait for its next reload.
RedirectedSetFollows == AtRest => apps = depots \/ crossed \/ silent

\* "Called after a Lua hot-reload so the redirected set tracks addappid() changes."  The
\* code does not keep this: a reload of other directories and a callback call nothing.
RedirectedSetTracks == AtRest => apps = depots \/ crossed
=============================================================================
