----------------------------- MODULE LicenseSync -----------------------------
(***************************************************************************)
(* How the configuration reaches Steam's license (Hooks_Package.cpp) and   *)
(* the library view (Hooks_SteamUI.cpp).  Four threads take part: the Lua  *)
(* file watcher and the config file watcher reload scripts and then call   *)
(* NotifyLicenseChanged; a Steam thread in CheckAppOwnership makes the     *)
(* initial fill of package 0's AppIdVec; the UI thread drains removals in  *)
(* RunFrame.  The configuration itself is the abstract DepotRegistry that  *)
(* LuaConfig implements.                                                   *)
(***************************************************************************)
EXTENDS Naturals, DepotRegistry

CONSTANTS
  Native,       \* ids package 0 holds before anything is injected
  MaxReloads    \* bound on configuration changes, for model checking

ASSUME NativeAssumption == Native \subseteq Depots
ASSUME BoundAssumption == MaxReloads \in Nat

VARIABLES
  appIdVec,         \* AppIdVec of package 0: how often it holds each id
  published,        \* g_pInjectedPackageInfo is set
  vecOwner,         \* the holder of g_appIdVecMutex
  snapshot,         \* GetAllDepotIds as the initial fill read it
  touched,          \* queued ids the mutex holder has yet to reconcile
  planAdditions,    \* plan.additions of each watcher
  planRemovals,     \* plan.removals of each watcher
  pc,               \* where each watcher thread is
  running,          \* LuaFileWatcher's g_running
  markReady,        \* MarkLicenseAsChanged and its peers were resolved
  uiPending,        \* Hooks_SteamUI's g_pendingRemovals
  draining,         \* the queue RunFrame swapped out
  removedAppIds,    \* g_removedAppIds: ids hidden from every full snapshot
  reloads,          \* changes made so far
  dropped,          \* history: additions lost to a failed vector growth
  unqueued          \* history: ids a callback added, which nothing queues

vectorVars == <<appIdVec, published, vecOwner, snapshot, touched>>
planVars == <<planAdditions, planRemovals>>
uiVars == <<uiPending, draining, removedAppIds>>
threadVars == <<pc, running, markReady>>
historyVars == <<dropped, unqueued>>
vars == <<registryVars, vectorVars, planVars, uiVars, threadVars, reloads, historyVars>>

Watchers == {"lua", "config"}
Queued == pendingRemovals \cup pendingAdditions
Present(d) == appIdVec[d] > 0
NativeCount(d) == IF d \in Native THEN 1 ELSE 0

\* After startup: any configuration was parsed, nothing is queued or injected.
Init ==
  /\ wanted \in SUBSET Depots
  /\ pendingRemovals = {}
  /\ pendingAdditions = {}
  /\ appIdVec = [d \in Depots |-> NativeCount(d)]
  /\ published = FALSE
  /\ vecOwner = "none"
  /\ snapshot = {}
  /\ touched = {}
  /\ planAdditions = [w \in Watchers |-> {}]
  /\ planRemovals = [w \in Watchers |-> {}]
  /\ \E lua \in {"idle", "off"} :
       pc = [w \in Watchers |-> IF w = "lua" THEN lua ELSE "idle"]
  /\ running = TRUE
  /\ markReady \in BOOLEAN
  /\ uiPending = {}
  /\ draining = {}
  /\ removedAppIds = {}
  /\ reloads = 0
  /\ dropped = {}
  /\ unqueued = {}

Goto(w, from, to) == pc[w] = from /\ pc' = [pc EXCEPT ![w] = to]

-----------------------------------------------------------------------------
(* The two watchers up to NotifyLicenseChanged                             *)

\* File events arrive: the Lua watcher starts on a batch of changed files.
LuaWake ==
  /\ running
  /\ Goto("lua", "idle", "loading")
  /\ UNCHANGED <<registryVars, vectorVars, planVars, uiVars, running, markReady, reloads,
                 historyVars>>

\* The Lua watcher sees g_running false and its thread ends.
LuaExit ==
  /\ ~running
  /\ Goto("lua", "idle", "off")
  /\ UNCHANGED <<registryVars, vectorVars, planVars, uiVars, running, markReady, reloads,
                 historyVars>>

\* The watched directories changed: RestartLuaWatcher stops the Lua watcher ...
StopWith(flag) ==
  /\ Goto("config", "idle", "stopping")
  /\ running' = flag
  /\ UNCHANGED <<registryVars, vectorVars, planVars, uiVars, markReady, reloads,
                 historyVars>>
StopWithoutFlag == StopWith(running)
ConfigStop == StopWith(FALSE)

\* ... waits for its thread, and goes on to ReloadDirectories.
ConfigJoin ==
  /\ pc["lua"] = "off"
  /\ Goto("config", "stopping", "loading")
  /\ UNCHANGED <<registryVars, vectorVars, planVars, uiVars, running, markReady, reloads,
                 historyVars>>

(***************************************************************************)
(* One ParseFile or UnloadFile of the batch a watcher is loading.  Only an *)
(* id that no file provides gains its first provider: one that was not     *)
(* wanted, one the same commit removed, or one a callback added.           *)
(***************************************************************************)
LoadFile(w, removed, added) ==
  /\ pc[w] = "loading"
  /\ reloads < MaxReloads
  /\ added \cap wanted \subseteq removed \cup unqueued
  /\ Reload(removed, added)
  /\ reloads' = reloads + 1
  /\ dropped' = dropped \ (removed \cup added)
  /\ unqueued' = unqueued \ (removed \cup added)
  /\ UNCHANGED <<vectorVars, planVars, uiVars, threadVars>>

\* A manifest callback on some other thread calls addappid.
CallbackAddsApp(d) ==
  /\ reloads < MaxReloads
  /\ d \notin wanted
  /\ AddUnqueued(d)
  /\ reloads' = reloads + 1
  /\ unqueued' = unqueued \cup {d}
  /\ UNCHANGED <<vectorVars, planVars, uiVars, threadVars, dropped>>

\* The batch is loaded; the config watcher also starts a new Lua watcher, before
\* it notifies, so the two can meet in NotifyLicenseChanged.  A Lua watcher that
\* cannot open any directory ends at once, with g_running still set.
LoadDone(w, opens) ==
  /\ pc[w] = "loading"
  /\ IF w = "config"
     THEN /\ pc' = [pc EXCEPT !["config"] = "check",
                              !["lua"] = IF opens THEN "idle" ELSE "off"]
          /\ running' = TRUE
     ELSE /\ pc' = [pc EXCEPT !["lua"] = "check"]
          /\ UNCHANGED running
  /\ UNCHANGED <<registryVars, vectorVars, planVars, uiVars, markReady, reloads,
                 historyVars>>

-----------------------------------------------------------------------------
(* NotifyLicenseChanged                                                    *)

\* It returns at once, leaving the queues alone, before the package is published.
NotifyCheck(w) ==
  /\ Goto(w, "check", IF published THEN "lock" ELSE "idle")
  /\ UNCHANGED <<registryVars, vectorVars, planVars, uiVars, running, markReady, reloads,
                 historyVars>>

NotifyTakeRemovals(w) ==
  /\ vecOwner = "none"
  /\ Goto(w, "lock", "take")
  /\ vecOwner' = w
  /\ touched' = pendingRemovals
  /\ TakeRemovals
  /\ UNCHANGED <<appIdVec, published, snapshot, planVars, uiVars, running, markReady,
                 reloads, historyVars>>

\* With nothing to work on it releases the mutex and returns.
TakeWith(w, all) ==
  /\ Goto(w, "take", IF all = {} THEN "idle" ELSE "plan")
  /\ vecOwner' = IF all = {} THEN "none" ELSE w
  /\ touched' = all
  /\ TakeAdditions
  /\ planAdditions' = [planAdditions EXCEPT ![w] = {}]
  /\ planRemovals' = [planRemovals EXCEPT ![w] = {}]
  /\ UNCHANGED <<appIdVec, published, snapshot, uiVars, running, markReady, reloads,
                 historyVars>>
TakesAdditionsOnly(w) == TakeWith(w, pendingAdditions)
NotifyTakeAdditions(w) == TakeWith(w, touched \cup pendingAdditions)

\* Reconcile decides one id.  HasDepot takes g_stateMutex for this id alone, so
\* reloads can fall between two decisions and between a decision and its effect.
PlanBy(w, d, adds, removes) ==
  /\ pc[w] = "plan"
  /\ d \in touched
  /\ touched' = touched \ {d}
  /\ planAdditions' = [planAdditions EXCEPT ![w] = IF adds THEN @ \cup {d} ELSE @]
  /\ planRemovals' = [planRemovals EXCEPT ![w] = IF removes THEN @ \cup {d} ELSE @]
  /\ UNCHANGED <<registryVars, appIdVec, published, vecOwner, snapshot, uiVars,
                 threadVars, reloads, historyVars>>
PlanRemovesQueued(w, d) == PlanBy(w, d, d \in wanted /\ ~Present(d), Present(d))
NotifyReconcile(w, d) ==
  PlanBy(w, d, d \in wanted /\ ~Present(d), d \notin wanted /\ Present(d))

\* The plan is applied and the mutex released; a failed growth loses the additions.
VecAfter(w, grown) ==
  [d \in Depots |->
     appIdVec[d] - (IF d \in planRemovals[w] THEN 1 ELSE 0)
                 + (IF grown /\ d \in planAdditions[w] THEN 1 ELSE 0)]

NotifyApply(w, grown) ==
  /\ touched = {}
  /\ Goto(w, "plan", "cancel")
  /\ appIdVec' = VecAfter(w, grown)
  /\ planAdditions' = IF grown THEN planAdditions ELSE [planAdditions EXCEPT ![w] = {}]
  /\ dropped' = IF grown THEN dropped ELSE dropped \cup planAdditions[w]
  /\ vecOwner' = "none"
  /\ UNCHANGED <<registryVars, published, snapshot, touched, planRemovals, uiVars,
                 running, markReady, reloads, unqueued>>

\* CancelRemoval for one applied addition.
NotifyCancel(w, d) ==
  /\ pc[w] = "cancel"
  /\ d \in planAdditions[w]
  /\ planAdditions' = [planAdditions EXCEPT ![w] = @ \ {d}]
  /\ uiPending' = uiPending \ {d}
  /\ removedAppIds' = removedAppIds \ {d}
  /\ UNCHANGED <<registryVars, vectorVars, planRemovals, draining, threadVars, reloads,
                 historyVars>>

\* The library refresh.  Without the functions it needs, the removals are dropped.
NotifyMark(w) ==
  /\ planAdditions[w] = {}
  /\ Goto(w, "cancel", IF markReady THEN "queue" ELSE "idle")
  /\ planRemovals' = IF markReady THEN planRemovals ELSE [planRemovals EXCEPT ![w] = {}]
  /\ UNCHANGED <<registryVars, vectorVars, planAdditions, uiVars, running, markReady,
                 reloads, historyVars>>

\* QueueRemoval for one removed id.
NotifyQueueRemoval(w, d) ==
  /\ pc[w] = "queue"
  /\ d \in planRemovals[w]
  /\ planRemovals' = [planRemovals EXCEPT ![w] = @ \ {d}]
  /\ uiPending' = uiPending \cup {d}
  /\ UNCHANGED <<registryVars, vectorVars, planAdditions, draining, removedAppIds,
                 threadVars, reloads, historyVars>>

NotifyReturn(w) ==
  /\ planRemovals[w] = {}
  /\ Goto(w, "queue", "idle")
  /\ UNCHANGED <<registryVars, vectorVars, planVars, uiVars, running, markReady, reloads,
                 historyVars>>

-----------------------------------------------------------------------------
(* The initial fill and the UI thread                                      *)

\* TryInitFakeLicenseOnce: the mutex is taken and the configured ids are read ...
FillBegin ==
  /\ ~published
  /\ vecOwner = "none"
  /\ vecOwner' = "steam"
  /\ snapshot' = wanted
  /\ UNCHANGED <<registryVars, appIdVec, published, touched, planVars, uiVars, threadVars,
                 reloads, historyVars>>

\* ... appended as they are, whatever package 0 already holds, and published.
FillEnd(grown) ==
  /\ vecOwner = "steam"
  /\ snapshot = {} => grown
  /\ vecOwner' = "none"
  /\ published' = grown
  /\ appIdVec' = IF grown
                 THEN [d \in Depots |-> appIdVec[d] + (IF d \in snapshot THEN 1 ELSE 0)]
                 ELSE appIdVec
  /\ snapshot' = {}
  /\ UNCHANGED <<registryVars, touched, planVars, uiVars, threadVars, reloads,
                 historyVars>>

\* RunFrame swaps the queue out under its mutex ...
UiSwap ==
  /\ draining = {}
  /\ uiPending # {}
  /\ draining' = uiPending
  /\ uiPending' = {}
  /\ UNCHANGED <<registryVars, vectorVars, planVars, removedAppIds, threadVars, reloads,
                 historyVars>>

\* ... and handles each id; hides: it is not owned, known to the UI, uninstalled.
UiDrain(d, hides) ==
  /\ d \in draining
  /\ draining' = draining \ {d}
  /\ removedAppIds' = IF hides THEN removedAppIds \cup {d} ELSE removedAppIds
  /\ UNCHANGED <<registryVars, vectorVars, planVars, uiPending, threadVars, reloads,
                 historyVars>>

-----------------------------------------------------------------------------
NotifyStep(w) ==
  \/ NotifyCheck(w)
  \/ NotifyTakeRemovals(w)
  \/ NotifyTakeAdditions(w)
  \/ \E d \in Depots : NotifyReconcile(w, d)
  \/ \E grown \in BOOLEAN : NotifyApply(w, grown)
  \/ \E d \in Depots : NotifyCancel(w, d)
  \/ NotifyMark(w)
  \/ \E d \in Depots : NotifyQueueRemoval(w, d)
  \/ NotifyReturn(w)

FillStep == FillBegin \/ \E grown \in BOOLEAN : FillEnd(grown)
UiStep == UiSwap \/ \E d \in Depots, hides \in BOOLEAN : UiDrain(d, hides)

Next ==
  \/ LuaWake
  \/ LuaExit
  \/ ConfigStop
  \/ ConfigJoin
  \/ \E w \in Watchers, removed, added \in SUBSET Depots : LoadFile(w, removed, added)
  \/ \E d \in Depots : CallbackAddsApp(d)
  \/ \E w \in Watchers, opens \in BOOLEAN : LoadDone(w, opens)
  \/ \E w \in Watchers : NotifyStep(w)
  \/ FillStep
  \/ UiStep

Spec == Init /\ [][Next]_vars

(***************************************************************************)
(* Fairness: the two watcher threads and the Steam thread that is filling  *)
(* run on, and a thread blocked on g_appIdVecMutex gets it if it is        *)
(* released again and again.  Nothing is assumed of the files, of Steam's  *)
(* next CheckAppOwnership or of the UI thread.                             *)
(***************************************************************************)
WatcherRuns(w) == (\E opens \in BOOLEAN : LoadDone(w, opens)) \/ NotifyStep(w)
Fairness ==
  /\ \A w \in Watchers : WF_vars(WatcherRuns(w)) /\ SF_vars(NotifyTakeRemovals(w))
  /\ WF_vars(LuaExit)
  /\ WF_vars(ConfigJoin)
  /\ WF_vars(\E grown \in BOOLEAN : FillEnd(grown))
FairSpec == Spec /\ Fairness

-----------------------------------------------------------------------------
(* Properties                                                              *)

\* The type invariant.
TypeOK ==
  /\ RegistryTypeOK
  /\ appIdVec \in [Depots -> Nat]
  /\ published \in BOOLEAN
  /\ vecOwner \in Watchers \cup {"none", "steam"}
  /\ snapshot \subseteq Depots
  /\ touched \subseteq Depots
  /\ planAdditions \in [Watchers -> SUBSET Depots]
  /\ planRemovals \in [Watchers -> SUBSET Depots]
  /\ pc \in [Watchers -> {"idle", "off", "stopping", "loading", "check", "lock", "take",
                          "plan", "cancel", "queue"}]
  /\ running \in BOOLEAN
  /\ markReady \in BOOLEAN
  /\ uiPending \subseteq Depots
  /\ draining \subseteq Depots
  /\ removedAppIds \subseteq Depots
  /\ reloads \in Nat
  /\ dropped \subseteq Depots
  /\ unqueued \subseteq Depots

\* Where the license and the configuration disagree about an id of ours.
Differs(d) == d \notin Native /\ (d \in wanted) # Present(d)

\* Once the package is published and nobody is changing it, every difference
\* between the license and the configuration is still queued: no interleaving of
\* reloads, fills and notifications forgets a change, short of a failed growth
\* (whose additions are gone) and of callbacks (which queue nothing).
NoChangeLost ==
  published /\ vecOwner = "none" =>
    \A d \in Depots : Differs(d) => d \in Queued \cup dropped \cup unqueued

\* Neither the fill nor any reload leaves an id twice in the license, unless
\* package 0 held it before the fill.
NoDuplicates == \A d \in Depots : appIdVec[d] <= 1 + NativeCount(d)

\* The license holds no id twice and misses no change of the configuration that is not
\* still queued, whatever the reloads, the fill and the callbacks do.
LicenseIsRight == TypeOK /\ NoDuplicates /\ NoChangeLost

\* The license is only ever changed towards the configuration: an id taken out is
\* not wanted, or its return is recorded; an id put in is wanted, or its removal
\* is queued.  An id that a batch reloads unchanged is left alone.
VectorFollowsConfig ==
  [][\A d \in Depots :
       /\ appIdVec'[d] < appIdVec[d] => d \notin wanted \/ d \in Queued \cup unqueued
       /\ appIdVec'[d] > appIdVec[d] => d \in wanted \/ d \in Queued]_vars

\* A watcher that reaches the lock of NotifyLicenseChanged sees to it that what is
\* queued is taken: neither watcher waits for ever on the other or on the fill.
QueuedIsTaken ==
  \A d \in Depots : (d \in Queued /\ \E w \in Watchers : pc[w] = "lock") ~> d \notin Queued

\* Restarting the Lua watcher ends: the join does not hang on a watcher that is
\* itself loading files or waiting for the vector.
RestartCompletes == (pc["config"] = "stopping") ~> (pc["config"] = "idle")

\* No reload waits for ever: neither for the vector nor for the thread it restarts.
ReloadsComplete == QueuedIsTaken /\ RestartCompletes

-----------------------------------------------------------------------------
(* The inductive invariant behind NoChangeLost and VectorFollowsConfig     *)

\* Who may be where: g_appIdVecMutex is held exactly in "take" and "plan", only a
\* published package is worked on, and before that nothing has been injected.
MutexInv ==
  /\ \A w \in Watchers : vecOwner = w <=> pc[w] \in {"take", "plan"}
  /\ \A w \in Watchers : pc[w] \in {"lock", "take", "plan"} => published
  /\ vecOwner = "steam" => ~published
  /\ vecOwner \notin Watchers => touched = {}
  /\ ~published => \A d \in Depots : appIdVec[d] = NativeCount(d)

\* While the config watcher reloads the directories there is no Lua watcher.
RestartInv == pc["config"] = "loading" => pc["lua"] = "off"

\* What changed since the fill read the configuration is queued.
SnapshotInv ==
  vecOwner = "steam" =>
    \A d \in Depots :
      /\ d \in snapshot /\ d \notin wanted => d \in Queued
      /\ d \notin snapshot /\ d \in wanted => d \in Queued \cup unqueued

\* A decision already made is right for the vector, and right for the
\* configuration too unless the id is queued again.
PlanInv(w) ==
  pc[w] = "plan" =>
    \A d \in Depots :
      /\ d \in planAdditions[w] => ~Present(d) /\ (d \in wanted \/ d \in Queued)
      /\ d \in planRemovals[w] =>
           Present(d) /\ (d \notin wanted \/ d \in Queued \cup unqueued)

InPlan(d) ==
  \E w \in Watchers : pc[w] = "plan" /\ d \in planAdditions[w] \cup planRemovals[w]

\* Every difference is on record somewhere on its way to the vector.
CoverInv ==
  published =>
    \A d \in Depots :
      Differs(d) => d \in Queued \cup touched \cup dropped \cup unqueued \/ InPlan(d)

IInv ==
  /\ TypeOK
  /\ RestartInv
  /\ MutexInv
  /\ SnapshotInv
  /\ \A w \in Watchers : PlanInv(w)
  /\ CoverInv
  /\ NoDuplicates

Quiet == /\ published
         /\ vecOwner = "none"
         /\ \A w \in Watchers : pc[w] \in {"idle", "off"}
         /\ draining = {}
=============================================================================
