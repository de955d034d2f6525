---------------------------- MODULE ManifestPlan ----------------------------
(***************************************************************************)
(* What Steam downloads of one app, and the hooks that change it           *)
(* (Hooks_Manifest, ManifestHookLogic): BuildDepotDependency plans a       *)
(* manifest for each depot, YldLoadDepotManifest loads a planned one, and  *)
(* both hooks and the request for a code call EnsureCached.                *)
(***************************************************************************)
EXTENDS ManifestCache

CONSTANTS
  Depots,    \* the app's depots
  Pins,      \* depots that scripts may pin
  Loader     \* the thread of Steam's download manager

Public == "public"  \* the manifest Steam knows
Pinned == "pinned"  \* the one that a script pins
NoGid == "no gid"
Gids == {Public, Pinned}

ASSUME PlanAssumption ==
  /\ Manifests = Depots \X Gids
  /\ Pins \subseteq Depots
  /\ Loader \in Threads

VARIABLES
  appinfo,     \* the app's information: whole, or swapped by a refresh
  declared,    \* a script lists the app and its depots
  pins,        \* the depots of ManifestOverrides
  owned,       \* the account owns the app
  plan,        \* the manifests Steam has planned
  build,       \* a call of BuildDepotDependency: its stage, and its list
  asked,       \* manifests Steam has asked a code for
  undeclared   \* history: there was a time when no script listed the app

planVars == <<appinfo, declared, pins, owned, plan, build, asked, undeclared>>
scriptVars == <<declared, pins, owned, undeclared>>
vars == <<cacheVars, planVars>>

Empty == [d \in Depots |-> NoGid]
NoBuild == [stage |-> "none", list |-> Empty]
SteamsList == [d \in Depots |-> IF appinfo = "whole" THEN Public ELSE NoGid]

Init ==
  /\ CacheInit
  /\ appinfo = "whole"
  /\ declared \in BOOLEAN
  /\ pins = {}
  /\ owned \in BOOLEAN
  /\ plan = Empty
  /\ build = NoBuild
  /\ asked = {}
  /\ undeclared = ~declared

\* The information of the app is swapped out, and a new one in.
Refresh ==
  /\ \/ appinfo = "whole" /\ Event /\ appinfo' = "swapped"
     \/ appinfo = "swapped" /\ UNCHANGED events /\ appinfo' = "whole"
  /\ UNCHANGED <<stillVars, scriptVars, plan, build, asked>>

\* Scripts are edited, and reloaded.
Edit(lists, ps) ==
  /\ Event
  /\ declared' = lists
  /\ pins' = ps
  /\ undeclared' = (undeclared \/ ~lists)
  /\ UNCHANGED <<stillVars, appinfo, owned, plan, build, asked>>

-----------------------------------------------------------------------------
(* BuildDepotDependency                                                    *)

\* The original makes the list.  A declared app's empty list fails the call: Steam keeps
\* what it has.
NeverRejects(list) == FALSE
ShouldRejectEmptyDepotList(list) == list = Empty /\ declared
Build ==
  /\ build = NoBuild
  /\ ~ShouldRejectEmptyDepotList(SteamsList)
  /\ build' = [stage |-> "patch", list |-> SteamsList]
  /\ UNCHANGED <<cacheVars, appinfo, scriptVars, plan, asked>>

\* The overrides, as they are now, are patched into the list, and Steam stores it.
PatchedOnce(list) ==
  [d \in Depots |-> IF list[d] # NoGid /\ (d \in pins \/ plan[d] = Pinned) THEN Pinned ELSE list[d]]
Patched(list) == [d \in Depots |-> IF list[d] # NoGid /\ d \in pins THEN Pinned ELSE list[d]]
Patch ==
  /\ build.stage = "patch"
  /\ plan' = Patched(build.list)
  /\ build' = NoBuild
  /\ UNCHANGED <<cacheVars, appinfo, scriptVars, asked>>

-----------------------------------------------------------------------------
(* YldLoadDepotManifest, and the request for a code                        *)

\* A depot is fetched for if a script pins it, or lists it and the user does not own it.
ShouldPreseed(d) == d \in pins \/ (declared /\ ~owned)
Load(d) ==
  /\ plan[d] # NoGid
  /\ IF ShouldPreseed(d)
     THEN Calls(Loader, <<d, plan[d]>>)
     ELSE /\ pc[Loader] = "idle"
          /\ pc' = [pc EXCEPT ![Loader] = "returned"]
          /\ want' = [want EXCEPT ![Loader] = <<d, plan[d]>>]
  /\ UNCHANGED <<fileVars, archive, memoryVars, events, planVars>>

\* The original looks at the disk and asks for a code if the file is not there.
Original ==
  /\ pc[Loader] = "returned"
  /\ Returns(Loader)
  /\ asked' = IF Exists(want[Loader]) THEN asked ELSE asked \cup {want[Loader]}
  /\ UNCHANGED <<fileVars, archive, memoryVars, appinfo, scriptVars, plan, build, events>>

\* The request for a code starts a detached thread if HasDepot says so.
Preseed(t) ==
  /\ t # Loader
  /\ declared /\ ~owned
  /\ \E m \in asked : Calls(t, m)
  /\ UNCHANGED <<fileVars, archive, memoryVars, events, planVars>>

Detached(t) ==
  /\ t # Loader
  /\ pc[t] = "returned"
  /\ Returns(t)
  /\ UNCHANGED <<fileVars, archive, memoryVars, events, planVars>>

\* With a code Steam downloads the manifest itself.
SteamStores(m) ==
  /\ m \in asked
  /\ asked' = asked \ {m}
  /\ disk' = [disk EXCEPT ![m] = "whole"]
  /\ UNCHANGED <<temp, archive, memoryVars, threadVars, appinfo, scriptVars, plan, build, events>>

Restart ==
  /\ Event
  /\ Forgets
  /\ build' = NoBuild
  /\ asked' = {}
  /\ UNCHANGED <<appinfo, scriptVars, plan>>

-----------------------------------------------------------------------------
Works(t) ==
  \/ CacheStep(t) /\ UNCHANGED planVars
  \/ Detached(t)

Time ==
  /\ \E m \in Manifests : TtlPasses(m) \/ Archived(m)
  /\ UNCHANGED planVars

Next ==
  \/ \E t \in Threads : Works(t)
  \/ \E t \in Threads : Preseed(t)
  \/ \E d \in Depots : Load(d)
  \/ Original
  \/ Build \/ Patch
  \/ Refresh
  \/ \E lists \in BOOLEAN, ps \in SUBSET Pins : Edit(lists, ps)
  \/ \E m \in Manifests : SteamStores(m)
  \/ Time
  \/ Restart

Spec == Init /\ [][Next]_vars

\* Threads run on; Steam goes on building its plan and loading what it has planned; a
\* swap of the information ends; time passes.  Failures are bounded, so they end.
FairSpec ==
  /\ Spec
  /\ \A t \in Threads : WF_vars(Works(t))
  /\ WF_vars(Original)
  /\ WF_vars(Build) /\ WF_vars(Patch)
  /\ WF_vars(appinfo = "swapped" /\ Refresh)
  /\ \A d \in Depots : SF_vars(Load(d))
  /\ \A m \in Manifests : WF_vars(TtlPasses(m) /\ UNCHANGED planVars)

-----------------------------------------------------------------------------
(* Properties                                                              *)

\* The type invariant.
TypeOK ==
  /\ disk \in [Manifests -> {"none", "half", "whole"}]
  /\ temp \in [Manifests \X Threads -> {"none", "half", "whole"}]
  /\ archive \subseteq Manifests
  /\ inFlight \subseteq Manifests
  /\ negative \in [Manifests -> {"none", "fresh", "stale"}]
  /\ pc \in [Threads -> {"idle", "disk", "negative", "slot", "recheck", "fetch", "open", "write",
                         "rename", "release", "returned"}]
  /\ want \in [Threads -> Manifests \cup {NoManifest}]
  /\ plan \in [Depots -> Gids \cup {NoGid}]
  /\ build \in [stage : {"none", "patch"}, list : [Depots -> {Public, NoGid}]]
  /\ asked \subseteq Manifests

\* Steam never finds a manifest that is not whole, wherever a download was cut short:
\* by a full disk, by a second thread at the same manifest, or by the end of Steam.
NoHalfManifest == TypeOK /\ \A m \in Manifests : disk[m] # "half"

\* A manifest is downloaded once at a time: a thread that found the slot taken leaves
\* it to the one that has it.
InEnsureCached == {"recheck", "fetch", "open", "write", "rename", "release"}
OneFetch ==
  \A t, u \in Threads :
    pc[t] \in InEnsureCached /\ pc[u] \in InEnsureCached /\ want[t] = want[u] => t = u

\* A planned manifest that is fetched for and that the archive has is on the disk in
\* the end: no failure and no restart leaves its slot taken or its absence remembered.
CachedInTheEnd ==
  <>[](\A d \in Depots :
         plan[d] # NoGid /\ <<d, plan[d]>> \in archive /\ ShouldPreseed(d)
           => disk[<<d, plan[d]>>] = "whole")

\* A refresh never empties the plan of an app that scripts have listed all along,
\* though the check and the storing of the list are apart.
PlanIsKept == [][plan # Empty /\ plan' = Empty => undeclared]_plan

\* When the scripts no longer change, the plan comes to hold their pins, and Steam's own
\* manifest for the depots that are pinned no longer.
PlanFollowsPins ==
  <>[](plan # Empty => plan = [d \in Depots |-> IF d \in pins THEN Pinned ELSE Public])
=============================================================================
