--------------------------- MODULE ManifestProofs ---------------------------
(***************************************************************************)
(* Proofs about the two things a download of a manifest needs: the file,   *)
(* planned and fetched into Steam's cache beforehand (ManifestPlan), for   *)
(* every set of depots and threads and every number of failures, restarts  *)
(* and edits; and the request code (ManifestCode), for every set of        *)
(* requests and providers and every number of loads of settings and        *)
(* scripts.                                                                *)
(***************************************************************************)
EXTENDS ManifestPlan, ManifestCode, TLAPS, FiniteSetTheorems

-----------------------------------------------------------------------------
(* The plan and the cache: the inductive invariant                         *)

\* A thread that is in a call knows what it wants.
WantInv == \A t \in Threads : pc[t] # "idle" => want[t] \in Manifests

\* One that is past the slot has it, and nobody else has it too.
SlotInv == OneFetch /\ \A t \in Threads : pc[t] \in InEnsureCached => want[t] \in inFlight

\* What is about to be renamed has been written to its end.
TempInv == \A t \in Threads : pc[t] = "rename" => temp[<<want[t], t>>] = "whole"

\* No file is half written.
WholeInv == \A m \in Manifests : disk[m] # "half"

CacheInv == NoHalfManifest /\ WantInv /\ SlotInv /\ TempInv

\* A list that is about to be stored is empty only if no script listed the app when it
\* was made, which has then been recorded.
ListInv ==
  /\ build.stage = "patch" /\ build.list = Empty => undeclared
  /\ ~declared => undeclared

-----------------------------------------------------------------------------
(* Types                                                                   *)

\* What a planned depot's manifest is called.
LEMMA PlannedManifest ==
  ASSUME TypeOK, NEW d \in Depots, plan[d] # NoGid
  PROVE  <<d, plan[d]>> \in Manifests
  BY PlanAssumption DEF TypeOK, Gids, NoGid

\* The initial states are well typed.
LEMMA InitTypeOK == Init => TypeOK /\ WantInv
<1> SUFFICES ASSUME Init PROVE TypeOK /\ WantInv
  OBVIOUS
<1>1. CacheInit /\ plan = Empty /\ build = NoBuild /\ asked = {}
  BY DEF Init
<1>2. Empty \in [Depots -> Gids \cup {NoGid}] /\ NoBuild \in [stage : {"none", "patch"}, list : [Depots -> {Public, NoGid}]]
  BY DEF Empty, NoBuild
<1>3. temp \in [Manifests \X Threads -> {"none", "half", "whole"}]
  BY <1>1 DEF CacheInit
<1>4. QED
  BY <1>1, <1>2, <1>3 DEF CacheInit, TypeOK, WantInv

\* Every step preserves the types.
LEMMA NextTypeOK ==
  ASSUME TypeOK, WantInv, [Next]_vars
  PROVE  TypeOK' /\ WantInv'
<1> USE DEF vars, cacheVars, stillVars, planVars, scriptVars, fileVars, memoryVars, threadVars, Goes, Event
<1>1. ASSUME NEW t \in Threads, CheckDisk(t), UNCHANGED planVars
     PROVE  TypeOK' /\ WantInv'
  BY <1>1 DEF CheckDisk, Exists, TypeOK, WantInv
<1>2. ASSUME NEW t \in Threads, CheckNegative(t), UNCHANGED planVars
     PROVE  TypeOK' /\ WantInv'
  BY <1>2 DEF CheckNegative, Expired, TypeOK, WantInv
<1>3. ASSUME NEW t \in Threads, TakeSlot(t), UNCHANGED planVars
     PROVE  TypeOK' /\ WantInv'
  BY <1>3 DEF TakeSlot, WithoutSlot, TypeOK, WantInv
<1>4. ASSUME NEW t \in Threads, Recheck(t), UNCHANGED planVars
     PROVE  TypeOK' /\ WantInv'
  BY <1>4 DEF Recheck, Exists, TypeOK, WantInv
<1>5. ASSUME NEW t \in Threads, FetchWhole(t), UNCHANGED planVars
     PROVE  TypeOK' /\ WantInv'
  BY <1>5 DEF FetchWhole, TypeOK, WantInv
<1>6. ASSUME NEW t \in Threads, FetchMissing(t), UNCHANGED planVars
     PROVE  TypeOK' /\ WantInv'
  BY <1>6 DEF FetchMissing, TypeOK, WantInv
<1>7. ASSUME NEW t \in Threads, FetchFails(t), UNCHANGED planVars
     PROVE  TypeOK' /\ WantInv'
  BY <1>7 DEF FetchFails, TypeOK, WantInv
<1>8. ASSUME NEW t \in Threads, OpenTemp(t), UNCHANGED planVars
     PROVE  TypeOK' /\ WantInv'
  BY <1>8 DEF OpenTemp, TypeOK, WantInv
<1>9. ASSUME NEW t \in Threads, WriteTemp(t), UNCHANGED planVars
     PROVE  TypeOK' /\ WantInv'
  BY <1>9 DEF WriteTemp, TypeOK, WantInv
<1>10. ASSUME NEW t \in Threads, Rename(t), UNCHANGED planVars
     PROVE  TypeOK' /\ WantInv'
  BY <1>10 DEF Rename, TypeOK, WantInv
<1>11. ASSUME NEW t \in Threads, WriteFails(t), UNCHANGED planVars
     PROVE  TypeOK' /\ WantInv'
  BY <1>11 DEF WriteFails, TypeOK, WantInv
<1>12. ASSUME NEW t \in Threads, Release(t), UNCHANGED planVars
     PROVE  TypeOK' /\ WantInv'
  BY <1>12 DEF Release, TypeOK, WantInv
<1>13. ASSUME NEW t \in Threads, Detached(t)
     PROVE  TypeOK' /\ WantInv'
  BY <1>13 DEF Detached, Returns, TypeOK, WantInv
<1>14. ASSUME NEW t \in Threads, Preseed(t)
     PROVE  TypeOK' /\ WantInv'
  BY <1>14 DEF Preseed, Calls, TypeOK, WantInv
<1>15. ASSUME NEW d \in Depots, Load(d)
      PROVE  TypeOK' /\ WantInv'
  <2>1. Loader \in Threads /\ <<d, plan[d]>> \in Manifests
    BY <1>15, PlannedManifest, PlanAssumption DEF Load
  <2>2. \E stage \in {"disk", "returned"} : pc' = [pc EXCEPT ![Loader] = stage]
    BY <1>15 DEF Load, Calls
  <2>3. want' = [want EXCEPT ![Loader] = <<d, plan[d]>>]
    BY <1>15 DEF Load, Calls
  <2>4. QED
    BY <1>15, <2>1, <2>2, <2>3 DEF Load, TypeOK, WantInv
<1>16. CASE Original
  BY <1>16, PlanAssumption DEF Original, Returns, TypeOK, WantInv
<1>17. CASE Build
  BY <1>17 DEF Build, NoBuild, SteamsList, TypeOK, WantInv
<1>18. CASE Patch
  BY <1>18 DEF Patch, Patched, NoBuild, Empty, Gids, TypeOK, WantInv
<1>19. CASE Refresh
  BY <1>19 DEF Refresh, TypeOK, WantInv
<1>20. CASE Restart
  BY <1>20 DEF Restart, Forgets, NoBuild, Empty, TypeOK, WantInv
<1>21. ASSUME NEW lists \in BOOLEAN, NEW ps \in SUBSET Pins, Edit(lists, ps)
      PROVE  TypeOK' /\ WantInv'
  BY <1>21 DEF Edit, TypeOK, WantInv
<1>22. ASSUME NEW m \in Manifests, SteamStores(m)
      PROVE  TypeOK' /\ WantInv'
  BY <1>22 DEF SteamStores, TypeOK, WantInv
<1>23. ASSUME NEW m \in Manifests, TtlPasses(m) \/ Archived(m), UNCHANGED planVars
      PROVE  TypeOK' /\ WantInv'
  BY <1>23 DEF TtlPasses, Archived, TypeOK, WantInv
<1>24. CASE UNCHANGED vars
  BY <1>24 DEF TypeOK, WantInv
<1>25. QED
  BY <1>1, <1>2, <1>3, <1>4, <1>5, <1>6, <1>7, <1>8, <1>9, <1>10, <1>11, <1>12, <1>13, <1>14, <1>15, <1>16, <1>17, <1>18, <1>19, <1>20, <1>21, <1>22, <1>23, <1>24 DEF Next, Works, CacheStep, Time

-----------------------------------------------------------------------------
(* The invariant of the cache                                              *)

\* Nobody is in EnsureCached at first, and no file is there.
LEMMA InitCacheInv == Init => CacheInv
  BY InitTypeOK DEF Init, CacheInit, CacheInv, NoHalfManifest, WholeInv, SlotInv, OneFetch, InEnsureCached, TempInv

\* Every step keeps it: a thread enters by a slot that is free, renames what it has
\* written to the end, and gives the slot back as it leaves.
LEMMA NextCacheInv ==
  ASSUME CacheInv, [Next]_vars
  PROVE  CacheInv'
<1> USE DEF vars, cacheVars, stillVars, planVars, scriptVars, fileVars, memoryVars, threadVars, Goes, Event
<1>0. TypeOK /\ WantInv /\ WholeInv /\ SlotInv /\ TempInv
  BY DEF CacheInv, NoHalfManifest, WholeInv
<1>1. ASSUME NEW t \in Threads, CheckDisk(t), UNCHANGED planVars
     PROVE  WholeInv' /\ SlotInv' /\ TempInv'
  BY <1>0, <1>1, PlanAssumption DEF CheckDisk, Exists, TypeOK, WantInv, WholeInv, SlotInv, OneFetch, InEnsureCached, TempInv
<1>2. ASSUME NEW t \in Threads, CheckNegative(t), UNCHANGED planVars
     PROVE  WholeInv' /\ SlotInv' /\ TempInv'
  BY <1>0, <1>2, PlanAssumption DEF CheckNegative, Expired, TypeOK, WantInv, WholeInv, SlotInv, OneFetch, InEnsureCached, TempInv
<1>3. ASSUME NEW t \in Threads, TakeSlot(t), UNCHANGED planVars
     PROVE  WholeInv' /\ SlotInv' /\ TempInv'
  BY <1>0, <1>3, PlanAssumption DEF TakeSlot, WithoutSlot, TypeOK, WantInv, WholeInv, SlotInv, OneFetch, InEnsureCached, TempInv
<1>4. ASSUME NEW t \in Threads, Recheck(t), UNCHANGED planVars
     PROVE  WholeInv' /\ SlotInv' /\ TempInv'
  BY <1>0, <1>4, PlanAssumption DEF Recheck, Exists, TypeOK, WantInv, WholeInv, SlotInv, OneFetch, InEnsureCached, TempInv
<1>5. ASSUME NEW t \in Threads, FetchWhole(t), UNCHANGED planVars
     PROVE  WholeInv' /\ SlotInv' /\ TempInv'
  BY <1>0, <1>5, PlanAssumption DEF FetchWhole, TypeOK, WantInv, WholeInv, SlotInv, OneFetch, InEnsureCached, TempInv
<1>6. ASSUME NEW t \in Threads, FetchMissing(t), UNCHANGED planVars
     PROVE  WholeInv' /\ SlotInv' /\ TempInv'
  BY <1>0, <1>6, PlanAssumption DEF FetchMissing, TypeOK, WantInv, WholeInv, SlotInv, OneFetch, InEnsureCached, TempInv
<1>7. ASSUME NEW t \in Threads, FetchFails(t), UNCHANGED planVars
     PROVE  WholeInv' /\ SlotInv' /\ TempInv'
  BY <1>0, <1>7, PlanAssumption DEF FetchFails, TypeOK, WantInv, WholeInv, SlotInv, OneFetch, InEnsureCached, TempInv
<1>8. ASSUME NEW t \in Threads, OpenTemp(t), UNCHANGED planVars
     PROVE  WholeInv' /\ SlotInv' /\ TempInv'
  BY <1>0, <1>8, PlanAssumption DEF OpenTemp, TypeOK, WantInv, WholeInv, SlotInv, OneFetch, InEnsureCached, TempInv
<1>9. ASSUME NEW t \in Threads, WriteTemp(t), UNCHANGED planVars
     PROVE  WholeInv' /\ SlotInv' /\ TempInv'
  BY <1>0, <1>9, PlanAssumption DEF WriteTemp, TypeOK, WantInv, WholeInv, SlotInv, OneFetch, InEnsureCached, TempInv
<1>10. ASSUME NEW t \in Threads, Rename(t), UNCHANGED planVars
     PROVE  WholeInv' /\ SlotInv' /\ TempInv'
  BY <1>0, <1>10, PlanAssumption DEF Rename, TypeOK, WantInv, WholeInv, SlotInv, OneFetch, InEnsureCached, TempInv
<1>11. ASSUME NEW t \in Threads, WriteFails(t), UNCHANGED planVars
     PROVE  WholeInv' /\ SlotInv' /\ TempInv'
  BY <1>0, <1>11, PlanAssumption DEF WriteFails, TypeOK, WantInv, WholeInv, SlotInv, OneFetch, InEnsureCached, TempInv
<1>12. ASSUME NEW t \in Threads, Release(t), UNCHANGED planVars
     PROVE  WholeInv' /\ SlotInv' /\ TempInv'
  BY <1>0, <1>12, PlanAssumption DEF Release, TypeOK, WantInv, WholeInv, SlotInv, OneFetch, InEnsureCached, TempInv
<1>13. ASSUME NEW t \in Threads, Detached(t)
     PROVE  WholeInv' /\ SlotInv' /\ TempInv'
  BY <1>0, <1>13, PlanAssumption DEF Detached, Returns, TypeOK, WantInv, WholeInv, SlotInv, OneFetch, InEnsureCached, TempInv
<1>14. ASSUME NEW t \in Threads, Preseed(t)
     PROVE  WholeInv' /\ SlotInv' /\ TempInv'
  BY <1>0, <1>14, PlanAssumption DEF Preseed, Calls, TypeOK, WantInv, WholeInv, SlotInv, OneFetch, InEnsureCached, TempInv
<1>15. ASSUME NEW d \in Depots, Load(d)
     PROVE  WholeInv' /\ SlotInv' /\ TempInv'
  <2>1. Loader \in Threads /\ pc[Loader] = "idle" /\ UNCHANGED <<disk, temp, inFlight>>
    BY <1>15, PlanAssumption DEF Load, Calls
  <2>2. \E stage \in {"disk", "returned"} : pc' = [pc EXCEPT ![Loader] = stage]
    BY <1>15 DEF Load, Calls
  <2>3. want' = [want EXCEPT ![Loader] = <<d, plan[d]>>]
    BY <1>15 DEF Load, Calls
  <2>4. QED
    BY <1>0, <2>1, <2>2, <2>3 DEF TypeOK, WantInv, WholeInv, SlotInv, OneFetch, InEnsureCached, TempInv
<1>16. ASSUME Original
     PROVE  WholeInv' /\ SlotInv' /\ TempInv'
  BY <1>0, <1>16, PlanAssumption DEF Original, Returns, TypeOK, WantInv, WholeInv, SlotInv, OneFetch, InEnsureCached, TempInv
<1>17. ASSUME Build
     PROVE  WholeInv' /\ SlotInv' /\ TempInv'
  BY <1>0, <1>17, PlanAssumption DEF Build, TypeOK, WantInv, WholeInv, SlotInv, OneFetch, InEnsureCached, TempInv
<1>18. ASSUME Patch
     PROVE  WholeInv' /\ SlotInv' /\ TempInv'
  BY <1>0, <1>18, PlanAssumption DEF Patch, TypeOK, WantInv, WholeInv, SlotInv, OneFetch, InEnsureCached, TempInv
<1>19. ASSUME Refresh
     PROVE  WholeInv' /\ SlotInv' /\ TempInv'
  BY <1>0, <1>19, PlanAssumption DEF Refresh, TypeOK, WantInv, WholeInv, SlotInv, OneFetch, InEnsureCached, TempInv
<1>20. ASSUME Restart
     PROVE  WholeInv' /\ SlotInv' /\ TempInv'
  BY <1>0, <1>20, PlanAssumption DEF Restart, Forgets, TypeOK, WantInv, WholeInv, SlotInv, OneFetch, InEnsureCached, TempInv
<1>21. ASSUME NEW lists \in BOOLEAN, NEW ps \in SUBSET Pins, Edit(lists, ps)
     PROVE  WholeInv' /\ SlotInv' /\ TempInv'
  BY <1>0, <1>21, PlanAssumption DEF Edit, TypeOK, WantInv, WholeInv, SlotInv, OneFetch, InEnsureCached, TempInv
<1>22. ASSUME NEW m \in Manifests, SteamStores(m)
     PROVE  WholeInv' /\ SlotInv' /\ TempInv'
  BY <1>0, <1>22, PlanAssumption DEF SteamStores, TypeOK, WantInv, WholeInv, SlotInv, OneFetch, InEnsureCached, TempInv
<1>23. ASSUME NEW m \in Manifests, TtlPasses(m) \/ Archived(m), UNCHANGED planVars
     PROVE  WholeInv' /\ SlotInv' /\ TempInv'
  BY <1>0, <1>23, PlanAssumption DEF TtlPasses, Archived, TypeOK, WantInv, WholeInv, SlotInv, OneFetch, InEnsureCached, TempInv
<1>24. ASSUME UNCHANGED vars
     PROVE  WholeInv' /\ SlotInv' /\ TempInv'
  BY <1>0, <1>24 DEF TypeOK, WantInv, WholeInv, SlotInv, OneFetch, InEnsureCached, TempInv
<1>25. WholeInv' /\ SlotInv' /\ TempInv'
  BY <1>1, <1>2, <1>3, <1>4, <1>5, <1>6, <1>7, <1>8, <1>9, <1>10, <1>11, <1>12, <1>13, <1>14, <1>15, <1>16, <1>17, <1>18, <1>19, <1>20, <1>21, <1>22, <1>23, <1>24 DEF Next, Works, CacheStep, Time
<1>26. QED
  BY <1>0, <1>25, NextTypeOK DEF CacheInv, NoHalfManifest, WholeInv

\* No run reaches a manifest that is not whole, nor a thread whose want is unknown.
LEMMA SpecCacheInv == Spec => []CacheInv
<1>1. CacheInv /\ [Next]_vars => CacheInv'
  BY NextCacheInv
<1>2. QED
  BY <1>1, InitCacheInv, PTL DEF Spec

\* Whatever cuts a download short, Steam never finds a manifest that is not whole: for
\* every set of depots, threads, and every number of failures and restarts.
THEOREM WholeManifests == Spec => []NoHalfManifest
<1>1. CacheInv => NoHalfManifest
  BY DEF CacheInv
<1>2. QED
  BY <1>1, SpecCacheInv, PTL

\* However many threads want it, one of them downloads a manifest at a time.
THEOREM OneFetchAtATime == Spec => []OneFetch
<1>1. CacheInv => OneFetch
  BY DEF CacheInv, SlotInv
<1>2. QED
  BY <1>1, SpecCacheInv, PTL

-----------------------------------------------------------------------------
(* The plan                                                                *)

\* The overrides replace manifests of a list and never add or remove one.
LEMMA PatchedIsEmpty ==
  ASSUME NEW list \in [Depots -> {Public, NoGid}]
  PROVE  Patched(list) = Empty <=> list = Empty
  BY DEF Patched, Empty, Public, Pinned, NoGid

\* At first no list is about to be stored, and the history is that of the declaration.
LEMMA InitListInv == Init => ListInv
<1> SUFFICES ASSUME Init PROVE ListInv
  OBVIOUS
<1>1. build.stage # "patch"
  BY DEF Init, NoBuild
<1>2. undeclared = ~declared
  BY DEF Init
<1>3. ~declared => undeclared
  BY <1>2, Zenon
<1>4. QED
  BY <1>1, <1>3 DEF ListInv

\* Every step keeps the list in the making accounted for.
LEMMA NextListInv ==
  ASSUME TypeOK, ListInv, [Next]_vars
  PROVE  ListInv'
<1>1. CASE Build
  BY <1>1 DEF Build, ShouldRejectEmptyDepotList, ListInv, scriptVars
<1>2. CASE Patch
  BY <1>2 DEF Patch, NoBuild, ListInv, scriptVars
<1>3. CASE Restart
  BY <1>3 DEF Restart, NoBuild, ListInv, scriptVars
<1>4. ASSUME NEW lists \in BOOLEAN, NEW ps \in SUBSET Pins, Edit(lists, ps)
      PROVE  ListInv'
  BY <1>4 DEF Edit, ListInv
<1>5. CASE UNCHANGED <<build, declared, undeclared>>
  BY <1>5 DEF ListInv
<1>6. Build \/ Patch \/ Restart \/ (\E lists \in BOOLEAN, ps \in SUBSET Pins : Edit(lists, ps))
        \/ UNCHANGED <<build, declared, undeclared>>
  BY DEF Next, Works, Detached, Preseed, Load, Original, Refresh, SteamStores, Time, vars, planVars, scriptVars
<1>7. QED
  BY <1>1, <1>2, <1>3, <1>4, <1>5, <1>6

\* A step that empties a plan stores a list that was made while no script listed the app.
LEMMA NextPlanIsKept ==
  ASSUME TypeOK, ListInv, [Next]_vars
  PROVE  plan # Empty /\ plan' = Empty => undeclared
<1>1. CASE Patch
  BY <1>1, PatchedIsEmpty DEF Patch, ListInv, TypeOK
<1>2. CASE UNCHANGED plan
  BY <1>2
<1>3. Patch \/ UNCHANGED plan
  BY DEF Next, Works, Detached, Preseed, Load, Original, Build, Refresh, Edit, SteamStores, Time, Restart, vars,
    planVars, scriptVars
<1>4. QED
  BY <1>1, <1>2, <1>3

\* A refresh of the app's information never empties the plan of an app that scripts have
\* listed all along, though scripts are edited between the check of a list and its storing.
THEOREM PlansAreKept == Spec => PlanIsKept
<1>1. CacheInv /\ ListInv /\ [Next]_vars => ListInv'
  BY NextListInv DEF CacheInv, NoHalfManifest
<1>2. CacheInv /\ ListInv /\ [Next]_vars => [plan # Empty /\ plan' = Empty => undeclared]_plan
  BY NextPlanIsKept DEF CacheInv, NoHalfManifest
<1>3. QED
  BY <1>1, <1>2, InitListInv, SpecCacheInv, PTL DEF Spec, PlanIsKept

-----------------------------------------------------------------------------
(* The codes: the inductive invariant                                      *)

\* A fetch that has begun reads what it gets with the parser of the server it asks: the
\* template cannot be set while the fetch holds the client's mutex.
HttpInv ==
  \A j \in Jobs : At(j, "http") =>
    /\ fetch[j].url = fetch[j].parse
    /\ urlTemplateOverride => fetch[j].parse = Override

\* A task's code is one for its own request.
DoneInv == \A j \in Jobs : At(j, "done") => fetch[j].code \in {NoCode, Code(j)}

\* What was not asked for has no task, and Steam has got no reply to it.
AskedInv ==
  /\ futures \subseteq requested
  /\ \A j \in Jobs \ requested : fetch[j].pc = "none" /\ delivered[j] = Untouched

\* The reply that is held is one that was asked for, with Steam's own code for it.
HeldInv == recv.pc # "idle" => recv.job \in requested /\ recv.code \in {NoCode, Own(recv.job)}

CodeInv ==
  /\ CodesAreRight
  /\ IsFiniteSet(sent)
  /\ HttpInv /\ DoneInv /\ AskedInv /\ HeldInv

\* The parts of the type invariant that a task's steps touch.
FetchTypes ==
  fetch \in [Jobs -> [pc : Pcs, func : Callbacks, url : Providers \cup {Override},
                      parse : Providers \cup {Override}, aware : BOOLEAN, code : Codes]]
MutexTypes ==
  /\ clientOwner \in Holders
  /\ luaOwner \in Holders \cup {Watcher}
  /\ \A j \in Jobs : (fetch[j].pc \notin {"none", "lock", "done"}) <=> clientOwner = j
  /\ \A j \in Jobs : (fetch[j].pc \in {"script", "scripted"}) <=> luaOwner = j
  /\ (luaPc \in {"script", "scripted"}) <=> luaOwner = Watcher

-----------------------------------------------------------------------------
(* Codes                                                                   *)

\* Codes of different requests, and of different origin, are different codes.
LEMMA CodesDiffer ==
  ASSUME NEW j \in Jobs
  PROVE  /\ {NoCode, Garbage, Own(j), Code(j)} \subseteq Codes
         /\ NoCode # Own(j) /\ NoCode # Code(j)
  BY DEF Codes, NoCode, Garbage, Own, Code

\* Nothing is asked, held or fetched at first.
LEMMA InitCodeInv == CodeInit => CodeInv
<1> SUFFICES ASSUME CodeInit PROVE CodeInv
  OBVIOUS
<1>1. NoCode \in Codes /\ (CHOOSE j \in Jobs : TRUE) \in Jobs
  BY JobsAssumption DEF Codes
<1>2. FetchTypes /\ MutexTypes
  BY <1>1, JobsAssumption DEF CodeInit, FetchTypes, MutexTypes, NoTask, Pcs, Callbacks, Holders, Nobody, Watcher
<1>3. recv \in [pc : {"idle", "wait", "drop"}, job : Jobs, code : Codes]
  BY <1>1 DEF CodeInit, Idle
<1>4. IsFiniteSet(sent) /\ Cardinality(sent) <= MaxTracked
  BY FS_EmptySet, RowsAssumption DEF CodeInit
<1>5. CodeTypeOK
  BY <1>2, <1>3, <1>4, RowsAssumption DEF CodeInit, CodeTypeOK, FetchTypes, MutexTypes
<1>6. RightCode /\ OnlyOwnCaptured /\ FuturesAwaitReplies
  BY DEF CodeInit, RightCode, OnlyOwnCaptured, FuturesAwaitReplies
<1>7. HttpInv /\ DoneInv /\ AskedInv /\ HeldInv
  BY DEF CodeInit, HttpInv, DoneInv, AskedInv, HeldInv, At, NoTask, Idle
<1>8. QED
  BY <1>4, <1>5, <1>6, <1>7 DEF CodeInv, CodesAreRight

-----------------------------------------------------------------------------
(* A task                                                                  *)

\* What a task's steps keep: the types of the tasks, the mutexes, and the codes.
TaskInv == FetchTypes /\ MutexTypes /\ HttpInv /\ DoneInv

\* A fetch starts with the override and its parser, or the active provider and its.
LEMMA GetTypes ==
  ASSUME FetchTypes, urlTemplateOverride \in BOOLEAN, active \in Providers, NEW j \in Jobs, Get(j)
  PROVE  /\ FetchTypes'
         /\ fetch'[j].pc = "http" /\ fetch'[j].url = fetch'[j].parse
         /\ urlTemplateOverride => fetch'[j].parse = Override
         /\ \A k \in Jobs \ {j} : fetch'[k] = fetch[k]
<1> DEFINE source == IF urlTemplateOverride THEN Override ELSE active
<1>1. source \in Providers \cup {Override} /\ (source \in DepotAware) \in BOOLEAN /\ NoCode \in Codes
  BY DEF Codes
<1>2. fetch' = [fetch EXCEPT ![j] = [NoTask EXCEPT !.pc = "http", !.url = source, !.parse = source,
                                       !.aware = source \in DepotAware]]
  BY DEF Get
<1> HIDE DEF source
<1>3. QED
  BY <1>1, <1>2 DEF FetchTypes, NoTask, Pcs, Callbacks, source

\* The next source is the other callback, or the provider.
LEMMA NextSourceTypes ==
  ASSUME FetchTypes, urlTemplateOverride \in BOOLEAN, active \in Providers, NEW j \in Jobs, NextSource(j)
  PROVE  /\ FetchTypes'
         /\ \/ fetch'[j].pc = "ask"
            \/ /\ fetch'[j].pc = "http" /\ fetch'[j].url = fetch'[j].parse
               /\ urlTemplateOverride => fetch'[j].parse = Override
         /\ \A k \in Jobs \ {j} : fetch'[k] = fetch[k]
<1>1. CASE fetch[j].func = "ex"
  BY <1>1 DEF NextSource, FetchTypes, Pcs, Callbacks
<1>2. CASE fetch[j].func # "ex"
  BY <1>2, GetTypes DEF NextSource
<1>3. QED
  BY <1>1, <1>2

\* A task that ends has its code and gives the client's mutex back.
LEMMA FinishTypes ==
  ASSUME FetchTypes, NEW j \in Jobs, NEW code \in Codes, Finish(j, code)
  PROVE  /\ FetchTypes'
         /\ fetch'[j].pc = "done" /\ fetch'[j].code = code /\ clientOwner' = Nobody
         /\ \A k \in Jobs \ {j} : fetch'[k] = fetch[k]
  BY DEF Finish, NoTask, FetchTypes, Pcs, Callbacks, Codes

\* What a step of a task may do: it goes on with the client's mutex, and in a script with
\* the Lua mutex too, or ends with a code of its own and without either.
Moved(j) ==
  /\ FetchTypes'
  /\ \A k \in Jobs \ {j} : fetch'[k] = fetch[k]
  /\ fetch[j].pc # "none"
  /\ {clientOwner, clientOwner'} \subseteq {Nobody, j}
  /\ luaOwner' = luaOwner \/ {luaOwner, luaOwner'} \subseteq {Nobody, j}
  /\ (fetch'[j].pc \notin {"none", "lock", "done"}) <=> clientOwner' = j
  /\ (fetch'[j].pc \in {"script", "scripted"}) <=> luaOwner' = j
  /\ fetch'[j].pc = "http" => fetch'[j].url = fetch'[j].parse /\ (urlTemplateOverride => fetch'[j].parse = Override)
  /\ fetch'[j].pc = "done" => fetch'[j].code \in {NoCode, Code(j)}

\* Such a step disturbs no other task.
LEMMA MovedKeepsTasks ==
  ASSUME TaskInv, NEW j \in Jobs, Moved(j), UNCHANGED <<urlTemplateOverride, luaPc>>
  PROVE  TaskInv' /\ (\A k \in Jobs : fetch[k].pc = "none" => fetch'[k].pc = "none")
<1> USE DEF TaskInv, Moved
<1>1. FetchTypes' /\ (\A k \in Jobs : fetch[k].pc = "none" => fetch'[k].pc = "none")
  OBVIOUS
<1>2. MutexTypes'
  <2>0. j # Nobody /\ j # Watcher /\ Nobody # Watcher /\ Nobody \notin Jobs
    BY JobsAssumption DEF Nobody, Watcher
  <2>1. clientOwner' \in Holders /\ luaOwner' \in Holders \cup {Watcher}
    BY DEF MutexTypes, Holders
  <2>2. ASSUME NEW k \in Jobs
        PROVE  /\ (fetch'[k].pc \notin {"none", "lock", "done"}) <=> clientOwner' = k
               /\ (fetch'[k].pc \in {"script", "scripted"}) <=> luaOwner' = k
    <3>1. CASE k = j
      BY <3>1
    <3>2. CASE k # j
      BY <2>0, <3>2 DEF MutexTypes
    <3>3. QED
      BY <3>1, <3>2
  <2>3. (luaPc' \in {"script", "scripted"}) <=> luaOwner' = Watcher
    BY <2>0 DEF MutexTypes
  <2>4. QED
    BY <2>1, <2>2, <2>3 DEF MutexTypes
<1>3. HttpInv' /\ DoneInv'
  BY DEF HttpInv, DoneInv, At
<1>4. QED
  BY <1>1, <1>2, <1>3

\* Every step of a task keeps its mutexes, its parser and its code.
LEMMA TaskSteps ==
  ASSUME CodeTypeOK, TaskInv, NEW j \in Jobs, Enters(j) \/ FetchStep(j) \/ HttpStep(j)
  PROVE  TaskInv' /\ Frame /\ (\A k \in Jobs : fetch[k].pc = "none" => fetch'[k].pc = "none")
<1> USE DEF Goto, At
<1>0. urlTemplateOverride \in BOOLEAN /\ active \in Providers /\ j # Nobody /\ j # Watcher /\ FetchTypes
  BY JobsAssumption DEF CodeTypeOK, TaskInv, Nobody, Watcher
<1>a. /\ (fetch[j].pc \notin {"none", "lock", "done"}) <=> clientOwner = j
      /\ (fetch[j].pc \in {"script", "scripted"}) <=> luaOwner = j
  BY DEF TaskInv, MutexTypes
<1>b. fetch[j].pc = "http" => fetch[j].url = fetch[j].parse /\ (urlTemplateOverride => fetch[j].parse = Override)
  BY DEF TaskInv, HttpInv
<1>1. ASSUME Acquire(j)
      PROVE  Moved(j) /\ Frame
  <2>1. FetchTypes' /\ fetch'[j].pc = "ask" /\ \A k \in Jobs \ {j} : fetch'[k] = fetch[k]
    BY <1>0, <1>1 DEF Acquire, FetchTypes, Pcs
  <2>2. QED
    BY <1>0, <1>a, <1>1, <2>1 DEF Acquire, Moved
<1>2. ASSUME EnterScript(j)
      PROVE  Moved(j) /\ Frame
  <2>1. FetchTypes' /\ fetch'[j].pc \in {"script", "scripted"} /\ \A k \in Jobs \ {j} : fetch'[k] = fetch[k]
    BY <1>0, <1>2 DEF EnterScript, FetchTypes, Pcs
  <2>2. QED
    BY <1>0, <1>a, <1>2, <2>1 DEF EnterScript, Moved
<1>3. ASSUME NEW defined \in BOOLEAN, AskScripts(j, defined)
      PROVE  Moved(j) /\ Frame
  <2>1. CASE defined
    <3>1. FetchTypes' /\ fetch'[j].pc = "lua" /\ \A k \in Jobs \ {j} : fetch'[k] = fetch[k]
      BY <1>0, <1>3, <2>1 DEF AskScripts, FetchTypes, Pcs
    <3>2. QED
      BY <1>0, <1>a, <1>3, <3>1 DEF AskScripts, Moved
  <2>2. CASE ~defined
    <3>1. NextSource(j)
      BY <1>3, <2>2 DEF AskScripts
    <3>2. QED
      BY <1>0, <1>a, <1>3, <3>1, NextSourceTypes DEF AskScripts, Moved
  <2>3. QED
    BY <2>1, <2>2
<1>4. ASSUME ScriptHttp(j)
      PROVE  Moved(j) /\ Frame
  <2>1. FetchTypes' /\ fetch'[j].pc = "scriptHttp" /\ \A k \in Jobs \ {j} : fetch'[k] = fetch[k]
    BY <1>0, <1>4 DEF ScriptHttp, FetchTypes, Pcs
  <2>2. QED
    BY <1>0, <1>a, <1>4, <2>1 DEF ScriptHttp, Moved
<1>5. ASSUME ScriptAnswered(j)
      PROVE  Moved(j) /\ Frame
  <2>1. FetchTypes' /\ fetch'[j].pc = "relock" /\ \A k \in Jobs \ {j} : fetch'[k] = fetch[k]
    BY <1>0, <1>5 DEF ScriptAnswered, FetchTypes, Pcs
  <2>2. QED
    BY <1>0, <1>a, <1>5, <2>1 DEF ScriptAnswered, Moved
<1>6. ASSUME NEW answers \in BOOLEAN, NEW code \in {NoCode, Code(j)}, ScriptReturns(j, answers, code)
      PROVE  Moved(j) /\ Frame
  <2>1. fetch[j].pc \in {"script", "scripted"} /\ luaOwner' = Nobody /\ luaOwner = j /\ clientOwner = j /\ Frame
    BY <1>a, <1>6 DEF ScriptReturns
  <2>2. CASE answers
    <3>1. Finish(j, code) /\ code \in Codes
      BY <1>6, <2>2, CodesDiffer DEF ScriptReturns
    <3>2. QED
      BY <1>0, <2>1, <3>1, FinishTypes DEF Moved
  <2>3. CASE ~answers
    <3>1. NextSource(j) /\ clientOwner' = clientOwner
      BY <1>6, <2>3 DEF ScriptReturns
    <3>2. QED
      BY <1>0, <2>1, <3>1, NextSourceTypes DEF Moved
  <2>4. QED
    BY <2>2, <2>3
<1>7. ASSUME NEW parsable \in BOOLEAN, HttpAnswers(j, parsable)
      PROVE  Moved(j) /\ Frame
  <2>1. PICK code \in {NoCode, Code(j)} : Finish(j, code)
    BY <1>b, <1>7 DEF HttpAnswers, Parsed
  <2>2. fetch[j].pc = "http" /\ luaOwner' = luaOwner /\ clientOwner = j /\ Frame
    BY <1>a, <1>7 DEF HttpAnswers
  <2>3. QED
    BY <1>0, <1>a, <2>1, <2>2, FinishTypes, CodesDiffer DEF Moved
<1>8. ASSUME HttpFails(j)
      PROVE  Moved(j) /\ Frame
  <2>1. fetch[j].pc = "http" /\ luaOwner' = luaOwner /\ clientOwner = j /\ Frame
    BY <1>a, <1>8 DEF HttpFails
  <2>2. CASE fetch[j].aware
    <3>1. PICK url \in {fetch[j].parse} : fetch' = [fetch EXCEPT ![j].aware = FALSE, ![j].url = url]
      BY <1>b, <1>8, <2>1, <2>2 DEF HttpFails
    <3>2. FetchTypes' /\ \A k \in Jobs \ {j} : fetch'[k] = fetch[k]
      BY <1>0, <3>1 DEF FetchTypes
    <3>3. fetch'[j].pc = "http" /\ fetch'[j].parse = fetch[j].parse /\ fetch'[j].url = fetch[j].parse
      BY <1>0, <2>1, <3>1 DEF FetchTypes
    <3>4. clientOwner' = clientOwner
      BY <1>8, <2>2 DEF HttpFails
    <3>5. QED
      BY <1>0, <1>a, <1>b, <2>1, <3>2, <3>3, <3>4 DEF Moved
  <2>3. CASE ~fetch[j].aware
    <3>1. Finish(j, NoCode)
      BY <1>8, <2>3 DEF HttpFails
    <3>2. QED
      BY <1>0, <1>a, <2>1, <3>1, FinishTypes, CodesDiffer DEF Moved
  <2>4. QED
    BY <2>2, <2>3
<1>9. Moved(j) /\ Frame
  BY <1>1, <1>2, <1>3, <1>4, <1>5, <1>6, <1>7, <1>8 DEF Enters, FetchStep, HttpStep
<1>10. UNCHANGED <<urlTemplateOverride, luaPc>>
  BY <1>9 DEF Frame, loadVars
<1>11. QED
  BY <1>9, <1>10, MovedKeepsTasks

-----------------------------------------------------------------------------
(* Settings and scripts                                                    *)

\* The watchers' steps leave tasks and codes alone; the template is set while no fetch
\* holds the client's mutex.
LEMMA WatcherSteps ==
  ASSUME CodeInv,
         \/ \E p \in Providers : SetProvider(p)
         \/ ConfigStep
         \/ ParseFile \/ ParseEnters \/ ParseStep \/ ParseAnswered
  PROVE  CodeInv'
<1> USE DEF CodeInv, CodesAreRight, clientVars, netVars
<1>0. UNCHANGED <<netVars, fetch>>
  BY DEF SetProvider, ConfigStep, SetUrlTemplateOverride, ApplySnapshot, ParseFile, ParseEnters, ParseStep, ParseHttp, ParseEnds,
    ParseAnswered
<1>a. loads < MaxLoads => loads + 1 \in 0..MaxLoads
  <2>1. loads \in 0..MaxLoads /\ MaxLoads \in Nat
    BY RowsAssumption DEF CodeTypeOK
  <2>2. QED
    BY ONLY <2>1
<1>1. RightCode' /\ OnlyOwnCaptured' /\ FuturesAwaitReplies' /\ IsFiniteSet(sent)' /\ DoneInv' /\ AskedInv' /\ HeldInv'
  BY <1>0 DEF RightCode, OnlyOwnCaptured, FuturesAwaitReplies, DoneInv, AskedInv, HeldInv, At
<1>2. HttpInv'
  <2>1. CASE UNCHANGED urlTemplateOverride
    BY <1>0, <2>1 DEF HttpInv, At
  <2>2. CASE clientOwner = Nobody
    BY <1>0, <2>2, JobsAssumption DEF HttpInv, At, CodeTypeOK, Nobody
  <2>3. UNCHANGED urlTemplateOverride \/ clientOwner = Nobody
    BY DEF SetProvider, ConfigStep, SetUrlTemplateOverride, ApplySnapshot, ParseFile, ParseEnters, ParseStep, ParseHttp, ParseEnds,
      ParseAnswered
  <2>4. QED
    BY <2>1, <2>2, <2>3
<1>3. CodeTypeOK'
  <2> USE RowsAssumption, JobsAssumption DEF CodeTypeOK, Holders, Nobody, Watcher
  <2>1. ASSUME NEW p \in Providers, SetProvider(p)
        PROVE  CodeTypeOK'
    <3>1. loads' \in 0..MaxLoads
      BY <1>a, <2>1 DEF SetProvider
    <3>2. QED
      BY <1>0, <2>1, <3>1 DEF SetProvider
  <2>2. ASSUME NEW isSet \in BOOLEAN, SetUrlTemplateOverride(isSet)
        PROVE  CodeTypeOK'
    BY <1>0, <2>2 DEF SetUrlTemplateOverride
  <2>3. ASSUME NEW enabled \in BOOLEAN, ApplySnapshot(enabled)
        PROVE  CodeTypeOK'
    BY <1>0, <2>3 DEF ApplySnapshot
  <2>4. CASE ParseFile
    <3>1. loads' \in 0..MaxLoads
      BY <1>a, <2>4 DEF ParseFile
    <3>2. QED
      BY <1>0, <2>4, <3>1 DEF ParseFile
  <2>5. CASE ParseEnters
    BY <1>0, <2>5 DEF ParseEnters
  <2>6. CASE ParseHttp
    BY <1>0, <2>6 DEF ParseHttp
  <2>7. CASE ParseAnswered
    BY <1>0, <2>7 DEF ParseAnswered
  <2>8. CASE ParseEnds
    BY <1>0, <2>8 DEF ParseEnds
  <2>9. QED
    BY <2>1, <2>2, <2>3, <2>4, <2>5, <2>6, <2>7, <2>8 DEF ConfigStep, ParseStep
<1>4. QED
  BY <1>1, <1>2, <1>3

-----------------------------------------------------------------------------
(* Requests and replies                                                    *)

\* The types of what the network thread keeps.
NetTypes ==
  /\ requested \subseteq Jobs
  /\ unanswered \subseteq requested /\ sent \subseteq Jobs /\ futures \subseteq Jobs
  /\ Cardinality(sent) <= MaxTracked
  /\ recv \in [pc : {"idle", "wait", "drop"}, job : Jobs, code : Codes]
  /\ delivered \in [Jobs -> Codes \cup {Untouched}]
  /\ captured \in [Jobs -> Codes \cup {Untouched}]

ReplyInv ==
  /\ NetTypes /\ IsFiniteSet(sent)
  /\ RightCode /\ OnlyOwnCaptured /\ FuturesAwaitReplies
  /\ AskedInv /\ HeldInv

\* The table of requests remembered stays within its limit.
LEMMA SentIsBounded ==
  ASSUME IsFiniteSet(sent), Cardinality(sent) <= MaxTracked, NEW j \in Jobs
  PROVE  /\ IsFiniteSet(sent \ {j}) /\ Cardinality(sent \ {j}) <= MaxTracked
         /\ Cardinality(sent) < MaxTracked => IsFiniteSet(sent \cup {j}) /\ Cardinality(sent \cup {j}) <= MaxTracked
<1>1. Cardinality(sent) \in Nat /\ MaxTracked \in Nat
  BY FS_CardinalityType, RowsAssumption
<1>2. /\ IsFiniteSet(sent \ {j})
      /\ Cardinality(sent \ {j}) = IF j \in sent THEN Cardinality(sent) - 1 ELSE Cardinality(sent)
  BY FS_RemoveElement
<1>3. /\ IsFiniteSet(sent \cup {j})
      /\ Cardinality(sent \cup {j}) = IF j \in sent THEN Cardinality(sent) ELSE Cardinality(sent) + 1
  BY FS_AddElement
<1>4. QED
  BY <1>1, <1>2, <1>3

\* A request is one that was not made before.
LEMMA SendSteps ==
  ASSUME ReplyInv, FetchTypes, MutexTypes, HttpInv, DoneInv, NEW j \in Jobs, NEW listed \in BOOLEAN, HandleSend(j, listed)
  PROVE  ReplyInv' /\ FetchTypes' /\ MutexTypes' /\ HttpInv' /\ DoneInv'
<1> USE DEF ReplyInv
<1>1. sent' \in {sent, sent \cup {j}} /\ (sent' = sent \/ Cardinality(sent) < MaxTracked)
  BY DEF HandleSend
<1>2. NetTypes' /\ IsFiniteSet(sent)'
  BY <1>1, SentIsBounded DEF HandleSend, NetTypes
<1>3. fetch' = fetch \/ fetch' = [fetch EXCEPT ![j].pc = "lock"]
  BY DEF HandleSend, Goto
<1>4. fetch[j].pc = "none" /\ delivered[j] = Untouched /\ (recv.pc # "idle" => recv.job # j)
  BY DEF HandleSend, AskedInv, HeldInv
<1>5. RightCode' /\ OnlyOwnCaptured' /\ FuturesAwaitReplies' /\ HeldInv'
  BY <1>4 DEF HandleSend, RightCode, OnlyOwnCaptured, FuturesAwaitReplies, HeldInv
<1>6. AskedInv'
  BY <1>3 DEF HandleSend, AskedInv, FetchTypes
<1>7. FetchTypes'
  BY <1>3 DEF FetchTypes, Pcs
<1>8. MutexTypes' /\ HttpInv' /\ DoneInv'
  BY <1>3, <1>4 DEF HandleSend, NetFrame, clientVars, loadVars, FetchTypes, MutexTypes, HttpInv, DoneInv, At
<1>9. QED
  BY <1>2, <1>5, <1>6, <1>7, <1>8

\* What is let through is Steam's own code, or that of the task of the same request.
LEMMA LetThroughSteps ==
  ASSUME ReplyInv, NEW code \in {NoCode, Own(recv.job), Code(recv.job)}, recv.pc # "idle", LetThrough(code)
  PROVE  ReplyInv'
<1> USE DEF ReplyInv
<1>1. recv.job \in Jobs /\ recv.job \notin futures /\ recv.job \in requested /\ code \in Codes
  BY CodesDiffer DEF NetTypes, FuturesAwaitReplies, HeldInv
<1>2. /\ delivered' = [delivered EXCEPT ![recv.job] = code] /\ recv' = Idle
      /\ UNCHANGED <<requested, unanswered, sent, futures, captured, fetch>>
  BY DEF LetThrough
<1>3. Idle \in [pc : {"idle", "wait", "drop"}, job : Jobs, code : Codes] /\ Idle.pc = "idle"
  BY JobsAssumption DEF Idle, Codes
<1>4. NetTypes' /\ IsFiniteSet(sent)'
  BY <1>1, <1>2, <1>3 DEF NetTypes
<1>5. RightCode' /\ OnlyOwnCaptured'
  BY <1>1, <1>2 DEF NetTypes, RightCode, OnlyOwnCaptured
<1>6. FuturesAwaitReplies' /\ AskedInv' /\ HeldInv'
  BY <1>1, <1>2, <1>3 DEF NetTypes, FuturesAwaitReplies, AskedInv, HeldInv
<1>7. QED
  BY <1>4, <1>5, <1>6

\* A reply takes its request's future away with it, and only Steam's own code is captured.
LEMMA RecvSteps ==
  ASSUME ReplyInv, DoneInv,
         \/ \E j \in Jobs, refused \in BOOLEAN : HandleRecv(j, refused)
         \/ RecvStep \/ TimeOut \/ Disconnect
  PROVE  ReplyInv'
<1>1. ASSUME NEW j \in Jobs, NEW refused \in BOOLEAN, HandleRecv(j, refused)
      PROVE  ReplyInv'
  <2> DEFINE code == IF refused THEN NoCode ELSE Own(j)
  <2> USE DEF ReplyInv
  <2>1. code \in Codes /\ code \in {NoCode, Own(j)}
    BY CodesDiffer
  <2>2. /\ recv.pc = "idle" /\ j \in unanswered /\ unanswered' = unanswered \ {j}
        /\ sent' = sent \ {j} /\ futures' = futures \ {j} /\ UNCHANGED <<requested, fetch>>
        /\ (captured' = [captured EXCEPT ![j] = code] /\ code # NoCode) \/ captured' = captured
        /\ \/ j \in futures /\ recv' = [pc |-> "wait", job |-> j, code |-> code] /\ delivered' = delivered
           \/ delivered' = [delivered EXCEPT ![j] = code] /\ recv' = recv
    BY <1>1 DEF HandleRecv, Capture, TakeFuture
  <2> HIDE DEF code
  <2>3. NetTypes' /\ IsFiniteSet(sent)'
    <3>1. j \in Jobs /\ IsFiniteSet(sent \ {j}) /\ Cardinality(sent \ {j}) <= MaxTracked
      BY SentIsBounded DEF NetTypes
    <3>2. QED
      BY <2>1, <2>2, <3>1 DEF NetTypes
  <2>4. RightCode' /\ OnlyOwnCaptured'
    BY <2>1, <2>2 DEF NetTypes, RightCode, OnlyOwnCaptured
  <2>5. FuturesAwaitReplies'
    BY <2>2 DEF NetTypes, FuturesAwaitReplies
  <2>6. AskedInv' /\ HeldInv'
    BY <2>1, <2>2 DEF NetTypes, AskedInv, HeldInv
  <2>7. QED
    BY <2>3, <2>4, <2>5, <2>6
<1>2. CASE Inject
  <2>1. recv.job \in Jobs /\ recv.code \in {NoCode, Own(recv.job)} /\ fetch[recv.job].code \in {NoCode, Code(recv.job)}
    BY <1>2 DEF Inject, ReplyInv, NetTypes, HeldInv, DoneInv
  <2>2. QED
    BY <1>2, <2>1, LetThroughSteps DEF Inject
<1>3. CASE DropFuture
  <2>1. recv.code \in {NoCode, Own(recv.job)}
    BY <1>3 DEF DropFuture, ReplyInv, HeldInv
  <2>2. QED
    BY <1>3, <2>1, LetThroughSteps DEF DropFuture
<1>4. CASE TimeOut
  BY <1>4 DEF TimeOut, ReplyInv, NetTypes, RightCode, OnlyOwnCaptured, FuturesAwaitReplies, AskedInv, HeldInv
<1>5. CASE Disconnect
  BY <1>5 DEF Disconnect, ReplyInv, NetTypes, RightCode, OnlyOwnCaptured, FuturesAwaitReplies, AskedInv, HeldInv
<1>6. QED
  BY <1>1, <1>2, <1>3, <1>4, <1>5 DEF RecvStep

-----------------------------------------------------------------------------
(* The system                                                              *)

\* The parts make up the type invariant.
LEMMA PartsOfCodeInv ==
  CodeInv <=>
    /\ TaskInv /\ ReplyInv
    /\ active \in Providers /\ urlTemplateOverride \in BOOLEAN /\ donate \in BOOLEAN /\ loads \in 0..MaxLoads
    /\ configPc \in {"idle", "override", "apply"} /\ luaPc \in {"idle", "lua", "script", "http", "relock", "scripted"}
  BY DEF CodeInv, CodesAreRight, CodeTypeOK, TaskInv, FetchTypes, MutexTypes, ReplyInv, NetTypes

\* And so they do after a step that loads nothing.
LEMMA PartsAfterStep ==
  ASSUME CodeInv, TaskInv', ReplyInv', UNCHANGED <<active, urlTemplateOverride, donate, loads, configPc, luaPc>>
  PROVE  CodeInv'
  BY DEF CodeInv, CodesAreRight, CodeTypeOK, TaskInv, FetchTypes, MutexTypes, ReplyInv, NetTypes

\* Every step keeps the invariant.
LEMMA NextCodeInv ==
  ASSUME CodeInv, [CodeNext]_codeVars
  PROVE  CodeInv'
<1> USE DEF clientVars, loadVars
<1>1. ASSUME NEW j \in Jobs, Enters(j) \/ FetchStep(j) \/ HttpStep(j)
      PROVE  CodeInv'
  <2>1. CodeTypeOK /\ TaskInv /\ ReplyInv
    BY PartsOfCodeInv DEF CodeInv, CodesAreRight
  <2>2. TaskInv' /\ Frame /\ (\A k \in Jobs : fetch[k].pc = "none" => fetch'[k].pc = "none")
    BY <1>1, <2>1, TaskSteps
  <2>3. ReplyInv'
    BY <2>1, <2>2 DEF Frame, netVars, ReplyInv, NetTypes, RightCode, OnlyOwnCaptured, FuturesAwaitReplies, AskedInv, HeldInv
  <2>4. QED
    BY <2>2, <2>3, PartsAfterStep DEF Frame
<1>2. ASSUME NEW j \in Jobs, NEW listed \in BOOLEAN, HandleSend(j, listed)
      PROVE  CodeInv'
  <2>1. ReplyInv' /\ TaskInv'
    BY <1>2, SendSteps, PartsOfCodeInv DEF TaskInv
  <2>2. QED
    BY <1>2, <2>1, PartsAfterStep DEF HandleSend, NetFrame
<1>3. ASSUME \/ \E j \in Jobs, refused \in BOOLEAN : HandleRecv(j, refused)
             \/ RecvStep \/ TimeOut \/ Disconnect
      PROVE  CodeInv'
  <2>1. ReplyInv'
    BY <1>3, RecvSteps, PartsOfCodeInv DEF TaskInv
  <2>2. UNCHANGED <<clientVars, luaOwner, loadVars, fetch>>
    BY <1>3 DEF HandleRecv, RecvStep, Inject, DropFuture, LetThrough, TimeOut, Disconnect, NetFrame
  <2>3. TaskInv'
    BY <2>2, PartsOfCodeInv DEF TaskInv, FetchTypes, MutexTypes, HttpInv, DoneInv, At
  <2>4. QED
    BY <2>1, <2>2, <2>3, PartsAfterStep
<1>4. CASE UNCHANGED codeVars
  BY <1>4 DEF codeVars, netVars, CodeInv, CodesAreRight, CodeTypeOK, RightCode, OnlyOwnCaptured, FuturesAwaitReplies, HttpInv, DoneInv, AskedInv,
    HeldInv, At
<1>5. QED
  BY <1>1, <1>2, <1>3, <1>4, WatcherSteps DEF CodeNext

\* Steam gets a code of the manifest it asked for or none, only codes Steam itself gave are
\* submitted, and no future survives its reply, for every number of requests and however
\* settings and scripts are loaded between the steps of a fetch.
THEOREM CodesStayRight == CodeSpec => []CodesAreRight
<1>1. CodeInv /\ [CodeNext]_codeVars => CodeInv'
  BY NextCodeInv
<1>2. CodeInv => CodesAreRight
  BY DEF CodeInv
<1>3. QED
  BY <1>1, <1>2, InitCodeInv, PTL DEF CodeSpec
=============================================================================
