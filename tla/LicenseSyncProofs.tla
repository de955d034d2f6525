-------------------------- MODULE LicenseSyncProofs --------------------------
(******************************************************************************)
(* Proofs about the way from the scripts on disk to the license: LicenseSync, *)
(* for every set of ids, every native content of package 0 and every number   *)
(* of reloads; and HotReload, for any files, directories, buffers and number  *)
(* of changes.                                                                *)
(******************************************************************************)
EXTENDS LicenseSync, HotReload, WellFoundedInduction, TLAPS

\* The steps that only move a watcher thread, or touch what the user interface sees.
ControlStep ==
  \/ LuaWake \/ LuaExit \/ ConfigStop \/ ConfigJoin
  \/ \E w \in Watchers, opens \in BOOLEAN : LoadDone(w, opens)
  \/ \E w \in Watchers : NotifyCheck(w) \/ NotifyMark(w) \/ NotifyReturn(w)
  \/ \E w \in Watchers, d \in Depots : NotifyCancel(w, d) \/ NotifyQueueRemoval(w, d)
  \/ UiStep

\* The steps of Next, grouped by what they do to the configuration and the vector.
LEMMA NextSteps ==
  ASSUME Next
  PROVE  \/ ControlStep
         \/ \E w \in Watchers, removed, added \in SUBSET Depots : LoadFile(w, removed, added)
         \/ \E d \in Depots : CallbackAddsApp(d)
         \/ \E w \in Watchers : NotifyTakeRemovals(w)
         \/ \E w \in Watchers : NotifyTakeAdditions(w)
         \/ \E w \in Watchers, d \in Depots : NotifyReconcile(w, d)
         \/ \E w \in Watchers, grown \in BOOLEAN : NotifyApply(w, grown)
         \/ FillBegin
         \/ \E grown \in BOOLEAN : FillEnd(grown)
  BY DEF Next, ControlStep, NotifyStep, FillStep

-----------------------------------------------------------------------------
(* Type correctness                                                        *)

\* The initial states are well typed.
LEMMA InitTypeOK == Init => TypeOK
<1> SUFFICES ASSUME Init PROVE TypeOK
  OBVIOUS
<1> USE DEF Init, Watchers
<1>1. appIdVec \in [Depots -> Nat]
  BY DEF NativeCount
<1>2. /\ planAdditions \in [Watchers -> SUBSET Depots]
      /\ planRemovals \in [Watchers -> SUBSET Depots]
  OBVIOUS
<1>3. QED
  BY <1>1, <1>2 DEF TypeOK, RegistryTypeOK

\* Every step preserves the types, given that a planned removal is in the vector.
LEMMA NextTypeOK ==
  ASSUME TypeOK, [Next]_vars,
         \A w \in Watchers : pc[w] = "plan" => \A d \in planRemovals[w] : Present(d)
  PROVE  TypeOK'
<1> USE DEF TypeOK, RegistryTypeOK, Watchers
<1>1. CASE ControlStep
  <2> USE DEF Goto, registryVars, vectorVars, planVars, uiVars, threadVars, historyVars
  <2>1. CASE LuaWake \/ LuaExit \/ ConfigStop \/ ConfigJoin
    BY <2>1 DEF LuaWake, LuaExit, ConfigStop, StopWith, ConfigJoin
  <2>2. ASSUME NEW w \in Watchers, NEW opens \in BOOLEAN, LoadDone(w, opens)
        PROVE  TypeOK'
    BY <2>2 DEF LoadDone
  <2>3. ASSUME NEW w \in Watchers, NotifyCheck(w)
        PROVE  TypeOK'
    BY <2>3 DEF NotifyCheck
  <2>4. ASSUME NEW w \in Watchers, NotifyMark(w)
        PROVE  TypeOK'
    BY <2>4 DEF NotifyMark
  <2>5. ASSUME NEW w \in Watchers, NotifyReturn(w)
        PROVE  TypeOK'
    BY <2>5 DEF NotifyReturn
  <2>6. ASSUME NEW w \in Watchers, NEW d \in Depots, NotifyCancel(w, d)
        PROVE  TypeOK'
    BY <2>6 DEF NotifyCancel
  <2>7. ASSUME NEW w \in Watchers, NEW d \in Depots, NotifyQueueRemoval(w, d)
        PROVE  TypeOK'
    BY <2>7 DEF NotifyQueueRemoval
  <2>8. CASE UiStep
    BY <2>8 DEF UiStep, UiSwap, UiDrain
  <2>9. QED
    BY <1>1, <2>1, <2>2, <2>3, <2>4, <2>5, <2>6, <2>7, <2>8 DEF ControlStep
<1>2. ASSUME NEW w \in Watchers, NEW removed \in SUBSET Depots, NEW added \in SUBSET Depots,
             LoadFile(w, removed, added)
      PROVE  TypeOK'
  BY <1>2 DEF LoadFile, Reload, vectorVars, planVars, uiVars, threadVars
<1>3. ASSUME NEW d \in Depots, CallbackAddsApp(d)
      PROVE  TypeOK'
  BY <1>3 DEF CallbackAddsApp, AddUnqueued, vectorVars, planVars, uiVars, threadVars
<1>4. ASSUME NEW w \in Watchers, NotifyTakeRemovals(w)
      PROVE  TypeOK'
  BY <1>4 DEF NotifyTakeRemovals, TakeRemovals, Goto, planVars, uiVars, historyVars
<1>5. ASSUME NEW w \in Watchers, NotifyTakeAdditions(w)
      PROVE  TypeOK'
  BY <1>5 DEF NotifyTakeAdditions, TakeWith, TakeAdditions, Goto, uiVars, historyVars
<1>6. ASSUME NEW w \in Watchers, NEW d \in Depots, NotifyReconcile(w, d)
      PROVE  TypeOK'
  BY <1>6 DEF NotifyReconcile, PlanBy, registryVars, uiVars, threadVars, historyVars
<1>7. ASSUME NEW w \in Watchers, NEW grown \in BOOLEAN, NotifyApply(w, grown)
      PROVE  TypeOK'
  <2>1. appIdVec' \in [Depots -> Nat]
    BY <1>7 DEF NotifyApply, VecAfter, Goto, Present
  <2>2. QED
    BY <1>7, <2>1 DEF NotifyApply, Goto, registryVars, uiVars
<1>8. CASE FillBegin
  BY <1>8 DEF FillBegin, registryVars, planVars, uiVars, threadVars, historyVars
<1>9. ASSUME NEW grown \in BOOLEAN, FillEnd(grown)
      PROVE  TypeOK'
  BY <1>9 DEF FillEnd, registryVars, planVars, uiVars, threadVars, historyVars
<1>10. CASE UNCHANGED vars
  BY <1>10 DEF vars, registryVars, vectorVars, planVars, uiVars, threadVars, historyVars
<1>11. QED
  BY <1>1, <1>2, <1>3, <1>4, <1>5, <1>6, <1>7, <1>8, <1>9, <1>10, NextSteps
-----------------------------------------------------------------------------
(* The inductive invariant                                                 *)

\* The initial states satisfy it: nothing is published, held or planned.
LEMMA InitIInv == Init => IInv
<1> SUFFICES ASSUME Init PROVE IInv
  OBVIOUS
<1>1. TypeOK
  BY InitTypeOK
<1>2. \A w \in Watchers : pc[w] \in {"idle", "off"}
  BY DEF Init
<1>3. RestartInv /\ \A w \in Watchers : PlanInv(w)
  BY <1>2 DEF RestartInv, PlanInv, Watchers
<1>4. MutexInv
  BY <1>2 DEF Init, MutexInv, Watchers
<1>5. SnapshotInv /\ CoverInv
  BY DEF Init, SnapshotInv, CoverInv
<1>6. NoDuplicates
  <2>1. ASSUME NEW d \in Depots PROVE appIdVec[d] <= 1 + NativeCount(d)
    <3>1. appIdVec[d] = NativeCount(d)
      BY DEF Init
    <3>2. NativeCount(d) \in {0, 1}
      BY DEF NativeCount
    <3>3. QED
      BY <3>1, <3>2
  <2>2. QED
    BY <2>1 DEF NoDuplicates
<1>7. QED
  BY <1>1, <1>3, <1>4, <1>5, <1>6 DEF IInv

\* A thread step leaves the configuration and the vector alone; it moves no watcher
\* into or out of the critical section, and touches no plan being made there.
PlanKept(w) ==
  pc[w] = "plan" => planAdditions'[w] = planAdditions[w] /\ planRemovals'[w] = planRemovals[w]
Stays(w) ==
  /\ pc'[w] = "take" <=> pc[w] = "take"
  /\ pc'[w] = "plan" <=> pc[w] = "plan"
  /\ pc'[w] = "lock" => pc[w] = "lock" \/ published
  /\ PlanKept(w)
Frame ==
  /\ UNCHANGED <<registryVars, vectorVars, historyVars>>
  /\ \A w \in Watchers : Stays(w)
  /\ RestartInv'

LEMMA ControlFrame ==
  ASSUME TypeOK, RestartInv, ControlStep
  PROVE  Frame
<1> USE DEF TypeOK, Watchers, Goto, planVars, Frame, Stays, PlanKept, RestartInv
<1>1. CASE LuaWake
  BY <1>1 DEF LuaWake
<1>2. CASE LuaExit
  BY <1>2 DEF LuaExit
<1>3. CASE ConfigStop
  BY <1>3 DEF ConfigStop, StopWith
<1>4. CASE ConfigJoin
  BY <1>4 DEF ConfigJoin
<1>5. ASSUME NEW opens \in BOOLEAN, LoadDone("lua", opens)
      PROVE  Frame
  BY <1>5 DEF LoadDone
<1>6. ASSUME NEW opens \in BOOLEAN, LoadDone("config", opens)
      PROVE  Frame
  <2>1. pc["lua"] = "off" /\ pc["config"] = "loading"
    BY <1>6 DEF LoadDone
  <2>2. pc' = [pc EXCEPT !["config"] = "check", !["lua"] = IF opens THEN "idle" ELSE "off"]
    BY <1>6 DEF LoadDone
  <2>3. pc'["config"] = "check" /\ pc'["lua"] \in {"idle", "off"}
    BY <2>2
  <2>4. QED
    BY <1>6, <2>1, <2>3 DEF LoadDone
<1>7. ASSUME NEW w \in Watchers, NotifyCheck(w)
      PROVE  Frame
  <2>1. UNCHANGED <<registryVars, vectorVars, planVars, historyVars>>
    BY <1>7 DEF NotifyCheck
  <2>2. pc[w] = "check" /\ pc' = [pc EXCEPT ![w] = IF published THEN "lock" ELSE "idle"]
    BY <1>7 DEF NotifyCheck
  <2>3. ASSUME NEW x \in Watchers, x # w PROVE pc'[x] = pc[x]
    BY <2>2, <2>3
  <2>4. pc'[w] \in {"lock", "idle"} /\ (pc'[w] = "lock" => published)
    BY <2>2
  <2>5. QED
    BY <2>1, <2>2, <2>3, <2>4
<1>8. ASSUME NEW w \in Watchers, NotifyMark(w)
      PROVE  Frame
  <2>1. UNCHANGED <<registryVars, vectorVars, planAdditions, historyVars>>
    BY <1>8 DEF NotifyMark
  <2>2. pc[w] = "cancel" /\ pc' = [pc EXCEPT ![w] = IF markReady THEN "queue" ELSE "idle"]
    BY <1>8 DEF NotifyMark
  <2>3. ASSUME NEW x \in Watchers, x # w
        PROVE  pc'[x] = pc[x] /\ planRemovals'[x] = planRemovals[x]
    BY <1>8, <2>2, <2>3 DEF NotifyMark
  <2>4. pc'[w] \in {"queue", "idle"}
    BY <2>2
  <2>5. QED
    BY <2>1, <2>2, <2>3, <2>4
<1>9. ASSUME NEW w \in Watchers, NotifyReturn(w)
      PROVE  Frame
  BY <1>9 DEF NotifyReturn
<1>10. ASSUME NEW w \in Watchers, NEW d \in Depots, NotifyCancel(w, d)
       PROVE  Frame
  BY <1>10 DEF NotifyCancel, threadVars
<1>11. ASSUME NEW w \in Watchers, NEW d \in Depots, NotifyQueueRemoval(w, d)
       PROVE  Frame
  BY <1>11 DEF NotifyQueueRemoval, threadVars
<1>12. CASE UiStep
  BY <1>12 DEF UiStep, UiSwap, UiDrain, threadVars
<1>13. CASE \E w \in Watchers, opens \in BOOLEAN : LoadDone(w, opens)
  BY <1>5, <1>6, <1>13
<1>14. QED
  BY <1>1, <1>2, <1>3, <1>4, <1>13, <1>7, <1>8, <1>9, <1>10, <1>11, <1>12 DEF ControlStep

\* The invariant without its typing, which NextTypeOK preserves.
Inv == /\ RestartInv
       /\ MutexInv
       /\ SnapshotInv
       /\ \A w \in Watchers : PlanInv(w)
       /\ CoverInv
       /\ NoDuplicates

\* A step that keeps the configuration, the vector and the plans keeps the invariant.
LEMMA FrameKeepsInv ==
  ASSUME Inv, Frame
  PROVE  Inv'
<1> USE DEF Inv, Frame, registryVars, vectorVars, historyVars
<1>1. MutexInv'
  <2>1. \A w \in Watchers : vecOwner' = w <=> pc'[w] \in {"take", "plan"}
    BY DEF MutexInv, Stays
  <2>2. \A w \in Watchers : pc'[w] \in {"lock", "take", "plan"} => published'
    BY DEF MutexInv, Stays
  <2>3. QED
    BY <2>1, <2>2 DEF MutexInv
<1>2. SnapshotInv'
  BY DEF SnapshotInv, Queued
<1>3. ASSUME NEW w \in Watchers PROVE PlanInv(w)'
  BY DEF PlanInv, Queued, Present, Stays, PlanKept
<1>4. CoverInv'
  <2>1. \A d \in Depots : InPlan(d) => InPlan(d)'
    BY DEF InPlan, Stays, PlanKept
  <2>2. QED
    BY <2>1 DEF CoverInv, Differs, Present, Queued
<1>5. NoDuplicates'
  BY DEF NoDuplicates
<1>6. QED
  BY <1>1, <1>2, <1>3, <1>4, <1>5

\* A reload queues what it changes, so no plan, snapshot or difference escapes.
LEMMA LoadKeepsInv ==
  ASSUME TypeOK, Inv,
         NEW w \in Watchers, NEW removed \in SUBSET Depots, NEW added \in SUBSET Depots,
         LoadFile(w, removed, added)
  PROVE  Inv'
<1> USE DEF Inv, vectorVars, planVars, threadVars
<1>1. /\ UNCHANGED <<appIdVec, published, vecOwner, snapshot, touched>>
      /\ UNCHANGED <<planAdditions, planRemovals, pc, running, markReady>>
  BY DEF LoadFile
<1>2. /\ removed \subseteq wanted
      /\ wanted' = (wanted \ removed) \cup added
      /\ Queued' = Queued \cup removed \cup added
  BY DEF LoadFile, Reload, Queued
<1>3. /\ dropped' = dropped \ (removed \cup added)
      /\ unqueued' = unqueued \ (removed \cup added)
  BY DEF LoadFile
<1>4. \A d \in Depots : (d \in wanted') # (d \in wanted) => d \in Queued'
  BY <1>2
<1>5. \A d \in Depots : d \in unqueued => d \in Queued' \cup unqueued'
  BY <1>2, <1>3
<1>6. \A d \in Depots : d \in dropped => d \in Queued' \cup dropped'
  BY <1>2, <1>3
<1>7. RestartInv' /\ MutexInv' /\ NoDuplicates'
  BY <1>1 DEF RestartInv, MutexInv, NoDuplicates
<1>8. SnapshotInv'
  BY <1>1, <1>2, <1>4, <1>5 DEF SnapshotInv
<1>9. ASSUME NEW x \in Watchers PROVE PlanInv(x)'
  BY <1>1, <1>2, <1>4, <1>5 DEF PlanInv, Present
<1>10. CoverInv'
  <2>1. \A d \in Depots : InPlan(d)' <=> InPlan(d)
    BY <1>1 DEF InPlan
  <2>2. SUFFICES ASSUME published', NEW d \in Depots, Differs(d)'
                 PROVE  \/ d \in Queued' \cup touched' \cup dropped' \cup unqueued'
                        \/ InPlan(d)'
    BY DEF CoverInv
  <2>3. CASE (d \in wanted') # (d \in wanted)
    BY <2>3, <1>4
  <2>4. CASE (d \in wanted') = (d \in wanted)
    <3>1. Differs(d)
      BY <1>1, <2>2, <2>4 DEF Differs, Present
    <3>2. d \in Queued \cup touched \cup dropped \cup unqueued \/ InPlan(d)
      BY <1>1, <2>2, <3>1 DEF CoverInv
    <3>3. QED
      BY <1>1, <1>2, <1>5, <1>6, <2>1, <3>2
  <2>5. QED
    BY <2>3, <2>4
<1>11. QED
  BY <1>7, <1>8, <1>9, <1>10

\* An addition by a callback is queued nowhere, and the history says so.
LEMMA CallbackKeepsInv ==
  ASSUME TypeOK, Inv, NEW c \in Depots, CallbackAddsApp(c)
  PROVE  Inv'
<1> USE DEF Inv, vectorVars, planVars, threadVars
<1>1. /\ UNCHANGED <<appIdVec, published, vecOwner, snapshot, touched, dropped>>
      /\ UNCHANGED <<planAdditions, planRemovals, pc, running, markReady>>
  BY DEF CallbackAddsApp
<1>2. /\ c \notin wanted
      /\ wanted' = wanted \cup {c}
      /\ Queued' = Queued
      /\ unqueued' = unqueued \cup {c}
  BY DEF CallbackAddsApp, AddUnqueued, Queued
<1>3. RestartInv' /\ MutexInv' /\ NoDuplicates'
  BY <1>1 DEF RestartInv, MutexInv, NoDuplicates
<1>4. SnapshotInv'
  BY <1>1, <1>2 DEF SnapshotInv
<1>5. ASSUME NEW x \in Watchers PROVE PlanInv(x)'
  BY <1>1, <1>2 DEF PlanInv, Present
<1>6. CoverInv'
  <2>1. \A d \in Depots : InPlan(d)' <=> InPlan(d)
    BY <1>1 DEF InPlan
  <2>2. \A d \in Depots : Differs(d)' => Differs(d) \/ d = c
    BY <1>1, <1>2 DEF Differs, Present
  <2>3. QED
    BY <1>1, <1>2, <2>1, <2>2 DEF CoverInv
<1>7. QED
  BY <1>3, <1>4, <1>5, <1>6

\* With the mutex held by one thread, the other watcher is not planning.
LEMMA OneOwner ==
  ASSUME MutexInv, NEW w \in Watchers, vecOwner = w \/ vecOwner = "none"
  PROVE  \A x \in Watchers : pc[x] = "plan" => x = w
  BY DEF MutexInv, Watchers

\* What is taken from the removal queue is touched.
LEMMA TakeRemovalsKeepsInv ==
  ASSUME TypeOK, Inv, NEW w \in Watchers, NotifyTakeRemovals(w)
  PROVE  Inv'
<1> USE DEF Inv
<1>1. /\ vecOwner = "none"
      /\ vecOwner' = w
      /\ pc[w] = "lock"
      /\ pc' = [pc EXCEPT ![w] = "take"]
      /\ UNCHANGED <<wanted, pendingAdditions, appIdVec, published, snapshot>>
      /\ UNCHANGED <<planAdditions, planRemovals, dropped, unqueued>>
      /\ touched' = pendingRemovals
      /\ pendingRemovals' = {}
  BY DEF NotifyTakeRemovals, TakeRemovals, Goto, planVars, historyVars
<1>2. /\ touched = {}
      /\ published
      /\ \A x \in Watchers : pc[x] \notin {"take", "plan"}
  BY <1>1 DEF MutexInv, Watchers
<1>3. pc'[w] = "take" /\ \A x \in Watchers : x # w => pc'[x] = pc[x]
  BY <1>1 DEF TypeOK
<1>4. RestartInv'
  BY <1>1, <1>3 DEF RestartInv, Watchers
<1>5. MutexInv'
  BY <1>1, <1>2, <1>3 DEF MutexInv, Watchers
<1>6. SnapshotInv' /\ NoDuplicates'
  BY <1>1 DEF SnapshotInv, NoDuplicates, Watchers
<1>7. ASSUME NEW x \in Watchers PROVE PlanInv(x)'
  BY <1>2, <1>3 DEF PlanInv
<1>8. CoverInv'
  <2>1. \A d \in Depots : ~InPlan(d)
    BY <1>2 DEF InPlan
  <2>2. \A d \in Depots : d \in Queued => d \in Queued' \cup touched'
    BY <1>1 DEF Queued
  <2>3. \A d \in Depots : Differs(d)' => Differs(d)
    BY <1>1 DEF Differs, Present
  <2>4. QED
    BY <1>1, <1>2, <2>1, <2>2, <2>3 DEF CoverInv
<1>9. QED
  BY <1>4, <1>5, <1>6, <1>7, <1>8

\* What is taken from the addition queue is touched too; without any touched id
\* there is no difference left to work on.
LEMMA TakeAdditionsKeepsInv ==
  ASSUME TypeOK, Inv, NEW w \in Watchers, NotifyTakeAdditions(w)
  PROVE  Inv'
<1> USE DEF Inv
<1> DEFINE all == touched \cup pendingAdditions
<1>1. /\ pc[w] = "take"
      /\ pc' = [pc EXCEPT ![w] = IF all = {} THEN "idle" ELSE "plan"]
      /\ vecOwner' = (IF all = {} THEN "none" ELSE w)
      /\ UNCHANGED <<wanted, pendingRemovals, appIdVec, published, snapshot>>
      /\ UNCHANGED <<dropped, unqueued>>
      /\ touched' = all
      /\ pendingAdditions' = {}
      /\ planAdditions' = [planAdditions EXCEPT ![w] = {}]
      /\ planRemovals' = [planRemovals EXCEPT ![w] = {}]
  BY DEF NotifyTakeAdditions, TakeWith, TakeAdditions, Goto, historyVars
<1>2. /\ vecOwner = w
      /\ published
      /\ \A x \in Watchers : x # w => pc[x] \notin {"take", "plan"}
      /\ \A x \in Watchers : pc[x] # "plan"
  BY <1>1 DEF MutexInv, Watchers
<1>3. /\ pc'[w] = IF all = {} THEN "idle" ELSE "plan"
      /\ \A x \in Watchers : x # w => pc'[x] = pc[x]
      /\ planAdditions'[w] = {} /\ planRemovals'[w] = {}
  BY <1>1 DEF TypeOK
<1>4. RestartInv'
  BY <1>1, <1>3 DEF RestartInv, Watchers
<1>5. MutexInv'
  <2>1. CASE all = {}
    BY <1>1, <1>2, <1>3, <2>1 DEF MutexInv, Watchers
  <2>2. CASE all # {}
    BY <1>1, <1>2, <1>3, <2>2 DEF MutexInv, Watchers
  <2>3. QED
    BY <2>1, <2>2
<1>6. SnapshotInv' /\ NoDuplicates'
  BY <1>1 DEF SnapshotInv, NoDuplicates, Watchers
<1>7. ASSUME NEW x \in Watchers PROVE PlanInv(x)'
  BY <1>2, <1>3 DEF PlanInv
<1>8. CoverInv'
  <2>1. \A d \in Depots : ~InPlan(d)
    BY <1>2 DEF InPlan
  <2>2. \A d \in Depots : d \in Queued \cup touched => d \in Queued' \cup touched'
    BY <1>1 DEF Queued
  <2>3. \A d \in Depots : Differs(d)' => Differs(d)
    BY <1>1 DEF Differs, Present
  <2>4. QED
    BY <1>1, <1>2, <2>1, <2>2, <2>3 DEF CoverInv
<1>9. QED
  BY <1>4, <1>5, <1>6, <1>7, <1>8

\* A decision moves an id from the touched ones into the plan, or shows that it
\* does not differ.
LEMMA ReconcileKeepsInv ==
  ASSUME TypeOK, Inv, NEW w \in Watchers, NEW c \in Depots, NotifyReconcile(w, c)
  PROVE  Inv'
<1> USE DEF Inv
<1> DEFINE adds == c \in wanted /\ ~Present(c)
           removes == c \notin wanted /\ Present(c)
<1>1. /\ pc[w] = "plan"
      /\ c \in touched
      /\ touched' = touched \ {c}
      /\ planAdditions' = [planAdditions EXCEPT ![w] = IF adds THEN @ \cup {c} ELSE @]
      /\ planRemovals' = [planRemovals EXCEPT ![w] = IF removes THEN @ \cup {c} ELSE @]
      /\ UNCHANGED <<wanted, pendingRemovals, pendingAdditions, appIdVec, published>>
      /\ UNCHANGED <<vecOwner, snapshot, pc, dropped, unqueued>>
  BY DEF NotifyReconcile, PlanBy, registryVars, threadVars, historyVars
<1>2. vecOwner = w /\ \A x \in Watchers : pc[x] = "plan" => x = w
  BY <1>1, OneOwner DEF MutexInv
<1>3. /\ planAdditions'[w] = IF adds THEN planAdditions[w] \cup {c} ELSE planAdditions[w]
      /\ planRemovals'[w] = IF removes THEN planRemovals[w] \cup {c} ELSE planRemovals[w]
  BY <1>1 DEF TypeOK
<1>4. RestartInv' /\ MutexInv' /\ SnapshotInv' /\ NoDuplicates'
  BY <1>1, <1>2 DEF RestartInv, MutexInv, SnapshotInv, Queued, NoDuplicates
<1>5. PlanInv(w)'
  BY <1>1, <1>3 DEF PlanInv, Present, Queued
<1>6. ASSUME NEW x \in Watchers PROVE PlanInv(x)'
  BY <1>1, <1>2, <1>5 DEF PlanInv
<1>7. CoverInv'
  <2>1. SUFFICES ASSUME published', NEW d \in Depots, Differs(d)'
                 PROVE  \/ d \in Queued' \cup touched' \cup dropped' \cup unqueued'
                        \/ InPlan(d)'
    BY DEF CoverInv
  <2>2. Differs(d) /\ (d \in wanted) # Present(d)
    BY <1>1, <2>1 DEF Differs, Present
  <2>3. CASE d = c
    <3>1. adds \/ removes
      BY <2>2, <2>3 DEF Present
    <3>2. c \in planAdditions'[w] \cup planRemovals'[w]
      BY <1>3, <3>1
    <3>3. QED
      BY <1>1, <2>3, <3>2 DEF InPlan
  <2>4. CASE d # c
    <3>1. InPlan(d) => InPlan(d)'
      BY <1>1, <1>2, <1>3 DEF InPlan
    <3>2. QED
      BY <1>1, <2>1, <2>2, <2>4, <3>1 DEF CoverInv, Queued
  <2>5. QED
    BY <2>3, <2>4
<1>8. QED
  BY <1>4, <1>6, <1>7

\* What applying a plan does to the number of times one id is in the vector.
LEMMA ApplyOne ==
  ASSUME TypeOK, Inv, NEW w \in Watchers, NEW grown \in BOOLEAN, NotifyApply(w, grown),
         NEW d \in Depots
  PROVE  /\ d \in planRemovals[w] =>
              appIdVec[d] > 0 /\ appIdVec'[d] = appIdVec[d] - 1 /\ d \notin planAdditions[w]
         /\ d \in planAdditions[w] =>
              appIdVec[d] = 0 /\ appIdVec'[d] = IF grown THEN 1 ELSE 0
         /\ d \notin planAdditions[w] \cup planRemovals[w] => appIdVec'[d] = appIdVec[d]
<1>1. pc[w] = "plan" /\ PlanInv(w)
  BY DEF NotifyApply, Goto, Inv
<1>2. appIdVec[d] \in Nat
  BY DEF TypeOK
<1>3. appIdVec'[d] = appIdVec[d] - (IF d \in planRemovals[w] THEN 1 ELSE 0)
                       + (IF grown /\ d \in planAdditions[w] THEN 1 ELSE 0)
  BY DEF NotifyApply, VecAfter
<1>4. /\ d \in planRemovals[w] => appIdVec[d] > 0
      /\ d \in planAdditions[w] => ~(appIdVec[d] > 0)
  BY <1>1 DEF PlanInv, Present
<1>5. QED
  BY <1>2, <1>3, <1>4

\* The plan makes the vector agree with the configuration, except for ids that are
\* queued again and for additions lost to a failed growth.
LEMMA ApplyKeepsInv ==
  ASSUME TypeOK, Inv, NEW w \in Watchers, NEW grown \in BOOLEAN, NotifyApply(w, grown)
  PROVE  Inv'
<1> USE DEF Inv
<1>1. /\ pc[w] = "plan"
      /\ pc' = [pc EXCEPT ![w] = "cancel"]
      /\ touched = {}
      /\ vecOwner' = "none"
      /\ UNCHANGED <<wanted, pendingRemovals, pendingAdditions, published, snapshot>>
      /\ UNCHANGED <<touched, planRemovals, unqueued>>
      /\ dropped' = IF grown THEN dropped ELSE dropped \cup planAdditions[w]
  BY DEF NotifyApply, Goto, registryVars
<1>2. /\ vecOwner = w
      /\ published
      /\ \A x \in Watchers : pc[x] \in {"take", "plan"} => x = w
  BY <1>1 DEF MutexInv
<1>3. pc'[w] = "cancel" /\ \A x \in Watchers : x # w => pc'[x] = pc[x]
  BY <1>1 DEF TypeOK
<1>4. RestartInv'
  BY <1>1, <1>3 DEF RestartInv, Watchers
<1>5. MutexInv'
  BY <1>1, <1>2, <1>3 DEF MutexInv, Watchers
<1>6. SnapshotInv'
  BY <1>1 DEF SnapshotInv
<1>7. ASSUME NEW x \in Watchers PROVE PlanInv(x)'
  BY <1>2, <1>3 DEF PlanInv
<1>8. NoDuplicates'
  <2>1. ASSUME NEW d \in Depots PROVE appIdVec'[d] <= 1 + NativeCount(d)
    <3>1. NativeCount(d) \in {0, 1} /\ appIdVec[d] \in Nat
      BY DEF NativeCount, TypeOK
    <3>2. appIdVec[d] <= 1 + NativeCount(d)
      BY DEF NoDuplicates
    <3>3. QED
      BY <3>1, <3>2, ApplyOne
  <2>2. QED
    BY <2>1 DEF NoDuplicates
<1>9. CoverInv'
  <2>1. SUFFICES ASSUME NEW d \in Depots, Differs(d)'
                 PROVE  d \in Queued' \cup dropped' \cup unqueued'
    BY DEF CoverInv
  <2>2. /\ d \notin Native
        /\ (d \in wanted) # (appIdVec'[d] > 0)
    BY <1>1, <2>1 DEF Differs, Present
  <2>3. Queued' = Queued
    BY <1>1 DEF Queued
  <2>4. CASE d \in planRemovals[w]
    <3>1. appIdVec[d] \in Nat /\ appIdVec[d] <= 1
      BY <2>2 DEF NoDuplicates, NativeCount, TypeOK
    <3>2. ~(appIdVec'[d] > 0)
      BY <2>4, <3>1, ApplyOne
    <3>3. QED
      BY <1>1, <2>2, <2>3, <2>4, <3>2 DEF PlanInv
  <2>5. CASE d \in planAdditions[w] /\ grown
    <3>1. appIdVec'[d] = IF grown THEN 1 ELSE 0
      BY <2>5, ApplyOne
    <3>2. appIdVec'[d] = 1
      BY <2>5, <3>1
    <3>3. QED
      BY <1>1, <2>2, <2>3, <2>5, <3>2 DEF PlanInv
  <2>6. CASE d \in planAdditions[w] /\ ~grown
    BY <1>1, <2>6
  <2>7. CASE d \notin planAdditions[w] \cup planRemovals[w]
    <3>1. Differs(d)
      BY <2>2, <2>7, ApplyOne DEF Differs, Present
    <3>2. ~InPlan(d)
      BY <1>2, <2>7 DEF InPlan
    <3>3. QED
      BY <1>1, <1>2, <2>3, <3>1, <3>2 DEF CoverInv
  <2>8. QED
    BY <2>4, <2>5, <2>6, <2>7
<1>10. QED
  BY <1>4, <1>5, <1>6, <1>7, <1>8, <1>9

\* The fill reads the configuration, so its snapshot agrees with it.
LEMMA FillBeginKeepsInv ==
  ASSUME TypeOK, Inv, FillBegin
  PROVE  Inv'
<1> USE DEF Inv, planVars, threadVars, registryVars, historyVars
<1>1. /\ ~published
      /\ vecOwner = "none"
      /\ vecOwner' = "steam"
      /\ snapshot' = wanted
      /\ UNCHANGED <<wanted, pendingRemovals, pendingAdditions, appIdVec, published>>
      /\ UNCHANGED <<touched, planAdditions, planRemovals, pc, dropped, unqueued>>
  BY DEF FillBegin
<1>2. MutexInv'
  BY <1>1 DEF MutexInv, Watchers
<1>3. RestartInv' /\ SnapshotInv' /\ NoDuplicates' /\ CoverInv'
  BY <1>1 DEF RestartInv, SnapshotInv, NoDuplicates, CoverInv
<1>4. ASSUME NEW x \in Watchers PROVE PlanInv(x)'
  BY <1>1 DEF PlanInv, Present, Queued
<1>5. QED
  BY <1>2, <1>3, <1>4

\* When the fill is published, what differs from the configuration changed after the
\* snapshot, and is queued.
LEMMA FillEndKeepsInv ==
  ASSUME TypeOK, Inv, NEW grown \in BOOLEAN, FillEnd(grown)
  PROVE  Inv'
<1> USE DEF Inv, planVars, threadVars, registryVars, historyVars
<1>1. /\ vecOwner = "steam"
      /\ vecOwner' = "none"
      /\ published' = grown
      /\ UNCHANGED <<wanted, pendingRemovals, pendingAdditions, touched>>
      /\ UNCHANGED <<planAdditions, planRemovals, pc, dropped, unqueued>>
      /\ snapshot' = {}
  BY DEF FillEnd
<1>2. ~published /\ \A x \in Watchers : pc[x] \notin {"lock", "take", "plan"}
  BY <1>1 DEF MutexInv
<1>3. ASSUME NEW d \in Depots
      PROVE  /\ appIdVec[d] = NativeCount(d)
             /\ NativeCount(d) = IF d \in Native THEN 1 ELSE 0
             /\ appIdVec'[d] = IF grown /\ d \in snapshot THEN 1 + NativeCount(d)
                                                          ELSE NativeCount(d)
  <2>1. appIdVec[d] = NativeCount(d)
    BY <1>2 DEF MutexInv
  <2>2. NativeCount(d) = IF d \in Native THEN 1 ELSE 0
    BY DEF NativeCount
  <2>3. grown => appIdVec'[d] = appIdVec[d] + (IF d \in snapshot THEN 1 ELSE 0)
    BY DEF FillEnd
  <2>4. ~grown => appIdVec' = appIdVec
    BY DEF FillEnd
  <2>5. QED
    BY <2>1, <2>2, <2>3, <2>4
<1>4. RestartInv' /\ SnapshotInv'
  BY <1>1 DEF RestartInv, SnapshotInv
<1>5. MutexInv'
  <2>1. ~published' => \A d \in Depots : appIdVec'[d] = NativeCount(d)
    BY <1>1, <1>3
  <2>2. QED
    BY <1>1, <1>2, <2>1 DEF MutexInv, Watchers
<1>6. ASSUME NEW x \in Watchers PROVE PlanInv(x)'
  BY <1>1, <1>2 DEF PlanInv
<1>7. NoDuplicates'
  <2>1. ASSUME NEW d \in Depots PROVE appIdVec'[d] <= 1 + NativeCount(d)
    BY <1>3
  <2>2. QED
    BY <2>1 DEF NoDuplicates
<1>8. CoverInv'
  <2>1. SUFFICES ASSUME published', NEW d \in Depots, Differs(d)'
                 PROVE  d \in Queued' \cup dropped' \cup unqueued'
    BY DEF CoverInv
  <2>2. d \notin Native /\ (d \in wanted) # (appIdVec'[d] > 0)
    BY <1>1, <2>1 DEF Differs, Present
  <2>3. (appIdVec'[d] > 0) <=> d \in snapshot
    BY <1>1, <1>3, <2>1, <2>2
  <2>4. QED
    BY <1>1, <2>2, <2>3 DEF SnapshotInv, Queued
<1>9. QED
  BY <1>4, <1>5, <1>6, <1>7, <1>8

-----------------------------------------------------------------------------
(* The theorems                                                            *)

\* The invariant is inductive.
LEMMA NextIInv ==
  ASSUME IInv, [Next]_vars
  PROVE  IInv'
<1>1. TypeOK /\ Inv
  BY DEF IInv, Inv
<1>2. TypeOK'
  BY <1>1, NextTypeOK DEF Inv, PlanInv, TypeOK
<1>3. Inv'
  <2>1. CASE ControlStep
    BY <1>1, <2>1, ControlFrame, FrameKeepsInv DEF Inv
  <2>2. CASE UNCHANGED vars
    <3>1. UNCHANGED <<registryVars, vectorVars, historyVars, planVars, pc>>
      BY <2>2 DEF vars, threadVars
    <3>2. RestartInv'
      BY <1>1, <3>1 DEF Inv, RestartInv
    <3>3. Frame
      BY <3>1, <3>2 DEF Frame, Stays, PlanKept, planVars
    <3>4. QED
      BY <1>1, <3>3, FrameKeepsInv
  <2>3. QED
    BY <1>1, <2>1, <2>2, NextSteps, LoadKeepsInv, CallbackKeepsInv, TakeRemovalsKeepsInv,
       TakeAdditionsKeepsInv, ReconcileKeepsInv, ApplyKeepsInv, FillBeginKeepsInv,
       FillEndKeepsInv
<1>4. QED
  BY <1>2, <1>3 DEF IInv, Inv

\* The inductive invariant holds in every reachable state.
THEOREM IInvHolds == Spec => []IInv
<1>1. Init => IInv
  BY InitIInv
<1>2. IInv /\ [Next]_vars => IInv'
  BY NextIInv
<1>3. QED
  BY <1>1, <1>2, PTL DEF Spec

\* Type correctness: appIdVec counts never go below zero, so every planned removal
\* finds its id in the vector.
THEOREM TypeCorrect == Spec => []TypeOK
<1>1. IInv => TypeOK
  BY DEF IInv
<1>2. QED
  BY <1>1, IInvHolds, PTL

\* No interleaving of reloads, notifications and the fill forgets a change.
THEOREM NoChangeIsLost == Spec => []NoChangeLost
<1>1. IInv => NoChangeLost
  <2>1. SUFFICES ASSUME IInv, published, vecOwner = "none", NEW d \in Depots, Differs(d)
                 PROVE  d \in Queued \cup dropped \cup unqueued
    BY DEF NoChangeLost
  <2>2. touched = {} /\ \A w \in Watchers : pc[w] # "plan"
    BY <2>1 DEF IInv, MutexInv, Watchers
  <2>3. ~InPlan(d)
    BY <2>2 DEF InPlan
  <2>4. QED
    BY <2>1, <2>2, <2>3 DEF IInv, CoverInv
<1>2. QED
  BY <1>1, IInvHolds, PTL

\* No id is ever in the license more often than once beside its native entry.
THEOREM NoIdTwice == Spec => []NoDuplicates
<1>1. IInv => NoDuplicates
  BY DEF IInv
<1>2. QED
  BY <1>1, IInvHolds, PTL

\* The license only ever moves towards the configuration, or a correction is queued.
Towards ==
  \A d \in Depots :
    /\ appIdVec'[d] < appIdVec[d] => d \notin wanted \/ d \in Queued \cup unqueued
    /\ appIdVec'[d] > appIdVec[d] => d \in wanted \/ d \in Queued

THEOREM LicenseFollows == Spec => VectorFollowsConfig
<1>1. ASSUME IInv, [Next]_vars PROVE Towards
  <2>1. TypeOK /\ Inv
    BY <1>1 DEF IInv, Inv
  <2>2. \A d \in Depots : appIdVec[d] \in Nat
    BY <2>1 DEF TypeOK
  <2>3. CASE UNCHANGED appIdVec
    BY <2>2, <2>3 DEF Towards
  <2>4. ASSUME NEW w \in Watchers, NEW grown \in BOOLEAN, NotifyApply(w, grown)
        PROVE  Towards
    <3>1. PlanInv(w) /\ pc[w] = "plan"
      BY <2>1, <2>4 DEF Inv, NotifyApply, Goto
    <3>2. ASSUME NEW d \in Depots, appIdVec'[d] < appIdVec[d] PROVE d \in planRemovals[w]
      BY <2>1, <2>2, <2>4, <3>2, ApplyOne
    <3>3. ASSUME NEW d \in Depots, appIdVec'[d] > appIdVec[d] PROVE d \in planAdditions[w]
      BY <2>1, <2>2, <2>4, <3>3, ApplyOne
    <3>4. QED
      BY <3>1, <3>2, <3>3 DEF PlanInv, Towards
  <2>5. ASSUME NEW grown \in BOOLEAN, FillEnd(grown)
        PROVE  Towards
    <3>1. SnapshotInv /\ vecOwner = "steam"
      BY <2>1, <2>5 DEF Inv, FillEnd
    <3>2. grown => \A d \in Depots : appIdVec'[d] = appIdVec[d] + (IF d \in snapshot THEN 1 ELSE 0)
      BY <2>5 DEF FillEnd
    <3>3. ~grown => appIdVec' = appIdVec
      BY <2>5 DEF FillEnd
    <3>4. ASSUME NEW d \in Depots
          PROVE  /\ ~(appIdVec'[d] < appIdVec[d])
                 /\ appIdVec'[d] > appIdVec[d] => d \in snapshot
      BY <2>2, <3>2, <3>3
    <3>5. QED
      BY <3>1, <3>4 DEF SnapshotInv, Towards
  <2>6. TypeOK /\ RestartInv /\ ControlStep => UNCHANGED appIdVec
    BY ControlFrame DEF Frame, vectorVars
  <2>7. UNCHANGED vars => UNCHANGED appIdVec
    BY DEF vars, vectorVars
  <2>8. ASSUME NEW w \in Watchers PROVE
          /\ \A removed, added \in SUBSET Depots : LoadFile(w, removed, added) => UNCHANGED appIdVec
          /\ NotifyTakeRemovals(w) => UNCHANGED appIdVec
          /\ NotifyTakeAdditions(w) => UNCHANGED appIdVec
          /\ \A d \in Depots : NotifyReconcile(w, d) => UNCHANGED appIdVec
    BY DEF LoadFile, NotifyTakeRemovals, NotifyTakeAdditions, TakeWith, NotifyReconcile, PlanBy,
           vectorVars
  <2>9. /\ \A d \in Depots : CallbackAddsApp(d) => UNCHANGED appIdVec
        /\ FillBegin => UNCHANGED appIdVec
    BY DEF CallbackAddsApp, FillBegin, vectorVars
  <2>10. QED
    BY <1>1, <2>1, <2>3, <2>4, <2>5, <2>6, <2>7, <2>8, <2>9, NextSteps DEF Inv
<1>2. QED
  BY <1>1, IInvHolds, PTL DEF Spec, VectorFollowsConfig, Towards

\* The license holds no id twice and misses no change that is not still queued, for any
\* ids, reloads and callbacks, whenever the package is published.
THEOREM LicenseStaysRight == Spec => []LicenseIsRight
<1>1. TypeOK /\ NoDuplicates /\ NoChangeLost => LicenseIsRight
  BY DEF LicenseIsRight
<1>2. QED
  BY <1>1, TypeCorrect, NoIdTwice, NoChangeIsLost, PTL

-----------------------------------------------------------------------------
(* The scripts' watcher: the inductive invariant                           *)

\* A batch has one change of a file.
OneEach(events) == \A i, j \in DOMAIN events : events[i].file = events[j].file => i = j

\* What the kernel keeps: nothing of a closed directory, nothing behind a read that waits
\* still, nothing in a buffer that ran over.
KernelInv ==
  /\ \A d \in Dirs : signaled[d] => d \in open
  /\ \A d \in Dirs : ~signaled[d] => completed[d] = <<>> /\ kernel[d] = <<>> /\ ~overflowed[d]
  /\ \A d \in Dirs : overflowed[d] => kernel[d] = <<>>

\* The two threads take turns.
TurnsInv ==
  /\ configPc \in {"scan", "parse"} => watcherPc = "off"
  /\ watcherPc = "off" => open = {}
  /\ watcherPc \in {"off", "open", "wait"} => batch = <<>>
  /\ reading # NoFile => watcherPc = "apply" \/ configPc = "parse"
  /\ toOpen \cap open = {}
  /\ watcherPc # "open" => toOpen = {}
  /\ toScan \subseteq configured
  /\ configPc # "scan" => toScan = {}
  /\ configPc \in {"idle", "stopping"} => toParse = {}
  /\ toParse \subseteq {ScanName(f) : f \in Files}
  /\ configPc = "scan" => \A n \in toParse : DirOf[n[1]] \notin toScan
  /\ OneEach(batch)

\* What is on record about a file is right, and what is not recorded is loaded or will be.
Fine(f) == Stable(f) => UpToDate(f)
Recorded(f) == DirOf[f] \in open \/ f \in Mentioned(batch)
OnRecord(f) == IF f \in Mentioned(Pending(f)) THEN Latest(Pending(f), f, disk[f] # Gone) ELSE Fine(f)
RecordInv == \A f \in Files \ missed : Recorded(f) => OnRecord(f)
RescanInv ==
  \A f \in Files \ missed :
    /\ DirOf[f] \in toOpen => Fine(f)
    /\ configPc = "scan" /\ DirOf[f] \in configured \ toScan => (ScanName(f) \in toParse <=> disk[f] # Gone)
    /\ configPc = "parse" /\ DirOf[f] \in configured =>
         IF ScanName(f) \in toParse THEN disk[f] # Gone ELSE Fine(f)

\* Files of other directories are on nobody's way.
ConfiguredInv ==
  /\ configPc = "idle" => open \cup toOpen \subseteq configured /\ \A f \in Mentioned(batch) : DirOf[f] \in configured
  /\ configPc \in {"idle", "parse"} =>
       /\ reading # NoFile => DirOf[reading.name[1]] \in configured
       /\ \A n \in Names : loaded[n] # Gone => DirOf[n[1]] \in configured
  /\ \A n \in toParse : DirOf[n[1]] \in configured

WatchInv == WatchTypeOK /\ KernelInv /\ TurnsInv /\ RecordInv /\ RescanInv /\ ConfiguredInv

-----------------------------------------------------------------------------
(* Induction                                                               *)

\* The library states that < is well founded as a set of pairs.
LEMMA LessThanAsPairs == \A m, n \in Nat : <<m, n>> \in OpToRel(<, Nat) <=> m < n
<1> SUFFICES ASSUME NEW m \in Nat, NEW n \in Nat
             PROVE  <<m, n>> \in OpToRel(<, Nat) <=> m < n
  OBVIOUS
<1>1. <<m, n>>[1] = m /\ <<m, n>>[2] = n /\ <<m, n>> \in Nat \X Nat
  OBVIOUS
<1>2. OpToRel(<, Nat) = {pair \in Nat \X Nat : pair[1] < pair[2]}
  BY Zenon DEF OpToRel
<1>3. QED
  BY <1>1, <1>2, Zenon

\* Induction over the numbers, for a set of them.
LEMMA NumbersByInduction ==
  ASSUME NEW S, 0 \in S, \A n \in Nat : n \in S => n + 1 \in S
  PROVE  \A n \in Nat : n \in S
<1> SUFFICES ASSUME Nat \ S # {} PROVE FALSE
  OBVIOUS
<1>1. PICK x \in Nat \ S : \A y \in Nat \ S : ~(<<y, x>> \in OpToRel(<, Nat))
  BY WFMin, NatLessThanWellFounded, Zenon
<1>2. \A y \in Nat \ S : ~(y < x)
  BY <1>1, LessThanAsPairs, Zenon
<1>3. x \in Nat /\ x \notin S
  BY <1>1
<1>4. x # 0
  BY <1>3, Zenon
<1>5. x - 1 \in Nat /\ x - 1 < x /\ (x - 1) + 1 = x
  BY <1>3, <1>4
<1>6. QED
  BY <1>2, <1>3, <1>5

\* Up to the length of a sequence.
LEMMA LengthsByInduction ==
  ASSUME NEW top \in Nat, NEW S, 0 \in S, \A n \in 0 .. top : n \in S /\ n < top => n + 1 \in S
  PROVE  \A n \in 0 .. top : n \in S
<1> DEFINE T == S \cup {n \in Nat : n > top}
<1>1. \A n \in Nat : n \in T => n + 1 \in T
  OBVIOUS
<1>2. 0 \in T
  OBVIOUS
<1> HIDE DEF T
<1>3. \A n \in Nat : n \in T
  BY <1>1, <1>2, NumbersByInduction
<1>4. QED
  BY <1>3 DEF T

-----------------------------------------------------------------------------
(* Names, events and sequences of them                                     *)

\* The names of different files differ, and no name is that of no file.
LEMMA NamesDiffer ==
  /\ \A f \in Files : ScanName(f) \in Names /\ WatchName(f) \in Names
                      /\ ScanName(f)[1] = f /\ WatchName(f)[1] = f
  /\ \A n \in Names : n # NoFile.name /\ n[1] \in Files
  /\ \A n \in Names : \A c : [name |-> n, content |-> c] # NoFile
<1>1. \A f \in Files : ScanName(f) \in Names /\ WatchName(f) \in Names
                      /\ ScanName(f)[1] = f /\ WatchName(f)[1] = f
  BY DEF ScanName, WatchName, Names
<1>2. \A n \in Names : n # NoFile.name /\ n[1] \in Files
  BY DEF Names, NoFile
<1>3. \A n \in Names : \A c : [name |-> n, content |-> c].name = n
  OBVIOUS
<1>4. QED
  BY <1>1, <1>2, <1>3

\* An event and what it says.
LEMMA EventsAreTyped ==
  /\ \A f \in Files, there \in BOOLEAN : Event(f, there) \in Events
  /\ \A f, there : Event(f, there).file = f /\ Event(f, there).there = there
  /\ \A e \in Events : e.file \in Files /\ e.there \in BOOLEAN /\ e = Event(e.file, e.there)
  BY DEF Events, Event

\* Whose last event is known is mentioned.
LEMMA LatestIsMentioned ==
  ASSUME NEW events, NEW f, NEW there, Latest(events, f, there)
  PROVE  f \in Mentioned(events)
  BY EventsAreTyped DEF Latest, Mentioned

\* A sequence of nothing and one of a single event.
LEMMA ShortSequences ==
  /\ Mentioned(<<>>) = {}
  /\ \A e \in Events : Mentioned(<<e>>) = {e.file} /\ <<e>> \in Seq(Events) /\ Latest(<<e>>, e.file, e.there)
  /\ \A e \in Events : \A f, there : Latest(<<e>>, f, there) => e = Event(f, there)
<1>1. Mentioned(<<>>) = {}
  BY DEF Mentioned
<1>2. ASSUME NEW e \in Events
      PROVE  /\ Mentioned(<<e>>) = {e.file} /\ <<e>> \in Seq(Events) /\ Latest(<<e>>, e.file, e.there)
             /\ \A f, there : Latest(<<e>>, f, there) => e = Event(f, there)
  <2>1. DOMAIN <<e>> = {1} /\ <<e>>[1] = e /\ <<e>> \in Seq(Events)
    OBVIOUS
  <2>2. QED
    BY <2>1, EventsAreTyped DEF Mentioned, Latest
<1>3. QED
  BY <1>1, <1>2

\* Of two sequences in a row the second has the last word.
LEMMA Concatenations ==
  ASSUME NEW s \in Seq(Events), NEW t \in Seq(Events)
  PROVE  /\ s \o t \in Seq(Events)
         /\ Mentioned(s \o t) = Mentioned(s) \cup Mentioned(t)
         /\ \A f, there : Latest(s \o t, f, there) <=>
                            IF f \in Mentioned(t) THEN Latest(t, f, there) ELSE Latest(s, f, there)
<1> DEFINE m == Len(s)
           n == Len(t)
           st == s \o t
<1>1. /\ m \in Nat /\ n \in Nat /\ DOMAIN s = 1 .. m /\ DOMAIN t = 1 .. n
      /\ st \in Seq(Events) /\ DOMAIN st = 1 .. (m + n)
  OBVIOUS
<1>2. (\A i \in 1 .. m : st[i] = s[i]) /\ (\A i \in 1 .. n : st[m + i] = t[i])
  OBVIOUS
<1>3. \A i \in 1 .. (m + n) : i \in 1 .. m \/ (i - m \in 1 .. n /\ i = m + (i - m))
  BY <1>1
<1> HIDE DEF m, n, st
<1>4. Mentioned(st) = Mentioned(s) \cup Mentioned(t)
  <2>1. ASSUME NEW i \in 1 .. (m + n) PROVE st[i].file \in Mentioned(s) \cup Mentioned(t)
    <3>1. CASE i \in 1 .. m
      <4>1. st[i] = s[i]
        BY <1>2, <3>1
      <4>2. s[i].file \in Mentioned(s)
        BY <1>1, <3>1 DEF Mentioned
      <4>3. QED
        BY <4>1, <4>2
    <3>2. CASE i - m \in 1 .. n /\ i = m + (i - m)
      <4>1. st[m + (i - m)] = t[i - m]
        BY <1>2, <3>2
      <4>2. t[i - m].file \in Mentioned(t)
        BY <1>1, <3>2 DEF Mentioned
      <4>3. QED
        BY <3>2, <4>1, <4>2
    <3>3. QED
      BY <1>3, <3>1, <3>2
  <2>2. ASSUME NEW i \in 1 .. m PROVE s[i].file \in Mentioned(st)
    <3>1. i \in 1 .. (m + n) /\ st[i] = s[i]
      BY <1>1, <1>2
    <3>2. QED
      BY <1>1, <3>1 DEF Mentioned
  <2>3. ASSUME NEW i \in 1 .. n PROVE t[i].file \in Mentioned(st)
    <3>1. m + i \in 1 .. (m + n)
      BY <1>1
    <3>2. QED
      BY <1>1, <1>2, <3>1 DEF Mentioned
  <2>4. QED
    BY <1>1, <2>1, <2>2, <2>3 DEF Mentioned
<1>5. ASSUME NEW f, NEW there, f \in Mentioned(t)
      PROVE  Latest(st, f, there) <=> Latest(t, f, there)
  <2>1. PICK k \in 1 .. n : t[k].file = f
    BY <1>1, <1>5 DEF Mentioned
  <2>2. m + k \in 1 .. (m + n) /\ st[m + k].file = f
    BY <1>1, <1>2, <2>1
  <2>3. ASSUME Latest(st, f, there) PROVE Latest(t, f, there)
    <3>1. PICK i \in 1 .. (m + n) :
                 st[i] = Event(f, there) /\ \A j \in 1 .. (m + n) : st[j].file = f => j <= i
      BY <1>1, <2>3 DEF Latest
    <3>2. m + k <= i
      BY <2>2, <3>1
    <3>3. i - m \in 1 .. n /\ i = m + (i - m)
      BY <1>1, <2>2, <3>1, <3>2
    <3>4. t[i - m] = Event(f, there)
      BY <1>2, <3>1, <3>3
    <3>5. ASSUME NEW j \in 1 .. n, t[j].file = f PROVE j <= i - m
      <4>1. m + j \in 1 .. (m + n) /\ st[m + j].file = f
        BY <1>1, <1>2, <3>5
      <4>2. m + j <= i
        BY <3>1, <4>1
      <4>3. QED
        BY <1>1, <4>2
    <3>6. QED
      BY <1>1, <3>3, <3>4, <3>5 DEF Latest
  <2>4. ASSUME Latest(t, f, there) PROVE Latest(st, f, there)
    <3>1. PICK i \in 1 .. n : t[i] = Event(f, there) /\ \A j \in 1 .. n : t[j].file = f => j <= i
      BY <1>1, <2>4 DEF Latest
    <3>2. m + i \in 1 .. (m + n) /\ st[m + i] = Event(f, there)
      BY <1>1, <1>2, <3>1
    <3>3. ASSUME NEW j \in 1 .. (m + n), st[j].file = f PROVE j <= m + i
      <4>1. CASE j \in 1 .. m
        BY <1>1, <4>1
      <4>2. CASE j - m \in 1 .. n /\ j = m + (j - m)
        <5>1. t[j - m].file = f
          BY <1>2, <3>3, <4>2
        <5>2. j - m <= i
          BY <3>1, <4>2, <5>1
        <5>3. QED
          BY <1>1, <5>2
      <4>3. QED
        BY <1>3, <4>1, <4>2
    <3>4. QED
      BY <1>1, <3>2, <3>3 DEF Latest
  <2>5. QED
    BY <2>3, <2>4
<1>6. ASSUME NEW f, NEW there, f \notin Mentioned(t)
      PROVE  Latest(st, f, there) <=> Latest(s, f, there)
  <2>1. \A j \in 1 .. (m + n) : st[j].file = f => j \in 1 .. m
    <3> SUFFICES ASSUME NEW j \in 1 .. (m + n), st[j].file = f, j \notin 1 .. m PROVE FALSE
      OBVIOUS
    <3>1. j - m \in 1 .. n /\ j = m + (j - m)
      BY <1>3
    <3>2. st[m + (j - m)] = t[j - m]
      BY <1>2, <3>1
    <3>3. t[j - m].file = f
      BY <3>1, <3>2
    <3>4. t[j - m].file \in Mentioned(t)
      BY <1>1, <3>1 DEF Mentioned
    <3>5. QED
      BY <1>6, <3>3, <3>4
  <2>2. \A j \in 1 .. m : j \in 1 .. (m + n) /\ st[j] = s[j]
    BY <1>1, <1>2
  <2>3. Event(f, there).file = f
    BY EventsAreTyped
  <2>4. ASSUME Latest(st, f, there) PROVE Latest(s, f, there)
    <3>1. PICK i \in 1 .. (m + n) :
                 st[i] = Event(f, there) /\ \A j \in 1 .. (m + n) : st[j].file = f => j <= i
      BY <1>1, <2>4 DEF Latest
    <3>2. QED
      BY <1>1, <2>1, <2>2, <2>3, <3>1 DEF Latest
  <2>5. ASSUME Latest(s, f, there) PROVE Latest(st, f, there)
    <3>1. PICK i \in 1 .. m : s[i] = Event(f, there) /\ \A j \in 1 .. m : s[j].file = f => j <= i
      BY <1>1, <2>5 DEF Latest
    <3>2. QED
      BY <1>1, <2>1, <2>2, <3>1 DEF Latest
  <2>6. QED
    BY <2>4, <2>5
<1>7. QED
  BY <1>1, <1>4, <1>5, <1>6 DEF st

\* Three of them.
LEMMA LastOfThree ==
  ASSUME NEW s \in Seq(Events), NEW t \in Seq(Events), NEW u \in Seq(Events)
  PROVE  /\ s \o t \o u \in Seq(Events)
         /\ Mentioned(s \o t \o u) = Mentioned(s) \cup Mentioned(t) \cup Mentioned(u)
         /\ \A f, there : Latest(s \o t \o u, f, there) <=>
                            IF f \in Mentioned(u) THEN Latest(u, f, there)
                            ELSE IF f \in Mentioned(t) THEN Latest(t, f, there)
                            ELSE Latest(s, f, there)
<1> DEFINE st == s \o t
<1>1. /\ st \in Seq(Events)
      /\ Mentioned(st) = Mentioned(s) \cup Mentioned(t)
      /\ \A f, there : Latest(st, f, there) <=>
                         IF f \in Mentioned(t) THEN Latest(t, f, there) ELSE Latest(s, f, there)
  BY Concatenations, Zenon
<1> HIDE DEF st
<1>2. /\ st \o u \in Seq(Events)
      /\ Mentioned(st \o u) = Mentioned(st) \cup Mentioned(u)
      /\ \A f, there : Latest(st \o u, f, there) <=>
                         IF f \in Mentioned(u) THEN Latest(u, f, there) ELSE Latest(st, f, there)
  BY <1>1, Concatenations, Zenon
<1>3. QED
  BY <1>1, <1>2 DEF st

\* The change at the head of a batch, and the rest: the rest does not know its file.
LEMMA HeadAndTail ==
  ASSUME NEW events \in Seq(Events), events # <<>>, OneEach(events)
  PROVE  /\ Head(events) \in Events /\ Tail(events) \in Seq(Events) /\ OneEach(Tail(events))
         /\ Mentioned(events) = {Head(events).file} \cup Mentioned(Tail(events))
         /\ Head(events).file \notin Mentioned(Tail(events))
         /\ Latest(events, Head(events).file, Head(events).there)
         /\ \A there : Latest(events, Head(events).file, there) => there = Head(events).there
         /\ \A f, there : f # Head(events).file => (Latest(events, f, there) <=> Latest(Tail(events), f, there))
<1> DEFINE h == Head(events)
           r == Tail(events)
           n == Len(r)
<1>1. /\ h \in Events /\ r \in Seq(Events) /\ h = events[1] /\ events = <<h>> \o r
      /\ n \in Nat /\ DOMAIN r = 1 .. n /\ DOMAIN events = 1 .. (n + 1) /\ \A i \in 1 .. n : r[i] = events[i + 1]
  OBVIOUS
<1> HIDE DEF h, r, n
<1>2. OneEach(r)
  <2>1. ASSUME NEW i \in 1 .. n, NEW j \in 1 .. n, r[i].file = r[j].file PROVE i = j
    <3>1. i + 1 \in 1 .. (n + 1) /\ j + 1 \in 1 .. (n + 1) /\ events[i + 1].file = events[j + 1].file
      BY <1>1, <2>1
    <3>2. i + 1 = j + 1
      BY <1>1, <3>1 DEF OneEach
    <3>3. QED
      BY <1>1, <3>2
  <2>2. QED
    BY <1>1, <2>1 DEF OneEach
<1>3. h.file \notin Mentioned(r)
  <2> SUFFICES ASSUME NEW i \in 1 .. n, r[i].file = h.file PROVE FALSE
    BY <1>1 DEF Mentioned
  <2>1. i + 1 \in 1 .. (n + 1) /\ 1 \in 1 .. (n + 1) /\ events[i + 1].file = events[1].file
    BY <1>1
  <2>2. i + 1 = 1
    BY <1>1, <2>1 DEF OneEach
  <2>3. QED
    BY <1>1, <2>2
<1>4. /\ <<h>> \in Seq(Events) /\ Mentioned(<<h>>) = {h.file} /\ Latest(<<h>>, h.file, h.there)
      /\ \A f, there : Latest(<<h>>, f, there) => h = Event(f, there)
  BY <1>1, ShortSequences
<1>5. /\ Mentioned(events) = {h.file} \cup Mentioned(r)
      /\ \A f, there : Latest(events, f, there) <=>
                         IF f \in Mentioned(r) THEN Latest(r, f, there) ELSE Latest(<<h>>, f, there)
  <2>1. /\ Mentioned(<<h>> \o r) = Mentioned(<<h>>) \cup Mentioned(r)
        /\ \A f, there : Latest(<<h>> \o r, f, there) <=>
                           IF f \in Mentioned(r) THEN Latest(r, f, there) ELSE Latest(<<h>>, f, there)
    BY <1>1, <1>4, Concatenations, Zenon
  <2>2. events = <<h>> \o r /\ Mentioned(<<h>>) = {h.file}
    BY <1>1, <1>4
  <2>3. QED
    BY <2>1, <2>2, Zenon
<1>6. ASSUME NEW f, NEW there, f # h.file
      PROVE  Latest(events, f, there) <=> Latest(r, f, there)
  <2>1. ~Latest(<<h>>, f, there)
    BY <1>4, <1>6, EventsAreTyped
  <2>2. Latest(r, f, there) => f \in Mentioned(r)
    BY LatestIsMentioned
  <2>3. QED
    BY <1>5, <2>1, <2>2
<1>7. \A there : Latest(events, h.file, there) => there = h.there
  BY <1>3, <1>4, <1>5, EventsAreTyped
<1>8. Latest(events, h.file, h.there)
  BY <1>3, <1>4, <1>5
<1>9. QED
  BY <1>1, <1>2, <1>3, <1>5, <1>6, <1>7, <1>8 DEF h, r

\* What one more change makes of a batch.
LEMMA MergeOne ==
  ASSUME NEW acc \in Seq(Events), NEW e \in Events, OneEach(acc)
  PROVE  /\ Merge(acc, e) \in Seq(Events) /\ OneEach(Merge(acc, e))
         /\ Mentioned(Merge(acc, e)) = Mentioned(acc) \cup {e.file}
         /\ Latest(Merge(acc, e), e.file, e.there)
         /\ \A f, there : f # e.file /\ Latest(acc, f, there) => Latest(Merge(acc, e), f, there)
<1> DEFINE n == Len(acc)
<1>0. n \in Nat /\ DOMAIN acc = 1 .. n /\ \A i \in 1 .. n : acc[i] \in Events
  OBVIOUS
<1>e. e = Event(e.file, e.there)
  BY EventsAreTyped
<1>1. CASE e.file \in Mentioned(acc)
  <2> DEFINE r == [i \in DOMAIN acc |-> IF acc[i].file = e.file THEN e ELSE acc[i]]
  <2>1. Merge(acc, e) = r /\ DOMAIN r = 1 .. n
    BY <1>0, <1>1 DEF Merge
  <2>2. r \in Seq(Events)
    BY <1>0
  <2>3. \A i \in 1 .. n : /\ r[i].file = acc[i].file
                          /\ acc[i].file = e.file => r[i] = e
                          /\ acc[i].file # e.file => r[i] = acc[i]
    BY <1>0
  <2> HIDE DEF r, n
  <2>4. OneEach(r)
    BY <1>0, <2>1, <2>3 DEF OneEach
  <2>5. Mentioned(r) = Mentioned(acc) \cup {e.file}
    BY <1>0, <1>1, <2>1, <2>3 DEF Mentioned
  <2>6. Latest(r, e.file, e.there)
    <3>1. PICK i \in 1 .. n : acc[i].file = e.file
      BY <1>0, <1>1 DEF Mentioned
    <3>2. \A j \in 1 .. n : r[j].file = e.file => j = i
      BY <1>0, <2>3, <3>1 DEF OneEach
    <3>3. r[i] = Event(e.file, e.there)
      BY <1>e, <2>3, <3>1
    <3>4. \A j \in 1 .. n : r[j].file = e.file => j <= i
      BY <1>0, <3>1, <3>2
    <3>5. QED
      BY <2>1, <3>1, <3>3, <3>4 DEF Latest
  <2>7. ASSUME NEW f, NEW there, f # e.file, Latest(acc, f, there)
        PROVE  Latest(r, f, there)
    <3>1. PICK i \in 1 .. n : acc[i] = Event(f, there) /\ \A j \in 1 .. n : acc[j].file = f => j <= i
      BY <1>0, <2>7 DEF Latest
    <3>2. acc[i].file = f
      BY <3>1, EventsAreTyped
    <3>3. r[i] = Event(f, there)
      BY <2>3, <2>7, <3>1, <3>2
    <3>4. QED
      BY <2>1, <2>3, <3>1, <3>3 DEF Latest
  <2>8. QED
    BY <2>1, <2>2, <2>4, <2>5, <2>6, <2>7
<1>2. CASE e.file \notin Mentioned(acc)
  <2>1. Merge(acc, e) = acc \o <<e>>
    BY <1>2 DEF Merge
  <2>2. /\ <<e>> \in Seq(Events) /\ Mentioned(<<e>>) = {e.file} /\ Latest(<<e>>, e.file, e.there)
    BY ShortSequences
  <2>3. /\ acc \o <<e>> \in Seq(Events)
        /\ Mentioned(acc \o <<e>>) = Mentioned(acc) \cup {e.file}
        /\ Latest(acc \o <<e>>, e.file, e.there)
        /\ \A f, there : f # e.file /\ Latest(acc, f, there) => Latest(acc \o <<e>>, f, there)
    <3>1. /\ acc \o <<e>> \in Seq(Events)
          /\ Mentioned(acc \o <<e>>) = Mentioned(acc) \cup Mentioned(<<e>>)
          /\ \A f, there : Latest(acc \o <<e>>, f, there) <=>
                             IF f \in Mentioned(<<e>>) THEN Latest(<<e>>, f, there) ELSE Latest(acc, f, there)
      BY <2>2, Concatenations, Zenon
    <3>2. QED
      BY <2>2, <3>1
  <2>4. OneEach(acc \o <<e>>)
    <3> DEFINE r == acc \o <<e>>
    <3>1. DOMAIN r = 1 .. (n + 1) /\ r[n + 1] = e /\ \A i \in 1 .. n : r[i] = acc[i]
      OBVIOUS
    <3> HIDE DEF r, n
    <3>2. \A i \in 1 .. n : acc[i].file # e.file
      BY <1>0, <1>2 DEF Mentioned
    <3>3. \A i \in 1 .. (n + 1) : i \in 1 .. n \/ i = n + 1
      BY <1>0
    <3>4. QED
      BY <1>0, <3>1, <3>2, <3>3 DEF OneEach, r
  <2>5. QED
    BY <2>1, <2>3, <2>4
<1>3. QED
  BY <1>1, <1>2

\* How MergeChanges goes on, change by change.
GoesOn(merged, acc, events, i) ==
  merged[i] = IF i = 0 THEN acc ELSE Merge(merged[i - 1], events[i])

\* There is a function that does: its recursion is well defined.
LEMMA MergedExist ==
  ASSUME NEW acc, NEW events \in Seq(Events)
  PROVE  \E merged : /\ MergeChanges(acc, events) = merged[Len(events)]
                     /\ \A i \in 0 .. Len(events) : GoesOn(merged, acc, events, i)
<1> DEFINE top == Len(events)
<1> DEFINE Upto(n) == \E merged : DOMAIN merged = 0 .. n /\ merged = [i \in 0 .. n |-> merged[i]]
                                  /\ \A i \in 0 .. n : GoesOn(merged, acc, events, i)
<1> DEFINE Done == {n \in 0 .. top : Upto(n)}
<1>0. top \in Nat
  OBVIOUS
<1>1. 0 \in Done
  <2> DEFINE none == [n \in 0 .. 0 |-> acc]
  <2>1. DOMAIN none = 0 .. 0 /\ none = [i \in 0 .. 0 |-> none[i]]
    OBVIOUS
  <2>2. \A i \in 0 .. 0 : GoesOn(none, acc, events, i)
    BY DEF GoesOn
  <2> HIDE DEF none
  <2>3. Upto(0)
    BY <2>1, <2>2
  <2>4. QED
    BY <1>0, <2>3
<1>2. ASSUME NEW n \in 0 .. top, n \in Done, n < top
      PROVE  n + 1 \in Done
  <2>1. PICK merged : DOMAIN merged = 0 .. n /\ merged = [i \in 0 .. n |-> merged[i]]
                      /\ \A i \in 0 .. n : GoesOn(merged, acc, events, i)
    BY <1>2
  <2> DEFINE more == [i \in 0 .. n + 1 |-> IF i = n + 1 THEN Merge(merged[n], events[n + 1]) ELSE merged[i]]
  <2>2. DOMAIN more = 0 .. n + 1 /\ more = [i \in 0 .. n + 1 |-> more[i]]
    OBVIOUS
  <2>3. ASSUME NEW i \in 0 .. n + 1
        PROVE  GoesOn(more, acc, events, i)
    <3>1. CASE i = n + 1
      <4>1. more[i] = Merge(merged[n], events[n + 1]) /\ more[i - 1] = merged[n] /\ i # 0 /\ i - 1 = n
        BY <1>2, <3>1
      <4>2. QED
        BY <3>1, <4>1 DEF GoesOn
    <3>2. CASE i # n + 1
      <4>1. i \in 0 .. n /\ more[i] = merged[i] /\ (i # 0 => more[i - 1] = merged[i - 1])
        BY <1>2, <3>2
      <4>2. QED
        BY <2>1, <4>1 DEF GoesOn
    <3>3. QED
      BY <3>1, <3>2
  <2> HIDE DEF more
  <2>4. Upto(n + 1)
    BY <2>2, <2>3
  <2>5. n + 1 \in 0 .. top
    BY <1>0, <1>2
  <2>6. QED
    BY <2>4, <2>5, Zenon
<1>3. top \in Done
  <2> HIDE DEF Done, top
  <2>1. \A n \in 0 .. top : n \in Done
    BY <1>0, <1>1, <1>2, LengthsByInduction
  <2>2. QED
    BY <1>0, <2>1
<1> DEFINE Def(merged) == merged = [i \in 0 .. top |-> IF i = 0 THEN acc ELSE Merge(merged[i - 1], events[i])]
<1>4. PICK merged : DOMAIN merged = 0 .. top /\ merged = [i \in 0 .. top |-> merged[i]]
                    /\ \A i \in 0 .. top : GoesOn(merged, acc, events, i)
  BY <1>3
<1>5. Def(merged)
  BY <1>4 DEF GoesOn
<1> DEFINE chosen == CHOOSE f : Def(f)
<1>6. MergeChanges(acc, events) = chosen[top]
  BY DEF MergeChanges
<1>7. Def(chosen)
  BY <1>5
<1>8. \A i \in 0 .. top : GoesOn(chosen, acc, events, i)
  BY <1>7 DEF GoesOn
<1>9. QED
  BY <1>6, <1>8

\* What a read's changes make of a batch: of every file the last one is in it.
LEMMA MergeAll ==
  ASSUME NEW acc \in Seq(Events), NEW events \in Seq(Events), OneEach(acc)
  PROVE  /\ MergeChanges(acc, events) \in Seq(Events) /\ OneEach(MergeChanges(acc, events))
         /\ Mentioned(MergeChanges(acc, events)) = Mentioned(acc) \cup Mentioned(events)
         /\ \A f, there : f \in Mentioned(events) /\ Latest(events, f, there) =>
                            Latest(MergeChanges(acc, events), f, there)
         /\ \A f, there : f \notin Mentioned(events) /\ Latest(acc, f, there) =>
                            Latest(MergeChanges(acc, events), f, there)
<1> DEFINE top == Len(events)
<1>0. top \in Nat /\ DOMAIN events = 1 .. top /\ \A i \in 1 .. top : events[i] \in Events
  OBVIOUS
<1>1. PICK merged : /\ MergeChanges(acc, events) = merged[top]
                    /\ \A i \in 0 .. top : GoesOn(merged, acc, events, i)
  BY MergedExist
<1> DEFINE Named(n) == {events[i].file : i \in 1 .. n}
<1> DEFINE LastSays(n, f, there) ==
             \E i \in 1 .. n : events[i] = Event(f, there) /\ \A j \in 1 .. n : events[j].file = f => j <= i
<1> DEFINE Right(n) == /\ merged[n] \in Seq(Events) /\ OneEach(merged[n])
                       /\ Mentioned(merged[n]) = Mentioned(acc) \cup Named(n)
                       /\ \A f, there : LastSays(n, f, there) => Latest(merged[n], f, there)
                       /\ \A f, there : f \notin Named(n) /\ Latest(acc, f, there) => Latest(merged[n], f, there)
<1> DEFINE Done == {n \in 0 .. top : Right(n)}
<1> HIDE DEF top
<1>2. 0 \in Done
  <2>1. 0 \in 0 .. top
    BY <1>0
  <2>2. merged[0] = acc
    BY <1>1, <2>1 DEF GoesOn
  <2>3. Named(0) = {} /\ \A f, there : ~LastSays(0, f, there)
    OBVIOUS
  <2> HIDE DEF Named, LastSays
  <2>4. Right(0)
    BY <2>2, <2>3
  <2>5. QED
    BY <2>1, <2>4
<1>3. ASSUME NEW n \in 0 .. top, n \in Done, n < top
      PROVE  n + 1 \in Done
  <2>1. n + 1 \in 0 .. top /\ n + 1 \in 1 .. top /\ (n + 1) - 1 = n /\ n + 1 # 0 /\ n \in Nat
    BY <1>0, <1>3
  <2> DEFINE e == events[n + 1]
             last == merged[n]
  <2>2. e \in Events /\ e = Event(e.file, e.there)
    BY <1>0, <2>1, EventsAreTyped
  <2>3. merged[n + 1] = Merge(last, e)
    BY <1>1, <2>1 DEF GoesOn
  <2>4. Right(n)
    BY <1>3
  <2> HIDE DEF e, last
  <2>5. /\ merged[n + 1] \in Seq(Events) /\ OneEach(merged[n + 1])
        /\ Mentioned(merged[n + 1]) = Mentioned(last) \cup {e.file}
        /\ Latest(merged[n + 1], e.file, e.there)
        /\ \A f, there : f # e.file /\ Latest(last, f, there) => Latest(merged[n + 1], f, there)
    <3>1. last \in Seq(Events) /\ OneEach(last)
      BY <2>4 DEF last
    <3>2. /\ Merge(last, e) \in Seq(Events) /\ OneEach(Merge(last, e))
          /\ Mentioned(Merge(last, e)) = Mentioned(last) \cup {e.file}
          /\ Latest(Merge(last, e), e.file, e.there)
          /\ \A f, there : f # e.file /\ Latest(last, f, there) => Latest(Merge(last, e), f, there)
      BY <2>2, <3>1, MergeOne, Zenon
    <3>3. QED
      BY <2>3, <3>2, Zenon
  <2>6. Named(n + 1) = Named(n) \cup {e.file}
    <3>1. 1 .. n + 1 = (1 .. n) \cup {n + 1}
      BY <2>1
    <3>2. QED
      BY <3>1 DEF e
  <2>7. ASSUME NEW f, NEW there, LastSays(n + 1, f, there)
        PROVE  Latest(merged[n + 1], f, there)
    <3>1. PICK i \in 1 .. n + 1 : events[i] = Event(f, there) /\ \A j \in 1 .. n + 1 : events[j].file = f => j <= i
      BY <2>7
    <3>2. CASE i = n + 1
      <4>1. f = e.file /\ there = e.there
        BY <3>1, <3>2, EventsAreTyped DEF e
      <4>2. QED
        BY <2>5, <4>1
    <3>3. CASE i # n + 1
      <4>1. i \in 1 .. n /\ (\A j \in 1 .. n : j \in 1 .. n + 1) /\ n + 1 \in 1 .. n + 1 /\ ~(n + 1 <= i)
        BY <2>1, <3>3
      <4>2. f # e.file
        BY <3>1, <4>1 DEF e
      <4>3. LastSays(n, f, there)
        BY <3>1, <4>1
      <4> HIDE DEF LastSays
      <4>4. Latest(last, f, there)
        BY <2>4, <4>3 DEF last
      <4>5. QED
        BY <2>5, <4>2, <4>4
    <3>4. QED
      BY <3>2, <3>3
  <2>8. ASSUME NEW f, NEW there, f \notin Named(n + 1), Latest(acc, f, there)
        PROVE  Latest(merged[n + 1], f, there)
    <3> HIDE DEF Named, LastSays
    <3>1. f # e.file /\ f \notin Named(n)
      BY <2>6, <2>8
    <3>2. Latest(last, f, there)
      BY <2>4, <2>8, <3>1 DEF last
    <3>3. QED
      BY <2>5, <3>1, <3>2
  <2> HIDE DEF Named, LastSays
  <2>9. Mentioned(merged[n + 1]) = Mentioned(acc) \cup Named(n + 1)
    BY <2>4, <2>5, <2>6 DEF last
  <2>10. Right(n + 1)
    BY <2>5, <2>7, <2>8, <2>9
  <2>11. QED
    BY <2>1, <2>10
<1>4. top \in Done
  <2> HIDE DEF Done
  <2>1. \A n \in 0 .. top : n \in Done
    BY <1>0, <1>2, <1>3, LengthsByInduction
  <2>2. QED
    BY <1>0, <2>1
<1>5. Right(top)
  BY <1>4
<1>6. Named(top) = Mentioned(events) /\ \A f, there : Latest(events, f, there) => LastSays(top, f, there)
  BY <1>0 DEF Mentioned, Latest
<1> HIDE DEF Named, LastSays
<1>7. QED
  BY <1>1, <1>5, <1>6

-----------------------------------------------------------------------------
(* The scripts' watcher: the steps                                         *)

\* A change is lost, or completes the read, or is buffered, or is lost with the buffer.
LEMMA RecordCases ==
  ASSUME WatchTypeOK, NEW f \in Files, NEW there \in BOOLEAN, Record(f, there)
  PROVE  \/ /\ DirOf[f] \notin open \/ overflowed[DirOf[f]]
            /\ missed' = missed \cup {f} /\ UNCHANGED kernelVars
         \/ /\ DirOf[f] \in open /\ ~overflowed[DirOf[f]] /\ ~signaled[DirOf[f]]
            /\ signaled' = [signaled EXCEPT ![DirOf[f]] = TRUE]
            /\ completed' = [completed EXCEPT ![DirOf[f]] = <<Event(f, there)>>]
            /\ UNCHANGED <<kernel, overflowed, missed>>
         \/ /\ DirOf[f] \in open /\ ~overflowed[DirOf[f]] /\ signaled[DirOf[f]] /\ Len(kernel[DirOf[f]]) < BufferSize
            /\ kernel' = [kernel EXCEPT ![DirOf[f]] = Append(@, Event(f, there))]
            /\ UNCHANGED <<signaled, completed, overflowed, missed>>
         \/ /\ DirOf[f] \in open /\ signaled[DirOf[f]]
            /\ overflowed' = [overflowed EXCEPT ![DirOf[f]] = TRUE]
            /\ kernel' = [kernel EXCEPT ![DirOf[f]] = <<>>]
            /\ missed' = missed \cup Mentioned(kernel[DirOf[f]]) \cup {f}
            /\ UNCHANGED <<signaled, completed>>
<1> DEFINE d == DirOf[f]
<1>1. CASE d \notin open \/ overflowed[d]
  BY <1>1 DEF Record
<1>2. CASE d \in open /\ ~overflowed[d] /\ ~signaled[d]
  BY <1>2 DEF Record
<1>3. CASE d \in open /\ ~overflowed[d] /\ signaled[d] /\ Len(kernel[d]) < BufferSize
  BY <1>3 DEF Record
<1>4. CASE d \in open /\ ~overflowed[d] /\ signaled[d] /\ ~(Len(kernel[d]) < BufferSize)
  BY <1>4 DEF Record
<1>5. QED
  BY <1>1, <1>2, <1>3, <1>4

\* Before anything happens.
LEMMA InitWatch == WatchInit => WatchInv
<1> SUFFICES ASSUME WatchInit PROVE WatchInv
  OBVIOUS
<1> USE DEF WatchInit
<1>1. WatchTypeOK
  <2>1. /\ signaled \in [Dirs -> BOOLEAN] /\ overflowed \in [Dirs -> BOOLEAN]
        /\ completed \in [Dirs -> Seq(Events)] /\ kernel \in [Dirs -> Seq(Events)]
    OBVIOUS
  <2>2. \A d \in Dirs : Mentioned(completed[d]) = {} /\ Mentioned(kernel[d]) = {} /\ Len(kernel[d]) <= BufferSize
    BY BoundsAssumption, ShortSequences
  <2>3. loaded \in [Names -> Versions \cup {Gone, Truncated}] /\ disk \in [Files -> Contents]
    BY DEF Contents
  <2>4. batch \in Seq(Events)
    OBVIOUS
  <2>5. QED
    BY <2>1, <2>2, <2>3, <2>4 DEF WatchTypeOK
<1>2. KernelInv
  BY DEF KernelInv
<1>3. TurnsInv
  BY DEF TurnsInv, OneEach
<1>4. RecordInv
  BY ShortSequences DEF RecordInv, Recorded
<1>5. RescanInv
  BY DEF RescanInv
<1>6. ConfiguredInv
  BY DEF ConfiguredInv
<1>7. QED
  BY <1>1, <1>2, <1>3, <1>4, <1>5, <1>6 DEF WatchInv

\* Every step keeps the types.
LEMMA StepKeepsWatchTypes ==
  ASSUME WatchTypeOK, TurnsInv, [WatchNext]_watchVars
  PROVE  WatchTypeOK'
<1> USE DEF diskVars, kernelVars, watcherVars, configVars
<1>1. ASSUME NEW g \in Files, NEW content \in Contents, Change(g, content)
      PROVE  WatchTypeOK'
  <2>1. PICK there \in BOOLEAN : Record(g, there)
    BY <1>1 DEF Change
  <2>2. disk' \in [Files -> Contents] /\ changes' \in Nat
    BY <1>1 DEF Change, WatchTypeOK
  <2> DEFINE e == Event(g, there)
             d == DirOf[g]
  <2>3. /\ <<e>> \in Seq(Events) /\ Mentioned(<<e>>) = {g} /\ d \in Dirs /\ g \in FilesIn(d)
    <3>1. e \in Events /\ e.file = g
      BY EventsAreTyped
    <3>2. QED
      BY <3>1, ShortSequences, DirsAssumption DEF FilesIn
  <2>4. /\ kernel[d] \in Seq(Events) /\ Append(kernel[d], e) = kernel[d] \o <<e>>
        /\ Append(kernel[d], e) \in Seq(Events)
        /\ Mentioned(Append(kernel[d], e)) = Mentioned(kernel[d]) \cup {g}
        /\ Len(Append(kernel[d], e)) = Len(kernel[d]) + 1 /\ Len(kernel[d]) \in Nat
    <3>1. kernel[d] \in Seq(Events)
      BY <2>3 DEF WatchTypeOK
    <3>2. Append(kernel[d], e) = kernel[d] \o <<e>> /\ Len(Append(kernel[d], e)) = Len(kernel[d]) + 1
          /\ Len(kernel[d]) \in Nat
      BY <3>1
    <3>3. QED
      BY <2>3, <3>1, <3>2, Concatenations
  <2>5. Mentioned(kernel[d]) \subseteq Files /\ Mentioned(<<>>) = {} /\ <<>> \in Seq(Events) /\ Len(<<>>) = 0
    BY <2>3, ShortSequences DEF WatchTypeOK, FilesIn
  <2> HIDE DEF e
  <2>6. /\ signaled' \in [Dirs -> BOOLEAN] /\ overflowed' \in [Dirs -> BOOLEAN]
        /\ completed' \in [Dirs -> Seq(Events)] /\ kernel' \in [Dirs -> Seq(Events)]
        /\ missed' \subseteq Files
    <3> DEFINE completedNext == [completed EXCEPT ![d] = <<e>>]
               kernelNext == [kernel EXCEPT ![d] = Append(kernel[d], e)]
               kernelGone == [kernel EXCEPT ![d] = <<>>]
    <3>1. completedNext \in [Dirs -> Seq(Events)] /\ kernelNext \in [Dirs -> Seq(Events)]
          /\ kernelGone \in [Dirs -> Seq(Events)]
      BY <2>3, <2>4, <2>5 DEF WatchTypeOK
    <3>2. (completed' = completed \/ completed' = completedNext)
          /\ (kernel' = kernel \/ kernel' = kernelNext \/ kernel' = kernelGone)
      BY <2>1, RecordCases, Zenon DEF e
    <3> HIDE DEF completedNext, kernelNext, kernelGone
    <3>3. completed' \in [Dirs -> Seq(Events)] /\ kernel' \in [Dirs -> Seq(Events)]
      BY <3>1, <3>2 DEF WatchTypeOK
    <3>4. signaled' \in [Dirs -> BOOLEAN] /\ overflowed' \in [Dirs -> BOOLEAN]
      BY <2>1, <2>3, RecordCases DEF WatchTypeOK
    <3>5. missed' \subseteq Files
      <4>1. missed' = missed \/ missed' = missed \cup {g} \/ missed' = missed \cup Mentioned(kernel[d]) \cup {g}
        BY <2>1, RecordCases, Zenon DEF kernelVars
      <4>2. missed \subseteq Files
        BY DEF WatchTypeOK
      <4>3. QED
        BY <2>5, <4>1, <4>2
    <3>6. QED
      BY <3>3, <3>4, <3>5
  <2>7. ASSUME NEW c \in Dirs
        PROVE  /\ Mentioned(completed'[c]) \cup Mentioned(kernel'[c]) \subseteq FilesIn(c)
               /\ Len(kernel'[c]) <= BufferSize
    <3>1. \/ completed'[c] = completed[c]
          \/ c = d /\ completed'[c] = <<e>>
      BY <2>1, RecordCases DEF WatchTypeOK, e
    <3>2. \/ kernel'[c] = kernel[c]
          \/ c = d /\ kernel'[c] = <<>>
          \/ c = d /\ kernel'[c] = Append(kernel[d], e) /\ Len(kernel[d]) < BufferSize
      BY <2>1, RecordCases DEF WatchTypeOK, e
    <3>3. Mentioned(completed'[c]) \subseteq FilesIn(c)
      <4>1. Mentioned(completed[c]) \subseteq FilesIn(c)
        BY DEF WatchTypeOK
      <4>2. QED
        BY <2>3, <3>1, <4>1
    <3>4. Mentioned(kernel'[c]) \subseteq FilesIn(c) /\ Len(kernel'[c]) <= BufferSize
      <4>1. Mentioned(kernel[c]) \subseteq FilesIn(c) /\ Len(kernel[c]) <= BufferSize /\ BufferSize \in Nat
        BY BoundsAssumption DEF WatchTypeOK
      <4>2. CASE kernel'[c] = kernel[c]
        BY <4>1, <4>2
      <4>3. CASE c = d /\ kernel'[c] = <<>>
        BY <2>5, <4>1, <4>3
      <4>4. CASE c = d /\ kernel'[c] = Append(kernel[d], e) /\ Len(kernel[d]) < BufferSize
        <5> DEFINE longer == Append(kernel[d], e)
        <5>1. Mentioned(longer) = Mentioned(kernel[d]) \cup {g} /\ Len(longer) = Len(kernel[d]) + 1 /\ Len(kernel[d]) \in Nat
          BY <2>4, Zenon
        <5>2. kernel'[c] = longer /\ c = d /\ Len(kernel[d]) < BufferSize
          BY <4>4
        <5> HIDE DEF longer
        <5>3. QED
          BY <2>3, <4>1, <5>1, <5>2
      <4>5. QED
        BY <3>2, <4>2, <4>3, <4>4
    <3>5. QED
      BY <3>3, <3>4
  <2>8. QED
    BY <1>1, <2>2, <2>6, <2>7 DEF Change, WatchTypeOK
<1>2. ASSUME NEW d \in Dirs, NEW ok \in BOOLEAN, OpenDirectory(d, ok)
      PROVE  WatchTypeOK'
  BY <1>2 DEF OpenDirectory, WatchTypeOK
<1>3. ASSUME NEW d \in Dirs, NEW ok \in BOOLEAN, Drain(d, ok)
      PROVE  WatchTypeOK'
  <2>1. /\ MergeChanges(batch, completed[d]) \in Seq(Events)
        /\ completed[d] \in Seq(Events) /\ kernel[d] \in Seq(Events) /\ <<>> \in Seq(Events)
    BY MergeAll DEF WatchTypeOK, TurnsInv
  <2>2. Mentioned(<<>>) = {} /\ Len(<<>>) = 0 /\ Mentioned(kernel[d]) \subseteq FilesIn(d) /\ FilesIn(d) \subseteq Files
    BY ShortSequences DEF WatchTypeOK, FilesIn
  <2>3. /\ signaled' \in [Dirs -> BOOLEAN] /\ overflowed' \in [Dirs -> BOOLEAN]
        /\ completed' \in [Dirs -> Seq(Events)] /\ kernel' \in [Dirs -> Seq(Events)]
        /\ missed' \subseteq Files /\ batch' \in Seq(Events) /\ open' \subseteq Dirs
    BY <1>3, <2>1, <2>2 DEF Drain, WatchTypeOK
  <2>4. ASSUME NEW c \in Dirs
        PROVE  /\ Mentioned(completed'[c]) \cup Mentioned(kernel'[c]) \subseteq FilesIn(c)
               /\ Len(kernel'[c]) <= BufferSize
    BY <1>3, <2>2, BoundsAssumption DEF Drain, WatchTypeOK
  <2>5. QED
    BY <1>3, <2>3, <2>4 DEF Drain, WatchTypeOK
<1>4. ASSUME Opened
      PROVE  WatchTypeOK'
  BY <1>4 DEF Opened, WatchTypeOK
<1>5. ASSUME DebounceEnds
      PROVE  WatchTypeOK'
  BY <1>5 DEF DebounceEnds, WatchTypeOK
<1>6. ASSUME ApplyUnload
      PROVE  WatchTypeOK'
  <2>1. Tail(batch) \in Seq(Events)
    BY <1>6 DEF ApplyUnload, WatchTypeOK
  <2>2. loaded' \in [Names -> Versions \cup {Gone, Truncated}]
    BY <1>6 DEF ApplyUnload, WatchTypeOK
  <2>3. QED
    BY <1>6, <2>1, <2>2 DEF ApplyUnload, WatchTypeOK
<1>7. ASSUME ApplyParse
      PROVE  WatchTypeOK'
  <2> DEFINE name == WatchName(Head(batch).file)
  <2>1. Tail(batch) \in Seq(Events) /\ Head(batch).file \in Files
    <3>1. batch \in Seq(Events) /\ batch # <<>>
      BY <1>7 DEF ApplyParse, WatchTypeOK
    <3>2. Head(batch) \in Events /\ Tail(batch) \in Seq(Events)
      BY <3>1
    <3>3. QED
      BY <3>2, EventsAreTyped
  <2>2. name \in Names /\ name[1] \in Files
    BY <2>1, NamesDiffer
  <2>3. missed' \subseteq Files /\ reading' = [name |-> name, content |-> disk[name[1]]]
    BY <1>7 DEF ApplyParse, Read, WatchTypeOK
  <2>4. reading' \in [name : Names, content : Contents]
    BY <2>2, <2>3 DEF WatchTypeOK
  <2>5. QED
    BY <1>7, <2>1, <2>3, <2>4 DEF ApplyParse, WatchTypeOK
<1>8. ASSUME Applied
      PROVE  WatchTypeOK'
  BY <1>8 DEF Applied, WatchTypeOK
<1>9. ASSUME Exit
      PROVE  WatchTypeOK'
  <2>1. /\ signaled' \in [Dirs -> BOOLEAN] /\ overflowed' \in [Dirs -> BOOLEAN]
        /\ completed' \in [Dirs -> Seq(Events)] /\ kernel' \in [Dirs -> Seq(Events)]
    BY <1>9 DEF Exit
  <2>2. \A d \in Dirs : Mentioned(completed'[d]) = {} /\ Mentioned(kernel'[d]) = {} /\ Len(kernel'[d]) <= BufferSize
    BY <1>9, ShortSequences, BoundsAssumption DEF Exit
  <2>3. missed' \subseteq Files
    BY <1>9 DEF Exit, WatchTypeOK, FilesIn
  <2>4. QED
    BY <1>9, <2>1, <2>2, <2>3 DEF Exit, WatchTypeOK
<1>10. ASSUME Commit
       PROVE  WatchTypeOK'
  <2>1. reading \in [name : Names, content : Contents]
    BY <1>10 DEF Commit, WatchTypeOK
  <2>2. Committed(reading.name, reading.content) \in Versions \cup {Gone, Truncated}
    BY <2>1 DEF Committed, WatchTypeOK
  <2>3. loaded' \in [Names -> Versions \cup {Gone, Truncated}]
    BY <1>10, <2>2 DEF Commit, WatchTypeOK
  <2>4. QED
    BY <1>10, <2>3 DEF Commit, WatchTypeOK
<1>11. ASSUME Join
       PROVE  WatchTypeOK'
  BY <1>11 DEF Join, WatchTypeOK
<1>12. ASSUME NEW d \in Dirs, Scan(d)
       PROVE  WatchTypeOK'
  <2>1. {ScanName(f) : f \in {g \in FilesIn(d) : disk[g] # Gone}} \subseteq Names
    BY NamesDiffer DEF FilesIn
  <2>2. QED
    BY <1>12, <2>1 DEF Scan, WatchTypeOK
<1>13. ASSUME Scanned
       PROVE  WatchTypeOK'
  <2>1. loaded' \in [Names -> Versions \cup {Gone, Truncated}]
    BY <1>13 DEF Scanned, UnloadUnlisted, WatchTypeOK
  <2>2. QED
    BY <1>13, <2>1 DEF Scanned, WatchTypeOK
<1>14. ASSUME NEW name \in Names, ParseListed(name)
       PROVE  WatchTypeOK'
  <2>1. name[1] \in Files
    BY NamesDiffer
  <2>2. missed' \subseteq Files /\ reading' = [name |-> name, content |-> disk[name[1]]]
    BY <1>14 DEF ParseListed, Read, WatchTypeOK
  <2>3. reading' \in [name : Names, content : Contents]
    BY <2>1, <2>2 DEF WatchTypeOK
  <2>4. QED
    BY <1>14, <2>2, <2>3 DEF ParseListed, WatchTypeOK
<1>15. ASSUME Start
       PROVE  WatchTypeOK'
  BY <1>15 DEF Start, WatchTypeOK
<1>16. ASSUME NEW dirs \in SUBSET Dirs, Reconfigure(dirs)
       PROVE  WatchTypeOK'
  <2>1. configured' \in SUBSET Dirs /\ DefaultDir \in configured' /\ configPc' = "stopping" /\ luaRunning' = FALSE
        /\ changes' \in Nat
    BY <1>16 DEF Reconfigure, WatchTypeOK
  <2>2. /\ UNCHANGED <<disk, open, signaled, completed, kernel, overflowed, watcherPc, toOpen, batch, reading>>
        /\ UNCHANGED <<toScan, toParse, loaded, missed>>
    BY <1>16 DEF Reconfigure
  <2>3. QED
    BY <2>1, <2>2 DEF WatchTypeOK
<1>17. CASE UNCHANGED watchVars
  BY <1>17 DEF watchVars, WatchTypeOK
<1>18. QED
  BY <1>1, <1>2, <1>3, <1>4, <1>5, <1>6, <1>7, <1>8, <1>9, <1>10, <1>11, <1>12,
     <1>13, <1>14, <1>15, <1>16, <1>17
     DEF WatchNext, EditorStep, WatcherStep, ConfigStep

\* Every step keeps what is said of the kernel.
LEMMA StepKeepsKernel ==
  ASSUME WatchTypeOK, KernelInv, TurnsInv, [WatchNext]_watchVars
  PROVE  KernelInv'
<1> USE DEF diskVars, kernelVars, watcherVars, configVars
<1>1. ASSUME NEW g \in Files, NEW content \in Contents, Change(g, content)
      PROVE  KernelInv'
  <2>1. PICK there \in BOOLEAN : Record(g, there) /\ open' = open
    BY <1>1 DEF Change
  <2>2. DirOf[g] \in Dirs
    BY DirsAssumption
  <2> DEFINE d == DirOf[g]
  <2>3. ASSUME NEW c \in Dirs, c # d
        PROVE  signaled'[c] = signaled[c] /\ completed'[c] = completed[c] /\ kernel'[c] = kernel[c]
               /\ overflowed'[c] = overflowed[c]
    <3>1. c # DirOf[g] /\ signaled \in [Dirs -> BOOLEAN] /\ overflowed \in [Dirs -> BOOLEAN]
          /\ completed \in [Dirs -> Seq(Events)] /\ kernel \in [Dirs -> Seq(Events)]
      BY <2>3 DEF WatchTypeOK
    <3>2. signaled'[c] = signaled[c] /\ overflowed'[c] = overflowed[c]
      BY <2>1, <3>1, RecordCases
    <3>3. completed'[c] = completed[c]
      BY <2>1, <3>1, RecordCases
    <3>4. kernel'[c] = kernel[c]
      <4> DEFINE longer == Append(kernel[DirOf[g]], Event(g, there))
      <4>1. kernel' = kernel \/ kernel' = [kernel EXCEPT ![DirOf[g]] = longer]
            \/ kernel' = [kernel EXCEPT ![DirOf[g]] = <<>>]
        BY <2>1, RecordCases, Zenon
      <4> HIDE DEF longer
      <4>2. QED
        BY <3>1, <4>1
    <3>5. QED
      BY <3>2, <3>3, <3>4
  <2>4. \/ signaled'[d] = signaled[d] /\ completed'[d] = completed[d] /\ kernel'[d] = kernel[d]
           /\ overflowed'[d] = overflowed[d]
        \/ d \in open /\ signaled'[d] /\ kernel'[d] = <<>>
        \/ d \in open /\ signaled'[d] /\ ~overflowed'[d]
    <3>1. CASE d \notin open \/ overflowed[d]
      BY <2>1, <2>2, <3>1, RecordCases DEF WatchTypeOK, KernelInv
    <3>2. CASE d \in open /\ ~overflowed[d]
      BY <2>1, <2>2, <3>2, RecordCases DEF WatchTypeOK, KernelInv
    <3>3. QED
      BY <3>1, <3>2
  <2> HIDE DEF d
  <2>5. QED
    BY <2>1, <2>3, <2>4 DEF KernelInv
<1>2. ASSUME NEW d \in Dirs, NEW ok \in BOOLEAN, OpenDirectory(d, ok)
      PROVE  KernelInv'
  BY <1>2 DEF OpenDirectory, WatchTypeOK, KernelInv, TurnsInv
<1>3. ASSUME NEW d \in Dirs, NEW ok \in BOOLEAN, Drain(d, ok)
      PROVE  KernelInv'
  BY <1>3 DEF Drain, WatchTypeOK, KernelInv, TurnsInv
<1>4. ASSUME Opened
      PROVE  KernelInv'
  BY <1>4 DEF Opened, WatchTypeOK, KernelInv, TurnsInv
<1>5. ASSUME DebounceEnds
      PROVE  KernelInv'
  BY <1>5 DEF DebounceEnds, WatchTypeOK, KernelInv, TurnsInv
<1>6. ASSUME ApplyUnload
      PROVE  KernelInv'
  BY <1>6 DEF ApplyUnload, WatchTypeOK, KernelInv, TurnsInv
<1>7. ASSUME ApplyParse
      PROVE  KernelInv'
  BY <1>7 DEF ApplyParse, WatchTypeOK, KernelInv, TurnsInv
<1>8. ASSUME Applied
      PROVE  KernelInv'
  BY <1>8 DEF Applied, WatchTypeOK, KernelInv, TurnsInv
<1>9. ASSUME Exit
      PROVE  KernelInv'
  BY <1>9 DEF Exit, WatchTypeOK, KernelInv, TurnsInv
<1>10. ASSUME Commit
       PROVE  KernelInv'
  BY <1>10 DEF Commit, WatchTypeOK, KernelInv, TurnsInv
<1>11. ASSUME Join
       PROVE  KernelInv'
  BY <1>11 DEF Join, WatchTypeOK, KernelInv, TurnsInv
<1>12. ASSUME NEW d \in Dirs, Scan(d)
       PROVE  KernelInv'
  BY <1>12 DEF Scan, WatchTypeOK, KernelInv, TurnsInv
<1>13. ASSUME Scanned
       PROVE  KernelInv'
  BY <1>13 DEF Scanned, WatchTypeOK, KernelInv, TurnsInv
<1>14. ASSUME NEW name \in Names, ParseListed(name)
       PROVE  KernelInv'
  BY <1>14 DEF ParseListed, WatchTypeOK, KernelInv, TurnsInv
<1>15. ASSUME Start
       PROVE  KernelInv'
  BY <1>15 DEF Start, WatchTypeOK, KernelInv, TurnsInv
<1>16. ASSUME NEW dirs \in SUBSET Dirs, Reconfigure(dirs)
       PROVE  KernelInv'
  BY <1>16 DEF Reconfigure, WatchTypeOK, KernelInv, TurnsInv
<1>17. CASE UNCHANGED watchVars
  BY <1>17 DEF watchVars, WatchTypeOK, KernelInv, TurnsInv
<1>18. QED
  BY <1>1, <1>2, <1>3, <1>4, <1>5, <1>6, <1>7, <1>8, <1>9, <1>10, <1>11, <1>12,
     <1>13, <1>14, <1>15, <1>16, <1>17
     DEF WatchNext, EditorStep, WatcherStep, ConfigStep

\* Every step keeps the turns.
LEMMA StepKeepsTurns ==
  ASSUME WatchTypeOK, TurnsInv, [WatchNext]_watchVars
  PROVE  TurnsInv'
<1> USE DEF diskVars, kernelVars, watcherVars, configVars
<1>1. ASSUME NEW g \in Files, NEW content \in Contents, Change(g, content)
      PROVE  TurnsInv'
  BY <1>1 DEF Change, WatchTypeOK, TurnsInv
<1>2. ASSUME NEW d \in Dirs, NEW ok \in BOOLEAN, OpenDirectory(d, ok)
      PROVE  TurnsInv'
  BY <1>2 DEF OpenDirectory, WatchTypeOK, TurnsInv
<1>3. ASSUME NEW d \in Dirs, NEW ok \in BOOLEAN, Drain(d, ok)
      PROVE  TurnsInv'
  <2>1. OneEach(MergeChanges(batch, completed[d]))
    BY MergeAll DEF WatchTypeOK, TurnsInv
  <2>2. QED
    BY <1>3, <2>1 DEF Drain, TurnsInv
<1>4. ASSUME Opened
      PROVE  TurnsInv'
  BY <1>4 DEF Opened, WatchTypeOK, TurnsInv
<1>5. ASSUME DebounceEnds
      PROVE  TurnsInv'
  BY <1>5 DEF DebounceEnds, WatchTypeOK, TurnsInv
<1>6. ASSUME ApplyUnload
      PROVE  TurnsInv'
  <2>1. OneEach(Tail(batch))
    BY <1>6, HeadAndTail DEF ApplyUnload, WatchTypeOK, TurnsInv
  <2>2. QED
    BY <1>6, <2>1 DEF ApplyUnload, TurnsInv
<1>7. ASSUME ApplyParse
      PROVE  TurnsInv'
  <2>1. OneEach(Tail(batch))
    BY <1>7, HeadAndTail DEF ApplyParse, WatchTypeOK, TurnsInv
  <2>2. QED
    BY <1>7, <2>1 DEF ApplyParse, TurnsInv
<1>8. ASSUME Applied
      PROVE  TurnsInv'
  BY <1>8 DEF Applied, WatchTypeOK, TurnsInv
<1>9. ASSUME Exit
      PROVE  TurnsInv'
  BY <1>9 DEF Exit, WatchTypeOK, TurnsInv
<1>10. ASSUME Commit
       PROVE  TurnsInv'
  BY <1>10 DEF Commit, WatchTypeOK, TurnsInv
<1>11. ASSUME Join
       PROVE  TurnsInv'
  BY <1>11 DEF Join, WatchTypeOK, TurnsInv
<1>12. ASSUME NEW d \in Dirs, Scan(d)
       PROVE  TurnsInv'
  <2>1. configPc' = "scan" /\ toScan' = toScan \ {d}
        /\ toParse' = toParse \cup {ScanName(f) : f \in {g \in FilesIn(d) : disk[g] # Gone}}
    BY <1>12 DEF Scan
  <2>2. toParse' \subseteq {ScanName(f) : f \in Files}
    BY <2>1 DEF TurnsInv, FilesIn
  <2>3. \A n \in toParse' : DirOf[n[1]] \notin toScan'
    BY <1>12, <2>1, NamesDiffer DEF Scan, TurnsInv, FilesIn
  <2>4. QED
    BY <1>12, <2>1, <2>2, <2>3 DEF Scan, TurnsInv
<1>13. ASSUME Scanned
       PROVE  TurnsInv'
  BY <1>13 DEF Scanned, WatchTypeOK, TurnsInv
<1>14. ASSUME NEW name \in Names, ParseListed(name)
       PROVE  TurnsInv'
  BY <1>14 DEF ParseListed, WatchTypeOK, TurnsInv
<1>15. ASSUME Start
       PROVE  TurnsInv'
  BY <1>15 DEF Start, WatchTypeOK, TurnsInv
<1>16. ASSUME NEW dirs \in SUBSET Dirs, Reconfigure(dirs)
       PROVE  TurnsInv'
  BY <1>16 DEF Reconfigure, WatchTypeOK, TurnsInv
<1>17. CASE UNCHANGED watchVars
  BY <1>17 DEF watchVars, WatchTypeOK, TurnsInv
<1>18. QED
  BY <1>1, <1>2, <1>3, <1>4, <1>5, <1>6, <1>7, <1>8, <1>9, <1>10, <1>11, <1>12,
     <1>13, <1>14, <1>15, <1>16, <1>17
     DEF WatchNext, EditorStep, WatcherStep, ConfigStep


\* Whether a file is on record, sequence by sequence: what was recorded last counts.
LEMMA OnRecordParts ==
  ASSUME WatchTypeOK, NEW f \in Files
  PROVE  OnRecord(f) <=>
           IF f \in Mentioned(kernel[DirOf[f]]) THEN Latest(kernel[DirOf[f]], f, disk[f] # Gone)
           ELSE IF f \in Mentioned(completed[DirOf[f]]) THEN Latest(completed[DirOf[f]], f, disk[f] # Gone)
           ELSE IF f \in Mentioned(batch) THEN Latest(batch, f, disk[f] # Gone)
           ELSE Fine(f)
<1>1. batch \in Seq(Events) /\ completed[DirOf[f]] \in Seq(Events) /\ kernel[DirOf[f]] \in Seq(Events)
  BY DirsAssumption DEF WatchTypeOK
<1>2. PICK there : there = (disk[f] # Gone)
  OBVIOUS
<1>3. /\ Mentioned(Pending(f)) = Mentioned(batch) \cup Mentioned(completed[DirOf[f]]) \cup Mentioned(kernel[DirOf[f]])
      /\ Latest(Pending(f), f, there) <=>
           IF f \in Mentioned(kernel[DirOf[f]]) THEN Latest(kernel[DirOf[f]], f, there)
           ELSE IF f \in Mentioned(completed[DirOf[f]]) THEN Latest(completed[DirOf[f]], f, there)
           ELSE Latest(batch, f, there)
  BY <1>1, LastOfThree DEF Pending
<1>4. QED
  BY <1>2, <1>3 DEF OnRecord

\* The same after a step.
LEMMA OnRecordPartsNext ==
  ASSUME WatchTypeOK', NEW f \in Files
  PROVE  OnRecord(f)' <=>
           IF f \in Mentioned(kernel'[DirOf[f]]) THEN Latest(kernel'[DirOf[f]], f, disk'[f] # Gone)
           ELSE IF f \in Mentioned(completed'[DirOf[f]]) THEN Latest(completed'[DirOf[f]], f, disk'[f] # Gone)
           ELSE IF f \in Mentioned(batch') THEN Latest(batch', f, disk'[f] # Gone)
           ELSE Fine(f)'
<1>1. batch' \in Seq(Events) /\ completed'[DirOf[f]] \in Seq(Events) /\ kernel'[DirOf[f]] \in Seq(Events)
  BY DirsAssumption DEF WatchTypeOK
<1>2. PICK there : there = (disk'[f] # Gone)
  OBVIOUS
<1>3. /\ Mentioned(Pending(f)') = Mentioned(batch') \cup Mentioned(completed'[DirOf[f]]) \cup Mentioned(kernel'[DirOf[f]])
      /\ Latest(Pending(f)', f, there) <=>
           IF f \in Mentioned(kernel'[DirOf[f]]) THEN Latest(kernel'[DirOf[f]], f, there)
           ELSE IF f \in Mentioned(completed'[DirOf[f]]) THEN Latest(completed'[DirOf[f]], f, there)
           ELSE Latest(batch', f, there)
  BY <1>1, LastOfThree DEF Pending
<1>4. QED
  BY <1>2, <1>3 DEF OnRecord, Mentioned, Latest

\* A file is as fine as it was if neither it nor its entries change.
LEMMA FineStays ==
  ASSUME NEW f \in Files, disk'[f] = disk[f],
         \A n \in {ScanName(f), WatchName(f)} : Soon(n)' = Soon(n)
  PROVE  Fine(f)' <=> Fine(f)
  BY DEF Fine, Stable, UpToDate, ScanName, WatchName

\* Entries that nobody parses are what they were.
LEMMA SoonStays ==
  ASSUME NEW n, loaded'[n] = loaded[n], reading' = reading
  PROVE  Soon(n)' = Soon(n)
  BY DEF Soon, Committed

\* A step of others.
LEMMA OnRecordStays ==
  ASSUME NEW f \in Files, disk'[f] = disk[f], UNCHANGED <<batch, reading, loaded>>,
         completed'[DirOf[f]] = completed[DirOf[f]], kernel'[DirOf[f]] = kernel[DirOf[f]]
  PROVE  /\ OnRecord(f)' <=> OnRecord(f)
         /\ Recorded(f)' <=> (DirOf[f] \in open' \/ f \in Mentioned(batch))
         /\ Fine(f)' <=> Fine(f)
<1>1. Pending(f)' = Pending(f)
  BY DEF Pending
<1>2. Fine(f)' <=> Fine(f)
  BY FineStays, SoonStays
<1>3. Recorded(f)' <=> (DirOf[f] \in open' \/ f \in Mentioned(batch))
  BY DEF Recorded, Mentioned
<1>4. OnRecord(f)' <=> OnRecord(f)
  <2>1. OnRecord(f)' <=> IF f \in Mentioned(Pending(f)') THEN Latest(Pending(f)', f, disk'[f] # Gone) ELSE Fine(f)'
    BY DEF OnRecord, Mentioned, Latest
  <2>2. QED
    BY <1>1, <1>2, <2>1 DEF OnRecord
<1>5. QED
  BY <1>2, <1>3, <1>4

\* The batch is applied from its head, and nothing else is recorded meanwhile.
LEMMA HeadIsApplied ==
  ASSUME WatchTypeOK, TurnsInv, WatchTypeOK', batch # <<>>, batch' = Tail(batch),
         UNCHANGED <<disk, completed, kernel>>,
         NEW f \in Files, OnRecord(f),
         f # Head(batch).file => (Fine(f)' <=> Fine(f)),
         f = Head(batch).file /\ (disk[f] # Gone) = Head(batch).there => Fine(f)'
  PROVE  OnRecord(f)'
<1>1. PICK there : there = (disk[f] # Gone)
  OBVIOUS
<1>2. disk'[f] = disk[f]
  OBVIOUS
<1>3. /\ Mentioned(batch) = {Head(batch).file} \cup Mentioned(batch')
      /\ Head(batch).file \notin Mentioned(batch')
      /\ \A th : Latest(batch, Head(batch).file, th) => th = Head(batch).there
      /\ f # Head(batch).file => (Latest(batch, f, there) <=> Latest(batch', f, there))
  BY HeadAndTail DEF WatchTypeOK, TurnsInv
<1>4. IF f \in Mentioned(kernel[DirOf[f]]) THEN Latest(kernel[DirOf[f]], f, there)
      ELSE IF f \in Mentioned(completed[DirOf[f]]) THEN Latest(completed[DirOf[f]], f, there)
      ELSE IF f \in Mentioned(batch) THEN Latest(batch, f, there)
      ELSE Fine(f)
  BY <1>1, OnRecordParts
<1>5. OnRecord(f)' <=>
        IF f \in Mentioned(kernel[DirOf[f]]) THEN Latest(kernel[DirOf[f]], f, there)
        ELSE IF f \in Mentioned(completed[DirOf[f]]) THEN Latest(completed[DirOf[f]], f, there)
        ELSE IF f \in Mentioned(batch') THEN Latest(batch', f, there)
        ELSE Fine(f)'
  BY <1>1, <1>2, OnRecordPartsNext
<1>6. CASE f = Head(batch).file
  <2>1. Latest(batch, f, there) => Fine(f)'
    BY <1>1, <1>3, <1>6
  <2>2. QED
    BY <1>3, <1>4, <1>5, <1>6, <2>1
<1>7. CASE f # Head(batch).file
  BY <1>3, <1>4, <1>5, <1>7
<1>8. QED
  BY <1>6, <1>7


\* A commit brings what was about to be there.
LEMMA CommitIsSoon ==
  ASSUME WatchTypeOK, Commit
  PROVE  \A n \in Names : Soon(n)' = Soon(n)
<1> SUFFICES ASSUME NEW n \in Names PROVE Soon(n)' = Soon(n)
  OBVIOUS
<1>1. reading' = NoFile /\ n # NoFile.name
  BY NamesDiffer DEF Commit
<1>2. Soon(n)' = loaded'[n]
  BY <1>1 DEF Soon
<1>3. loaded'[n] = IF reading.name = n THEN Committed(n, reading.content) ELSE loaded[n]
  BY DEF Commit, WatchTypeOK
<1>4. QED
  BY <1>2, <1>3 DEF Soon

\* What is being parsed will be there as it is on disk, if it is a version of the file.
LEMMA ReadIsSoon ==
  ASSUME WatchTypeOK, NEW name \in Names, NEW later, Read(name, later), UNCHANGED <<disk, loaded>>
  PROVE  /\ \A f \in Files \ {name[1]} : Fine(f)' <=> Fine(f)
         /\ disk[name[1]] \in Versions => Soon(name)' = disk'[name[1]]
         /\ \A f \in Files : f \notin missed' /\ f \in missed => f = name[1] /\ disk[f] \in Versions
<1>1. reading = NoFile /\ reading' = [name |-> name, content |-> disk[name[1]]] /\ reading'.name = name
      /\ reading'.content = disk[name[1]]
  BY DEF Read
<1>2. ASSUME NEW f \in Files \ {name[1]}
      PROVE  Fine(f)' <=> Fine(f)
  <2>1. \A n \in {ScanName(f), WatchName(f)} : n \in Names /\ n # name /\ n # NoFile.name
    BY NamesDiffer
  <2>2. ASSUME NEW n \in {ScanName(f), WatchName(f)} PROVE Soon(n)' = Soon(n)
    BY <1>1, <2>1, <2>2 DEF Soon
  <2>3. QED
    BY <2>2, FineStays
<1>3. ASSUME disk[name[1]] \in Versions
      PROVE  Soon(name)' = disk'[name[1]]
  BY <1>1, <1>3 DEF Soon, Committed
<1>4. \A f \in Files : f \notin missed' /\ f \in missed => f = name[1] /\ disk[f] \in Versions
  BY DEF Read
<1>5. QED
  BY <1>2, <1>3, <1>4

\* What is on record stays right: every step keeps, of each file, the last event or brings what it says.
LEMMA StepKeepsRecord ==
  ASSUME WatchInv, WatchTypeOK', [WatchNext]_watchVars
  PROVE  \A f \in Files \ missed' : Recorded(f)' => OnRecord(f)'
<1> USE DEF diskVars, kernelVars, watcherVars, configVars
<1>1. ASSUME NEW g \in Files, NEW content \in Contents, Change(g, content)
      PROVE  \A f \in Files \ missed' : Recorded(f)' => OnRecord(f)'
  <2> SUFFICES ASSUME NEW f \in Files \ missed', Recorded(f)' PROVE OnRecord(f)'
    OBVIOUS
  <2> DEFINE d == DirOf[g]
  <2>1. /\ disk' = [disk EXCEPT ![g] = content] /\ UNCHANGED <<open, batch, reading, loaded>>
    BY <1>1 DEF Change
  <2>2. PICK there \in BOOLEAN : Record(g, there) /\ there = (content # Gone)
    BY <1>1 DEF Change
  <2> DEFINE e == Event(g, there)
  <2>3. /\ e \in Events /\ e.file = g /\ e.there = there /\ <<e>> \in Seq(Events) /\ Mentioned(<<e>>) = {g}
        /\ Latest(<<e>>, g, there) /\ d \in Dirs /\ d = DirOf[g] /\ e = Event(g, there)
    <3>1. e \in Events /\ e.file = g /\ e.there = there
      BY EventsAreTyped
    <3>2. QED
      BY <3>1, ShortSequences, DirsAssumption
  <2>4. /\ disk \in [Files -> Contents] /\ completed \in [Dirs -> Seq(Events)] /\ kernel \in [Dirs -> Seq(Events)]
    BY DEF WatchInv, WatchTypeOK
  <2>5. \/ g \in missed' /\ completed' = completed /\ kernel' = kernel /\ missed \subseteq missed'
        \/ /\ d \in open /\ ~signaled[d] /\ missed' = missed
           /\ completed' = [completed EXCEPT ![d] = <<e>>] /\ kernel' = kernel
        \/ /\ d \in open /\ missed' = missed
           /\ kernel' = [kernel EXCEPT ![d] = Append(kernel[d], e)] /\ completed' = completed
        \/ /\ g \in missed' /\ Mentioned(kernel[d]) \subseteq missed' /\ missed \subseteq missed'
           /\ kernel' = [kernel EXCEPT ![d] = <<>>] /\ completed' = completed
    <3> DEFINE longer == Append(kernel[d], e)
    <3>1. \/ missed' = missed \cup {g} /\ completed' = completed /\ kernel' = kernel
          \/ /\ d \in open /\ ~signaled[d] /\ missed' = missed
             /\ completed' = [completed EXCEPT ![d] = <<e>>] /\ kernel' = kernel
          \/ /\ d \in open /\ missed' = missed
             /\ kernel' = [kernel EXCEPT ![d] = longer] /\ completed' = completed
          \/ /\ missed' = missed \cup Mentioned(kernel[d]) \cup {g}
             /\ kernel' = [kernel EXCEPT ![d] = <<>>] /\ completed' = completed
      <4>1. WatchTypeOK
        BY DEF WatchInv
      <4>2. QED
        BY <2>2, <4>1, RecordCases, Zenon DEF kernelVars
    <3> HIDE DEF longer
    <3>2. QED
      BY <3>1 DEF longer
  <2>6. f \notin missed /\ Recorded(f) /\ OnRecord(f)
    <3>1. f \notin missed
      BY <2>5
    <3>2. Recorded(f)
      BY <2>1 DEF Recorded
    <3>3. QED
      BY <3>1, <3>2 DEF WatchInv, RecordInv
  <2> HIDE DEF d, e
  <2>7. CASE DirOf[f] # d
    <3>1. f # g /\ disk'[f] = disk[f]
      BY <2>1, <2>3, <2>4, <2>7
    <3>2. DirOf[f] \in Dirs
      BY DirsAssumption
    <3>3. completed'[DirOf[f]] = completed[DirOf[f]]
      BY <2>4, <2>5, <2>7, <3>2
    <3>4. kernel'[DirOf[f]] = kernel[DirOf[f]]
      <4> DEFINE longer == Append(kernel[d], e)
      <4>1. kernel' = kernel \/ kernel' = [kernel EXCEPT ![d] = longer] \/ kernel' = [kernel EXCEPT ![d] = <<>>]
        BY <2>5, Zenon
      <4> HIDE DEF longer
      <4>2. QED
        BY <2>4, <2>7, <3>2, <4>1
    <3>5. QED
      BY <2>1, <2>6, <3>1, <3>3, <3>4, OnRecordStays
  <2>8. CASE DirOf[f] = d /\ f = g
    <3>1. disk'[f] = content /\ there = (disk'[f] # Gone)
      BY <2>1, <2>2, <2>4, <2>8
    <3>2. CASE d \in open /\ missed' = missed /\ completed' = [completed EXCEPT ![d] = <<e>>] /\ kernel' = kernel
               /\ ~signaled[d]
      <4>1. completed'[d] = <<e>> /\ kernel'[d] = <<>>
        BY <2>3, <2>4, <3>2 DEF WatchInv, KernelInv
      <4>2. QED
        BY <2>3, <2>8, <3>1, <4>1, ShortSequences, OnRecordPartsNext
    <3>3. CASE d \in open /\ missed' = missed /\ kernel' = [kernel EXCEPT ![d] = Append(kernel[d], e)]
               /\ completed' = completed
      <4>1. kernel[d] \in Seq(Events) /\ kernel'[d] = Append(kernel[d], e)
        BY <2>3, <2>4, <3>3
      <4>2. Append(kernel[d], e) = kernel[d] \o <<e>>
        BY <4>1
      <4>c. /\ Mentioned(kernel'[d]) = Mentioned(kernel[d]) \cup Mentioned(<<e>>)
            /\ \A x, th : Latest(kernel'[d], x, th) <=>
                           IF x \in Mentioned(<<e>>) THEN Latest(<<e>>, x, th) ELSE Latest(kernel[d], x, th)
        <5>1. /\ Mentioned(kernel[d] \o <<e>>) = Mentioned(kernel[d]) \cup Mentioned(<<e>>)
              /\ \A x, th : Latest(kernel[d] \o <<e>>, x, th) <=>
                             IF x \in Mentioned(<<e>>) THEN Latest(<<e>>, x, th) ELSE Latest(kernel[d], x, th)
          BY <2>3, <4>1, Concatenations, Zenon
        <5>2. kernel'[d] = kernel[d] \o <<e>>
          BY <4>1, <4>2, Zenon
        <5>3. QED
          BY <5>1, <5>2, Zenon
      <4>3. f \in Mentioned(kernel'[d]) /\ Latest(kernel'[d], f, there)
        BY <2>3, <2>8, <4>c
      <4>4. QED
        BY <2>8, <3>1, <4>3, OnRecordPartsNext
    <3>4. QED
      BY <2>5, <2>8, <3>2, <3>3
  <2>9. CASE DirOf[f] = d /\ f # g
    <3>0. PICK was : was = (disk[f] # Gone)
      OBVIOUS
    <3>1. disk'[f] = disk[f] /\ (Fine(f)' <=> Fine(f))
      BY <2>1, <2>4, <2>9, SoonStays, FineStays
    <3>2. IF f \in Mentioned(kernel[d]) THEN Latest(kernel[d], f, was)
          ELSE IF f \in Mentioned(completed[d]) THEN Latest(completed[d], f, was)
          ELSE IF f \in Mentioned(batch) THEN Latest(batch, f, was)
          ELSE Fine(f)
      BY <2>6, <2>9, <3>0, OnRecordParts DEF WatchInv
    <3>3. OnRecord(f)' <=>
            IF f \in Mentioned(kernel'[d]) THEN Latest(kernel'[d], f, was)
            ELSE IF f \in Mentioned(completed'[d]) THEN Latest(completed'[d], f, was)
            ELSE IF f \in Mentioned(batch) THEN Latest(batch, f, was)
            ELSE Fine(f)
      BY <2>1, <2>9, <3>0, <3>1, OnRecordPartsNext
    <3>4. CASE completed' = completed /\ kernel' = kernel
      BY <3>2, <3>3, <3>4
    <3>5. CASE ~signaled[d] /\ completed' = [completed EXCEPT ![d] = <<e>>] /\ kernel' = kernel
      <4>1. completed'[d] = <<e>> /\ kernel'[d] = <<>> /\ completed[d] = <<>> /\ kernel[d] = <<>>
        BY <2>3, <2>4, <3>5 DEF WatchInv, KernelInv
      <4>2. QED
        BY <2>3, <2>9, <3>2, <3>3, <4>1, ShortSequences
    <3>6. CASE kernel' = [kernel EXCEPT ![d] = Append(kernel[d], e)] /\ completed' = completed
      <4>1. kernel[d] \in Seq(Events) /\ kernel'[d] = Append(kernel[d], e)
        BY <2>3, <2>4, <3>6
      <4>2. Append(kernel[d], e) = kernel[d] \o <<e>>
        BY <4>1
      <4>c. /\ Mentioned(kernel'[d]) = Mentioned(kernel[d]) \cup Mentioned(<<e>>)
            /\ \A x, th : Latest(kernel'[d], x, th) <=>
                           IF x \in Mentioned(<<e>>) THEN Latest(<<e>>, x, th) ELSE Latest(kernel[d], x, th)
        <5>1. /\ Mentioned(kernel[d] \o <<e>>) = Mentioned(kernel[d]) \cup Mentioned(<<e>>)
              /\ \A x, th : Latest(kernel[d] \o <<e>>, x, th) <=>
                             IF x \in Mentioned(<<e>>) THEN Latest(<<e>>, x, th) ELSE Latest(kernel[d], x, th)
          BY <2>3, <4>1, Concatenations, Zenon
        <5>2. kernel'[d] = kernel[d] \o <<e>>
          BY <4>1, <4>2, Zenon
        <5>3. QED
          BY <5>1, <5>2, Zenon
      <4>3. /\ Mentioned(kernel'[d]) = Mentioned(kernel[d]) \cup {g}
            /\ Latest(kernel'[d], f, was) <=> Latest(kernel[d], f, was)
        BY <2>3, <2>9, <4>c
      <4>4. QED
        BY <2>9, <3>2, <3>3, <3>6, <4>3
    <3>7. CASE Mentioned(kernel[d]) \subseteq missed' /\ kernel' = [kernel EXCEPT ![d] = <<>>] /\ completed' = completed
      <4>1. kernel'[d] = <<>> /\ f \notin Mentioned(kernel[d])
        BY <2>3, <2>4, <3>7
      <4>2. QED
        BY <3>2, <3>3, <3>7, <4>1, ShortSequences
    <3>8. QED
      BY <2>5, <3>4, <3>5, <3>6, <3>7
  <2>10. QED
    BY <2>7, <2>8, <2>9
<1>2. ASSUME NEW d \in Dirs, NEW ok \in BOOLEAN, OpenDirectory(d, ok)
      PROVE  \A f \in Files \ missed' : Recorded(f)' => OnRecord(f)'
  <2> SUFFICES ASSUME NEW f \in Files \ missed', Recorded(f)' PROVE OnRecord(f)'
    OBVIOUS
  <2>1. disk' = disk /\ UNCHANGED <<batch, reading, loaded, completed, kernel, missed>> /\ open' \subseteq open \cup {d}
        /\ watcherPc = "open" /\ d \in toOpen
    BY <1>2 DEF OpenDirectory
  <2>2. (OnRecord(f)' <=> OnRecord(f)) /\ (DirOf[f] = d \/ Recorded(f))
    BY <2>1, OnRecordStays DEF Recorded
  <2>3. CASE Recorded(f)
    BY <2>1, <2>2, <2>3 DEF WatchInv, RecordInv
  <2>4. CASE DirOf[f] = d /\ ~Recorded(f)
    <3>1. Fine(f) /\ d \notin open /\ d \in Dirs /\ f \notin Mentioned(batch)
      BY <2>1, <2>4 DEF WatchInv, RescanInv, TurnsInv, Recorded
    <3>2. completed[d] = <<>> /\ kernel[d] = <<>>
      BY <3>1 DEF WatchInv, KernelInv
    <3>3. OnRecord(f)
      BY <2>4, <3>1, <3>2, ShortSequences, OnRecordParts DEF WatchInv
    <3>4. QED
      BY <2>2, <3>3
  <2>5. QED
    BY <2>2, <2>3, <2>4
<1>3. ASSUME NEW d \in Dirs, NEW ok \in BOOLEAN, Drain(d, ok)
      PROVE  \A f \in Files \ missed' : Recorded(f)' => OnRecord(f)'
  <2> SUFFICES ASSUME NEW f \in Files \ missed', Recorded(f)' PROVE OnRecord(f)'
    OBVIOUS
  <2>1. /\ batch' = MergeChanges(batch, completed[d]) /\ UNCHANGED <<disk, reading, loaded>>
        /\ completed' = [completed EXCEPT ![d] = IF ok THEN kernel[d] ELSE <<>>]
        /\ kernel' = [kernel EXCEPT ![d] = <<>>]
        /\ missed' = IF ok THEN missed ELSE missed \cup Mentioned(kernel[d])
        /\ d \in open /\ open' \subseteq open
    BY <1>3 DEF Drain
  <2>2. /\ Mentioned(batch') = Mentioned(batch) \cup Mentioned(completed[d])
        /\ \A there : f \in Mentioned(completed[d]) /\ Latest(completed[d], f, there) => Latest(batch', f, there)
        /\ \A there : f \notin Mentioned(completed[d]) /\ Latest(batch, f, there) => Latest(batch', f, there)
    BY <2>1, MergeAll DEF WatchInv, WatchTypeOK, TurnsInv
  <2>3. f \in Mentioned(completed[d]) => DirOf[f] = d
    BY DEF WatchInv, WatchTypeOK, FilesIn
  <2>4. f \notin missed /\ Recorded(f) /\ OnRecord(f)
    <3>1. f \notin missed
      BY <2>1
    <3>2. Recorded(f)
      BY <2>1, <2>2, <2>3 DEF Recorded
    <3>3. QED
      BY <3>1, <3>2 DEF WatchInv, RecordInv
  <2>5. PICK there : there = (disk[f] # Gone)
    OBVIOUS
  <2>6. IF f \in Mentioned(kernel[DirOf[f]]) THEN Latest(kernel[DirOf[f]], f, there)
        ELSE IF f \in Mentioned(completed[DirOf[f]]) THEN Latest(completed[DirOf[f]], f, there)
        ELSE IF f \in Mentioned(batch) THEN Latest(batch, f, there)
        ELSE Fine(f)
    BY <2>4, <2>5, OnRecordParts DEF WatchInv
  <2>7. disk'[f] = disk[f] /\ (Fine(f)' <=> Fine(f))
    BY <2>1, SoonStays, FineStays
  <2>8. OnRecord(f)' <=>
          IF f \in Mentioned(kernel'[DirOf[f]]) THEN Latest(kernel'[DirOf[f]], f, there)
          ELSE IF f \in Mentioned(completed'[DirOf[f]]) THEN Latest(completed'[DirOf[f]], f, there)
          ELSE IF f \in Mentioned(batch') THEN Latest(batch', f, there)
          ELSE Fine(f)
    BY <2>5, <2>7, OnRecordPartsNext
  <2>9. CASE DirOf[f] # d
    <3>1. kernel'[DirOf[f]] = kernel[DirOf[f]] /\ completed'[DirOf[f]] = completed[DirOf[f]]
      BY <2>1, <2>9, DirsAssumption DEF WatchInv, WatchTypeOK
    <3>2. QED
      BY <2>2, <2>3, <2>6, <2>8, <2>9, <3>1
  <2>10. CASE DirOf[f] = d
    <3>1. /\ kernel'[d] = <<>> /\ (ok => completed'[d] = kernel[d])
          /\ (~ok => completed'[d] = <<>> /\ f \notin Mentioned(kernel[d]))
      BY <2>1 DEF WatchInv, WatchTypeOK
    <3>2. QED
      BY <2>2, <2>6, <2>8, <2>10, <3>1, ShortSequences
  <2>11. QED
    BY <2>9, <2>10
<1>4. ASSUME Opened
      PROVE  \A f \in Files \ missed' : Recorded(f)' => OnRecord(f)'
  <2> SUFFICES ASSUME NEW f \in Files \ missed', Recorded(f)' PROVE OnRecord(f)'
    OBVIOUS
  <2>1. disk' = disk /\ UNCHANGED <<batch, reading, loaded, completed, kernel, open>> /\ f \notin missed
    BY <1>4 DEF Opened
  <2>2. (OnRecord(f)' <=> OnRecord(f)) /\ Recorded(f)
    BY <2>1, OnRecordStays DEF Recorded
  <2>3. QED
    BY <2>1, <2>2 DEF WatchInv, RecordInv
<1>5. ASSUME DebounceEnds
      PROVE  \A f \in Files \ missed' : Recorded(f)' => OnRecord(f)'
  <2> SUFFICES ASSUME NEW f \in Files \ missed', Recorded(f)' PROVE OnRecord(f)'
    OBVIOUS
  <2>1. disk' = disk /\ UNCHANGED <<batch, reading, loaded, completed, kernel, open>> /\ f \notin missed
    BY <1>5 DEF DebounceEnds
  <2>2. (OnRecord(f)' <=> OnRecord(f)) /\ Recorded(f)
    BY <2>1, OnRecordStays DEF Recorded
  <2>3. QED
    BY <2>1, <2>2 DEF WatchInv, RecordInv
<1>6. ASSUME ApplyUnload
      PROVE  \A f \in Files \ missed' : Recorded(f)' => OnRecord(f)'
  <2> SUFFICES ASSUME NEW f \in Files \ missed', Recorded(f)' PROVE OnRecord(f)'
    OBVIOUS
  <2> DEFINE h == Head(batch)
  <2>1. /\ batch # <<>> /\ batch' = Tail(batch) /\ UNCHANGED <<disk, completed, kernel, open, missed>>
        /\ reading = NoFile /\ reading' = NoFile /\ ~h.there
        /\ loaded' = [loaded EXCEPT ![WatchName(h.file)] = Gone]
    BY <1>6 DEF ApplyUnload
  <2>2. h.file \in Files /\ Mentioned(batch) = {h.file} \cup Mentioned(batch')
    BY <2>1, HeadAndTail, EventsAreTyped DEF WatchInv, WatchTypeOK, TurnsInv
  <2>3. Recorded(f) /\ OnRecord(f)
    BY <2>1, <2>2 DEF Recorded, WatchInv, RecordInv
  <2> HIDE DEF h
  <2>4. ASSUME f # h.file PROVE Fine(f)' <=> Fine(f)
    <3>1. \A n \in {ScanName(f), WatchName(f)} : n \in Names /\ n # WatchName(h.file)
      BY <2>2, <2>4, NamesDiffer
    <3>2. \A n \in {ScanName(f), WatchName(f)} : loaded'[n] = loaded[n]
      BY <2>1, <3>1 DEF WatchInv, WatchTypeOK
    <3>3. QED
      BY <2>1, <3>2, SoonStays, FineStays
  <2>5. ASSUME f = h.file, (disk[f] # Gone) = h.there PROVE Fine(f)'
    <3>1. disk'[f] = Gone /\ WatchName(f) \in Names /\ WatchName(f) # NoFile.name
      BY <2>1, <2>5, NamesDiffer
    <3>2. loaded'[WatchName(f)] = Gone
      BY <2>1, <2>5, <3>1 DEF WatchInv, WatchTypeOK
    <3>3. Soon(WatchName(f))' = Gone
      BY <2>1, <3>1, <3>2 DEF Soon
    <3>4. QED
      BY <3>1, <3>3 DEF Fine, UpToDate
  <2>6. QED
    BY <2>1, <2>3, <2>4, <2>5, HeadIsApplied DEF WatchInv, h
<1>7. ASSUME ApplyParse
      PROVE  \A f \in Files \ missed' : Recorded(f)' => OnRecord(f)'
  <2> SUFFICES ASSUME NEW f \in Files \ missed', Recorded(f)' PROVE OnRecord(f)'
    OBVIOUS
  <2>0. batch # <<>> /\ Head(batch) \in Events
    <3>1. batch # <<>>
      BY <1>7 DEF ApplyParse
    <3>2. QED
      BY <3>1, HeadAndTail DEF WatchInv, WatchTypeOK, TurnsInv
  <2>h. PICK h \in Events : h = Head(batch)
    BY <2>0
  <2>n. PICK name : name = WatchName(h.file)
    OBVIOUS
  <2>1. /\ batch # <<>> /\ batch' = Tail(batch) /\ UNCHANGED <<disk, completed, kernel, open, loaded>>
        /\ h.there /\ Read(name, Tail(batch))
    BY <1>7, <2>h, <2>n DEF ApplyParse
  <2>2. /\ h \in Events /\ h.file \in Files /\ Mentioned(batch) = {h.file} \cup Mentioned(batch')
        /\ h.file \notin Mentioned(batch') /\ Tail(batch) \in Seq(Events)
    BY <2>1, <2>h, HeadAndTail, EventsAreTyped DEF WatchInv, WatchTypeOK, TurnsInv
  <2>3. name \in Names /\ name[1] = h.file
    BY <2>2, <2>n, NamesDiffer
  <2>4. /\ \A g \in Files \ {h.file} : Fine(g)' <=> Fine(g)
        /\ disk[h.file] \in Versions => Soon(name)' = disk'[h.file]
        /\ \A g \in Files : g \notin missed' /\ g \in missed => g = h.file /\ disk[g] \in Versions
    BY <2>1, <2>3, ReadIsSoon DEF WatchInv
  <2>5. disk[h.file] # Gone => Fine(h.file)'
    <3>1. disk[h.file] \in Versions => Fine(h.file)'
      BY <2>n, <2>4 DEF Fine, UpToDate
    <3>2. disk' = disk
      BY <2>1
    <3>3. disk[h.file] # Gone /\ disk[h.file] \notin Versions => Fine(h.file)'
      BY <3>2 DEF Fine, Stable
    <3>4. QED
      BY <3>1, <3>3
  <2>6. CASE f \notin missed
    <3>1. Recorded(f) /\ OnRecord(f)
      BY <2>1, <2>2, <2>6 DEF Recorded, WatchInv, RecordInv
    <3>2. f # h.file => (Fine(f)' <=> Fine(f))
      BY <2>4
    <3>3. f = h.file /\ (disk[f] # Gone) = h.there => Fine(f)'
      BY <2>1, <2>5
    <3>4. QED
      BY <2>1, <3>1, <3>2, <3>3, <2>h, HeadIsApplied DEF WatchInv
  <2>7. CASE f \in missed
    <3>1. f = h.file /\ disk[f] \in Versions
      BY <2>4, <2>7
    <3>2. f \notin Mentioned(Tail(batch) \o completed[DirOf[f]] \o kernel[DirOf[f]])
      BY <2>1, <2>3, <2>7, <3>1 DEF Read
    <3>3. completed[DirOf[f]] \in Seq(Events) /\ kernel[DirOf[f]] \in Seq(Events)
      BY DirsAssumption DEF WatchInv, WatchTypeOK
    <3>4. f \notin Mentioned(completed[DirOf[f]]) /\ f \notin Mentioned(kernel[DirOf[f]])
      <4>1. Mentioned(Tail(batch) \o completed[DirOf[f]] \o kernel[DirOf[f]])
              = Mentioned(Tail(batch)) \cup Mentioned(completed[DirOf[f]]) \cup Mentioned(kernel[DirOf[f]])
        <5>1. PICK rest \in Seq(Events), c \in Seq(Events), k \in Seq(Events) :
                     rest = Tail(batch) /\ c = completed[DirOf[f]] /\ k = kernel[DirOf[f]]
          BY <2>2, <3>3
        <5>2. Mentioned(rest \o c \o k) = Mentioned(rest) \cup Mentioned(c) \cup Mentioned(k)
          BY LastOfThree
        <5>3. QED
          BY <5>1, <5>2
      <4>2. QED
        BY <3>2, <4>1
    <3>5. Fine(f)' /\ f \notin Mentioned(batch')
      BY <2>2, <2>5, <3>1, ContentsAssumption
    <3>6. f \notin Mentioned(completed'[DirOf[f]]) /\ f \notin Mentioned(kernel'[DirOf[f]])
      BY <2>1, <3>4
    <3>7. QED
      BY <3>5, <3>6, OnRecordPartsNext
  <2>8. QED
    BY <2>6, <2>7
<1>8. ASSUME Applied
      PROVE  \A f \in Files \ missed' : Recorded(f)' => OnRecord(f)'
  <2> SUFFICES ASSUME NEW f \in Files \ missed', Recorded(f)' PROVE OnRecord(f)'
    OBVIOUS
  <2>1. disk' = disk /\ UNCHANGED <<batch, reading, loaded, completed, kernel, open>> /\ f \notin missed
    BY <1>8 DEF Applied
  <2>2. (OnRecord(f)' <=> OnRecord(f)) /\ Recorded(f)
    BY <2>1, OnRecordStays DEF Recorded
  <2>3. QED
    BY <2>1, <2>2 DEF WatchInv, RecordInv
<1>9. ASSUME Exit
      PROVE  \A f \in Files \ missed' : Recorded(f)' => OnRecord(f)'
  <2>1. batch = <<>> /\ open' = {} /\ batch' = batch
    BY <1>9 DEF Exit, WatchInv, TurnsInv
  <2>2. Mentioned(batch') = {}
    BY <2>1, ShortSequences
  <2>3. QED
    BY <2>1, <2>2 DEF Recorded
<1>10. ASSUME Commit
       PROVE  \A f \in Files \ missed' : Recorded(f)' => OnRecord(f)'
  <2> SUFFICES ASSUME NEW f \in Files \ missed', Recorded(f)' PROVE OnRecord(f)'
    OBVIOUS
  <2>1. disk' = disk /\ UNCHANGED <<batch, completed, kernel, open, missed>> /\ (\A n \in Names : Soon(n)' = Soon(n))
    BY <1>10, CommitIsSoon DEF Commit, WatchInv
  <2>2. Fine(f)' <=> Fine(f)
    BY <2>1, NamesDiffer, FineStays
  <2>3. Recorded(f) /\ OnRecord(f)
    BY <2>1 DEF Recorded, WatchInv, RecordInv
  <2>4. QED
    BY <2>1, <2>2, <2>3, OnRecordParts, OnRecordPartsNext DEF WatchInv
<1>11. ASSUME Join
       PROVE  \A f \in Files \ missed' : Recorded(f)' => OnRecord(f)'
  <2> SUFFICES ASSUME NEW f \in Files \ missed', Recorded(f)' PROVE OnRecord(f)'
    OBVIOUS
  <2>1. disk' = disk /\ UNCHANGED <<batch, reading, loaded, completed, kernel, open>> /\ f \notin missed
    BY <1>11 DEF Join
  <2>2. (OnRecord(f)' <=> OnRecord(f)) /\ Recorded(f)
    BY <2>1, OnRecordStays DEF Recorded
  <2>3. QED
    BY <2>1, <2>2 DEF WatchInv, RecordInv
<1>12. ASSUME NEW d \in Dirs, Scan(d)
       PROVE  \A f \in Files \ missed' : Recorded(f)' => OnRecord(f)'
  <2>1. watcherPc = "off" /\ open = {} /\ batch = <<>> /\ open' = open /\ batch' = batch
    BY <1>12 DEF Scan, WatchInv, TurnsInv
  <2>2. Mentioned(batch') = {}
    BY <2>1, ShortSequences
  <2>3. QED
    BY <2>1, <2>2 DEF Recorded
<1>13. ASSUME Scanned
       PROVE  \A f \in Files \ missed' : Recorded(f)' => OnRecord(f)'
  <2>1. watcherPc = "off" /\ open = {} /\ batch = <<>> /\ open' = open /\ batch' = batch
    BY <1>13 DEF Scanned, WatchInv, TurnsInv
  <2>2. Mentioned(batch') = {}
    BY <2>1, ShortSequences
  <2>3. QED
    BY <2>1, <2>2 DEF Recorded
<1>14. ASSUME NEW name \in Names, ParseListed(name)
       PROVE  \A f \in Files \ missed' : Recorded(f)' => OnRecord(f)'
  <2>1. watcherPc = "off" /\ open = {} /\ batch = <<>> /\ open' = open /\ batch' = batch
    BY <1>14 DEF ParseListed, WatchInv, TurnsInv
  <2>2. Mentioned(batch') = {}
    BY <2>1, ShortSequences
  <2>3. QED
    BY <2>1, <2>2 DEF Recorded
<1>15. ASSUME Start
       PROVE  \A f \in Files \ missed' : Recorded(f)' => OnRecord(f)'
  <2> SUFFICES ASSUME NEW f \in Files \ missed', Recorded(f)' PROVE OnRecord(f)'
    OBVIOUS
  <2>1. disk' = disk /\ UNCHANGED <<batch, reading, loaded, completed, kernel, open>> /\ f \notin missed
    BY <1>15 DEF Start
  <2>2. (OnRecord(f)' <=> OnRecord(f)) /\ Recorded(f)
    BY <2>1, OnRecordStays DEF Recorded
  <2>3. QED
    BY <2>1, <2>2 DEF WatchInv, RecordInv
<1>16. ASSUME NEW dirs \in SUBSET Dirs, Reconfigure(dirs)
       PROVE  \A f \in Files \ missed' : Recorded(f)' => OnRecord(f)'
  <2> SUFFICES ASSUME NEW f \in Files \ missed', Recorded(f)' PROVE OnRecord(f)'
    OBVIOUS
  <2>1. disk' = disk /\ UNCHANGED <<batch, reading, loaded, completed, kernel, open>> /\ f \notin missed
    BY <1>16 DEF Reconfigure
  <2>2. (OnRecord(f)' <=> OnRecord(f)) /\ Recorded(f)
    BY <2>1, OnRecordStays DEF Recorded
  <2>3. QED
    BY <2>1, <2>2 DEF WatchInv, RecordInv
<1>17. CASE UNCHANGED watchVars
  <2> SUFFICES ASSUME NEW f \in Files \ missed', Recorded(f)' PROVE OnRecord(f)'
    OBVIOUS
  <2>1. disk' = disk /\ UNCHANGED <<batch, reading, loaded, completed, kernel, open>> /\ f \notin missed
    BY <1>17 DEF watchVars
  <2>2. (OnRecord(f)' <=> OnRecord(f)) /\ Recorded(f)
    BY <2>1, OnRecordStays DEF Recorded
  <2>3. QED
    BY <2>1, <2>2 DEF WatchInv, RecordInv
<1>18. QED
  BY <1>1, <1>2, <1>3, <1>4, <1>5, <1>6, <1>7, <1>8, <1>9, <1>10, <1>11, <1>12,
     <1>13, <1>14, <1>15, <1>16, <1>17
     DEF WatchNext, EditorStep, WatcherStep, ConfigStep

\* A rescan and the opening of directories miss nothing that is not in the history, after every step.
LEMMA StepKeepsRescan ==
  ASSUME WatchInv, WatchTypeOK', [WatchNext]_watchVars
  PROVE  RescanInv'
<1> USE DEF diskVars, kernelVars, watcherVars, configVars
<1>1. ASSUME NEW g \in Files, NEW content \in Contents, Change(g, content)
      PROVE  RescanInv'
  <2> SUFFICES ASSUME NEW f \in Files \ missed'
               PROVE  /\ DirOf[f] \in toOpen' => Fine(f)'
                      /\ configPc' = "scan" /\ DirOf[f] \in configured' \ toScan' =>
                           (ScanName(f) \in toParse' <=> disk'[f] # Gone)
                      /\ configPc' = "parse" /\ DirOf[f] \in configured' =>
                           IF ScanName(f) \in toParse' THEN disk'[f] # Gone ELSE Fine(f)'
    BY DEF RescanInv
  <2>1. /\ UNCHANGED <<reading, loaded, configured, toScan, toParse, configPc, toOpen, open>>
        /\ disk' = [disk EXCEPT ![g] = content]
    BY <1>1 DEF Change
  <2>2. PICK there \in BOOLEAN : Record(g, there)
    BY <1>1 DEF Change
  <2>3. missed \subseteq missed' /\ (DirOf[g] \notin open => g \in missed')
    <3>1. WatchTypeOK
      BY DEF WatchInv
    <3>2. missed \subseteq missed'
      BY <2>2, <3>1, RecordCases
    <3>3. DirOf[g] \notin open => g \in missed'
      BY <2>2, <3>1, RecordCases
    <3>4. QED
      BY <3>2, <3>3
  <2>4. CASE f = g
    <3>1. DirOf[f] \in open
      BY <2>3, <2>4
    <3>2. DirOf[f] \notin toOpen' /\ configPc' \notin {"scan", "parse"}
      BY <2>1, <3>1 DEF WatchInv, TurnsInv
    <3>3. QED
      BY <3>2
  <2>5. CASE f # g
    <3>1. disk'[f] = disk[f] /\ f \notin missed
      BY <2>1, <2>3, <2>5 DEF WatchInv, WatchTypeOK
    <3>2. Fine(f)' <=> Fine(f)
      BY <2>1, <3>1, SoonStays, FineStays
    <3>3. QED
      BY <2>1, <3>1, <3>2 DEF WatchInv, RescanInv
  <2>6. QED
    BY <2>4, <2>5
<1>2. ASSUME NEW d \in Dirs, NEW ok \in BOOLEAN, OpenDirectory(d, ok)
      PROVE  RescanInv'
  <2> SUFFICES ASSUME NEW f \in Files \ missed'
               PROVE  /\ DirOf[f] \in toOpen' => Fine(f)'
                      /\ configPc' = "scan" /\ DirOf[f] \in configured' \ toScan' =>
                           (ScanName(f) \in toParse' <=> disk'[f] # Gone)
                      /\ configPc' = "parse" /\ DirOf[f] \in configured' =>
                           IF ScanName(f) \in toParse' THEN disk'[f] # Gone ELSE Fine(f)'
    BY DEF RescanInv
  <2>1. /\ UNCHANGED <<disk, reading, loaded, missed, configured, toScan, toParse, configPc>>
        /\ toOpen' \subseteq toOpen
    BY <1>2 DEF OpenDirectory
  <2>2. Fine(f)' <=> Fine(f)
    BY <2>1, SoonStays, FineStays
  <2>3. QED
    BY <2>1, <2>2 DEF WatchInv, RescanInv
<1>3. ASSUME NEW d \in Dirs, NEW ok \in BOOLEAN, Drain(d, ok)
      PROVE  RescanInv'
  <2>1. toOpen' = {} /\ configPc' \notin {"scan", "parse"}
    BY <1>3 DEF Drain, WatchInv, TurnsInv
  <2>2. QED
    BY <2>1 DEF RescanInv
<1>4. ASSUME Opened
      PROVE  RescanInv'
  <2>1. toOpen' = {} /\ configPc' \notin {"scan", "parse"}
    BY <1>4 DEF Opened, WatchInv, TurnsInv
  <2>2. QED
    BY <2>1 DEF RescanInv
<1>5. ASSUME DebounceEnds
      PROVE  RescanInv'
  <2>1. toOpen' = {} /\ configPc' \notin {"scan", "parse"}
    BY <1>5 DEF DebounceEnds, WatchInv, TurnsInv
  <2>2. QED
    BY <2>1 DEF RescanInv
<1>6. ASSUME ApplyUnload
      PROVE  RescanInv'
  <2>1. toOpen' = {} /\ configPc' \notin {"scan", "parse"}
    BY <1>6 DEF ApplyUnload, WatchInv, TurnsInv
  <2>2. QED
    BY <2>1 DEF RescanInv
<1>7. ASSUME ApplyParse
      PROVE  RescanInv'
  <2>1. toOpen' = {} /\ configPc' \notin {"scan", "parse"}
    BY <1>7 DEF ApplyParse, WatchInv, TurnsInv
  <2>2. QED
    BY <2>1 DEF RescanInv
<1>8. ASSUME Applied
      PROVE  RescanInv'
  <2>1. toOpen' = {} /\ configPc' \notin {"scan", "parse"}
    BY <1>8 DEF Applied, WatchInv, TurnsInv
  <2>2. QED
    BY <2>1 DEF RescanInv
<1>9. ASSUME Exit
      PROVE  RescanInv'
  <2>1. toOpen' = {} /\ configPc' \notin {"scan", "parse"}
    BY <1>9 DEF Exit, WatchInv, TurnsInv
  <2>2. QED
    BY <2>1 DEF RescanInv
<1>10. ASSUME Commit
       PROVE  RescanInv'
  <2> SUFFICES ASSUME NEW f \in Files \ missed'
               PROVE  /\ DirOf[f] \in toOpen' => Fine(f)'
                      /\ configPc' = "scan" /\ DirOf[f] \in configured' \ toScan' =>
                           (ScanName(f) \in toParse' <=> disk'[f] # Gone)
                      /\ configPc' = "parse" /\ DirOf[f] \in configured' =>
                           IF ScanName(f) \in toParse' THEN disk'[f] # Gone ELSE Fine(f)'
    BY DEF RescanInv
  <2>1. UNCHANGED <<disk, missed, configured, toScan, toParse, configPc, toOpen>> /\ \A n \in Names : Soon(n)' = Soon(n)
    BY <1>10, CommitIsSoon DEF Commit, WatchInv
  <2>2. Fine(f)' <=> Fine(f)
    BY <2>1, NamesDiffer, FineStays
  <2>3. QED
    BY <2>1, <2>2 DEF WatchInv, RescanInv
<1>11. ASSUME Join
       PROVE  RescanInv'
  <2>1. toOpen' = {} /\ configPc' = "scan" /\ configured' \ toScan' = {}
    BY <1>11 DEF Join, WatchInv, TurnsInv
  <2>2. QED
    BY <2>1 DEF RescanInv
<1>12. ASSUME NEW d \in Dirs, Scan(d)
       PROVE  RescanInv'
  <2> SUFFICES ASSUME NEW f \in Files \ missed'
               PROVE  /\ DirOf[f] \in toOpen' => Fine(f)'
                      /\ configPc' = "scan" /\ DirOf[f] \in configured' \ toScan' =>
                           (ScanName(f) \in toParse' <=> disk'[f] # Gone)
                      /\ configPc' = "parse" /\ DirOf[f] \in configured' =>
                           IF ScanName(f) \in toParse' THEN disk'[f] # Gone ELSE Fine(f)'
    BY DEF RescanInv
  <2>1. /\ toOpen' = {} /\ configPc = "scan" /\ configPc' = "scan" /\ UNCHANGED <<disk, configured>> /\ d \in toScan
        /\ toScan' = toScan \ {d} /\ missed' = missed \ {g \in FilesIn(d) : disk[g] = Gone}
        /\ toParse' = toParse \cup {ScanName(g) : g \in {h \in FilesIn(d) : disk[h] # Gone}}
    BY <1>12 DEF Scan, WatchInv, TurnsInv
  <2>2. ScanName(f) \in toParse' <=> (ScanName(f) \in toParse \/ (DirOf[f] = d /\ disk[f] # Gone))
    <3>1. \A g \in Files : ScanName(g) = ScanName(f) => g = f
      BY NamesDiffer
    <3>2. QED
      BY <2>1, <3>1 DEF FilesIn
  <2>3. CASE DirOf[f] = d
    <3>1. ScanName(f) \notin toParse
      BY <2>1, <2>3, NamesDiffer DEF WatchInv, TurnsInv
    <3>2. QED
      BY <2>1, <2>2, <2>3, <3>1
  <2>4. CASE DirOf[f] # d
    <3>1. f \notin missed
      BY <2>1, <2>4 DEF FilesIn
    <3>2. QED
      BY <2>1, <2>2, <2>4, <3>1 DEF WatchInv, RescanInv
  <2>5. QED
    BY <2>3, <2>4
<1>13. ASSUME Scanned
       PROVE  RescanInv'
  <2> SUFFICES ASSUME NEW f \in Files \ missed'
               PROVE  /\ DirOf[f] \in toOpen' => Fine(f)'
                      /\ configPc' = "scan" /\ DirOf[f] \in configured' \ toScan' =>
                           (ScanName(f) \in toParse' <=> disk'[f] # Gone)
                      /\ configPc' = "parse" /\ DirOf[f] \in configured' =>
                           IF ScanName(f) \in toParse' THEN disk'[f] # Gone ELSE Fine(f)'
    BY DEF RescanInv
  <2>1. /\ toOpen' = {} /\ configPc = "scan" /\ configPc' = "parse" /\ UNCHANGED <<disk, configured, toParse, missed>>
        /\ toScan = {} /\ loaded' = UnloadUnlisted(toParse) /\ reading = NoFile /\ reading' = reading
    BY <1>13 DEF Scanned, WatchInv, TurnsInv
  <2>2. DirOf[f] \in configured => (ScanName(f) \in toParse <=> disk[f] # Gone)
    BY <2>1 DEF WatchInv, RescanInv
  <2>3. ASSUME ScanName(f) \notin toParse, disk[f] = Gone PROVE Fine(f)'
    <3>1. ScanName(f) \in Names /\ ScanName(f) # NoFile.name
      BY NamesDiffer
    <3>2. loaded'[ScanName(f)] = Gone
      BY <2>1, <2>3, <3>1 DEF UnloadUnlisted
    <3>3. Soon(ScanName(f))' = Gone /\ disk'[f] = Gone
      BY <2>1, <2>3, <3>1, <3>2 DEF Soon
    <3>4. QED
      BY <3>3 DEF Fine, UpToDate
  <2>4. QED
    BY <2>1, <2>2, <2>3
<1>14. ASSUME NEW name \in Names, ParseListed(name)
       PROVE  RescanInv'
  <2> SUFFICES ASSUME NEW f \in Files \ missed'
               PROVE  /\ DirOf[f] \in toOpen' => Fine(f)'
                      /\ configPc' = "scan" /\ DirOf[f] \in configured' \ toScan' =>
                           (ScanName(f) \in toParse' <=> disk'[f] # Gone)
                      /\ configPc' = "parse" /\ DirOf[f] \in configured' =>
                           IF ScanName(f) \in toParse' THEN disk'[f] # Gone ELSE Fine(f)'
    BY DEF RescanInv
  <2>1. /\ toOpen' = {} /\ configPc = "parse" /\ configPc' = "parse" /\ UNCHANGED <<disk, configured, loaded>>
        /\ name \in toParse /\ toParse' = toParse \ {name} /\ Read(name, batch)
    BY <1>14 DEF ParseListed, WatchInv, TurnsInv
  <2>2. PICK g \in Files : name = ScanName(g) /\ name[1] = g
    BY <2>1, NamesDiffer DEF WatchInv, TurnsInv
  <2>3. /\ \A h \in Files \ {g} : Fine(h)' <=> Fine(h)
        /\ disk[g] \in Versions => Soon(name)' = disk'[g]
        /\ \A h \in Files : h \notin missed' /\ h \in missed => h = g /\ disk[h] \in Versions
    BY <2>1, <2>2, ReadIsSoon DEF WatchInv
  <2>4. CASE f = g
    <3>1. ScanName(f) \notin toParse'
      BY <2>1, <2>2, <2>4
    <3>2. disk[f] \in Versions => Fine(f)'
      BY <2>2, <2>3, <2>4 DEF Fine, UpToDate
    <3>3. disk[f] # Gone /\ disk[f] \notin Versions => Fine(f)'
      BY <2>1 DEF Fine, Stable
    <3>4. DirOf[f] \in configured => disk[f] # Gone \/ disk[f] \in Versions
      <4>1. CASE f \in missed
        BY <2>3, <4>1
      <4>2. CASE f \notin missed
        BY <2>1, <2>2, <2>4, <4>2 DEF WatchInv, RescanInv
      <4>3. QED
        BY <4>1, <4>2
    <3>5. QED
      BY <2>1, <3>1, <3>2, <3>3, <3>4
  <2>5. CASE f # g
    <3>1. f \notin missed /\ (Fine(f)' <=> Fine(f))
      BY <2>3, <2>5
    <3>2. ScanName(f) \in toParse' <=> ScanName(f) \in toParse
      BY <2>1, <2>2, <2>5, NamesDiffer
    <3>3. QED
      BY <2>1, <3>1, <3>2 DEF WatchInv, RescanInv
  <2>6. QED
    BY <2>4, <2>5
<1>15. ASSUME Start
       PROVE  RescanInv'
  <2> SUFFICES ASSUME NEW f \in Files \ missed'
               PROVE  /\ DirOf[f] \in toOpen' => Fine(f)'
                      /\ configPc' = "scan" /\ DirOf[f] \in configured' \ toScan' =>
                           (ScanName(f) \in toParse' <=> disk'[f] # Gone)
                      /\ configPc' = "parse" /\ DirOf[f] \in configured' =>
                           IF ScanName(f) \in toParse' THEN disk'[f] # Gone ELSE Fine(f)'
    BY DEF RescanInv
  <2>1. /\ configPc = "parse" /\ configPc' = "idle" /\ toParse = {} /\ toOpen' = configured
        /\ UNCHANGED <<disk, reading, loaded, missed>>
    BY <1>15 DEF Start
  <2>2. Fine(f)' <=> Fine(f)
    BY <2>1, SoonStays, FineStays
  <2>3. QED
    BY <2>1, <2>2 DEF WatchInv, RescanInv
<1>16. ASSUME NEW dirs \in SUBSET Dirs, Reconfigure(dirs)
       PROVE  RescanInv'
  <2> SUFFICES ASSUME NEW f \in Files \ missed'
               PROVE  /\ DirOf[f] \in toOpen' => Fine(f)'
                      /\ configPc' = "scan" /\ DirOf[f] \in configured' \ toScan' =>
                           (ScanName(f) \in toParse' <=> disk'[f] # Gone)
                      /\ configPc' = "parse" /\ DirOf[f] \in configured' =>
                           IF ScanName(f) \in toParse' THEN disk'[f] # Gone ELSE Fine(f)'
    BY DEF RescanInv
  <2>1. configPc' = "stopping" /\ UNCHANGED <<disk, reading, loaded, missed, toOpen>>
    BY <1>16 DEF Reconfigure
  <2>2. Fine(f)' <=> Fine(f)
    BY <2>1, SoonStays, FineStays
  <2>3. QED
    BY <2>1, <2>2 DEF WatchInv, RescanInv
<1>17. CASE UNCHANGED watchVars
  <2> SUFFICES ASSUME NEW f \in Files \ missed'
               PROVE  /\ DirOf[f] \in toOpen' => Fine(f)'
                      /\ configPc' = "scan" /\ DirOf[f] \in configured' \ toScan' =>
                           (ScanName(f) \in toParse' <=> disk'[f] # Gone)
                      /\ configPc' = "parse" /\ DirOf[f] \in configured' =>
                           IF ScanName(f) \in toParse' THEN disk'[f] # Gone ELSE Fine(f)'
    BY DEF RescanInv
  <2>1. /\ UNCHANGED <<disk, reading, loaded, missed, configured, toScan, toParse, configPc>>
        /\ toOpen' \subseteq toOpen
    BY <1>17 DEF watchVars
  <2>2. Fine(f)' <=> Fine(f)
    BY <2>1, SoonStays, FineStays
  <2>3. QED
    BY <2>1, <2>2 DEF WatchInv, RescanInv
<1>18. QED
  BY <1>1, <1>2, <1>3, <1>4, <1>5, <1>6, <1>7, <1>8, <1>9, <1>10, <1>11, <1>12,
     <1>13, <1>14, <1>15, <1>16, <1>17
     DEF WatchNext, EditorStep, WatcherStep, ConfigStep

\* Every step keeps to the configured directories.
LEMMA StepKeepsConfigured ==
  ASSUME WatchInv, [WatchNext]_watchVars
  PROVE  ConfiguredInv'
<1> USE DEF diskVars, kernelVars, watcherVars, configVars
<1>1. ASSUME NEW g \in Files, NEW content \in Contents, Change(g, content)
      PROVE  ConfiguredInv'
  BY <1>1 DEF Change, WatchInv, WatchTypeOK, TurnsInv, ConfiguredInv, Mentioned
<1>2. ASSUME NEW d \in Dirs, NEW ok \in BOOLEAN, OpenDirectory(d, ok)
      PROVE  ConfiguredInv'
  BY <1>2 DEF OpenDirectory, WatchInv, WatchTypeOK, TurnsInv, ConfiguredInv, Mentioned
<1>3. ASSUME NEW d \in Dirs, NEW ok \in BOOLEAN, Drain(d, ok)
      PROVE  ConfiguredInv'
  <2>1. Mentioned(batch') = Mentioned(batch) \cup Mentioned(completed[d]) /\ d \in open
    BY <1>3, MergeAll DEF Drain, WatchInv, WatchTypeOK, TurnsInv
  <2>2. \A f \in Mentioned(completed[d]) : DirOf[f] = d
    BY DEF WatchInv, WatchTypeOK, FilesIn
  <2>3. UNCHANGED <<configPc, configured, toOpen, reading, loaded, toParse>> /\ open' \subseteq open
    BY <1>3 DEF Drain
  <2>4. QED
    BY <2>1, <2>2, <2>3 DEF WatchInv, ConfiguredInv
<1>4. ASSUME Opened
      PROVE  ConfiguredInv'
  BY <1>4 DEF Opened, WatchInv, WatchTypeOK, TurnsInv, ConfiguredInv, Mentioned
<1>5. ASSUME DebounceEnds
      PROVE  ConfiguredInv'
  BY <1>5 DEF DebounceEnds, WatchInv, WatchTypeOK, TurnsInv, ConfiguredInv, Mentioned
<1>6. ASSUME ApplyUnload
      PROVE  ConfiguredInv'
  <2>1. /\ batch # <<>> /\ batch' = Tail(batch) /\ UNCHANGED <<configPc, configured, open, toOpen, reading, toParse>>
        /\ loaded' = [loaded EXCEPT ![WatchName(Head(batch).file)] = Gone]
    BY <1>6 DEF ApplyUnload
  <2>2. Mentioned(batch') \subseteq Mentioned(batch)
    BY <2>1, HeadAndTail DEF WatchInv, WatchTypeOK, TurnsInv
  <2>3. \A n \in Names : loaded'[n] # Gone => loaded[n] # Gone
    BY <2>1 DEF WatchInv, WatchTypeOK
  <2>4. QED
    BY <2>1, <2>2, <2>3 DEF WatchInv, ConfiguredInv
<1>7. ASSUME ApplyParse
      PROVE  ConfiguredInv'
  <2>1. /\ batch # <<>> /\ batch' = Tail(batch) /\ UNCHANGED <<configPc, configured, open, toOpen, loaded, toParse>>
        /\ reading'.name = WatchName(Head(batch).file) /\ watcherPc = "apply"
    BY <1>7 DEF ApplyParse, Read
  <2>2. Mentioned(batch) = {Head(batch).file} \cup Mentioned(batch') /\ Head(batch).file \in Files
    BY <2>1, HeadAndTail, EventsAreTyped DEF WatchInv, WatchTypeOK, TurnsInv
  <2>3. reading'.name[1] = Head(batch).file
    BY <2>1, <2>2, NamesDiffer
  <2>4. configPc # "parse"
    BY <2>1 DEF WatchInv, TurnsInv
  <2>5. QED
    BY <2>1, <2>2, <2>3, <2>4 DEF WatchInv, ConfiguredInv
<1>8. ASSUME Applied
      PROVE  ConfiguredInv'
  BY <1>8 DEF Applied, WatchInv, WatchTypeOK, TurnsInv, ConfiguredInv, Mentioned
<1>9. ASSUME Exit
      PROVE  ConfiguredInv'
  BY <1>9 DEF Exit, WatchInv, WatchTypeOK, TurnsInv, ConfiguredInv, Mentioned
<1>10. ASSUME Commit
       PROVE  ConfiguredInv'
  <2>1. /\ UNCHANGED <<batch, configPc, configured, open, toOpen, toParse>> /\ reading # NoFile /\ reading' = NoFile
        /\ loaded' = [loaded EXCEPT ![reading.name] = Committed(reading.name, reading.content)]
    BY <1>10 DEF Commit
  <2>2. \A n \in Names : loaded'[n] # Gone => loaded[n] # Gone \/ n = reading.name
    BY <2>1 DEF WatchInv, WatchTypeOK
  <2>3. QED
    BY <2>1, <2>2 DEF WatchInv, ConfiguredInv
<1>11. ASSUME Join
       PROVE  ConfiguredInv'
  BY <1>11 DEF Join, WatchInv, WatchTypeOK, TurnsInv, ConfiguredInv, Mentioned
<1>12. ASSUME NEW d \in Dirs, Scan(d)
       PROVE  ConfiguredInv'
  <2>1. /\ UNCHANGED <<configPc, configured>> /\ configPc = "scan" /\ d \in configured
        /\ toParse' = toParse \cup {ScanName(f) : f \in {g \in FilesIn(d) : disk[g] # Gone}}
    BY <1>12 DEF Scan, WatchInv, TurnsInv
  <2>2. \A n \in toParse' : DirOf[n[1]] \in configured
    BY <2>1, NamesDiffer DEF FilesIn, WatchInv, ConfiguredInv
  <2>3. QED
    BY <2>1, <2>2 DEF ConfiguredInv
<1>13. ASSUME Scanned
       PROVE  ConfiguredInv'
  <2>1. /\ UNCHANGED <<configured, toParse>> /\ configPc' = "parse" /\ reading' = NoFile
        /\ loaded' = UnloadUnlisted(toParse)
    BY <1>13 DEF Scanned, WatchInv, TurnsInv
  <2>2. \A n \in Names : loaded'[n] # Gone => n \in toParse
    BY <2>1 DEF UnloadUnlisted
  <2>3. QED
    BY <2>1, <2>2 DEF WatchInv, ConfiguredInv
<1>14. ASSUME NEW name \in Names, ParseListed(name)
       PROVE  ConfiguredInv'
  <2>1. /\ UNCHANGED <<configured, loaded>> /\ configPc = "parse" /\ configPc' = "parse" /\ name \in toParse
        /\ reading'.name = name /\ toParse' \subseteq toParse
    BY <1>14 DEF ParseListed, Read
  <2>2. QED
    BY <2>1 DEF WatchInv, ConfiguredInv
<1>15. ASSUME Start
       PROVE  ConfiguredInv'
  <2>1. /\ UNCHANGED <<configured, loaded, toParse, open, batch>> /\ configPc = "parse" /\ reading' = NoFile
        /\ toOpen' = configured /\ open = {} /\ batch = <<>>
    BY <1>15 DEF Start, WatchInv, TurnsInv
  <2>2. Mentioned(batch') = {}
    BY <2>1, ShortSequences
  <2>3. QED
    BY <2>1, <2>2 DEF WatchInv, ConfiguredInv
<1>16. ASSUME NEW dirs \in SUBSET Dirs, Reconfigure(dirs)
       PROVE  ConfiguredInv'
  BY <1>16 DEF Reconfigure, WatchInv, WatchTypeOK, TurnsInv, ConfiguredInv, Mentioned
<1>17. CASE UNCHANGED watchVars
  BY <1>17 DEF watchVars, WatchInv, WatchTypeOK, TurnsInv, ConfiguredInv, Mentioned
<1>18. QED
  BY <1>1, <1>2, <1>3, <1>4, <1>5, <1>6, <1>7, <1>8, <1>9, <1>10, <1>11, <1>12,
     <1>13, <1>14, <1>15, <1>16, <1>17
     DEF WatchNext, EditorStep, WatcherStep, ConfigStep


-----------------------------------------------------------------------------
(* The scripts' watcher: what holds                                        *)

\* The invariant holds whatever editors, users and the kernel do.
LEMMA WatchHolds == WatchSpec => []WatchInv
<1>1. WatchInv /\ [WatchNext]_watchVars => WatchInv'
  <2> SUFFICES ASSUME WatchInv, [WatchNext]_watchVars PROVE WatchInv'
    OBVIOUS
  <2>1. WatchTypeOK'
    BY StepKeepsWatchTypes, Zenon DEF WatchInv
  <2>2. KernelInv' /\ TurnsInv'
    BY StepKeepsKernel, StepKeepsTurns, Zenon DEF WatchInv
  <2>3. RecordInv'
    BY <2>1, StepKeepsRecord, Zenon DEF RecordInv
  <2>4. RescanInv' /\ ConfiguredInv'
    BY <2>1, StepKeepsRescan, StepKeepsConfigured, Zenon
  <2>5. QED
    BY <2>1, <2>2, <2>3, <2>4 DEF WatchInv
<1>2. QED
  BY InitWatch, <1>1, PTL DEF WatchSpec

\* No step takes an entry away but for the reasons there are.
LEMMA EntriesGoForAReason ==
  ASSUME WatchInv, [WatchNext]_watchVars, NEW f \in Files,
         loaded[WatchName(f)] # Gone, loaded'[WatchName(f)] = Gone
  PROVE  \/ disk[f] = Gone
         \/ f \in missed
         \/ DirOf[f] \notin configured
         \/ Latest(Pending(f), f, TRUE)
         \/ ScanName(f) \in toParse
<1> USE DEF diskVars, kernelVars, watcherVars, configVars
<1>1. CASE ApplyUnload
  <2>1. /\ batch # <<>> /\ loaded' = [loaded EXCEPT ![WatchName(Head(batch).file)] = Gone]
    BY <1>1 DEF ApplyUnload
  <2>2. Mentioned(batch) = {Head(batch).file} \cup Mentioned(Tail(batch)) /\ Head(batch).file \in Files
    BY <2>1, HeadAndTail, EventsAreTyped DEF WatchInv, WatchTypeOK, TurnsInv
  <2>3. WatchName(f) = WatchName(Head(batch).file)
    BY <2>1, NamesDiffer DEF WatchInv, WatchTypeOK
  <2>4. f \in Mentioned(batch)
    BY <2>2, <2>3, NamesDiffer
  <2>5. f \notin missed => OnRecord(f)
    BY <2>4 DEF WatchInv, RecordInv, Recorded
  <2>6. f \in Mentioned(Pending(f))
    <3>1. batch \in Seq(Events) /\ completed[DirOf[f]] \in Seq(Events) /\ kernel[DirOf[f]] \in Seq(Events)
      BY DirsAssumption DEF WatchInv, WatchTypeOK
    <3>2. Mentioned(Pending(f)) = Mentioned(batch) \cup Mentioned(completed[DirOf[f]]) \cup Mentioned(kernel[DirOf[f]])
      BY <3>1, LastOfThree DEF Pending
    <3>3. QED
      BY <2>4, <3>2
  <2>7. ASSUME f \notin missed, disk[f] # Gone PROVE Latest(Pending(f), f, TRUE)
    <3>1. Latest(Pending(f), f, disk[f] # Gone)
      BY <2>5, <2>6, <2>7 DEF OnRecord
    <3>2. (disk[f] # Gone) = TRUE
      BY <2>7
    <3>3. QED
      BY <3>1, <3>2
  <2>8. QED
    BY <2>7
<1>2. CASE Commit
  <2>1. /\ WatchName(f) \in Names /\ reading # NoFile
        /\ loaded' = [loaded EXCEPT ![reading.name] = Committed(reading.name, reading.content)]
    BY <1>2, NamesDiffer DEF Commit
  <2>2. reading.name = WatchName(f) /\ Committed(reading.name, reading.content) = Gone
    BY <2>1 DEF WatchInv, WatchTypeOK
  <2>3. QED
    BY <2>2, ContentsAssumption DEF Committed
<1>3. CASE Scanned
  <2>1. configPc = "scan" /\ toScan = {}
    BY <1>3 DEF Scanned
  <2>2. f \notin missed /\ DirOf[f] \in configured => (ScanName(f) \in toParse <=> disk[f] # Gone)
    BY <2>1 DEF WatchInv, RescanInv
  <2>3. QED
    BY <2>2
<1>4. CASE loaded' = loaded
  BY <1>4
<1>5. QED
  <2>1. EditorStep => loaded' = loaded
    BY DEF EditorStep, Change
  <2>2. WatcherStep => ApplyUnload \/ loaded' = loaded
    BY DEF WatcherStep, OpenDirectory, Drain, Opened, DebounceEnds, ApplyParse, Applied, Exit
  <2>3. ConfigStep => Scanned \/ loaded' = loaded
    BY DEF ConfigStep, Join, Scan, ParseListed, Start
  <2>4. (\E dirs \in SUBSET Dirs : Reconfigure(dirs)) => loaded' = loaded
    BY DEF Reconfigure
  <2>5. UNCHANGED watchVars => loaded' = loaded
    BY DEF watchVars
  <2>6. QED
    BY <1>1, <1>2, <1>3, <1>4, <2>1, <2>2, <2>3, <2>4, <2>5 DEF WatchNext

\* For any files, directories and buffers, however events are split into reads, merged, lost
\* with a buffer and cut off by a restart: what was recorded of a file is on its way to the
\* tables, an entry goes away only for a reason, and no directory's entries outlast it.
THEOREM SavesStayApplied == WatchSpec => SavesAreApplied
<1>1. WatchInv => WatchTypeOK /\ NothingForgotten /\ OnlyConfiguredLoaded
  <2> SUFFICES ASSUME WatchInv PROVE NothingForgotten /\ OnlyConfiguredLoaded
    BY DEF WatchInv
  <2>1. NothingForgotten
    BY DEF NothingForgotten, WatchInv, RecordInv, Recorded, OnRecord, Fine
  <2>2. OnlyConfiguredLoaded
    BY DEF OnlyConfiguredLoaded, WatchInv, ConfiguredInv
  <2>3. QED
    BY <2>1, <2>2
<1>2. WatchInv /\ [WatchNext]_watchVars =>
        \A f \in Files :
          (loaded[WatchName(f)] # Gone /\ loaded'[WatchName(f)] = Gone) =>
             \/ disk[f] = Gone
             \/ f \in missed
             \/ DirOf[f] \notin configured
             \/ Latest(Pending(f), f, TRUE)
             \/ ScanName(f) \in toParse
  BY EntriesGoForAReason
<1>3. QED
  BY WatchHolds, <1>1, <1>2, PTL DEF WatchSpec, SavesAreApplied, NoUnloadBySave

\* Where no directory is spelled with a trailing separator, a deletion takes the file's
\* entries out of the tables, for any files, directories and buffers.
THEOREM DeletionsAreApplied ==
  ASSUME Trailing = {}
  PROVE  WatchSpec => []DeletionsReload
<1>1. WatchInv => DeletionsReload
  <2> SUFFICES ASSUME WatchInv, NEW f \in Files,
                      configPc = "idle", watcherPc = "wait", DirOf[f] \in open,
                      Pending(f) = <<>>, f \notin missed, disk[f] = Gone
               PROVE  \A n \in {ScanName(f), WatchName(f)} : loaded[n] = Gone
    BY DEF DeletionsReload
  <2>1. WatchName(f) = ScanName(f) /\ ScanName(f) \in Names
    BY DirsAssumption DEF WatchName, ScanName, Names
  <2>2. ScanName(f) # NoFile.name
    BY <2>1, NamesDiffer
  <2>3. reading = NoFile
    BY DEF WatchInv, TurnsInv
  <2>4. Soon(ScanName(f)) = loaded[ScanName(f)]
    BY <2>2, <2>3 DEF Soon
  <2>5. f \notin Mentioned(Pending(f))
    BY ShortSequences
  <2>6. OnRecord(f)
    BY DEF WatchInv, RecordInv, Recorded
  <2>7. UpToDate(f)
    BY <2>5, <2>6 DEF OnRecord, Fine, Stable
  <2>8. QED
    BY <2>1, <2>4, <2>7 DEF UpToDate
<1>2. QED
  BY WatchHolds, <1>1, PTL
=============================================================================
