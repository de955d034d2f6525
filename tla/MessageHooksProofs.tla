------------------------- MODULE MessageHooksProofs -------------------------
(***************************************************************************)
(* Proofs about the message hooks (MessageHooks and the modules it         *)
(* composes), for every set of receivers, layouts, jobs and games and      *)
(* every bound of the queues: the layout that is latched is the real one,  *)
(* a job gets one reply, nobody else's progress is shown as the user's,    *)
(* and the values of the scripts are the ones that are sent.               *)
(***************************************************************************)
EXTENDS MessageHooks, TLAPS, FiniteSetTheorems, SequenceTheorems, WellFoundedInduction

-----------------------------------------------------------------------------
(* The layout gate                                                         *)

\* The steps before the gate, and those behind it.
Gate == {"count", "agree", "latch", "disable"}
Behind == {"user", "schema", "stats", "fill", "original"} \cup DOMAIN NextStage
Doing(step) == {t \in Receivers : at[t] = step}

LayoutTypes ==
  /\ layout \in Layouts \cup {Other}
  /\ dataOff \in Layouts \cup {Unresolved, Disabled}
  /\ agreed \in Layouts \cup {Unresolved}
  /\ attempts \in Nat
  /\ at \in [Receivers -> {"idle"} \cup Gate \cup Behind]
  /\ matches \in [Receivers -> SUBSET Layouts]
  /\ \A t \in Receivers : at[t] = "latch" => matches[t] # {}

\* Wrong evidence is what one packet, or the agreement it left, says of a layout the client
\* does not have.  One fluke makes one piece of it, and a layout needs two.
Wrong(t) == at[t] \in {"count", "agree"} /\ ~(matches[t] \subseteq {layout})
WrongAgreed == agreed \notin {layout, Unresolved}
FlukeInv ==
  /\ flukes \in 0 .. MaxFlukes
  /\ dataOff \in {layout, Unresolved, Disabled}
  /\ flukes = 0 => ~WrongAgreed /\ \A t \in Receivers : ~Wrong(t)
  /\ WrongAgreed => \A t \in Receivers : ~Wrong(t)
  /\ \A t, u \in Receivers : Wrong(t) /\ Wrong(u) => t = u
  /\ \A t \in Receivers : at[t] = "latch" => matches[t] = {layout}

\* While the layout is unknown, every packet counted beyond the cap is one whose thread is
\* about to give up; afterwards only those that are already before the gate are counted.
AttemptsInv ==
  IF dataOff = Unresolved THEN attempts <= MaxAttempts + Cardinality(Doing("disable"))
  ELSE attempts + Cardinality(Doing("count")) <= MaxAttempts + Cardinality(Receivers)

\* Where the layout is known from the start nothing is probed.
GateInv == scenario \notin {"layout", "local"} => IsResolved /\ \A t \in Receivers : at[t] \notin Gate

LayoutInv == LayoutTypes /\ AttemptsInv /\ GateInv

\* A thread behind the gate goes on there, and no other moves.
Forth(t) == at[t] \in Behind /\ \E stage \in Behind \cup {"idle"} : at' = [at EXCEPT ![t] = stage]
LeavesGate == UNCHANGED layoutVars /\ (UNCHANGED at \/ \E t \in Receivers : Forth(t))

\* The next stage is one.
LEMMA NextStages == \A stage \in DOMAIN NextStage : NextStage[stage] \in Behind /\ stage \in Behind
  BY DEF NextStage, Behind

\* To go on is to stay behind the gate.
LEMMA GoingOn ==
  ASSUME NEW t \in Receivers, at[t] \in DOMAIN NextStage, GoOn(t)
  PROVE  Forth(t)
  BY NextStages DEF GoOn, Forth

\* All steps of receivers but those of the gate and the end of the hook go on behind it.
LEMMA HandlersLeaveGate ==
  ASSUME NEW t \in Receivers,
         \/ Dispatched(t) \/ GiveHand(t) \/ Pop(t) \/ Drained(t) \/ AchievementStep(t)
         \/ PresenceStep(t) \/ \E fits \in BOOLEAN : Overlay(t, fits)
  PROVE  LeavesGate
<1>1. CASE Dispatched(t) \/ Drained(t) \/ Expire(t) \/ HeldDrained(t) \/ TryInject(t) \/ Injected(t) \/ HandleRecv(t)
  <2>1. at[t] \in DOMAIN NextStage /\ GoOn(t) /\ UNCHANGED layoutVars
    BY <1>1 DEF Dispatched, Drained, Expire, HeldDrained, TryInject, Injected, HandleRecv, NextStage, Families
  <2>2. QED
    BY <2>1, GoingOn DEF LeavesGate
<1>2. CASE \E fits \in BOOLEAN : Overlay(t, fits)
  <2>1. at[t] \in DOMAIN NextStage /\ GoOn(t) /\ UNCHANGED layoutVars
    BY <1>2 DEF Overlay, NextStage
  <2>2. QED
    BY <2>1, GoingOn DEF LeavesGate
<1>3. CASE LookUp(t) \/ StripStats(t) \/ ToRebuild(t) \/ Fill(t) \/ Capture(t)
  <2>1. PICK stage : Leaves(t, stage) /\ at[t] \in Behind /\ stage \in Behind /\ UNCHANGED layoutVars
    <3>1. CASE LookUp(t)
      BY <3>1 DEF LookUp, Behind, NextStage
    <3>2. CASE StripStats(t)
      BY <3>2 DEF StripStats, Behind
    <3>3. CASE ToRebuild(t)
      BY <3>3 DEF ToRebuild, Behind
    <3>4. CASE Fill(t)
      BY <3>4 DEF Fill, Behind
    <3>5. CASE Capture(t)
      BY <3>5 DEF Capture, Behind
    <3>6. QED
      BY <1>3, <3>1, <3>2, <3>3, <3>4, <3>5
  <2>2. QED
    BY <2>1 DEF LeavesGate, Forth, Leaves
<1>4. CASE GiveHand(t) \/ Pop(t) \/ PopHeld(t)
  BY <1>4 DEF GiveHand, Pop, PopHeld, LeavesGate
<1>5. QED
  BY <1>1, <1>2, <1>3, <1>4 DEF AchievementStep, PresenceStep

\* Nor does anything but receivers touch it.
LEMMA OthersLeaveGate ==
  ASSUME Send \/ Client \/ Pages \/ Hold \/ UNCHANGED vars
  PROVE  LeavesGate /\ scenario' = scenario
<1>1. CASE Send
  <2>1. UNCHANGED <<layoutVars, at>>
    BY <1>1 DEF Send, SendStep, Decline, Answer, DonorStep, LookUpDonor, FetchStatSteamId, ProductStep, SearchToken,
       AddTokenTo, InjectionEnds, Asks, SendStepPresence, TrackSend, Notify, packetVars, hookVars
  <2>2. QED
    BY <1>1, <2>1 DEF Send, Rest, LeavesGate
<1>2. CASE Client
  <2>1. UNCHANGED <<layoutVars, at>>
    BY <1>2 DEF Client, AsksPages, ActivateHost, Ask, RequestSchema, RequestUser, Unlist, RequestStats, List, SetStat,
       AskProducts, AddToken, Asks, Refresh, Launch, Exit, Reports, TrackRPSend, packetVars, hookVars
  <2>2. QED
    BY <1>2, <2>1 DEF Client, Rest, LeavesGate
<1>3. CASE Pages \/ Hold \/ UNCHANGED vars
  BY <1>3 DEF Pages, Hold, HoldTimesOut, Rest, LeavesGate, vars, packetVars, hookVars
<1>4. QED
  BY <1>1, <1>2, <1>3

\* Every arrival is one at the gate, with a probe of some layouts.
LEMMA ArrivalsArrive ==
  ASSUME NEW t \in Receivers, Arrival(t)
  PROVE  scenario' = scenario /\ \E p : \E ls \in SUBSET Layouts : Arrive(t, p, ls)
<1>1. Probes \subseteq SUBSET Layouts
  BY DEF Probes
<1>2. ASSUME NEW p, NEW ls \in Probes, ArriveReply(t, p, ls) \/ ArriveOther(t, p, ls)
      PROVE  \E q : \E ms \in SUBSET Layouts : Arrive(t, q, ms)
  <2>1. Arrive(t, p, ls)
    BY <1>2, Zenon DEF ArriveReply, ArriveOther
  <2>2. ls \in SUBSET Layouts
    BY <1>1
  <2>3. QED
    BY <2>1, <2>2, Zenon
<1>3. CASE FromServers(t)
  BY <1>2, <1>3 DEF FromServers, ArrivePush, Rest
<1>4. CASE ~FromServers(t)
  BY <1>2, <1>4 DEF Arrival, Rest
<1>5. QED
  BY <1>3, <1>4

\* A step is one of the gate, the end of the hook, or leaves the gate alone.
LEMMA StepsAtTheGate ==
  ASSUME [Next]_vars
  PROVE  /\ scenario' = scenario
         /\ \/ \E t \in Receivers : \E p : \E ls \in SUBSET Layouts : Arrive(t, p, ls)
            \/ \E t \in Receivers : LayoutStep(t) \/ Original(t)
            \/ LeavesGate
<1>1. ASSUME NEW t \in Receivers, Arrival(t)
      PROVE  scenario' = scenario /\ \E p : \E ls \in SUBSET Layouts : Arrive(t, p, ls)
  BY <1>1, ArrivalsArrive
<1>2. ASSUME NEW t \in Receivers, Receive(t)
      PROVE  /\ scenario' = scenario
             /\ LayoutStep(t) \/ Original(t) \/ LeavesGate
  BY <1>2, HandlersLeaveGate DEF Receive, Rest
<1>3. CASE Send \/ Client \/ Pages \/ Hold \/ UNCHANGED vars
  BY <1>3, OthersLeaveGate
<1>4. QED
  BY <1>1, <1>2, <1>3 DEF Next

\* What threads do at the gate is counted.
LEMMA DoingIsFinite ==
  ASSUME NEW step
  PROVE  /\ IsFiniteSet(Doing(step)) /\ Cardinality(Doing(step)) \in Nat
         /\ Doing(step) \subseteq Receivers /\ Cardinality(Doing(step)) <= Cardinality(Receivers)
         /\ Cardinality(Receivers) \in Nat
  BY FS_Subset, FS_CardinalityType, LayoutAssumption DEF Doing

\* A thread comes to do one thing, or stops doing it.
LEMMA DoingChanges ==
  ASSUME LayoutTypes, NEW t \in Receivers, NEW to \in {"idle"} \cup Gate \cup Behind,
         at' = [at EXCEPT ![t] = to], NEW step
  PROVE  /\ to = step /\ at[t] # step => Cardinality(Doing(step)') = Cardinality(Doing(step)) + 1
         /\ to # step /\ at[t] = step => Cardinality(Doing(step)') = Cardinality(Doing(step)) - 1
         /\ to # step /\ at[t] # step => Doing(step)' = Doing(step)
<1>1. CASE to = step /\ at[t] # step
  <2>1. Doing(step)' = Doing(step) \cup {t} /\ t \notin Doing(step)
    BY <1>1 DEF Doing, LayoutTypes
  <2>2. QED
    BY <1>1, <2>1, FS_AddElement, DoingIsFinite
<1>2. CASE to # step /\ at[t] = step
  <2>1. Doing(step)' = Doing(step) \ {t} /\ t \in Doing(step)
    BY <1>2 DEF Doing, LayoutTypes
  <2>2. QED
    BY <1>2, <2>1, FS_RemoveElement, DoingIsFinite
<1>3. CASE to # step /\ at[t] # step
  BY <1>3 DEF Doing, LayoutTypes
<1>4. QED
  BY <1>1, <1>2, <1>3

\* No thread counts a packet and gives up at once.
LEMMA CountsOrDisables ==
  Cardinality(Doing("count")) + Cardinality(Doing("disable")) <= Cardinality(Receivers)
<1>1. Doing("count") \cap Doing("disable") = {} /\ Doing("count") \cup Doing("disable") \in SUBSET Receivers
  BY DEF Doing
<1>2. Cardinality(Doing("count") \cup Doing("disable"))
        = Cardinality(Doing("count")) + Cardinality(Doing("disable"))
  BY <1>1, FS_Union, FS_EmptySet, DoingIsFinite
<1>3. Cardinality(Doing("count") \cup Doing("disable")) <= Cardinality(Receivers)
  BY <1>1, FS_Subset, LayoutAssumption
<1>4. QED
  BY <1>2, <1>3

\* Where Observe leaves a packet that was counted.
LEMMA CountedPackets ==
  ASSUME LayoutTypes, NEW t \in Receivers
  PROVE  /\ AfterCount(t) \in {"disable", "original", "agree"}
         /\ AfterCount(t) = "disable" <=> attempts >= MaxAttempts
<1>1. CASE attempts >= MaxAttempts
  BY <1>1 DEF AfterCount
<1>2. CASE ~(attempts >= MaxAttempts) /\ matches[t] = {}
  BY <1>2 DEF AfterCount
<1>3. CASE ~(attempts >= MaxAttempts) /\ matches[t] # {}
  BY <1>3 DEF AfterCount
<1>4. QED
  BY <1>1, <1>2, <1>3

\* It starts well typed, with nothing counted.
LEMMA InitLayout == Init => LayoutInv
<1> SUFFICES ASSUME Init PROVE LayoutInv
  OBVIOUS
<1>1. PacketInit(scenario \notin {"layout", "local"})
  BY DEF Init
<1>2. LayoutTypes
  BY <1>1, LayoutAssumption DEF PacketInit, LayoutTypes
<1>3. Doing("count") = {} /\ Doing("disable") = {}
  BY <1>1 DEF PacketInit, Doing
<1>4. AttemptsInv
  <2>1. Cardinality(Doing("count")) = 0 /\ Cardinality(Doing("disable")) = 0
    BY <1>3, FS_EmptySet
  <2>2. Cardinality(Receivers) \in Nat /\ MaxAttempts \in Nat /\ attempts = 0
    BY <1>1, DoingIsFinite, LayoutAssumption DEF PacketInit
  <2>3. QED
    BY <2>1, <2>2 DEF AttemptsInv
<1>5. GateInv
  BY <1>1, LayoutAssumption DEF PacketInit, GateInv, IsResolved, Gate
<1>6. QED
  BY <1>2, <1>4, <1>5 DEF LayoutInv

\* The types hold after every step.
LEMMA StepKeepsLayoutTypes ==
  ASSUME LayoutTypes, [Next]_vars
  PROVE  LayoutTypes'
<1>1. ASSUME NEW t \in Receivers, NEW p, NEW ls \in SUBSET Layouts, Arrive(t, p, ls)
      PROVE  LayoutTypes'
  BY <1>1 DEF Arrive, LayoutTypes, layoutVars, Gate, Behind, NextStage
<1>2. ASSUME NEW t \in Receivers, Count(t)
      PROVE  LayoutTypes'
  <2>1. AfterCount(t) \in {"disable", "original", "agree"}
    BY CountedPackets
  <2>2. QED
    BY <1>2, <2>1 DEF Count, LayoutTypes, Gate, Behind
<1>3. ASSUME NEW t \in Receivers, Agree(t)
      PROVE  LayoutTypes'
  <2>1. agreed' \in Layouts \cup {Unresolved}
    <3>1. CASE Cardinality(matches[t]) = 1
      <4>1. matches[t] # {}
        BY <3>1, FS_EmptySet
      <4>2. QED
        BY <1>3, <3>1, <4>1 DEF Agree, LayoutTypes
    <3>2. CASE Cardinality(matches[t]) # 1
      BY <1>3, <3>2 DEF Agree
    <3>3. QED
      BY <3>1, <3>2
  <2>2. QED
    BY <1>3, <2>1 DEF Agree, Confirmed, LayoutTypes, Gate, Behind
<1>5. ASSUME NEW t \in Receivers, Latch(t)
      PROVE  LayoutTypes'
  BY <1>5 DEF Latch, LayoutTypes, Gate, Behind, NextStage
<1>4. ASSUME NEW t \in Receivers, Disable(t)
      PROVE  LayoutTypes'
  BY <1>4 DEF Disable, LayoutTypes, Gate, Behind
<1>6. ASSUME NEW t \in Receivers, Original(t)
      PROVE  LayoutTypes'
  BY <1>6 DEF Original, LayoutTypes
<1>7. CASE LeavesGate
  <2>1. \A t \in Receivers : at'[t] = "latch" => at[t] = "latch"
    BY <1>7 DEF LeavesGate, Forth, LayoutTypes, Behind, NextStage
  <2>2. at' \in [Receivers -> {"idle"} \cup Gate \cup Behind]
    BY <1>7 DEF LeavesGate, Forth, LayoutTypes
  <2>3. QED
    BY <1>7, <2>1, <2>2 DEF LeavesGate, LayoutTypes, layoutVars
<1>8. QED
  BY <1>1, <1>2, <1>3, <1>4, <1>5, <1>6, <1>7, StepsAtTheGate DEF LayoutStep

\* So does the bound on the attempts, and the gate stays unused where it is not needed.
LEMMA StepKeepsAttempts ==
  ASSUME LayoutTypes, AttemptsInv, GateInv, [Next]_vars
  PROVE  AttemptsInv' /\ GateInv'
<1>0. /\ \A step : Cardinality(Doing(step)) \in Nat
      /\ Cardinality(Receivers) \in Nat /\ MaxAttempts \in Nat \ {0} /\ attempts \in Nat
      /\ Unresolved \notin Layouts /\ Disabled # Unresolved /\ Disabled \notin Layouts
  BY DoingIsFinite, LayoutAssumption DEF LayoutTypes, Unresolved, Disabled
<1> USE DEF AttemptsInv, GateInv, IsResolved, Gate
<1>1. ASSUME NEW t \in Receivers, NEW p, NEW ls \in SUBSET Layouts, Arrive(t, p, ls), scenario' = scenario
      PROVE  AttemptsInv' /\ GateInv'
  <2>1. CASE IsResolved \/ IsDisabled
    <3>1. PICK to \in {"inject", "original"} : at' = [at EXCEPT ![t] = to] /\ UNCHANGED layoutVars
      BY <1>1, <2>1 DEF Arrive
    <3>2. \A step \in {"count", "disable"} : Doing(step)' = Doing(step)
      BY <1>1, <3>1 DEF Doing, Arrive, LayoutTypes
    <3>3. AttemptsInv'
      BY <3>1, <3>2 DEF layoutVars
    <3>4. GateInv'
      BY <1>1, <3>1 DEF layoutVars, LayoutTypes
    <3>5. QED
      BY <3>3, <3>4
  <2>2. CASE ~(IsResolved \/ IsDisabled)
    <3>1. /\ dataOff = Unresolved /\ UNCHANGED <<dataOff, attempts>>
          /\ at' = [at EXCEPT ![t] = "count"] /\ at[t] = "idle"
      BY <1>1, <2>2 DEF Arrive, IsDisabled
    <3>2. Doing("disable")' = Doing("disable")
      BY <3>1 DEF Doing, LayoutTypes
    <3>3. QED
      BY <1>1, <3>1, <3>2
  <2>3. QED
    BY <2>1, <2>2
<1>2. ASSUME NEW t \in Receivers, Count(t), scenario' = scenario
      PROVE  AttemptsInv' /\ GateInv'
  <2>1. /\ at[t] = "count" /\ attempts' = attempts + 1 /\ dataOff' = dataOff
        /\ at' = [at EXCEPT ![t] = AfterCount(t)]
        /\ AfterCount(t) \in {"disable", "original", "agree"} /\ (AfterCount(t) = "disable" <=> attempts >= MaxAttempts)
    BY <1>2, CountedPackets DEF Count
  <2>2. Cardinality(Doing("count")') = Cardinality(Doing("count")) - 1
    BY <2>1, DoingChanges DEF Behind
  <2>3. IF attempts >= MaxAttempts THEN Cardinality(Doing("disable")') = Cardinality(Doing("disable")) + 1
        ELSE Doing("disable")' = Doing("disable")
    BY <2>1, DoingChanges DEF Behind
  <2>4. QED
    BY <1>0, <1>2, <2>1, <2>2, <2>3
<1>3. ASSUME NEW t \in Receivers, Agree(t), scenario' = scenario
      PROVE  AttemptsInv' /\ GateInv'
  <2>1. PICK to \in {"latch", "original"} : at' = [at EXCEPT ![t] = to]
    BY <1>3 DEF Agree
  <2>2. \A step \in {"count", "disable"} : Doing(step)' = Doing(step)
    BY <1>3, <2>1 DEF Doing, Agree, LayoutTypes
  <2>3. QED
    BY <1>3, <2>1, <2>2 DEF Agree
<1>4. ASSUME NEW t \in Receivers, Latch(t), scenario' = scenario
      PROVE  AttemptsInv' /\ GateInv'
  <2>1. dataOff' \in Layouts /\ at' = [at EXCEPT ![t] = "inject"] /\ attempts' = attempts
    BY <1>4 DEF Latch, LayoutTypes
  <2>2. Doing("count")' = Doing("count")
    BY <1>4, <2>1 DEF Doing, Latch, LayoutTypes
  <2>3. AttemptsInv'
    BY <1>0, <2>1, <2>2, CountsOrDisables
  <2>4. GateInv'
    BY <1>4 DEF Latch
  <2>5. QED
    BY <2>3, <2>4
<1>5. ASSUME NEW t \in Receivers, Disable(t), scenario' = scenario
      PROVE  AttemptsInv' /\ GateInv'
  <2>1. dataOff' = Disabled /\ at' = [at EXCEPT ![t] = "original"] /\ attempts' = attempts
    BY <1>5 DEF Disable
  <2>2. Doing("count")' = Doing("count")
    BY <1>5, <2>1 DEF Doing, Disable, LayoutTypes
  <2>3. AttemptsInv'
    BY <1>0, <2>1, <2>2, CountsOrDisables
  <2>4. GateInv'
    BY <1>5 DEF Disable
  <2>5. QED
    BY <2>3, <2>4
<1>6. ASSUME NEW t \in Receivers, Original(t), scenario' = scenario
      PROVE  AttemptsInv' /\ GateInv'
  <2>1. \A step \in {"count", "disable"} : Doing(step)' = Doing(step)
    BY <1>6 DEF Doing, Original, LayoutTypes
  <2>2. QED
    BY <1>6, <2>1 DEF Original, LayoutTypes
<1>7. ASSUME LeavesGate, scenario' = scenario
      PROVE  AttemptsInv' /\ GateInv'
  <2>1. \A step \in {"count", "disable"} : Doing(step)' = Doing(step)
    BY <1>7 DEF Doing, LeavesGate, Forth, LayoutTypes, Behind, NextStage
  <2>2. \A t \in Receivers : at'[t] \in Gate => at[t] \in Gate
    BY <1>7 DEF LeavesGate, Forth, LayoutTypes, Behind, NextStage
  <2>3. QED
    BY <1>7, <2>1, <2>2 DEF LeavesGate, layoutVars
<1>8. QED
  BY <1>1, <1>2, <1>3, <1>4, <1>5, <1>6, <1>7, StepsAtTheGate DEF LayoutStep

\* One more fluke at most is one more wrong layout at most.
LEMMA OneFluke ==
  ASSUME MaxFlukes <= 1, flukes \in 0 .. MaxFlukes, NEW ls \in SUBSET Layouts,
         flukes + FlukesOf(ls) <= MaxFlukes
  PROVE  /\ flukes + FlukesOf(ls) \in 0 .. MaxFlukes
         /\ flukes # 0 => ls \subseteq {layout}
         /\ flukes + FlukesOf(ls) = 0 => ls \subseteq {layout}
<1>1. IsFiniteSet(ls \ {layout}) /\ Cardinality(ls \ {layout}) \in Nat
  BY FS_Subset, FS_CardinalityType, LayoutAssumption
<1>2. Cardinality(ls \ {layout}) = 0 => ls \ {layout} = {}
  BY <1>1, FS_EmptySet
<1>3. FlukesOf(ls) \in Nat /\ (FlukesOf(ls) = 0 => ls \subseteq {layout})
  BY <1>1, <1>2 DEF FlukesOf
<1>4. QED
  BY <1>3, LayoutAssumption

\* Nothing is wrong at first.
LEMMA InitFlukes == Init => FlukeInv
<1> SUFFICES ASSUME Init PROVE FlukeInv
  OBVIOUS
<1>1. PacketInit(scenario \notin {"layout", "local"})
  BY DEF Init
<1>2. flukes = 0 /\ agreed = Unresolved /\ dataOff \in {layout, Unresolved}
  BY <1>1 DEF PacketInit
<1>3. \A t \in Receivers : at[t] = "idle"
  BY <1>1 DEF PacketInit
<1>4. QED
  BY <1>2, <1>3, LayoutAssumption DEF FlukeInv, Wrong, WrongAgreed

\* With one fluke at most, wrong evidence is never confirmed.
LEMMA StepKeepsFlukes ==
  ASSUME MaxFlukes <= 1, LayoutTypes, FlukeInv, [Next]_vars
  PROVE  FlukeInv'
<1>0. Unresolved \notin Layouts /\ Disabled \notin Layouts
  BY LayoutAssumption
<1> USE DEF Wrong, WrongAgreed
<1>1. ASSUME NEW t \in Receivers, NEW p, NEW ls \in SUBSET Layouts, Arrive(t, p, ls)
      PROVE  FlukeInv'
  <2>1. CASE IsResolved \/ IsDisabled
    <3>1. PICK to \in {"inject", "original"} : at' = [at EXCEPT ![t] = to] /\ UNCHANGED layoutVars
      BY <1>1, <2>1 DEF Arrive
    <3>2. QED
      BY <3>1 DEF FlukeInv, LayoutTypes, layoutVars
  <2>2. CASE ~(IsResolved \/ IsDisabled)
    <3>1. /\ UNCHANGED <<layout, dataOff, attempts, agreed>> /\ flukes' = flukes + FlukesOf(ls)
          /\ at' = [at EXCEPT ![t] = "count"] /\ matches' = [matches EXCEPT ![t] = ls]
          /\ flukes + FlukesOf(ls) <= MaxFlukes
      BY <1>1, <2>2 DEF Arrive
    <3>2. flukes' \in 0 .. MaxFlukes /\ (flukes # 0 \/ flukes' = 0 => ls \subseteq {layout})
      BY <3>1, OneFluke DEF FlukeInv
    <3>3. flukes' = 0 => flukes = 0
      BY <3>1, OneFluke, FS_CardinalityType, FS_Subset, LayoutAssumption DEF FlukeInv, FlukesOf
    <3>4. \A u \in Receivers : Wrong(u)' => (u = t \/ Wrong(u)) /\ (u = t => flukes = 0)
      BY <3>1, <3>2 DEF LayoutTypes
    <3>5. \A u \in Receivers : (at[u] = "latch")' => at[u] = "latch" /\ matches'[u] = matches[u]
      BY <3>1 DEF LayoutTypes
    <3>6. WrongAgreed' <=> WrongAgreed
      BY <3>1
    <3> HIDE DEF Wrong, WrongAgreed
    <3>7. \A u \in Receivers : Wrong(u)' => ~WrongAgreed'
      BY <3>4, <3>6 DEF FlukeInv
    <3>8. \A u, v \in Receivers : Wrong(u)' /\ Wrong(v)' => u = v
      BY <3>4 DEF FlukeInv
    <3>9. flukes' = 0 => ~WrongAgreed' /\ \A u \in Receivers : ~Wrong(u)'
      <4>1. ASSUME flukes' = 0 PROVE ls \subseteq {layout}
        BY <3>2, <4>1
      <4>2. ASSUME flukes' = 0 PROVE ~Wrong(t)'
        BY <3>1, <4>1, <4>2 DEF Wrong, LayoutTypes
      <4>3. QED
        BY <3>3, <3>4, <3>6, <4>2 DEF FlukeInv
    <3>10. QED
      BY <3>1, <3>2, <3>5, <3>7, <3>8, <3>9 DEF FlukeInv
  <2>3. QED
    BY <2>1, <2>2
<1>2. ASSUME NEW t \in Receivers, Count(t)
      PROVE  FlukeInv'
  BY <1>2, CountedPackets DEF Count, FlukeInv, LayoutTypes
<1>3. ASSUME NEW t \in Receivers, Agree(t)
      PROVE  FlukeInv'
  <2>1. /\ UNCHANGED <<layout, dataOff, flukes, matches>> /\ at[t] = "agree"
        /\ at' = [at EXCEPT ![t] = IF matches[t] = {agreed} THEN "latch" ELSE "original"]
    BY <1>3 DEF Agree, Confirmed
  <2>2. agreed' = Unresolved \/ (agreed' \in matches[t] /\ matches[t] = {agreed'})
    <3>1. CASE Cardinality(matches[t]) = 1
      <4>1. PICK l : matches[t] = {l}
        BY <3>1, FS_Subset, FS_CardinalityType, LayoutAssumption, FS_Singleton DEF LayoutTypes
      <4>2. QED
        BY <1>3, <3>1, <4>1 DEF Agree
    <3>2. CASE Cardinality(matches[t]) # 1
      BY <1>3, <3>2 DEF Agree
    <3>3. QED
      BY <3>1, <3>2
  <2>3. WrongAgreed' => Wrong(t)
    BY <2>1, <2>2
  <2>4. \A u \in Receivers : Wrong(u)' => Wrong(u) /\ u # t
    BY <2>1 DEF LayoutTypes
  <2>5. matches[t] = {agreed} => agreed = layout
    <3>1. matches[t] = {agreed} => agreed # Unresolved
      BY <1>0 DEF LayoutTypes
    <3>2. QED
      BY <2>1, <3>1 DEF FlukeInv
  <2>6. \A u \in Receivers : at'[u] = "latch" => matches'[u] = {layout}'
    BY <2>1, <2>5 DEF FlukeInv, LayoutTypes
  <2> HIDE DEF Wrong, WrongAgreed
  <2>7. QED
    BY <2>1, <2>3, <2>4, <2>6 DEF FlukeInv
<1>4. ASSUME NEW t \in Receivers, Latch(t)
      PROVE  FlukeInv'
  BY <1>4 DEF Latch, FlukeInv, LayoutTypes
<1>5. ASSUME NEW t \in Receivers, Disable(t)
      PROVE  FlukeInv'
  BY <1>5 DEF Disable, FlukeInv, LayoutTypes
<1>6. ASSUME NEW t \in Receivers, Original(t)
      PROVE  FlukeInv'
  BY <1>6 DEF Original, FlukeInv, LayoutTypes
<1>7. CASE LeavesGate
  <2>1. \A t \in Receivers : at'[t] \in Gate => at'[t] = at[t]
    BY <1>7 DEF LeavesGate, Forth, LayoutTypes, Behind, Gate, NextStage
  <2>2. QED
    BY <1>7, <2>1 DEF LeavesGate, FlukeInv, LayoutTypes, layoutVars, Gate
<1>8. QED
  BY <1>1, <1>2, <1>3, <1>4, <1>5, <1>6, <1>7, StepsAtTheGate DEF LayoutStep

\* A packet's fields are touched at the offset the client has, if one packet at most looks
\* like what it is not: for every number of threads and layouts (LayoutResolver).
THEOREM RealLayoutIsLatched ==
  ASSUME MaxFlukes <= 1
  PROVE  Spec => []OnlyTheRealLayout
<1>1. Init => LayoutTypes /\ FlukeInv
  BY InitLayout, InitFlukes DEF LayoutInv
<1>2. LayoutTypes /\ FlukeInv /\ [Next]_vars => (LayoutTypes /\ FlukeInv)'
  BY StepKeepsLayoutTypes, StepKeepsFlukes
<1>3. FlukeInv => OnlyTheRealLayout
  BY LayoutAssumption DEF FlukeInv, OnlyTheRealLayout
<1>4. QED
  BY <1>1, <1>2, <1>3, PTL DEF Spec

-----------------------------------------------------------------------------
(* Sequences, and the members of one that are in a set                     *)

InSeq(j, jobs) == \E i \in DOMAIN jobs : jobs[i] = j
NoTwo(jobs) == \A i, k \in DOMAIN jobs : jobs[i] = jobs[k] => i = k

\* The library states that < is well founded as a set of pairs.
LEMMA LessThanAsPairs == \A m, n \in Nat : <<m, n>> \in OpToRel(<, Nat) <=> m < n
<1> SUFFICES ASSUME NEW m \in Nat, NEW n \in Nat
             PROVE  <<m, n>> \in OpToRel(<, Nat) <=> m < n
  OBVIOUS
<1>1. <<m, n>>[1] = m /\ <<m, n>>[2] = n /\ <<m, n>> \in Nat \X Nat
  OBVIOUS
<1>2. OpToRel(<, Nat) = {pair \in Nat \X Nat : pair[1] < pair[2]}
  BY Zenon DEF OpToRel
<1>3. QED
  BY <1>1, <1>2, Zenon

\* Induction over the numbers, for a set of them.
LEMMA NumbersByInduction ==
  ASSUME NEW S, 0 \in S, \A n \in Nat : n \in S => n + 1 \in S
  PROVE  \A n \in Nat : n \in S
<1> SUFFICES ASSUME Nat \ S # {} PROVE FALSE
  OBVIOUS
<1>1. PICK x \in Nat \ S : \A y \in Nat \ S : ~(<<y, x>> \in OpToRel(<, Nat))
  BY WFMin, NatLessThanWellFounded, Zenon
<1>2. \A y \in Nat \ S : ~(y < x)
  BY <1>1, LessThanAsPairs, Zenon
<1>3. x \in Nat /\ x \notin S
  BY <1>1
<1>4. x # 0
  BY <1>3, Zenon
<1>5. x - 1 \in Nat /\ x - 1 < x /\ (x - 1) + 1 = x
  BY <1>3, <1>4
<1>6. QED
  BY <1>2, <1>3, <1>5

\* Up to the length of a sequence.
LEMMA LengthsByInduction ==
  ASSUME NEW top \in Nat, NEW S, 0 \in S, \A n \in 0 .. top : n \in S /\ n < top => n + 1 \in S
  PROVE  \A n \in 0 .. top : n \in S
<1> DEFINE T == S \cup {n \in Nat : n > top}
<1>1. \A n \in Nat : n \in T => n + 1 \in T
  OBVIOUS
<1>2. 0 \in T
  OBVIOUS
<1> HIDE DEF T
<1>3. \A n \in Nat : n \in T
  BY <1>1, <1>2, NumbersByInduction
<1>4. QED
  BY <1>3 DEF T

\* What Those collects, element by element.
Keeps(kept, sequence, set, i) ==
  kept[i] = IF i = 0 THEN <<>>
            ELSE IF sequence[i] \in set THEN Append(kept[i - 1], sequence[i]) ELSE kept[i - 1]

\* There is a function that does: the recursion of Those is well defined.
LEMMA ThoseExist ==
  ASSUME NEW S, NEW sequence \in Seq(S), NEW set
  PROVE  \E kept \in [0 .. Len(sequence) -> Seq(S)] :
           /\ Those(sequence, set) = kept[Len(sequence)]
           /\ \A i \in 0 .. Len(sequence) : Keeps(kept, sequence, set, i)
<1> DEFINE top == Len(sequence)
<1> DEFINE Upto(n) == \E kept \in [0 .. n -> Seq(S)] : \A i \in 0 .. n : Keeps(kept, sequence, set, i)
<1> DEFINE Fine == {n \in 0 .. top : Upto(n)}
<1>0. top \in Nat
  OBVIOUS
<1>1. 0 \in Fine
  <2> DEFINE none == [n \in 0 .. 0 |-> <<>>]
  <2>1. none \in [0 .. 0 -> Seq(S)]
    OBVIOUS
  <2>2. \A i \in 0 .. 0 : Keeps(none, sequence, set, i)
    BY DEF Keeps
  <2>3. QED
    BY <1>0, <2>1, <2>2
<1>2. ASSUME NEW n \in 0 .. top, n \in Fine, n < top
      PROVE  n + 1 \in Fine
  <2>1. PICK kept \in [0 .. n -> Seq(S)] : \A i \in 0 .. n : Keeps(kept, sequence, set, i)
    BY <1>2
  <2> DEFINE last == IF sequence[n + 1] \in set THEN Append(kept[n], sequence[n + 1]) ELSE kept[n]
  <2> DEFINE more == [i \in 0 .. n + 1 |-> IF i = n + 1 THEN last ELSE kept[i]]
  <2>2. sequence[n + 1] \in S /\ kept[n] \in Seq(S)
    BY <1>2, <2>1
  <2>3. last \in Seq(S)
    BY <2>2
  <2>4. more \in [0 .. n + 1 -> Seq(S)]
    BY <1>2, <2>1, <2>3
  <2>5. ASSUME NEW i \in 0 .. n + 1
        PROVE  Keeps(more, sequence, set, i)
    <3>1. CASE i = n + 1
      <4>1. more[i] = last /\ more[i - 1] = kept[n] /\ i # 0 /\ i - 1 = n
        BY <1>2, <3>1
      <4>2. QED
        BY <3>1, <4>1 DEF Keeps
    <3>2. CASE i # n + 1
      <4>1. i \in 0 .. n /\ more[i] = kept[i] /\ (i # 0 => more[i - 1] = kept[i - 1])
        BY <1>2, <3>2
      <4>2. QED
        BY <2>1, <4>1 DEF Keeps
    <3>3. QED
      BY <3>1, <3>2
  <2> HIDE DEF more
  <2>6. Upto(n + 1)
    BY <2>4, <2>5
  <2>7. n + 1 \in 0 .. top
    BY <1>0, <1>2
  <2>8. QED
    BY <2>6, <2>7, Zenon
<1>3. top \in Fine
  <2> HIDE DEF Fine, top
  <2>1. \A n \in 0 .. top : n \in Fine
    BY <1>0, <1>1, <1>2, LengthsByInduction
  <2>2. QED
    BY <1>0, <2>1
<1> DEFINE Def(kept) == kept = [i \in 0 .. top |->
                 IF i = 0 THEN <<>>
                 ELSE IF sequence[i] \in set THEN Append(kept[i - 1], sequence[i]) ELSE kept[i - 1]]
<1>4. PICK kept \in [0 .. top -> Seq(S)] : \A i \in 0 .. top : Keeps(kept, sequence, set, i)
  BY <1>3
<1>5. Def(kept)
  BY <1>4 DEF Keeps
<1> DEFINE chosen == CHOOSE f : Def(f)
<1>6. Those(sequence, set) = chosen[top]
  BY DEF Those
<1>7. Def(chosen)
  BY <1>5
<1>8. /\ DOMAIN chosen = 0 .. top /\ chosen = [i \in 0 .. top |-> chosen[i]]
      /\ \A i \in 0 .. top : Keeps(chosen, sequence, set, i)
  BY <1>7 DEF Keeps
<1> HIDE DEF chosen
<1> DEFINE Typed == {n \in 0 .. top : chosen[n] \in Seq(S)}
<1>9. 0 \in Typed
  <2>1. 0 \in 0 .. top
    BY <1>0
  <2>2. Keeps(chosen, sequence, set, 0)
    BY <1>8, <2>1, Zenon
  <2>3. chosen[0] = <<>>
    BY <2>2, Zenon DEF Keeps
  <2>4. <<>> \in Seq(S)
    OBVIOUS
  <2>5. chosen[0] \in Seq(S)
    BY <2>3, <2>4, Zenon
  <2>6. QED
    BY <2>1, <2>5, Zenon
<1>10. ASSUME NEW n \in 0 .. top, n \in Typed, n < top
       PROVE  n + 1 \in Typed
  <2>1. n + 1 \in 0 .. top /\ (n + 1) - 1 = n /\ n + 1 # 0 /\ sequence[n + 1] \in S
    BY <1>10
  <2>2. chosen[n + 1] = IF sequence[n + 1] \in set THEN Append(chosen[n], sequence[n + 1]) ELSE chosen[n]
    BY <1>8, <2>1 DEF Keeps
  <2>3. chosen[n + 1] \in Seq(S)
    BY <1>10, <2>1, <2>2
  <2>4. QED
    BY <2>1, <2>3
<1>11. \A n \in 0 .. top : n \in Typed
  <2> HIDE DEF Typed, top
  <2>1. QED
    BY <1>0, <1>9, <1>10, LengthsByInduction
<1>12. chosen \in [0 .. top -> Seq(S)]
  BY <1>8, <1>11
<1>13. QED
  BY <1>6, <1>8, <1>12

\* What Those returns: members of the sequence that are in the set, each once if it was
\* there once.
LEMMA ThoseOf ==
  ASSUME NEW S, NEW sequence \in Seq(S), NEW set
  PROVE  /\ Those(sequence, set) \in Seq(S) /\ Len(Those(sequence, set)) <= Len(sequence)
         /\ \A j : InSeq(j, Those(sequence, set)) => j \in set /\ InSeq(j, sequence)
         /\ NoTwo(sequence) => NoTwo(Those(sequence, set))
<1> DEFINE top == Len(sequence)
<1>0. top \in Nat /\ DOMAIN sequence = 1 .. top
  OBVIOUS
<1>1. PICK kept \in [0 .. top -> Seq(S)] :
        /\ Those(sequence, set) = kept[top]
        /\ \A i \in 0 .. top : Keeps(kept, sequence, set, i)
  BY ThoseExist
<1> DEFINE Picked(n) ==
      /\ kept[n] \in Seq(S) /\ Len(kept[n]) <= n
      /\ \A i \in DOMAIN kept[n] : kept[n][i] \in set /\ \E k \in 1 .. n : sequence[k] = kept[n][i]
      /\ NoTwo(sequence) => NoTwo(kept[n])
<1> DEFINE Fine == {n \in 0 .. top : Picked(n)}
<1>2. 0 \in Fine
  <2>1. 0 \in 0 .. top
    BY <1>0
  <2>2. kept[0] = <<>>
    BY <1>1, <2>1, Zenon DEF Keeps
  <2>3. <<>> \in Seq(S) /\ Len(<<>>) = 0 /\ DOMAIN <<>> = {}
    OBVIOUS
  <2>4. Picked(0)
    BY <2>2, <2>3 DEF NoTwo
  <2>5. QED
    BY <2>1, <2>4, Zenon
<1>3. ASSUME NEW n \in 0 .. top, n \in Fine, n < top
      PROVE  n + 1 \in Fine
  <2>1. n + 1 \in 0 .. top /\ (n + 1) - 1 = n /\ n + 1 # 0 /\ sequence[n + 1] \in S /\ n \in Nat
    BY <1>0, <1>3
  <2>2. kept[n + 1] = IF sequence[n + 1] \in set THEN Append(kept[n], sequence[n + 1]) ELSE kept[n]
    BY <1>1, <2>1 DEF Keeps
  <2>3. Picked(n)
    BY <1>3, Zenon
  <2>4. CASE sequence[n + 1] \notin set
    <3>1. kept[n + 1] = kept[n]
      BY <2>2, <2>4
    <3>2. Picked(n + 1)
      BY <2>1, <2>3, <3>1
    <3>3. QED
      BY <2>1, <3>2, Zenon
  <2>5. CASE sequence[n + 1] \in set
    <3> DEFINE here == kept[n]
    <3> DEFINE more == kept[n + 1]
    <3>1. more = Append(here, sequence[n + 1])
      BY <2>2, <2>5
    <3>2. more \in Seq(S) /\ Len(more) = Len(here) + 1 /\ DOMAIN here = 1 .. Len(here) /\ Len(here) \in Nat
      BY <2>1, <2>3, <3>1
    <3>3. more[Len(here) + 1] = sequence[n + 1] /\ \A i \in DOMAIN here : more[i] = here[i]
      BY <2>1, <2>3, <3>1
    <3>4. \A i \in DOMAIN more : i = Len(here) + 1 \/ i \in DOMAIN here
      BY <3>2
    <3> HIDE DEF here, more
    <3>5. \A i \in DOMAIN here : here[i] \in set /\ \E k \in 1 .. n : sequence[k] = here[i]
      BY <2>3 DEF here
    <3>6. \A i \in DOMAIN more : more[i] \in set /\ \E k \in 1 .. n + 1 : sequence[k] = more[i]
      <4>1. 1 .. n \subseteq 1 .. n + 1 /\ n + 1 \in 1 .. n + 1
        BY <2>1
      <4>2. QED
        BY <2>5, <3>3, <3>4, <3>5, <4>1
    <3>7. NoTwo(sequence) => NoTwo(more)
      <4> SUFFICES ASSUME NoTwo(sequence), NEW i \in DOMAIN more, NEW k \in DOMAIN more, more[i] = more[k]
                   PROVE  i = k
        BY DEF NoTwo
      <4>1. NoTwo(here)
        BY <2>3 DEF here
      <4>2. \A m \in DOMAIN here : here[m] # sequence[n + 1]
        <5>1. \A m \in 1 .. n : sequence[m] # sequence[n + 1]
          BY <1>0, <2>1 DEF NoTwo
        <5>2. QED
          BY <3>5, <5>1
      <4>3. QED
        BY <3>3, <3>4, <4>1, <4>2 DEF NoTwo
    <3>8. Len(more) <= n + 1
      BY <2>1, <2>3, <3>2 DEF here
    <3>9. Picked(n + 1)
      BY <3>2, <3>6, <3>7, <3>8 DEF more
    <3>10. QED
      BY <2>1, <3>9, Zenon
  <2>6. QED
    BY <2>4, <2>5
<1>4. \A n \in 0 .. top : n \in Fine
  <2> HIDE DEF Fine, top
  <2>1. QED
    BY <1>0, <1>2, <1>3, LengthsByInduction
<1>5. Picked(top)
  <2>1. top \in 0 .. top
    BY <1>0
  <2>2. QED
    BY <1>4, <2>1, Zenon
<1>6. QED
  BY <1>0, <1>1, <1>5 DEF InSeq

\* The head of a queue is taken out of it.
LEMMA TailsLose ==
  ASSUME NEW S, NEW jobs \in Seq(S), jobs # <<>>
  PROVE  /\ InSeq(Head(jobs), jobs) /\ Head(jobs) \in S
         /\ \A j : InSeq(j, Tail(jobs)) => InSeq(j, jobs)
         /\ NoTwo(jobs) => NoTwo(Tail(jobs)) /\ ~InSeq(Head(jobs), Tail(jobs))
<1>1. /\ Len(jobs) \in Nat /\ Len(jobs) # 0 /\ DOMAIN jobs = 1 .. Len(jobs) /\ DOMAIN Tail(jobs) = 1 .. Len(jobs) - 1
      /\ Head(jobs) = jobs[1] /\ \A i \in 1 .. Len(jobs) - 1 : Tail(jobs)[i] = jobs[i + 1]
  OBVIOUS
<1>2. 1 \in DOMAIN jobs /\ \A i \in DOMAIN Tail(jobs) : i + 1 \in DOMAIN jobs /\ i + 1 # 1 /\ Tail(jobs)[i] = jobs[i + 1]
  BY <1>1
<1>3. \A i, k \in DOMAIN Tail(jobs) : i + 1 = k + 1 => i = k
  BY <1>1
<1>4. QED
  BY <1>1, <1>2, <1>3 DEF InSeq, NoTwo

\* A job is put at the end of one.
LEMMA AppendsGain ==
  ASSUME NEW S, NEW jobs \in Seq(S), NEW e
  PROVE  /\ \A j : InSeq(j, Append(jobs, e)) => InSeq(j, jobs) \/ j = e
         /\ NoTwo(jobs) /\ ~InSeq(e, jobs) => NoTwo(Append(jobs, e))
<1>1. /\ Len(jobs) \in Nat /\ DOMAIN jobs = 1 .. Len(jobs) /\ DOMAIN Append(jobs, e) = 1 .. Len(jobs) + 1
      /\ Append(jobs, e)[Len(jobs) + 1] = e /\ \A i \in DOMAIN jobs : Append(jobs, e)[i] = jobs[i]
  OBVIOUS
<1>2. \A i \in DOMAIN Append(jobs, e) : i = Len(jobs) + 1 \/ i \in DOMAIN jobs
  BY <1>1
<1>3. QED
  BY <1>1, <1>2 DEF InSeq, NoTwo

-----------------------------------------------------------------------------
(* The values of the scripts                                               *)

\* What the property is about, besides what the scripts say.
valueVars == <<requested, listed, unlisted, pinned, lookup, sentAs, fixedId, tokens, products>>

\* The steps that touch it: a script says something, the client asks, or the send hook reads.
ScriptSpeaks(g) == (Unlist(g) /\ UNCHANGED scriptedVars) \/ List(g) \/ SetStat(g) \/ AddToken(g)
ClientAsks(j) ==
  \/ (RequestSchema(j) \/ \E self \in BOOLEAN : RequestUser(j, self)) /\ UNCHANGED scriptedVars
  \/ RequestStats(j)

\* The receivers leave it alone.
LEMMA ReceiversLeaveValues ==
  ASSUME NEW t \in Receivers, Arrival(t) \/ Receive(t)
  PROVE  UNCHANGED valueVars
<1> USE DEF valueVars, achVars, scriptVars, jobVars, heldVars, scriptedVars, donorVars, tokenVars
<1>1. CASE Arrival(t)
  <2>1. UNCHANGED <<achVars, scriptedVars>>
    BY <1>1 DEF Arrival, FromServers, Rest
  <2>2. QED
    BY <2>1
<1>2. CASE Receive(t)
  <2>1. CASE AchievementStep(t) /\ Rest(<<localVars, scriptedVars, presenceVars>>)
    <3>1. UNCHANGED <<requested, listed, unlisted>>
      BY <2>1 DEF AchievementStep, LookUp, StripStats, ToRebuild, Fill, Capture, Expire, PopHeld, HeldDrained
    <3>2. QED
      BY <2>1, <3>1 DEF Rest
  <2>2. CASE \E fits \in BOOLEAN : Overlay(t, fits)
    BY <2>2 DEF Overlay
  <2>3. CASE UNCHANGED <<achVars, scriptedVars>>
    BY <2>3
  <2>4. QED
    BY <1>2, <2>1, <2>2, <2>3 DEF Receive, Rest
<1>3. QED
  BY <1>1, <1>2

\* Nor does anything else but the steps named.
LEMMA StepsOnValues ==
  ASSUME [Next]_vars
  PROVE  \/ UNCHANGED valueVars
         \/ \E g \in Games \cup AskedAbout : ScriptSpeaks(g)
         \/ \E j \in Jobs : ClientAsks(j)
         \/ AskProducts(Games) \/ ProductStep \/ DonorStep
<1> USE DEF valueVars, achVars, scriptVars, jobVars, heldVars, scriptedVars, donorVars, tokenVars
<1>1. CASE \E t \in Receivers : (Active(t) /\ Arrival(t)) \/ Receive(t)
  BY <1>1, ReceiversLeaveValues
<1>2. CASE Send
  <2>1. CASE UNCHANGED <<achVars, scriptedVars>>
    BY <2>1
  <2>2. QED
    BY <1>2, <2>1 DEF Send, Rest
<1>3. CASE Client
  <2>1. CASE UNCHANGED <<achVars, scriptedVars>>
    BY <2>1
  <2>2. CASE AsksPages /\ UNCHANGED scriptedVars
    <3>1. PICK j \in Jobs : RequestSchema(j) \/ \E self \in BOOLEAN : RequestUser(j, self)
      BY <2>2 DEF AsksPages
    <3>2. QED
      BY <2>2, <3>1 DEF ClientAsks
  <2>3. CASE \E g \in Games \cup AskedAbout : ScriptSpeaks(g)
    BY <2>3
  <2>4. CASE \E j \in Jobs : RequestStats(j)
    BY <2>4 DEF ClientAsks, RequestStats
  <2>5. QED
    BY <1>3, <2>1, <2>2, <2>3, <2>4 DEF Client, Rest, ScriptSpeaks
<1>4. CASE Pages \/ UNCHANGED vars
  BY <1>4 DEF Pages, vars
<1>5. CASE Hold
  <2>1. UNCHANGED <<requested, listed, unlisted>>
    BY <1>5 DEF Hold, HoldTimesOut
  <2>2. QED
    BY <1>5, <2>1 DEF Hold, Rest
<1>6. QED
  BY <1>1, <1>2, <1>3, <1>4, <1>5 DEF Next

\* Where a job's request is, and whose id it went out with.  One that was pinned when it was
\* asked never comes to fetch.
FixedInv ==
  /\ lookup \in [StatisticsJobs -> {"", "pins", "fetch"}]
  /\ sentAs \in [StatisticsJobs -> {"", "pinned", "fetched", "default"}]
  /\ fixedId \subseteq requested
  /\ \A j \in StatisticsJobs : j \notin requested => sentAs[j] = "" /\ lookup[j] = ""
  /\ \A j \in fixedId : /\ j \in StatisticsJobs /\ GameOf[j] \in pinned
                        /\ lookup[j] # "fetch" /\ sentAs[j] \in {"", "pinned"}

\* It starts with no request.
LEMMA InitFixed == Init => FixedInv
  BY DEF Init, ScriptedInit, AchievementInit, FixedInv

\* Pins stay, and what is pinned is sent.
LEMMA StepKeepsFixed ==
  ASSUME FixedInv, [Next]_vars
  PROVE  FixedInv'
<1> USE DEF FixedInv
<1>1. CASE UNCHANGED valueVars
  BY <1>1 DEF valueVars
<1>2. ASSUME NEW g, ScriptSpeaks(g)
      PROVE  FixedInv'
  <2>1. UNCHANGED <<requested, lookup, sentAs, fixedId>> /\ pinned \subseteq pinned'
    BY <1>2 DEF ScriptSpeaks, Unlist, List, SetStat, AddToken, jobVars, achVars, scriptedVars, donorVars
  <2>2. QED
    BY <2>1
<1>3. ASSUME NEW j \in Jobs, ClientAsks(j)
      PROVE  FixedInv'
  <2>1. CASE RequestStats(j)
    <3>1. /\ j \in StatisticsJobs \ requested /\ requested' = requested \cup {j}
          /\ UNCHANGED <<pinned, sentAs>>
          /\ \/ lookup' = [lookup EXCEPT ![j] = "pins"] /\ fixedId' = IF GameOf[j] \in pinned THEN fixedId \cup {j} ELSE fixedId
             \/ UNCHANGED <<lookup, fixedId>>
      BY <1>3, <2>1 DEF RequestStats
    <3>2. lookup' \in [StatisticsJobs -> {"", "pins", "fetch"}]
      BY <3>1
    <3>3. \A k \in fixedId' : k \in fixedId \/ (k = j /\ GameOf[j] \in pinned /\ lookup'[j] = "pins" /\ sentAs[j] = "")
      <4>1. sentAs[j] = ""
        BY <3>1
      <4>2. CASE UNCHANGED <<lookup, fixedId>>
        BY <4>2
      <4>3. CASE lookup' = [lookup EXCEPT ![j] = "pins"] /\ fixedId' = IF GameOf[j] \in pinned THEN fixedId \cup {j} ELSE fixedId
        <5>1. lookup'[j] = "pins"
          BY <3>1, <4>3
        <5>2. QED
          BY <4>1, <4>3, <5>1
      <4>4. QED
        BY <3>1, <4>2, <4>3
    <3>4. \A k \in fixedId : lookup'[k] = lookup[k]
      BY <3>1
    <3>5. \A k \in StatisticsJobs : k \notin requested' => lookup'[k] = lookup[k]
      BY <3>1
    <3>6. QED
      BY <3>1, <3>2, <3>3, <3>4, <3>5
  <2>2. CASE ~RequestStats(j)
    <3>1. requested \subseteq requested' /\ UNCHANGED <<lookup, fixedId, pinned, sentAs>>
      BY <1>3, <2>2 DEF ClientAsks, RequestSchema, RequestUser, scriptedVars, donorVars
    <3>2. QED
      BY <3>1
  <2>3. QED
    BY <2>1, <2>2
<1>4. CASE AskProducts(Games) \/ ProductStep
  <2>1. UNCHANGED <<achVars, donorVars>>
    BY <1>4 DEF AskProducts, ProductStep, SearchToken, AddTokenTo, InjectionEnds, Asks
  <2>2. QED
    BY <2>1 DEF achVars, donorVars
<1>5. ASSUME NEW j \in StatisticsJobs, LookUpDonor(j)
      PROVE  FixedInv'
  <2>1. /\ lookup[j] = "pins" /\ UNCHANGED <<requested, pinned, fixedId>>
        /\ \/ lookup' = [lookup EXCEPT ![j] = "fetch"] /\ FirstIn(j) = "unknown" /\ UNCHANGED sentAs
           \/ lookup' = [lookup EXCEPT ![j] = ""] /\ sentAs' = [sentAs EXCEPT ![j] = FirstIn(j)] /\ FirstIn(j) # "unknown"
    BY <1>5 DEF LookUpDonor, SendsUnder
  <2>2. FirstIn(j) \in {"pinned", "default", "fetched", "unknown"} /\ (GameOf[j] \in pinned => FirstIn(j) = "pinned")
    BY DEF FirstIn
  <2>3. j \in requested
    BY <2>1
  <2>4. CASE FirstIn(j) = "unknown"
    BY <2>1, <2>2, <2>3, <2>4
  <2>5. CASE FirstIn(j) # "unknown"
    <3>1. /\ lookup' = [lookup EXCEPT ![j] = ""] /\ sentAs' = [sentAs EXCEPT ![j] = FirstIn(j)]
          /\ UNCHANGED <<requested, pinned, fixedId>>
      BY <2>1, <2>5
    <3>2. FirstIn(j) \in {"pinned", "fetched", "default"}
      BY <2>2, <2>5
    <3>3. /\ lookup' \in [StatisticsJobs -> {"", "pins", "fetch"}]
          /\ sentAs' \in [StatisticsJobs -> {"", "pinned", "fetched", "default"}]
      BY <3>1, <3>2
    <3>4. \A k \in StatisticsJobs : k # j => lookup'[k] = lookup[k] /\ sentAs'[k] = sentAs[k]
      BY <3>1
    <3>5. lookup'[j] = "" /\ sentAs'[j] = FirstIn(j)
      BY <3>1
    <3>6. ASSUME NEW k \in fixedId'
          PROVE  /\ k \in StatisticsJobs /\ GameOf[k] \in pinned'
                 /\ lookup'[k] # "fetch" /\ sentAs'[k] \in {"", "pinned"}
      <4>1. k \in StatisticsJobs /\ GameOf[k] \in pinned /\ lookup[k] # "fetch" /\ sentAs[k] \in {"", "pinned"}
        BY <3>1
      <4>2. CASE k = j
        BY <2>2, <3>1, <3>5, <4>1, <4>2
      <4>3. CASE k # j
        BY <3>1, <3>4, <4>1, <4>3
      <4>4. QED
        BY <4>2, <4>3
    <3>7. \A k \in StatisticsJobs : k \notin requested' => sentAs'[k] = "" /\ lookup'[k] = ""
      BY <2>3, <3>1, <3>4
    <3>8. QED
      BY <3>1, <3>3, <3>6, <3>7
  <2>6. QED
    BY <2>4, <2>5
<1>6. ASSUME NEW j \in StatisticsJobs, NEW ok \in BOOLEAN, FetchStatSteamId(j, ok)
      PROVE  FixedInv'
  <2>1. PICK id \in {"fetched", "default"} :
          /\ lookup[j] = "fetch" /\ UNCHANGED <<requested, pinned, fixedId>>
          /\ lookup' = [lookup EXCEPT ![j] = ""] /\ sentAs' = [sentAs EXCEPT ![j] = id]
    BY <1>6 DEF FetchStatSteamId, SendsUnder
  <2>2. j \in requested /\ j \notin fixedId
    BY <2>1
  <2>3. QED
    BY <2>1, <2>2
<1>7. QED
  BY <1>1, <1>2, <1>3, <1>4, <1>5, <1>6, StepsOnValues DEF DonorStep

\* The games a request still has to show the scripts, or has their tokens of.
Steps == {"none", "search", "inject", "sent"}
Requests == [step : Steps, apps : SUBSET Games, left : SUBSET Games, patched : SUBSET Games, steady : SUBSET Games]
Settled == products.steady \ unlisted
ProductsInv ==
  /\ products \in Requests
  /\ Settled \subseteq products.apps
  /\ \A g \in Settled : HasToken(g)
  /\ products.step = "search" => Settled \subseteq products.left
  /\ products.step = "inject" => Settled \subseteq products.left \cup products.patched
  /\ products.step = "sent" => Settled \subseteq products.patched

\* It starts with no request.
LEMMA InitProducts == Init => ProductsInv
<1> SUFFICES ASSUME Init PROVE ProductsInv
  OBVIOUS
<1>1. products = [step |-> "none", apps |-> {}, left |-> {}, patched |-> {}, steady |-> {}]
  BY DEF Init, ScriptedInit, NoRequest
<1>2. QED
  BY <1>1 DEF ProductsInv, Requests, Steps, Settled

\* A game that was listed with a token when the request was made, and stays listed, is not
\* passed over.
LEMMA StepKeepsProducts ==
  ASSUME ProductsInv, [Next]_vars
  PROVE  ProductsInv'
<1> USE DEF ProductsInv, Settled, HasToken, HasDepot
<1>1. CASE UNCHANGED valueVars
  BY <1>1 DEF valueVars
<1>2. ASSUME NEW g, ScriptSpeaks(g)
      PROVE  ProductsInv'
  <2>1. /\ UNCHANGED products /\ tokens \subseteq tokens' /\ unlisted \subseteq unlisted'
        /\ \A h \in listed : h \in listed' \/ h \in unlisted'
    BY <1>2 DEF ScriptSpeaks, Unlist, List, SetStat, AddToken, jobVars, achVars, scriptedVars, donorVars, tokenVars
  <2>2. QED
    BY <2>1
<1>3. ASSUME NEW j \in Jobs, ClientAsks(j)
      PROVE  ProductsInv'
  <2>1. UNCHANGED <<products, tokens, listed, unlisted>>
    BY <1>3 DEF ClientAsks, RequestSchema, RequestUser, RequestStats, scriptVars, scriptedVars, tokenVars
  <2>2. QED
    BY <2>1
<1>4. CASE DonorStep
  <2>1. UNCHANGED <<products, tokens, listed, unlisted>>
    BY <1>4 DEF DonorStep, LookUpDonor, FetchStatSteamId, scriptVars, tokenVars
  <2>2. QED
    BY <2>1
<1>5. CASE AskProducts(Games)
  <2>1. /\ UNCHANGED <<tokens, listed, unlisted>>
        /\ products' = [step |-> "search", apps |-> Games, left |-> Games, patched |-> {},
                        steady |-> {g \in Games : HasToken(g)}]
    BY <1>5 DEF AskProducts, Asks, achVars
  <2>2. QED
    BY <2>1 DEF Requests, Steps
<1>6. ASSUME NEW g \in Games, SearchToken(g)
      PROVE  ProductsInv'
  <2>1. UNCHANGED <<tokens, listed, unlisted>> /\ products.step = "search" /\ g \in products.left
    BY <1>6 DEF SearchToken, Asks, achVars
  <2>2. CASE HasToken(g)
    <3>1. products' = [products EXCEPT !.step = "inject", !.left = products.apps]
      BY <1>6, <2>2 DEF SearchToken, Asks
    <3>2. QED
      BY <2>1, <3>1 DEF Requests, Steps
  <2>3. CASE ~HasToken(g)
    <3>1. products' = [products EXCEPT !.step = IF products.left = {g} THEN "sent" ELSE @, !.left = @ \ {g}]
      BY <1>6, <2>3 DEF SearchToken, Asks
    <3>2. g \notin Settled
      BY <2>3
    <3>3. products' \in Requests
      BY <2>1, <3>1 DEF Requests, Steps
    <3>4. products'.steady = products.steady /\ products'.apps = products.apps /\ products'.left = products.left \ {g}
      BY <2>1, <3>1 DEF Requests
    <3>5. products'.step = IF products.left = {g} THEN "sent" ELSE "search"
      BY <2>1, <3>1 DEF Requests
    <3>6. QED
      BY <2>1, <3>2, <3>3, <3>4, <3>5
  <2>4. QED
    BY <2>2, <2>3
<1>7. ASSUME NEW g \in Games, AddTokenTo(g)
      PROVE  ProductsInv'
  <2>1. /\ UNCHANGED <<tokens, listed, unlisted>> /\ products.step = "inject"
        /\ products' = [products EXCEPT !.left = @ \ {g}, !.patched = IF HasToken(g) THEN @ \cup {g} ELSE @]
    BY <1>7 DEF AddTokenTo, Asks, achVars
  <2>2. products' \in Requests
    BY <2>1 DEF Requests
  <2>3. /\ products'.steady = products.steady /\ products'.apps = products.apps
        /\ products'.left = products.left \ {g} /\ products'.step = "inject"
        /\ products'.patched = IF HasToken(g) THEN products.patched \cup {g} ELSE products.patched
    BY <2>1 DEF Requests
  <2>4. QED
    BY <2>1, <2>2, <2>3
<1>8. CASE InjectionEnds
  <2>1. /\ UNCHANGED <<tokens, listed, unlisted>> /\ products.step = "inject" /\ products.left = {}
        /\ products' = [products EXCEPT !.step = "sent"]
    BY <1>8 DEF InjectionEnds, Asks, achVars
  <2>2. QED
    BY <2>1 DEF Requests, Steps
<1>9. QED
  BY <1>1, <1>2, <1>3, <1>4, <1>5, <1>6, <1>7, <1>8, StepsOnValues DEF ProductStep

\* What a script had set before the send hook saw a request is what goes out, for every set of
\* games and jobs: the pinned id wins, and a game that stays listed gets its token
\* (StatsClient, Hooks_NetPacket_UserStats, Hooks_NetPacket_AccessToken).
THEOREM ScriptsDecide == Spec => []ScriptValuesAreSent
<1>1. Init => FixedInv /\ ProductsInv
  BY InitFixed, InitProducts
<1>2. FixedInv /\ ProductsInv /\ [Next]_vars => (FixedInv /\ ProductsInv)'
  BY StepKeepsFixed, StepKeepsProducts
<1>3. FixedInv /\ ProductsInv => ScriptValuesAreSent
  BY DEF FixedInv, ProductsInv, Settled, ScriptValuesAreSent
<1>4. QED
  BY <1>1, <1>2, <1>3, PTL DEF Spec

-----------------------------------------------------------------------------
(* The types of the rest                                                   *)

\* The games announced and injected are games.
PresenceTypes ==
  /\ tracked \in ListedGames \cup {NoGame}
  /\ rpKvs \in [ListedGames -> AllGames \cup {NoGame}]
  /\ pushes \in Seq(AllGames \cup {NoGame})
  /\ injectPkt \in AllGames \cup {NoGame} /\ serverView \in AllGames \cup {NoGame}

\* The steps that touch them: of the send hook, the client, and a packet that arrives.
PresenceMoves ==
  \/ TrackSend \/ Notify \/ Refresh
  \/ \E g \in AllGames : TrackRPSend(g)
  \/ \E t \in Receivers, ls \in Probes : ArrivePush(t, ls)

\* All others leave them alone.
LEMMA StepsOnPresence ==
  ASSUME [Next]_vars
  PROVE  PresenceMoves \/ UNCHANGED <<tracked, rpKvs, pushes, injectPkt, serverView>>
<1> USE DEF PresenceMoves, presenceVars, trackVars, serverVars, Rest
<1>1. ASSUME NEW t \in Receivers, Arrival(t)
      PROVE  PresenceMoves \/ UNCHANGED presenceVars
  BY <1>1 DEF Arrival, FromServers
<1>2. ASSUME NEW t \in Receivers, Receive(t)
      PROVE  UNCHANGED <<tracked, rpKvs, pushes, injectPkt, serverView>>
  <2>1. CASE PresenceStep(t)
    BY <2>1 DEF PresenceStep, TryInject, Injected, HandleRecv
  <2>2. QED
    BY <1>2, <2>1 DEF Receive
<1>3. CASE Send
  BY <1>3 DEF Send, SendStepPresence
<1>4. CASE Client
  <2>1. CASE \E g \in AllGames : Launch(g) \/ Exit(g)
    BY <2>1 DEF Launch, Exit, Reports
  <2>2. QED
    BY <1>4, <2>1 DEF Client
<1>5. CASE Pages \/ Hold \/ UNCHANGED vars
  BY <1>5 DEF Pages, Hold, vars
<1>6. QED
  BY <1>1, <1>2, <1>3, <1>4, <1>5 DEF Next

\* The types are kept.
LEMMA StepKeepsPresence ==
  ASSUME PresenceTypes, [Next]_vars
  PROVE  PresenceTypes'
<1> USE DEF PresenceTypes
<1>1. CASE UNCHANGED <<tracked, rpKvs, pushes, injectPkt, serverView>>
  BY <1>1
<1>2. CASE TrackSend
  BY <1>2 DEF TrackSend, Tracks, Inject, serverVars, AllGames
<1>3. CASE Notify
  BY <1>3 DEF Notify, ServerSees, Seen, trackVars, AllGames
<1>4. CASE Refresh
  BY <1>4 DEF Refresh, trackVars
<1>5. ASSUME NEW g \in AllGames, TrackRPSend(g)
      PROVE  PresenceTypes'
  BY <1>5 DEF TrackRPSend, Inject, serverVars, AllGames
<1>6. ASSUME NEW t, NEW ls, ArrivePush(t, ls)
      PROVE  PresenceTypes'
  BY <1>6 DEF ArrivePush, trackVars
<1>7. QED
  BY <1>1, <1>2, <1>3, <1>4, <1>5, <1>6, StepsOnPresence DEF PresenceMoves

\* What the send hook holds and the queues hold are requests that were made.
LocalTypes ==
  /\ asked \subseteq CloudJobs \cup KeyJobs
  /\ sending \in asked \cup {NoJob}
  /\ queue \in [Families -> Seq(Jobs)]
  /\ \A f \in Families : Len(queue[f]) <= MaxQueued
  /\ suppressed \subseteq asked /\ lost \subseteq suppressed

\* The steps that touch them.
LocalMoves ==
  \/ \E j \in Jobs, n \in BOOLEAN : Ask(j, n)
  \/ Decline \/ Answer
  \/ \E t \in Receivers : Pop(t)

\* All others leave them alone.
LEMMA StepsOnLocal ==
  ASSUME [Next]_vars
  PROVE  \/ LocalMoves /\ UNCHANGED <<achVars, scriptedVars, presenceVars>>
         \/ UNCHANGED <<asked, sending, queue, suppressed, lost>>
<1> USE DEF LocalMoves, localVars, Rest
<1>1. ASSUME NEW t \in Receivers, Arrival(t)
      PROVE  UNCHANGED localVars
  BY <1>1 DEF Arrival, FromServers
<1>2. ASSUME NEW t \in Receivers, Receive(t)
      PROVE  (Pop(t) /\ UNCHANGED <<achVars, scriptedVars, presenceVars>>) \/ UNCHANGED localVars
  <2>1. CASE Drained(t)
    BY <2>1 DEF Drained
  <2>2. QED
    BY <1>2, <2>1 DEF Receive
<1>3. CASE Send
  BY <1>3 DEF Send, SendStep
<1>4. CASE Client
  <2>1. CASE ActivateHost
    BY <2>1 DEF ActivateHost
  <2>2. QED
    BY <1>4, <2>1 DEF Client
<1>5. CASE Pages \/ Hold \/ UNCHANGED vars
  BY <1>5 DEF Pages, Hold, vars
<1>6. QED
  BY <1>1, <1>2, <1>3, <1>4, <1>5 DEF Next

\* The types are kept, and the queues' bounds.
LEMMA StepKeepsLocal ==
  ASSUME LocalTypes, [Next]_vars
  PROVE  LocalTypes'
<1> USE DEF LocalTypes
<1>1. CASE UNCHANGED <<asked, sending, queue, suppressed, lost>>
  BY <1>1
<1>2. ASSUME NEW j \in Jobs, NEW n \in BOOLEAN, Ask(j, n)
      PROVE  LocalTypes'
  BY <1>2 DEF Ask
<1>3. CASE Decline
  BY <1>3 DEF Decline
<1>4. CASE Answer
  <2> DEFINE f == FamilyOf(sending)
  <2>1. f \in Families /\ sending \in asked /\ sending \in Jobs
    BY <1>4, LocalAssumption DEF Answer, FamilyOf, Families
  <2>2. /\ queue' = [queue EXCEPT ![f] = QueueAnswer(queue[f], sending)]
        /\ lost' \subseteq lost \cup {sending} /\ suppressed' = suppressed \cup {sending}
        /\ sending' = NoJob /\ asked' = asked
    BY <1>4 DEF Answer
  <2>3. QueueAnswer(queue[f], sending) \in Seq(Jobs) /\ Len(QueueAnswer(queue[f], sending)) <= MaxQueued
    BY <2>1, LocalAssumption DEF QueueAnswer, HasRoom
  <2> HIDE DEF f
  <2>4. QED
    BY <2>1, <2>2, <2>3
<1>5. ASSUME NEW t \in Receivers, Pop(t)
      PROVE  LocalTypes'
  <2>1. PICK f \in Families : queue[f] # <<>> /\ queue' = [queue EXCEPT ![f] = Tail(queue[f])]
    BY <1>5 DEF Pop
  <2>2. Tail(queue[f]) \in Seq(Jobs) /\ Len(Tail(queue[f])) <= MaxQueued
    BY <2>1, LocalAssumption
  <2>3. QED
    BY <1>5, <2>1, <2>2 DEF Pop
<1>6. QED
  BY <1>1, <1>2, <1>3, <1>4, <1>5, StepsOnLocal DEF LocalMoves

\* The records and tables of the achievement handlers.
UserReplies == [kind : {"user"}, job : UserJobs, about : {"as is", "rebuilt"}]
AchTypes ==
  /\ requested \subseteq AchievementJobs \cup LegacyJobs
  /\ jobIdToAppId \subseteq requested
  /\ userAchJobs \subseteq requested \cap UserJobs
  /\ own \subseteq requested \cap UserJobs
  /\ schema \in [Games -> {"none", "blank", "full"}]
  /\ heldUserAch \in Seq(UserJobs) /\ Len(heldUserAch) <= MaxHeld
  /\ overdue \subseteq UserJobs
  /\ achPending \in Seq(UserReplies)

\* What a packet may be where it is: its kind tells its job's, but for a held reply's copy, which
\* is for no job and at the end of the hook.
Kinds == {"foreign", "plain", "none", "schema", "user", "stats", "legacy", "reply", "persona"}
Abouts ==
  {"", "full", "blank", "valve", "own", "donor", "stripped", "cloud", "rebuilt", "as is", "steam", "local"}
    \cup AllGames
Packets == [kind : Kinds, job : Jobs \cup {DroppedJob}, about : Abouts]
Fits(p, stage) ==
  /\ p.kind = "schema" => p.job \in SchemaJobs /\ p.about \in {"full", "blank"}
  /\ p.kind = "stats" => p.job \in StatsJobs
  /\ p.kind = "legacy" => p.job \in LegacyJobs
  /\ p.kind = "persona" => p.job = DroppedJob
  /\ p.kind = "user" /\ stage # "original" => p.job \in UserJobs
  /\ stage \in {"user", "fill"} => p.kind = "user"
  /\ stage = "schema" => p.kind = "schema"
  /\ stage = "stats" => p.kind = "stats"
PacketTypes ==
  /\ packet \in [Receivers -> Packets] /\ hand \in [Receivers -> Packets]
  /\ \A t \in Receivers : Fits(packet[t], at[t])

\* A packet that is not the copy of a held reply fits every stage but those of one kind.
Common == {"idle", "original"} \cup Gate \cup DOMAIN NextStage

\* So it fits the next one.
LEMMA FitsOn ==
  ASSUME NEW p, NEW stage, stage # "original", Fits(p, stage), NEW next \in Common
  PROVE  Fits(p, next)
  BY DEF Fits, Common, Gate, NextStage

\* One receiver's packet changes.
LEMMA OnePacket ==
  ASSUME LayoutTypes, PacketTypes, NEW t \in Receivers, NEW p \in Packets, NEW stage, Fits(p, stage),
         packet' = [packet EXCEPT ![t] = p], at' = [at EXCEPT ![t] = stage],
         hand' \in [Receivers -> Packets]
  PROVE  PacketTypes'
<1> HIDE DEF Packets, Fits
<1>1. packet' \in [Receivers -> Packets]
  BY DEF PacketTypes
<1>2. ASSUME NEW u \in Receivers PROVE Fits(packet'[u], at'[u])
  <2>1. CASE u = t
    <3>1. packet'[u] = p /\ at'[u] = stage
      BY <2>1 DEF PacketTypes, LayoutTypes
    <3>2. QED
      BY <3>1
  <2>2. CASE u # t
    <3>1. packet'[u] = packet[u] /\ at'[u] = at[u]
      BY <2>2 DEF PacketTypes, LayoutTypes
    <3>2. QED
      BY <3>1 DEF PacketTypes
  <2>3. QED
    BY <2>1, <2>2
<1>3. \A u \in Receivers : Fits(packet[u], at[u])'
  BY <1>2 DEF Fits
<1>4. QED
  BY <1>1, <1>3 DEF PacketTypes

\* One receiver goes on with its packet.
LEMMA OneGoesOn ==
  ASSUME LayoutTypes, PacketTypes, NEW t \in Receivers, at[t] # "original", NEW next \in Common,
         at' = [at EXCEPT ![t] = next], packet' = packet, hand' \in [Receivers -> Packets]
  PROVE  PacketTypes'
<1>1. Fits(packet[t], next)
  BY FitsOn DEF PacketTypes
<1>2. packet[t] \in Packets /\ packet' = [packet EXCEPT ![t] = packet[t]]
  BY DEF PacketTypes
<1>3. QED
  BY <1>1, <1>2, OnePacket

\* The stages that follow one another are common to all kinds.
LEMMA NextIsCommon ==
  ASSUME NEW t \in Receivers, GoOn(t), at[t] \in DOMAIN NextStage
  PROVE  at[t] # "original" /\ \E next \in Common : at' = [at EXCEPT ![t] = next]
<1>1. at[t] # "original"
  BY DEF NextStage
<1>2. NextStage[at[t]] \in Common
  BY DEF NextStage, Common
<1>3. QED
  BY <1>1, <1>2 DEF GoOn

\* What arrives is a packet that fits.
LEMMA Replies ==
  ASSUME NEW j \in Jobs, NEW p \in ReplyTo(j)
  PROVE  /\ p \in Packets /\ p.job = j /\ \A stage \in Common : Fits(p, stage)
         /\ p.kind \in {"schema", "user", "stats", "legacy", "reply"}
         /\ p.about \in {"full", "blank", "valve", "own", "steam", "donor"}
         /\ p.about = "donor" => j \in spoofed /\ p.kind \in {"stats", "legacy"}
<1>1. \E kind \in {"schema", "user", "stats", "legacy", "reply"} :
        \E about \in {"full", "blank", "valve", "own", "steam", "donor"} :
           /\ p = [kind |-> kind, job |-> j, about |-> about]
           /\ kind = "schema" => j \in SchemaJobs /\ about \in {"full", "blank"}
           /\ kind = "user" => j \in UserJobs
           /\ kind = "stats" => j \in StatsJobs
           /\ kind = "legacy" => j \in LegacyJobs
           /\ about = "donor" => j \in spoofed /\ kind \in {"stats", "legacy"}
  BY DEF ReplyTo, Packet, StatisticsJobs
<1>2. PICK kind \in {"schema", "user", "stats", "legacy", "reply"} :
        \E about \in {"full", "blank", "valve", "own", "steam", "donor"} :
           /\ p = [kind |-> kind, job |-> j, about |-> about]
           /\ kind = "schema" => j \in SchemaJobs /\ about \in {"full", "blank"}
           /\ kind = "user" => j \in UserJobs
           /\ kind = "stats" => j \in StatsJobs
           /\ kind = "legacy" => j \in LegacyJobs
           /\ about = "donor" => j \in spoofed /\ kind \in {"stats", "legacy"}
  BY <1>1
<1>3. p \in Packets /\ p.job = j
  <2>1. PICK about \in Abouts : p = [kind |-> kind, job |-> j, about |-> about]
    BY <1>2 DEF Abouts
  <2>2. kind \in Kinds
    BY DEF Kinds
  <2>3. QED
    BY <2>1, <2>2 DEF Packets
<1>4. /\ p.kind \in {"schema", "user", "stats", "legacy", "reply"}
      /\ p.kind = "schema" => p.job \in SchemaJobs /\ p.about \in {"full", "blank"}
      /\ p.kind = "user" => p.job \in UserJobs
      /\ p.kind = "stats" => p.job \in StatsJobs
      /\ p.kind = "legacy" => p.job \in LegacyJobs
  BY <1>2
<1>5. \A stage \in Common : Fits(p, stage)
  BY <1>4 DEF Fits, Common, Gate, NextStage
<1>6. /\ p.about \in {"full", "blank", "valve", "own", "steam", "donor"}
      /\ p.about = "donor" => j \in spoofed /\ p.kind \in {"stats", "legacy"}
  BY <1>2
<1>7. QED
  BY <1>3, <1>4, <1>5, <1>6

\* What is on the wire and what was answered.
WireTypes == wire \subseteq Jobs /\ replies \in [Jobs -> Nat]

\* An arrival is of a packet that fits: one that no job waits for, or the reply to a request,
\* which leaves the wire.
LEMMA ArrivingPackets ==
  ASSUME PresenceTypes, WireTypes, NEW t \in Receivers, Arrival(t)
  PROVE  /\ UNCHANGED <<hand, clientVars, localVars, achVars, scriptedVars>>
         /\ \E p \in Packets : \E ls \in SUBSET Layouts :
              /\ Arrive(t, p, ls)
              /\ \A stage \in Common : Fits(p, stage)
              /\ \/ p.job = DroppedJob /\ wire' = wire /\ p.kind \in {"foreign", "plain", "persona"}
                 \/ p.job \in wire /\ wire' = wire \ {p.job} /\ p \in ReplyTo(p.job)
<1>1. Probes \subseteq SUBSET Layouts
  BY DEF Probes
<1>2. ASSUME NEW j \in wire, NEW p \in ReplyTo(j), NEW ls \in Probes, ArriveReply(t, p, ls),
             Rest(<<localVars, achVars, scriptedVars, presenceVars>>)
      PROVE  /\ UNCHANGED <<hand, clientVars, localVars, achVars, scriptedVars>>
             /\ p \in Packets /\ Arrive(t, p, ls) /\ \A stage \in Common : Fits(p, stage)
             /\ p.job \in wire /\ wire' = wire \ {p.job} /\ p \in ReplyTo(p.job)
  <2>1. j \in Jobs
    BY DEF WireTypes
  <2>2. p \in Packets /\ p.job = j /\ \A stage \in Common : Fits(p, stage)
    BY <2>1, Replies
  <2>3. UNCHANGED <<hand, clientVars>> /\ Arrive(t, p, ls) /\ wire' = wire \ {p.job}
    BY <1>2, Zenon DEF ArriveReply
  <2>4. UNCHANGED <<localVars, achVars, scriptedVars>>
    BY <1>2 DEF Rest
  <2>5. QED
    BY <2>2, <2>3, <2>4
<1>3. ASSUME NEW p \in {Plain, Foreign}, NEW ls \in Probes, ArriveOther(t, p, ls),
             Rest(<<localVars, achVars, scriptedVars, presenceVars>>)
      PROVE  /\ UNCHANGED <<hand, clientVars, localVars, achVars, scriptedVars>>
             /\ p \in Packets /\ Arrive(t, p, ls) /\ \A stage \in Common : Fits(p, stage)
             /\ p.job = DroppedJob /\ wire' = wire /\ p.kind \in {"foreign", "plain", "persona"}
  <2>1. p \in Packets /\ p.job = DroppedJob /\ p.kind \in {"foreign", "plain", "persona"}
    <3>1. DroppedJob \in Jobs \cup {DroppedJob} /\ "" \in Abouts /\ {"plain", "foreign"} \subseteq Kinds
      BY DEF Abouts, Kinds
    <3>2. PICK kind \in {"plain", "foreign"} : p = [kind |-> kind, job |-> DroppedJob, about |-> ""]
      BY DEF Plain, Foreign, Packet
    <3>3. QED
      BY <3>1, <3>2 DEF Packets
  <2>2. \A stage \in Common : Fits(p, stage)
    BY <2>1 DEF Fits, Common, Gate, NextStage, Plain, Foreign, Packet
  <2>3. UNCHANGED <<hand, wire, clientVars>> /\ Arrive(t, p, ls)
    BY <1>3, Zenon DEF ArriveOther
  <2>4. UNCHANGED <<localVars, achVars, scriptedVars>>
    BY <1>3 DEF Rest
  <2>5. QED
    BY <2>1, <2>2, <2>3, <2>4
<1>4. ASSUME NEW ls \in Probes, ArrivePush(t, ls), Rest(<<localVars, achVars, scriptedVars>>)
      PROVE  /\ UNCHANGED <<hand, clientVars, localVars, achVars, scriptedVars>>
             /\ \E p \in Packets :
                  /\ Arrive(t, p, ls) /\ \A stage \in Common : Fits(p, stage)
                  /\ p.job = DroppedJob /\ wire' = wire /\ p.kind \in {"foreign", "plain", "persona"}
  <2> DEFINE p == Packet("persona", DroppedJob, Head(pushes))
  <2>1. Head(pushes) \in AllGames \cup {NoGame}
    BY <1>4 DEF ArrivePush, PresenceTypes
  <2>2. p \in Packets /\ p.job = DroppedJob /\ p.kind = "persona"
    BY <2>1 DEF Packet, Packets, Kinds, Abouts, NoGame
  <2>3. \A stage \in Common : Fits(p, stage)
    BY <2>2 DEF Fits, Common, Gate, NextStage
  <2>4. UNCHANGED <<hand, wire, clientVars>> /\ Arrive(t, p, ls)
    BY <1>4, Zenon DEF ArrivePush, ArriveOther
  <2>5. UNCHANGED <<localVars, achVars, scriptedVars>>
    BY <1>4 DEF Rest
  <2> HIDE DEF p
  <2>6. QED
    BY <2>2, <2>3, <2>4, <2>5
<1>5. \/ \E j \in wire : \E p \in ReplyTo(j), ls \in Probes :
           ArriveReply(t, p, ls) /\ Rest(<<localVars, achVars, scriptedVars, presenceVars>>)
      \/ \E ls \in Probes : ArrivePush(t, ls) /\ Rest(<<localVars, achVars, scriptedVars>>)
      \/ \E p \in {Plain, Foreign}, ls \in Probes :
           ArriveOther(t, p, ls) /\ Rest(<<localVars, achVars, scriptedVars, presenceVars>>)
  BY DEF Arrival, FromServers, Others
<1>6. QED
  BY <1>1, <1>2, <1>3, <1>4, <1>5

\* What only receivers do.
LEMMA OthersLeaveHooks ==
  ASSUME Send \/ Client \/ Pages \/ Hold \/ UNCHANGED vars
  PROVE  UNCHANGED <<at, packet, hand, clientVars>>
<1>1. CASE Send
  BY <1>1 DEF Send, SendStep, Decline, Answer, DonorStep, LookUpDonor, FetchStatSteamId, ProductStep, SearchToken,
     AddTokenTo, InjectionEnds, Asks, SendStepPresence, TrackSend, Notify, packetVars, hookVars
<1>2. CASE Client
  BY <1>2 DEF Client, AsksPages, ActivateHost, Ask, RequestSchema, RequestUser, Unlist, RequestStats, List, SetStat,
     AskProducts, AddToken, Asks, Refresh, Launch, Exit, Reports, TrackRPSend, packetVars, hookVars
<1>3. CASE Pages \/ Hold \/ UNCHANGED vars
  BY <1>3 DEF Pages, Hold, HoldTimesOut, vars, packetVars, hookVars
<1>4. QED
  BY <1>1, <1>2, <1>3

\* All types but those of the requests with tokens.
JobTypes == LayoutTypes /\ PresenceTypes /\ LocalTypes /\ AchTypes /\ PacketTypes /\ WireTypes

\* The packets stay what they may be.
LEMMA StepKeepsPackets ==
  ASSUME JobTypes, [Next]_vars
  PROVE  PacketTypes'
<1> USE DEF JobTypes
<1>1. ASSUME NEW t \in Receivers, Arrival(t)
      PROVE  PacketTypes'
  <2>1. PICK p \in Packets : \E ls \in SUBSET Layouts : Arrive(t, p, ls) /\ \A stage \in Common : Fits(p, stage)
    BY <1>1, ArrivingPackets
  <2>2. PICK ls \in SUBSET Layouts : Arrive(t, p, ls)
    BY <2>1
  <2>3. packet' = [packet EXCEPT ![t] = p] /\ \E stage \in {"inject", "original", "count"} : at' = [at EXCEPT ![t] = stage]
    BY <2>2 DEF Arrive
  <2>4. {"inject", "original", "count"} \subseteq Common
    BY DEF Common, Gate, NextStage
  <2>5. hand' \in [Receivers -> Packets]
    BY <1>1, ArrivingPackets DEF PacketTypes
  <2>6. QED
    BY <2>1, <2>3, <2>4, <2>5, OnePacket
<1>2. ASSUME NEW t \in Receivers, LayoutStep(t)
      PROVE  PacketTypes'
  <2>1. at[t] # "original" /\ UNCHANGED <<packet, hand>>
    BY <1>2 DEF LayoutStep, Count, Agree, Latch, Disable
  <2>2. \E next \in {"disable", "original", "agree", "latch", "inject"} : at' = [at EXCEPT ![t] = next]
    BY <1>2, CountedPackets DEF LayoutStep, Count, Agree, Latch, Disable
  <2>3. {"disable", "original", "agree", "latch", "inject"} \subseteq Common
    BY DEF Common, Gate, NextStage
  <2>4. QED
    BY <2>1, <2>2, <2>3, OneGoesOn DEF PacketTypes
<1>3. ASSUME NEW t \in Receivers,
             Dispatched(t) \/ Drained(t) \/ Expire(t) \/ HeldDrained(t) \/ Injected(t) \/ TryInject(t)
      PROVE  PacketTypes'
  <2>1. at[t] \in DOMAIN NextStage /\ GoOn(t) /\ packet' = packet
    BY <1>3 DEF Dispatched, Drained, Expire, HeldDrained, TryInject, Injected, NextStage, Families
  <2>2. hand' \in [Receivers -> Packets]
    <3>1. CASE TryInject(t)
      <4>1. NoPacket \in Packets /\ Packet("persona", DroppedJob, injectPkt) \in Packets
        BY DEF NoPacket, Packet, Packets, Kinds, Abouts, PresenceTypes, NoGame
      <4>2. QED
        BY <3>1, <4>1 DEF TryInject, PacketTypes
    <3>2. CASE ~TryInject(t)
      BY <1>3, <3>2 DEF Dispatched, Drained, Expire, HeldDrained, Injected, PacketTypes
    <3>3. QED
      BY <3>1, <3>2
  <2>3. QED
    BY <2>1, <2>2, NextIsCommon, OneGoesOn
<1>4. ASSUME NEW t \in Receivers, Original(t)
      PROVE  PacketTypes'
  <2>1. Plain \in Packets /\ Fits(Plain, "idle")
    BY DEF Plain, Packet, Packets, Kinds, Abouts, Fits
  <2>2. QED
    BY <1>4, <2>1, OnePacket DEF Original, PacketTypes
<1>5. ASSUME NEW t \in Receivers, GiveHand(t) \/ Pop(t) \/ PopHeld(t)
      PROVE  PacketTypes'
  <2>1. UNCHANGED <<at, packet>>
    BY <1>5 DEF GiveHand, Pop, PopHeld
  <2>2. \E p \in Packets : hand' = [hand EXCEPT ![t] = p]
    <3>1. CASE GiveHand(t)
      <4>1. NoPacket \in Packets
        BY DEF NoPacket, Packet, Packets, Kinds, Abouts
      <4>2. QED
        BY <3>1, <4>1 DEF GiveHand
    <3>2. CASE Pop(t)
      <4>1. at[t] \in Families /\ queue[at[t]] \in Seq(Jobs) /\ queue[at[t]] # <<>>
        BY <3>2 DEF Pop, LocalTypes
      <4>2. Head(queue[at[t]]) \in Jobs
        BY <4>1
      <4>3. Packet("reply", Head(queue[at[t]]), "local") \in Packets
        BY <4>2 DEF Packet, Packets, Kinds, Abouts
      <4>4. QED
        BY <3>2, <4>3 DEF Pop
    <3>3. CASE PopHeld(t)
      <4>1. Head(achPending) \in UserReplies
        BY <3>3 DEF PopHeld, AchTypes
      <4>2. UserReplies \subseteq Packets
        BY AchievementAssumption DEF UserReplies, Packets, Kinds, Abouts
      <4>3. QED
        BY <3>3, <4>1, <4>2 DEF PopHeld
    <3>4. QED
      BY <1>5, <3>1, <3>2, <3>3
  <2>3. QED
    BY <2>1, <2>2 DEF PacketTypes
<1>6. ASSUME NEW t \in Receivers, LookUp(t) \/ StripStats(t) \/ ToRebuild(t) \/ Capture(t)
      PROVE  PacketTypes'
  <2> USE DEF Leaves
  <2>0. packet[t] \in Packets /\ Fits(packet[t], at[t]) /\ hand' \in [Receivers -> Packets]
    BY <1>6 DEF PacketTypes, LookUp, StripStats, ToRebuild, Capture
  <2>1. CASE LookUp(t)
    <3>1. PICK next \in {packet[t].kind, "original"} : at' = [at EXCEPT ![t] = next] /\ packet' = packet
                                                      /\ packet[t].kind \in {"schema", "user", "stats"}
                                                      /\ at[t] = "dispatch"
      BY <2>1 DEF LookUp
    <3>2. Fits(packet[t], next)
      BY <2>0, <3>1 DEF Fits
    <3>3. QED
      BY <2>0, <3>1, <3>2, OnePacket DEF PacketTypes
  <2>2. CASE StripStats(t)
    <3>1. PICK about \in {packet[t].about, "stripped"} :
            packet' = [packet EXCEPT ![t] = [packet[t] EXCEPT !.about = about]]
      BY <2>2 DEF StripStats, PacketTypes
    <3> DEFINE p == [packet[t] EXCEPT !.about = about]
    <3>2. packet[t].kind = "stats" /\ packet[t].job \in StatsJobs
      BY <2>0, <2>2 DEF StripStats, Fits
    <3>3. p \in Packets /\ p.kind = "stats" /\ p.job \in StatsJobs
      BY <2>0, <3>1, <3>2 DEF Packets, Abouts
    <3>4. Fits(p, "original")
      BY <3>3 DEF Fits
    <3> HIDE DEF p
    <3>5. QED
      BY <2>0, <2>2, <3>1, <3>3, <3>4, OnePacket DEF StripStats, p
  <2>3. CASE ToRebuild(t)
    <3>1. PICK next \in {"fill", "original"} : at' = [at EXCEPT ![t] = next] /\ packet' = packet /\ at[t] = "user"
      BY <2>3 DEF ToRebuild
    <3>2. Fits(packet[t], next)
      BY <2>0, <3>1 DEF Fits
    <3>3. QED
      BY <2>0, <3>1, <3>2, OnePacket DEF PacketTypes
  <2>4. CASE Capture(t)
    <3>1. at' = [at EXCEPT ![t] = "original"] /\ packet' = packet /\ at[t] = "schema"
      BY <2>4 DEF Capture
    <3>2. QED
      BY <2>0, <3>1, OneGoesOn DEF Common
  <2>5. QED
    BY <1>6, <2>1, <2>2, <2>3, <2>4
<1>7. ASSUME NEW t \in Receivers, Fill(t)
      PROVE  PacketTypes'
  <2>0. packet[t] \in Packets /\ Fits(packet[t], at[t]) /\ hand' \in [Receivers -> Packets]
    BY <1>7 DEF PacketTypes, Fill
  <2>1. PICK p \in {packet[t], [packet[t] EXCEPT !.about = "rebuilt"], [packet[t] EXCEPT !.job = DroppedJob]} :
          packet' = [packet EXCEPT ![t] = p]
    BY <1>7 DEF Fill, HeldCopy, PacketTypes
  <2>2. packet[t].kind = "user"
    BY <1>7, <2>0 DEF Fill, Fits
  <2>3. p \in Packets /\ p.kind = "user"
    BY <2>0, <2>1, <2>2 DEF Packets, Abouts
  <2>4. Fits(p, "original")
    BY <2>3 DEF Fits
  <2>5. QED
    BY <1>7, <2>0, <2>1, <2>3, <2>4, OnePacket DEF Fill, Leaves
<1>8. ASSUME NEW t \in Receivers, NEW fits \in BOOLEAN, Overlay(t, fits)
      PROVE  PacketTypes'
  <2>0. packet[t] \in Packets /\ Fits(packet[t], at[t]) /\ hand' \in [Receivers -> Packets]
    BY <1>8 DEF PacketTypes, Overlay
  <2>1. PICK about \in {packet[t].about, "cloud", "stripped"} :
          packet' = [packet EXCEPT ![t] = [packet[t] EXCEPT !.about = about]]
    BY <1>8 DEF Overlay, AchievementsOf, PacketTypes
  <2>2. packet[t].kind = "legacy" /\ packet[t].job \in LegacyJobs /\ GoOn(t) /\ at[t] \in DOMAIN NextStage
    BY <1>8, <2>0 DEF Overlay, Fits, NextStage
  <2> DEFINE p == [packet[t] EXCEPT !.about = about]
  <2>3. p \in Packets /\ p.kind = "legacy" /\ p.job \in LegacyJobs
    BY <2>0, <2>1, <2>2 DEF Packets, Abouts
  <2>4. PICK next \in Common : at' = [at EXCEPT ![t] = next]
    BY <2>2, NextIsCommon
  <2>5. Fits(p, next)
    BY <2>3 DEF Fits, Common, Gate, NextStage
  <2> HIDE DEF p
  <2>6. QED
    BY <2>0, <2>1, <2>3, <2>4, <2>5, OnePacket DEF p
<1>9. ASSUME NEW t \in Receivers, HandleRecv(t)
      PROVE  PacketTypes'
  <2>0. packet[t] \in Packets /\ Fits(packet[t], at[t]) /\ hand' \in [Receivers -> Packets]
    BY <1>9 DEF PacketTypes, HandleRecv
  <2>1. PICK about \in {packet[t].about, tracked} :
          packet' = [packet EXCEPT ![t] = [packet[t] EXCEPT !.about = about]]
    <3>1. packet' = [packet EXCEPT ![t] = [packet[t] EXCEPT !.about = packet[t].about]] \/ packet' = [packet EXCEPT ![t].about = Patched(@)]
      <4>1. packet[t] = [packet[t] EXCEPT !.about = packet[t].about]
        BY <2>0 DEF Packets
      <4>2. packet = [packet EXCEPT ![t] = packet[t]]
        BY DEF PacketTypes
      <4>3. QED
        BY <1>9, <4>1, <4>2 DEF HandleRecv
    <3>2. QED
      BY <3>1 DEF Patched, PacketTypes
  <2>2. packet[t].kind = "persona" /\ packet[t].job = DroppedJob /\ GoOn(t) /\ at[t] \in DOMAIN NextStage
    BY <1>9, <2>0 DEF HandleRecv, Fits, NextStage
  <2> DEFINE p == [packet[t] EXCEPT !.about = about]
  <2>3. p \in Packets /\ p.kind = "persona" /\ p.job = DroppedJob
    BY <2>0, <2>1, <2>2 DEF Packets, Abouts, PresenceTypes, NoGame, AllGames
  <2>4. PICK next \in Common : at' = [at EXCEPT ![t] = next]
    BY <2>2, NextIsCommon
  <2>5. Fits(p, next)
    BY <2>3 DEF Fits, Common, Gate, NextStage
  <2> HIDE DEF p
  <2>6. QED
    BY <2>0, <2>1, <2>3, <2>4, <2>5, OnePacket DEF p
<1>10. CASE Send \/ Client \/ Pages \/ Hold \/ UNCHANGED vars
  BY <1>10, OthersLeaveHooks DEF PacketTypes, Fits
<1>11. ASSUME NEW t \in Receivers, Receive(t)
       PROVE  PacketTypes'
  BY <1>2, <1>3, <1>4, <1>5, <1>6, <1>7, <1>8, <1>9, <1>11 DEF Receive, AchievementStep, PresenceStep
<1>12. QED
  BY <1>1, <1>10, <1>11 DEF Next

\* What QueueHeldUserAch does: the jobs that leave the held replies are those that are appended.
LEMMA Released ==
  ASSUME AchTypes, NEW jobs, Release(jobs)
  PROVE  /\ heldUserAch' \in Seq(UserJobs) /\ Len(heldUserAch') <= Len(heldUserAch)
         /\ achPending' \in Seq(UserReplies) /\ overdue' \subseteq overdue
         /\ \A j : InSeq(j, heldUserAch') => InSeq(j, heldUserAch) /\ j \notin jobs
         /\ NoTwo(heldUserAch) => NoTwo(heldUserAch')
         /\ \E ready \in Seq(UserJobs) :
              /\ \A j : InSeq(j, ready) => InSeq(j, heldUserAch) /\ j \in jobs
              /\ NoTwo(heldUserAch) => NoTwo(ready)
              /\ Len(achPending') = Len(achPending) + Len(ready)
              /\ \A i \in 1 .. Len(achPending) : achPending'[i] = achPending[i]
              /\ \A i \in 1 .. Len(ready) : achPending'[Len(achPending) + i].job = ready[i]
<1> DEFINE ready == Those(heldUserAch, jobs)
<1> DEFINE Rebuilt(j) == Packet("user", j, IF schema'[GameOf[j]] = "none" THEN "as is" ELSE "rebuilt")
<1> DEFINE new == [i \in DOMAIN ready |-> Rebuilt(ready[i])]
<1>1. /\ achPending' = achPending \o new
      /\ heldUserAch' = Those(heldUserAch, UserJobs \ jobs)
      /\ overdue' = overdue \ jobs
  BY DEF Release
<1>2. heldUserAch \in Seq(UserJobs) /\ achPending \in Seq(UserReplies)
  BY DEF AchTypes
<1>3. /\ ready \in Seq(UserJobs)
      /\ \A j : InSeq(j, ready) => j \in jobs /\ InSeq(j, heldUserAch)
      /\ NoTwo(heldUserAch) => NoTwo(ready)
  BY <1>2, ThoseOf
<1>4. /\ heldUserAch' \in Seq(UserJobs) /\ Len(heldUserAch') <= Len(heldUserAch)
      /\ \A j : InSeq(j, heldUserAch') => j \in UserJobs \ jobs /\ InSeq(j, heldUserAch)
      /\ NoTwo(heldUserAch) => NoTwo(heldUserAch')
  BY <1>1, <1>2, ThoseOf
<1> HIDE DEF ready
<1>5. DOMAIN ready = 1 .. Len(ready) /\ Len(ready) \in Nat /\ \A i \in 1 .. Len(ready) : ready[i] \in UserJobs
  BY <1>3
<1>6. \A i \in 1 .. Len(ready) : new[i] \in UserReplies /\ new[i].job = ready[i]
  BY <1>5 DEF Packet, UserReplies
<1>7. new \in Seq(UserReplies) /\ Len(new) = Len(ready)
  <2>1. new \in [1 .. Len(ready) -> UserReplies]
    <3>1. \A i \in DOMAIN ready : new[i] \in UserReplies
      BY <1>5, <1>6
    <3>2. new \in [DOMAIN ready -> UserReplies]
      BY <3>1, Zenon
    <3>3. QED
      BY <1>5, <3>2, Zenon
  <2> HIDE DEF new
  <2>2. QED
    BY <1>5, <2>1
<1> HIDE DEF new
<1>8. /\ achPending' \in Seq(UserReplies) /\ Len(achPending') = Len(achPending) + Len(ready)
      /\ \A i \in 1 .. Len(achPending) : achPending'[i] = achPending[i]
      /\ \A i \in 1 .. Len(ready) : achPending'[Len(achPending) + i] = new[i]
  <2>1. Len(achPending) \in Nat /\ Len(ready) \in Nat
    BY <1>2, <1>5
  <2>2. /\ achPending \o new \in Seq(UserReplies) /\ Len(achPending \o new) = Len(achPending) + Len(ready)
        /\ \A i \in 1 .. Len(achPending) + Len(ready) : (achPending \o new)[i] =
             IF i <= Len(achPending) THEN achPending[i] ELSE new[i - Len(achPending)]
    <3>1. achPending \in Seq(UserReplies) /\ new \in Seq(UserReplies) /\ Len(new) = Len(ready)
      BY <1>2, <1>7
    <3> HIDE DEF new
    <3>2. /\ achPending \o new \in Seq(UserReplies) /\ Len(achPending \o new) = Len(achPending) + Len(new)
          /\ \A i \in 1 .. Len(achPending) + Len(new) : (achPending \o new)[i] =
               IF i <= Len(achPending) THEN achPending[i] ELSE new[i - Len(achPending)]
      BY <3>1, ConcatProperties, Zenon
    <3>3. QED
      BY <3>1, <3>2
  <2>3. \A i \in 1 .. Len(achPending) : i \in 1 .. Len(achPending) + Len(ready) /\ i <= Len(achPending)
    BY <2>1
  <2>4. \A i \in 1 .. Len(ready) : /\ Len(achPending) + i \in 1 .. Len(achPending) + Len(ready)
                                   /\ ~(Len(achPending) + i <= Len(achPending))
                                   /\ (Len(achPending) + i) - Len(achPending) = i
    BY <2>1
  <2>5. QED
    BY <1>1, <2>2, <2>3, <2>4
<1>9. overdue' \subseteq overdue
  BY <1>1
<1>10. \A i \in 1 .. Len(ready) : achPending'[Len(achPending) + i].job = ready[i]
  BY <1>6, <1>8
<1>11. QED
  BY <1>3, <1>4, <1>8, <1>9, <1>10

\* The steps that touch the records and tables of the achievement handlers.
AchMoves ==
  \/ \E t \in Receivers : LookUp(t) \/ Fill(t) \/ Capture(t) \/ Expire(t) \/ PopHeld(t)
  \/ \E j \in Jobs : RequestSchema(j) \/ RequestStats(j) \/ \E self \in BOOLEAN : RequestUser(j, self)
  \/ \E j \in UserJobs : HoldTimesOut(j)
achJobVars == <<requested, jobIdToAppId, userAchJobs, own, schema, heldUserAch, overdue, achPending>>

\* All others leave them alone.
LEMMA StepsOnAch ==
  ASSUME [Next]_vars
  PROVE  AchMoves \/ UNCHANGED achJobVars
<1> USE DEF achVars, achJobVars, jobVars, heldVars, Rest
<1>1. ASSUME NEW t \in Receivers, Arrival(t)
      PROVE  UNCHANGED achJobVars
  BY <1>1 DEF Arrival, FromServers
<1>2. ASSUME NEW t \in Receivers, Receive(t)
      PROVE  AchMoves \/ UNCHANGED achJobVars
  <2>1. CASE AchievementStep(t)
    BY <2>1 DEF AchievementStep, AchMoves, StripStats, ToRebuild, HeldDrained
  <2>2. CASE \E fits \in BOOLEAN : Overlay(t, fits)
    BY <2>2 DEF Overlay
  <2>3. CASE UNCHANGED achVars
    BY <2>3
  <2>4. QED
    BY <1>2, <2>1, <2>2, <2>3 DEF Receive
<1>3. CASE Send
  <2>1. CASE DonorStep \/ ProductStep
    BY <2>1 DEF DonorStep, LookUpDonor, FetchStatSteamId, ProductStep, SearchToken, AddTokenTo, InjectionEnds, Asks
  <2>2. CASE UNCHANGED achVars
    BY <2>2
  <2>3. QED
    BY <1>3, <2>1, <2>2 DEF Send
<1>4. CASE Client
  <2>1. CASE UNCHANGED achVars
    BY <2>1
  <2>2. CASE AsksPages
    BY <2>2 DEF AsksPages, AchMoves
  <2>3. CASE \E j \in Jobs : RequestStats(j)
    BY <2>3 DEF AchMoves
  <2>4. ASSUME NEW g, Unlist(g) \/ List(g) \/ SetStat(g) \/ AddToken(g)
        PROVE  UNCHANGED achJobVars
    BY <2>4 DEF Unlist, List, SetStat, AddToken
  <2>5. CASE AskProducts(Games)
    BY <2>5 DEF AskProducts, Asks
  <2>6. QED
    BY <1>4, <2>1, <2>2, <2>3, <2>4, <2>5 DEF Client
<1>5. CASE Pages \/ Hold \/ UNCHANGED vars
  BY <1>5 DEF Pages, Hold, vars, AchMoves
<1>6. QED
  BY <1>1, <1>2, <1>3, <1>4, <1>5 DEF Next

\* The types are kept, and the bound on what is held.
LEMMA StepKeepsAch ==
  ASSUME JobTypes, [Next]_vars
  PROVE  AchTypes'
<1> USE DEF JobTypes, AchTypes
<1>1. CASE UNCHANGED achJobVars
  BY <1>1 DEF achJobVars
<1>2. ASSUME NEW t \in Receivers, LookUp(t)
      PROVE  AchTypes'
  BY <1>2 DEF LookUp, heldVars
<1>3. ASSUME NEW t \in Receivers, Fill(t)
      PROVE  AchTypes'
  <2>1. packet[t].job \in UserJobs
    BY <1>3 DEF Fill, PacketTypes, Fits
  <2>2. UNCHANGED <<requested, jobIdToAppId, userAchJobs, own, schema, overdue, achPending>>
    BY <1>3 DEF Fill, jobVars
  <2>3. heldUserAch' = heldUserAch \/ (Len(heldUserAch) < MaxHeld /\ heldUserAch' = Append(heldUserAch, packet[t].job))
    BY <1>3 DEF Fill
  <2>4. heldUserAch' \in Seq(UserJobs) /\ Len(heldUserAch') <= MaxHeld
    BY <2>1, <2>3, AchievementAssumption
  <2>5. QED
    BY <2>2, <2>4
<1>4. ASSUME NEW t \in Receivers, Capture(t)
      PROVE  AchTypes'
  <2> DEFINE g == GameOf[packet[t].job]
  <2>1. packet[t].about \in {"full", "blank"}
    BY <1>4 DEF Capture, PacketTypes, Fits
  <2>2. schema' = [schema EXCEPT ![g] = Better(@, packet[t].about)] /\ Release(Waiting(g))
    BY <1>4 DEF Capture
  <2>3. schema' \in [Games -> {"none", "blank", "full"}]
    BY <2>1, <2>2 DEF Better
  <2>4. /\ heldUserAch' \in Seq(UserJobs) /\ Len(heldUserAch') <= Len(heldUserAch)
        /\ achPending' \in Seq(UserReplies) /\ overdue' \subseteq overdue
    BY <2>2, Released
  <2>5. Len(heldUserAch') <= MaxHeld
    BY <2>4, AchievementAssumption
  <2>6. QED
    BY <1>4, <2>3, <2>4, <2>5 DEF Capture, jobVars
<1>5. ASSUME NEW t \in Receivers, Expire(t)
      PROVE  AchTypes'
  <2>1. Release(Overdue) /\ UNCHANGED schema
    BY <1>5 DEF Expire
  <2>2. /\ heldUserAch' \in Seq(UserJobs) /\ Len(heldUserAch') <= Len(heldUserAch)
        /\ achPending' \in Seq(UserReplies) /\ overdue' \subseteq overdue
    BY <2>1, Released
  <2>3. Len(heldUserAch') <= MaxHeld
    BY <2>2, AchievementAssumption
  <2>4. QED
    BY <1>5, <2>2, <2>3 DEF Expire, jobVars
<1>6. ASSUME NEW t \in Receivers, PopHeld(t)
      PROVE  AchTypes'
  <2>1. Tail(achPending) \in Seq(UserReplies)
    BY <1>6 DEF PopHeld
  <2>2. QED
    BY <1>6, <2>1 DEF PopHeld, jobVars
<1>7. ASSUME NEW j \in Jobs, RequestSchema(j) \/ RequestStats(j) \/ \E self \in BOOLEAN : RequestUser(j, self)
      PROVE  AchTypes'
  <2>1. UNCHANGED heldVars /\ j \in AchievementJobs \cup LegacyJobs /\ requested' = requested \cup {j}
    BY <1>7 DEF RequestSchema, RequestStats, RequestUser, StatisticsJobs, AchievementJobs
  <2>2. jobIdToAppId' \subseteq jobIdToAppId \cup {j} /\ (j \notin UserJobs => UNCHANGED <<userAchJobs, own>>)
    BY <1>7 DEF RequestSchema, RequestStats, RequestUser
  <2>3. userAchJobs' \subseteq userAchJobs \cup {j} /\ own' \subseteq own \cup {j}
    BY <1>7 DEF RequestSchema, RequestStats, RequestUser, OwnAccount
  <2>4. QED
    BY <2>1, <2>2, <2>3 DEF heldVars
<1>8. ASSUME NEW j \in UserJobs, HoldTimesOut(j)
      PROVE  AchTypes'
  BY <1>8 DEF HoldTimesOut, jobVars
<1>9. QED
  BY <1>1, <1>2, <1>3, <1>4, <1>5, <1>6, <1>7, <1>8, StepsOnAch DEF AchMoves

-----------------------------------------------------------------------------
(* One reply to a job                                                      *)

\* Where a job that was asked can be: with Steam's servers or on the way to them, queued, held,
\* or in a packet at hand.
Tags == {"wire", "sending", "lookup", "cloud", "key", "held", "pending", "hand", "packet"}
JobsOf(packets) == [i \in DOMAIN packets |-> packets[i].job]
Shelved(j, tag) ==
  \/ tag = "wire" /\ j \in wire
  \/ tag = "sending" /\ j = sending
  \/ tag = "lookup" /\ j \in StatisticsJobs /\ lookup[j] # ""
  \/ tag \in Families /\ InSeq(j, queue[tag])
  \/ tag = "held" /\ InSeq(j, heldUserAch)
  \/ tag = "pending" /\ InSeq(j, JobsOf(achPending))
Holds(j, tag, t) ==
  \/ tag = "packet" /\ packet[t].job = j
  \/ tag = "hand" /\ hand[t].job = j
  \/ t = Network /\ Shelved(j, tag)
Asked(j) == j \in asked \cup requested

\* It is in one place at a time, and in none once it is answered.
JobOK(j) ==
  /\ \A g, h \in Tags, t, u \in Receivers : Holds(j, g, t) /\ Holds(j, h, u) => g = h /\ t = u
  /\ \A g \in Tags, t \in Receivers : Holds(j, g, t) => replies[j] = 0 /\ Asked(j)
  /\ replies[j] <= 1 /\ (replies[j] # 0 => Asked(j))
PlaceInv ==
  /\ \A j \in Jobs : JobOK(j)
  /\ \A f \in Families : NoTwo(queue[f])
  /\ NoTwo(heldUserAch) /\ NoTwo(JobsOf(achPending))

\* What a step does to a job: nothing or less, it moves it, begins it, or answers it.
Stays(j) == \A g \in Tags, t \in Receivers : Holds(j, g, t)' => Holds(j, g, t)
Comes(j, tag, u) == \A g \in Tags, t \in Receivers : Holds(j, g, t)' => Holds(j, g, t) \/ (g = tag /\ t = u)
Goes(j) == \E g \in Tags, t \in Receivers : Holds(j, g, t) /\ ~Holds(j, g, t)'
Arises(j) == \E g \in Tags, t \in Receivers : Comes(j, g, t)
Rests(j) == Stays(j) /\ replies'[j] = replies[j]
Moves(j) == Goes(j) /\ Arises(j) /\ replies'[j] = replies[j]
Begins(j) == ~Asked(j) /\ Asked(j)' /\ Arises(j) /\ replies'[j] = replies[j]
Ends(j) == Goes(j) /\ Stays(j) /\ replies'[j] = replies[j] + 1

\* Whichever it is, the job is in one place at most and answered once at most.
LEMMA OneJob ==
  ASSUME NEW j \in Jobs, JobOK(j), replies[j] \in Nat, Asked(j) => Asked(j)',
         Rests(j) \/ Moves(j) \/ Begins(j) \/ Ends(j)
  PROVE  JobOK(j)'
<1>1. CASE Rests(j)
  BY <1>1 DEF JobOK, Rests, Stays
<1>2. CASE Moves(j)
  <2>1. PICK g \in Tags, t \in Receivers : Holds(j, g, t) /\ ~Holds(j, g, t)'
    BY <1>2 DEF Moves, Goes
  <2>2. PICK h \in Tags, u \in Receivers : Comes(j, h, u)
    BY <1>2 DEF Moves, Arises
  <2>3. replies[j] = 0 /\ replies'[j] = 0 /\ Asked(j)
    BY <1>2, <2>1 DEF JobOK, Moves
  <2>4. \A k \in Tags, v \in Receivers : Holds(j, k, v)' => k = h /\ v = u
    BY <2>1, <2>2 DEF Comes, JobOK
  <2>5. QED
    BY <2>3, <2>4 DEF JobOK
<1>3. CASE Begins(j)
  <2>1. PICK h \in Tags, u \in Receivers : Comes(j, h, u)
    BY <1>3 DEF Begins, Arises
  <2>2. replies[j] = 0 /\ replies'[j] = 0 /\ Asked(j)'
    BY <1>3 DEF JobOK, Begins
  <2>3. \A k \in Tags, v \in Receivers : Holds(j, k, v)' => k = h /\ v = u
    BY <1>3, <2>1 DEF Comes, JobOK, Begins
  <2>4. QED
    BY <2>2, <2>3 DEF JobOK
<1>4. CASE Ends(j)
  <2>1. PICK g \in Tags, t \in Receivers : Holds(j, g, t) /\ ~Holds(j, g, t)'
    BY <1>4 DEF Ends, Goes
  <2>2. replies[j] = 0 /\ replies'[j] = 1 /\ Asked(j)
    BY <1>4, <2>1 DEF JobOK, Ends
  <2>3. \A k \in Tags, v \in Receivers : ~Holds(j, k, v)'
    BY <1>4, <2>1 DEF JobOK, Ends, Stays
  <2>4. QED
    BY <2>2, <2>3 DEF JobOK
<1>5. QED
  BY <1>1, <1>2, <1>3, <1>4

\* What the jobs' places are made of, besides the packets at hand.
placeVars == <<wire, sending, lookup, queue, heldUserAch, achPending, hand, replies, asked, requested>>
SameJobs == \A t \in Receivers : packet'[t].job = packet[t].job

\* The types of all of it.
PlaceTypes == JobTypes /\ FixedInv

\* Most steps move no job.
LEMMA NothingMoves ==
  ASSUME PlaceInv, UNCHANGED placeVars, SameJobs
  PROVE  PlaceInv'
<1>1. \A j : \A g \in Tags, t \in Receivers : Holds(j, g, t)' <=> Holds(j, g, t)
  <2> SUFFICES ASSUME NEW j, NEW g \in Tags, NEW t \in Receivers PROVE Holds(j, g, t)' <=> Holds(j, g, t)
    OBVIOUS
  <2>1. UNCHANGED <<wire, sending, lookup, queue, heldUserAch, achPending, hand>>
    BY DEF placeVars
  <2>2. Shelved(j, g)' <=> Shelved(j, g)
    BY <2>1 DEF Shelved
  <2>3. packet'[t].job = packet[t].job /\ hand'[t].job = hand[t].job
    BY <2>1 DEF SameJobs
  <2>4. QED
    BY <2>2, <2>3 DEF Holds
<1>2. UNCHANGED <<queue, heldUserAch, achPending, replies, asked, requested>>
  BY DEF placeVars
<1>3. \A j : Asked(j)' <=> Asked(j)
  BY <1>2 DEF Asked
<1>4. \A j \in Jobs : JobOK(j)'
  BY <1>1, <1>2, <1>3 DEF PlaceInv, JobOK
<1>5. QED
  BY <1>2, <1>4 DEF PlaceInv, NoTwo, JobsOf

\* The queues are only shared by what is put in.
LEMMA PlacesFollow ==
  ASSUME PlaceTypes, PlaceInv,
         \A j \in Jobs : (Asked(j) => Asked(j)') /\ (Rests(j) \/ Moves(j) \/ Begins(j) \/ Ends(j)),
         \A f \in Families : NoTwo(queue'[f]), NoTwo(heldUserAch'), NoTwo(JobsOf(achPending'))
  PROVE  PlaceInv'
<1>1. \A j \in Jobs : replies[j] \in Nat
  BY DEF PlaceTypes, JobTypes, WireTypes
<1>2. \A j \in Jobs : JobOK(j)'
  BY <1>1, OneJob DEF PlaceInv
<1>3. QED
  BY <1>2 DEF PlaceInv

\* A reply comes from the wire in one packet.
LEMMA ArrivalMoves ==
  ASSUME PlaceTypes, PlaceInv, NEW t \in Receivers, Arrival(t)
  PROVE  PlaceInv'
<1>1. UNCHANGED <<hand, replies, sending, queue, asked, requested, heldUserAch, achPending, lookup>>
  BY ArrivingPackets DEF PlaceTypes, JobTypes, clientVars, localVars, achVars, scriptedVars, donorVars
<1>2. PICK p \in Packets :
        /\ packet' = [packet EXCEPT ![t] = p]
        /\ (p.job = DroppedJob /\ wire' = wire) \/ (p.job \in wire /\ wire' = wire \ {p.job})
  <2>1. PICK p \in Packets : \E ls \in SUBSET Layouts :
          /\ Arrive(t, p, ls)
          /\ (p.job = DroppedJob /\ wire' = wire) \/ (p.job \in wire /\ wire' = wire \ {p.job})
    BY ArrivingPackets DEF PlaceTypes, JobTypes
  <2>2. packet' = [packet EXCEPT ![t] = p]
    BY <2>1 DEF Arrive
  <2>3. QED
    BY <2>1, <2>2
<1>3. \A u \in Receivers : packet'[u] = IF u = t THEN p ELSE packet[u]
  BY <1>2 DEF PlaceTypes, JobTypes, PacketTypes
<1>4. ASSUME NEW j \in Jobs PROVE (Asked(j) => Asked(j)') /\ (Rests(j) \/ Moves(j))
  <2>1. Asked(j) => Asked(j)'
    BY <1>1 DEF Asked
  <2>2. CASE j # p.job
    <3>1. Stays(j)
      BY <1>1, <1>2, <1>3, <2>2 DEF Stays, Holds, Shelved
    <3>2. QED
      BY <1>1, <2>1, <3>1 DEF Rests
  <2>3. CASE j = p.job
    <3>1. j \in wire /\ wire' = wire \ {j}
      BY <1>2, <2>3, LayoutAssumption
    <3>2. Holds(j, "wire", Network) /\ ~Holds(j, "wire", Network)'
      BY <3>1 DEF Holds, Shelved, Families
    <3>3. Comes(j, "packet", t)
      BY <1>1, <1>3, <3>1 DEF Comes, Holds, Shelved
    <3>4. Goes(j) /\ Arises(j)
      BY <3>2, <3>3, NetworkAssumption DEF Goes, Arises, Tags
    <3>5. QED
      BY <1>1, <2>1, <3>4 DEF Moves
  <2>4. QED
    BY <2>2, <2>3
<1>5. QED
  BY <1>1, <1>4, PlacesFollow DEF PlaceInv

\* The end of the hook gives a packet's job its reply.
LEMMA OriginalEnds ==
  ASSUME PlaceTypes, PlaceInv, NEW t \in Receivers, Original(t),
         UNCHANGED <<sending, queue, asked, requested, heldUserAch, achPending, lookup>>
  PROVE  PlaceInv'
<1>1. /\ UNCHANGED <<wire, hand>> /\ packet' = [packet EXCEPT ![t] = Plain]
      /\ SteamTakes(packet[t])
  BY DEF Original
<1>2. \A u \in Receivers : packet'[u].job = IF u = t THEN DroppedJob ELSE packet[u].job
  BY <1>1 DEF PlaceTypes, JobTypes, PacketTypes, Plain, Packet
<1>3. ASSUME NEW j \in Jobs PROVE (Asked(j) => Asked(j)') /\ (Rests(j) \/ Ends(j))
  <2>1. Asked(j) => Asked(j)'
    BY DEF Asked
  <2>2. Stays(j)
    BY <1>1, <1>2, LayoutAssumption DEF Stays, Holds, Shelved
  <2>3. CASE j # packet[t].job
    <3>1. replies'[j] = replies[j]
      BY <1>1, <2>3 DEF SteamTakes, PlaceTypes, JobTypes, WireTypes
    <3>2. QED
      BY <2>1, <2>2, <3>1 DEF Rests
  <2>4. CASE j = packet[t].job
    <3>1. replies'[j] = replies[j] + 1
      BY <1>1, <2>4 DEF SteamTakes, PlaceTypes, JobTypes, WireTypes
    <3>2. Holds(j, "packet", t) /\ ~Holds(j, "packet", t)'
      BY <1>2, <2>4, LayoutAssumption DEF Holds, Shelved, Families
    <3>3. Goes(j)
      BY <3>2 DEF Goes, Tags
    <3>4. QED
      BY <2>1, <2>2, <3>1, <3>3 DEF Ends
  <2>5. QED
    BY <2>3, <2>4
<1>4. QED
  BY <1>3, PlacesFollow DEF PlaceInv

\* So does a packet of our own.
LEMMA HandEnds ==
  ASSUME PlaceTypes, PlaceInv, NEW t \in Receivers, GiveHand(t),
         UNCHANGED <<sending, queue, asked, requested, heldUserAch, achPending, lookup>>
  PROVE  PlaceInv'
<1>1. /\ UNCHANGED <<wire, packet>> /\ hand' = [hand EXCEPT ![t] = NoPacket]
      /\ SteamTakes(hand[t])
  BY DEF GiveHand
<1>2. \A u \in Receivers : hand'[u].job = IF u = t THEN DroppedJob ELSE hand[u].job
  BY <1>1 DEF PlaceTypes, JobTypes, PacketTypes, NoPacket, Packet
<1>3. ASSUME NEW j \in Jobs PROVE (Asked(j) => Asked(j)') /\ (Rests(j) \/ Ends(j))
  <2>1. Asked(j) => Asked(j)'
    BY DEF Asked
  <2>2. Stays(j)
    BY <1>1, <1>2, LayoutAssumption DEF Stays, Holds, Shelved
  <2>3. CASE j # hand[t].job
    <3>1. replies'[j] = replies[j]
      BY <1>1, <2>3 DEF SteamTakes, PlaceTypes, JobTypes, WireTypes
    <3>2. QED
      BY <2>1, <2>2, <3>1 DEF Rests
  <2>4. CASE j = hand[t].job
    <3>1. replies'[j] = replies[j] + 1
      BY <1>1, <2>4 DEF SteamTakes, PlaceTypes, JobTypes, WireTypes
    <3>2. Holds(j, "hand", t) /\ ~Holds(j, "hand", t)'
      BY <1>2, <2>4, LayoutAssumption DEF Holds, Shelved, Families
    <3>3. Goes(j)
      BY <3>2 DEF Goes, Tags
    <3>4. QED
      BY <2>1, <2>2, <3>1, <3>3 DEF Ends
  <2>5. QED
    BY <2>3, <2>4
<1>4. QED
  BY <1>3, PlacesFollow DEF PlaceInv

\* A queued answer goes from the queue to the thread that delivers it.
LEMMA PopMoves ==
  ASSUME PlaceTypes, PlaceInv, NEW t \in Receivers, Pop(t), UNCHANGED <<requested, heldUserAch, achPending, lookup>>
  PROVE  PlaceInv'
<1>1. PICK f \in Families :
        /\ queue[f] # <<>> /\ queue' = [queue EXCEPT ![f] = Tail(queue[f])]
        /\ hand' = [hand EXCEPT ![t] = Packet("reply", Head(queue[f]), "local")]
  BY DEF Pop
<1>2. UNCHANGED <<wire, packet, replies, asked, sending>>
  BY DEF Pop, clientVars
<1> DEFINE k == Head(queue[f])
<1>3. \A u \in Receivers : hand'[u].job = IF u = t THEN k ELSE hand[u].job
  BY <1>1 DEF PlaceTypes, JobTypes, PacketTypes, Packet
<1>4. queue[f] \in Seq(Jobs) /\ \A h \in Families : queue'[h] = IF h = f THEN Tail(queue[f]) ELSE queue[h]
  BY <1>1 DEF PlaceTypes, JobTypes, LocalTypes
<1>5. /\ InSeq(k, queue[f]) /\ k \in Jobs
      /\ \A j : InSeq(j, Tail(queue[f])) => InSeq(j, queue[f])
      /\ NoTwo(Tail(queue[f])) /\ ~InSeq(k, Tail(queue[f]))
  BY <1>1, <1>4, TailsLose DEF PlaceInv
<1>6. \A h \in Families : NoTwo(queue'[h])
  BY <1>4, <1>5 DEF PlaceInv
<1> HIDE DEF k
<1>7. ASSUME NEW j \in Jobs PROVE (Asked(j) => Asked(j)') /\ (Rests(j) \/ Moves(j))
  <2>1. Asked(j) => Asked(j)'
    BY <1>2 DEF Asked
  <2>2. \A h \in Families : InSeq(j, queue'[h]) => InSeq(j, queue[h])
    BY <1>4, <1>5
  <2>3. \A g \in Tags : Shelved(j, g)' => Shelved(j, g)
    BY <1>2, <2>2 DEF Shelved
  <2>4. CASE j # k
    <3>1. Stays(j)
      BY <1>2, <1>3, <2>3, <2>4 DEF Stays, Holds
    <3>2. QED
      BY <1>2, <2>1, <3>1 DEF Rests
  <2>5. CASE j = k
    <3>1. Shelved(j, f) /\ ~Shelved(j, f)'
      BY <1>4, <1>5, <2>5 DEF Shelved, Families
    <3>2. Holds(j, f, Network) /\ ~Holds(j, f, Network)'
      BY <3>1 DEF Holds, Families
    <3>3. Comes(j, "hand", t)
      BY <1>2, <1>3, <2>3 DEF Comes, Holds
    <3>4. Goes(j) /\ Arises(j)
      BY <3>2, <3>3, NetworkAssumption DEF Goes, Arises, Tags, Families
    <3>5. QED
      BY <1>2, <2>1, <3>4 DEF Moves
  <2>6. QED
    BY <2>4, <2>5
<1>8. QED
  BY <1>6, <1>7, PlacesFollow DEF PlaceInv

\* So does a held reply.
LEMMA PopHeldMoves ==
  ASSUME PlaceTypes, PlaceInv, NEW t \in Receivers, PopHeld(t), UNCHANGED <<asked, sending, queue, lookup>>
  PROVE  PlaceInv'
<1>1. /\ achPending # <<>> /\ achPending' = Tail(achPending)
      /\ hand' = [hand EXCEPT ![t] = Head(achPending)]
      /\ UNCHANGED <<wire, packet, replies, requested, heldUserAch>>
  BY DEF PopHeld, clientVars, jobVars
<1> DEFINE k == Head(achPending).job
<1>2. \A u \in Receivers : hand'[u].job = IF u = t THEN k ELSE hand[u].job
  BY <1>1 DEF PlaceTypes, JobTypes, PacketTypes
<1>3. achPending \in Seq(UserReplies)
  BY DEF PlaceTypes, JobTypes, AchTypes
<1>4. JobsOf(achPending) \in Seq(UserJobs) /\ JobsOf(achPending) # <<>>
      /\ Head(JobsOf(achPending)) = k /\ JobsOf(Tail(achPending)) = Tail(JobsOf(achPending))
  <2>1. \A i \in DOMAIN achPending : achPending[i].job \in UserJobs
    <3>1. \A i \in DOMAIN achPending : achPending[i] \in UserReplies
      BY <1>3
    <3>2. QED
      BY <3>1 DEF UserReplies
  <2>2. DOMAIN achPending = 1 .. Len(achPending) /\ Len(achPending) \in Nat /\ Len(achPending) # 0
    BY <1>1, <1>3
  <2>3. /\ JobsOf(achPending) \in Seq(UserJobs) /\ Len(JobsOf(achPending)) = Len(achPending)
        /\ \A i \in 1 .. Len(achPending) : JobsOf(achPending)[i] = achPending[i].job
    BY <2>1, <2>2 DEF JobsOf
  <2>4. Head(JobsOf(achPending)) = k
    BY <1>3, <2>2, <2>3
  <2>5. JobsOf(Tail(achPending)) = Tail(JobsOf(achPending))
    BY <1>1, <1>3, <2>2, <2>3 DEF JobsOf
  <2>6. QED
    BY <2>2, <2>3, <2>4, <2>5
<1>5. /\ InSeq(k, JobsOf(achPending)) /\ k \in UserJobs
      /\ \A j : InSeq(j, JobsOf(achPending')) => InSeq(j, JobsOf(achPending))
      /\ NoTwo(JobsOf(achPending')) /\ ~InSeq(k, JobsOf(achPending'))
  BY <1>1, <1>4, TailsLose DEF PlaceInv
<1> HIDE DEF k
<1>6. ASSUME NEW j \in Jobs PROVE (Asked(j) => Asked(j)') /\ (Rests(j) \/ Moves(j))
  <2>1. Asked(j) => Asked(j)'
    BY <1>1 DEF Asked
  <2>2. \A g \in Tags : Shelved(j, g)' => Shelved(j, g)
    BY <1>1, <1>5 DEF Shelved
  <2>3. CASE j # k
    <3>1. Stays(j)
      BY <1>1, <1>2, <2>2, <2>3 DEF Stays, Holds
    <3>2. QED
      BY <1>1, <2>1, <3>1 DEF Rests
  <2>4. CASE j = k
    <3>1. Shelved(j, "pending") /\ ~Shelved(j, "pending")'
      BY <1>5, <2>4 DEF Shelved, Families
    <3>2. Holds(j, "pending", Network) /\ ~Holds(j, "pending", Network)'
      BY <3>1 DEF Holds
    <3>3. Comes(j, "hand", t)
      BY <1>1, <1>2, <2>2 DEF Comes, Holds
    <3>4. Goes(j) /\ Arises(j)
      BY <3>2, <3>3, NetworkAssumption DEF Goes, Arises, Tags
    <3>5. QED
      BY <1>1, <2>1, <3>4 DEF Moves
  <2>5. QED
    BY <2>3, <2>4
<1>7. QED
  BY <1>1, <1>5, <1>6, PlacesFollow DEF PlaceInv

\* Held replies are released to those that are ready.
LEMMA ReleaseMoves ==
  ASSUME PlaceTypes, PlaceInv, NEW jobs, Release(jobs),
         UNCHANGED <<wire, packet, hand, replies, asked, sending, queue, lookup, requested>>
  PROVE  PlaceInv'
<1>1. /\ \A j : InSeq(j, heldUserAch') => InSeq(j, heldUserAch) /\ j \notin jobs
      /\ NoTwo(heldUserAch')
      /\ achPending' \in Seq(UserReplies)
  BY Released DEF PlaceTypes, JobTypes, PlaceInv
<1>2. PICK ready \in Seq(UserJobs) :
        /\ \A j : InSeq(j, ready) => InSeq(j, heldUserAch) /\ j \in jobs
        /\ NoTwo(ready)
        /\ Len(achPending') = Len(achPending) + Len(ready)
        /\ \A i \in 1 .. Len(achPending) : achPending'[i] = achPending[i]
        /\ \A i \in 1 .. Len(ready) : achPending'[Len(achPending) + i].job = ready[i]
  BY Released DEF PlaceTypes, JobTypes, PlaceInv
<1>3. /\ Len(achPending) \in Nat /\ Len(ready) \in Nat
      /\ DOMAIN achPending = 1 .. Len(achPending) /\ DOMAIN ready = 1 .. Len(ready)
      /\ DOMAIN achPending' = 1 .. Len(achPending) + Len(ready)
  BY <1>1, <1>2 DEF PlaceTypes, JobTypes, AchTypes
<1>4. \A i \in DOMAIN achPending' :
        \/ i \in DOMAIN achPending /\ JobsOf(achPending')[i] = JobsOf(achPending)[i]
        \/ /\ i - Len(achPending) \in DOMAIN ready
           /\ JobsOf(achPending')[i] = ready[i - Len(achPending)]
  <2> SUFFICES ASSUME NEW i \in DOMAIN achPending'
               PROVE  \/ i \in DOMAIN achPending /\ JobsOf(achPending')[i] = JobsOf(achPending)[i]
                      \/ /\ i - Len(achPending) \in DOMAIN ready
                         /\ JobsOf(achPending')[i] = ready[i - Len(achPending)]
    OBVIOUS
  <2>1. CASE i <= Len(achPending)
    <3>1. i \in DOMAIN achPending
      BY <1>3, <2>1
    <3>2. QED
      BY <1>2, <1>3, <3>1 DEF JobsOf
  <2>2. CASE ~(i <= Len(achPending))
    <3>1. i - Len(achPending) \in 1 .. Len(ready) /\ Len(achPending) + (i - Len(achPending)) = i
      BY <1>3, <2>2
    <3>2. QED
      BY <1>2, <1>3, <3>1 DEF JobsOf
  <2>3. QED
    BY <2>1, <2>2
<1>5. DOMAIN JobsOf(achPending') = DOMAIN achPending' /\ DOMAIN JobsOf(achPending) = DOMAIN achPending
  BY DEF JobsOf
<1>6. \A j : InSeq(j, JobsOf(achPending')) => InSeq(j, JobsOf(achPending)) \/ InSeq(j, ready)
  BY <1>4, <1>5 DEF InSeq
<1>7. \A j \in Jobs : ~(InSeq(j, heldUserAch) /\ InSeq(j, JobsOf(achPending)))
  <2>1. \A j \in Jobs : InSeq(j, heldUserAch) => Holds(j, "held", Network)
    BY DEF Holds, Shelved
  <2>2. \A j \in Jobs : InSeq(j, JobsOf(achPending)) => Holds(j, "pending", Network)
    BY DEF Holds, Shelved
  <2>3. QED
    BY <2>1, <2>2, NetworkAssumption DEF PlaceInv, JobOK, Tags
<1>8. NoTwo(JobsOf(achPending'))
  <2>1. \A m \in DOMAIN ready : ready[m] \in Jobs /\ InSeq(ready[m], heldUserAch)
    <3>1. \A m \in DOMAIN ready : ready[m] \in UserJobs
      BY <1>2, <1>3
    <3>2. \A m \in DOMAIN ready : InSeq(ready[m], ready)
      BY Zenon DEF InSeq
    <3>3. QED
      BY <1>2, <3>1, <3>2, AchievementAssumption
  <2>2. \A i \in DOMAIN achPending, m \in DOMAIN ready : JobsOf(achPending)[i] # ready[m]
    BY <1>5, <1>7, <2>1 DEF InSeq
  <2>3. \A i, k \in DOMAIN achPending : JobsOf(achPending)[i] = JobsOf(achPending)[k] => i = k
    BY <1>5 DEF PlaceInv, NoTwo
  <2>4. \A m, n \in DOMAIN ready : ready[m] = ready[n] => m = n
    BY <1>2 DEF NoTwo
  <2>5. \A i, k \in DOMAIN achPending' : i - Len(achPending) = k - Len(achPending) => i = k
    BY <1>3
  <2>6. \A i, k \in DOMAIN achPending' : JobsOf(achPending')[i] = JobsOf(achPending')[k] => i = k
    BY <1>4, <2>2, <2>3, <2>4, <2>5
  <2>7. QED
    BY <1>5, <2>6 DEF NoTwo
<1>9. ASSUME NEW j \in Jobs PROVE (Asked(j) => Asked(j)') /\ (Rests(j) \/ Moves(j))
  <2>1. Asked(j) => Asked(j)'
    BY DEF Asked
  <2>2. CASE ~InSeq(j, ready)
    <3>1. \A g \in Tags : Shelved(j, g)' => Shelved(j, g)
      BY <1>1, <1>6, <2>2 DEF Shelved
    <3>2. Stays(j)
      BY <3>1 DEF Stays, Holds
    <3>3. QED
      BY <2>1, <3>2 DEF Rests
  <2>3. CASE InSeq(j, ready)
    <3>1. InSeq(j, heldUserAch) /\ ~InSeq(j, heldUserAch')
      BY <1>1, <1>2, <2>3
    <3>2. Holds(j, "held", Network) /\ ~Holds(j, "held", Network)'
      BY <3>1 DEF Holds, Shelved, Families
    <3>3. \A g \in Tags : Shelved(j, g)' => Shelved(j, g) \/ g = "pending"
      BY <1>1 DEF Shelved
    <3>4. Comes(j, "pending", Network)
      BY <3>3 DEF Comes, Holds
    <3>5. Goes(j) /\ Arises(j)
      BY <3>2, <3>4, NetworkAssumption DEF Goes, Arises, Tags
    <3>6. QED
      BY <2>1, <3>5 DEF Moves
  <2>4. QED
    BY <2>2, <2>3
<1>10. QED
  BY <1>1, <1>8, <1>9, PlacesFollow DEF PlaceInv

\* A reply without its schema goes from the packet at hand to the held ones, or stays.
LEMMA FillMoves ==
  ASSUME PlaceTypes, PlaceInv, NEW t \in Receivers, Fill(t), UNCHANGED <<asked, sending, queue, lookup>>
  PROVE  PlaceInv'
<1> DEFINE k == packet[t].job
<1>1. UNCHANGED <<wire, hand, replies, requested, achPending>>
  BY DEF Fill, clientVars, jobVars
<1>2. CASE heldUserAch' = heldUserAch
  <2>1. \A u \in Receivers : packet'[u].job \in {packet[u].job, DroppedJob}
    BY DEF Fill, HeldCopy, PlaceTypes, JobTypes, PacketTypes, Packets
  <2>2. ASSUME NEW j \in Jobs PROVE (Asked(j) => Asked(j)') /\ Rests(j)
    <3>1. Stays(j)
      BY <1>1, <1>2, <2>1, LayoutAssumption DEF Stays, Holds, Shelved
    <3>2. QED
      BY <1>1, <3>1 DEF Rests, Asked
  <2>3. QED
    BY <1>1, <1>2, <2>2, PlacesFollow DEF PlaceInv
<1>3. CASE heldUserAch' # heldUserAch
  <2>1. /\ heldUserAch' = Append(heldUserAch, k)
        /\ packet' = [packet EXCEPT ![t] = [packet[t] EXCEPT !.job = DroppedJob]]
    BY <1>3 DEF Fill, HeldCopy, PlaceTypes, JobTypes, PacketTypes
  <2>2. k \in UserJobs /\ k \in Jobs
    BY AchievementAssumption DEF Fill, PlaceTypes, JobTypes, PacketTypes, Fits
  <2>3. \A u \in Receivers : packet'[u].job = IF u = t THEN DroppedJob ELSE packet[u].job
    BY <2>1 DEF PlaceTypes, JobTypes, PacketTypes, Packets
  <2>4. ~InSeq(k, heldUserAch)
    <3>1. Holds(k, "packet", t)
      BY DEF Holds
    <3>2. InSeq(k, heldUserAch) => Holds(k, "held", Network)
      BY DEF Holds, Shelved
    <3>3. QED
      BY <2>2, <3>1, <3>2, NetworkAssumption DEF PlaceInv, JobOK, Tags
  <2>5. /\ \A j : InSeq(j, heldUserAch') => InSeq(j, heldUserAch) \/ j = k
        /\ NoTwo(heldUserAch')
    BY <2>1, <2>4, AppendsGain DEF PlaceTypes, JobTypes, AchTypes, PlaceInv
  <2> HIDE DEF k
  <2>6. ASSUME NEW j \in Jobs PROVE (Asked(j) => Asked(j)') /\ (Rests(j) \/ Moves(j))
    <3>1. Asked(j) => Asked(j)'
      BY <1>1 DEF Asked
    <3>2. \A g \in Tags : Shelved(j, g)' => Shelved(j, g) \/ (g = "held" /\ j = k)
      BY <1>1, <2>5 DEF Shelved
    <3>3. CASE j # k
      <4>1. Stays(j)
        BY <1>1, <2>3, <3>2, <3>3, LayoutAssumption DEF Stays, Holds
      <4>2. QED
        BY <1>1, <3>1, <4>1 DEF Rests
    <3>4. CASE j = k
      <4>1. Holds(j, "packet", t) /\ ~Holds(j, "packet", t)'
        BY <2>3, <3>4, LayoutAssumption DEF Holds, Shelved, Families, k
      <4>2. Comes(j, "held", Network)
        BY <1>1, <2>3, <3>2, LayoutAssumption DEF Comes, Holds
      <4>3. Goes(j) /\ Arises(j)
        BY <4>1, <4>2, NetworkAssumption DEF Goes, Arises, Tags
      <4>4. QED
        BY <1>1, <3>1, <4>3 DEF Moves
    <3>5. QED
      BY <3>3, <3>4
  <2>7. QED
    BY <1>1, <2>5, <2>6, PlacesFollow DEF PlaceInv
<1>4. QED
  BY <1>2, <1>3

\* Sending a request on, in the steps that do only that to the places.
LEMMA ForwardMoves ==
  ASSUME PlaceTypes, PlaceInv, NEW k \in Jobs, Forward(k),
         UNCHANGED <<hand, packet, replies, queue, heldUserAch, achPending>>,
         asked \subseteq asked', requested \subseteq requested',
         \/ k \notin asked \cup requested /\ k \in asked' \cup requested' /\ UNCHANGED <<sending, lookup>>
         \/ k = sending /\ sending' = NoJob /\ UNCHANGED lookup
         \/ /\ k \in StatisticsJobs /\ lookup[k] # "" /\ lookup' = [lookup EXCEPT ![k] = ""]
            /\ UNCHANGED sending
  PROVE  PlaceInv'
<1>1. \A j \in Jobs : /\ j = sending' => j = sending
                      /\ j \in StatisticsJobs /\ lookup'[j] # "" => lookup[j] # ""
                      /\ j \in wire' => j \in wire \/ j = k
  BY LocalAssumption DEF Forward, PlaceTypes, FixedInv
<1>2. ASSUME NEW j \in Jobs PROVE (Asked(j) => Asked(j)') /\ (Rests(j) \/ Moves(j) \/ Begins(j))
  <2>1. Asked(j) => Asked(j)'
    BY DEF Asked
  <2>2. \A g \in Tags : Shelved(j, g)' => Shelved(j, g) \/ (g = "wire" /\ j = k)
    BY <1>1 DEF Shelved
  <2>3. CASE j # k
    <3>1. Stays(j)
      BY <2>2, <2>3 DEF Stays, Holds
    <3>2. QED
      BY <2>1, <3>1 DEF Rests
  <2>4. CASE j = k
    <3>1. Comes(j, "wire", Network)
      BY <2>2 DEF Comes, Holds
    <3>2. Arises(j)
      BY <3>1, NetworkAssumption DEF Arises, Tags
    <3>3. CASE k \notin asked \cup requested /\ k \in asked' \cup requested'
      BY <2>1, <2>4, <3>2, <3>3 DEF Begins, Asked
    <3>4. CASE k = sending /\ sending' = NoJob
      <4>1. Holds(j, "sending", Network) /\ ~Holds(j, "sending", Network)'
        BY <2>4, <3>4, LocalAssumption DEF Holds, Shelved, Families
      <4>2. QED
        BY <2>1, <3>2, <4>1, NetworkAssumption DEF Moves, Goes, Tags
    <3>5. CASE k \in StatisticsJobs /\ lookup[k] # "" /\ lookup' = [lookup EXCEPT ![k] = ""]
      <4>1. lookup'[k] = ""
        BY <3>5 DEF PlaceTypes, FixedInv
      <4>2. Holds(j, "lookup", Network) /\ ~Holds(j, "lookup", Network)'
        BY <2>4, <3>5, <4>1 DEF Holds, Shelved, Families
      <4>3. QED
        BY <2>1, <3>2, <4>2, NetworkAssumption DEF Moves, Goes, Tags
    <3>6. QED
      BY <3>3, <3>4, <3>5
  <2>5. QED
    BY <2>3, <2>4
<1>3. QED
  BY <1>2, PlacesFollow DEF PlaceInv

\* A request that is looked at before it goes out begins there.
LEMMA LookMoves ==
  ASSUME PlaceTypes, PlaceInv, NEW k \in Jobs, k \notin asked \cup requested, k \in asked' \cup requested',
         UNCHANGED <<wire, hand, packet, replies, queue, heldUserAch, achPending>>,
         asked \subseteq asked', requested \subseteq requested',
         \/ sending' = k /\ UNCHANGED lookup
         \/ lookup' = [lookup EXCEPT ![k] = "pins"] /\ UNCHANGED sending
  PROVE  PlaceInv'
<1>1. PICK tag \in {"sending", "lookup"} :
        /\ tag = "lookup" => sending' = sending /\ lookup' = [lookup EXCEPT ![k] = "pins"]
        /\ tag = "sending" => lookup' = lookup /\ sending' = k
  OBVIOUS
<1>2. ASSUME NEW j \in Jobs PROVE (Asked(j) => Asked(j)') /\ (Rests(j) \/ Begins(j))
  <2>1. Asked(j) => Asked(j)'
    BY DEF Asked
  <2>2. /\ j = sending' => j = sending \/ (tag = "sending" /\ j = k)
        /\ j \in StatisticsJobs /\ lookup'[j] # "" => lookup[j] # "" \/ (tag = "lookup" /\ j = k)
    BY <1>1 DEF PlaceTypes, FixedInv
  <2>3. \A g \in Tags : Shelved(j, g)' => Shelved(j, g) \/ (g = tag /\ j = k)
    BY <2>2 DEF Shelved
  <2>4. CASE j # k
    <3>1. Stays(j)
      BY <2>3, <2>4 DEF Stays, Holds
    <3>2. QED
      BY <2>1, <3>1 DEF Rests
  <2>5. CASE j = k
    <3>1. Comes(j, tag, Network)
      BY <2>3 DEF Comes, Holds
    <3>2. Arises(j)
      BY <3>1, NetworkAssumption DEF Arises, Tags
    <3>3. QED
      BY <2>1, <2>5, <3>2 DEF Begins, Asked
  <2>6. QED
    BY <2>4, <2>5
<1>3. QED
  BY <1>2, PlacesFollow DEF PlaceInv

\* An answer of our own goes to the queue, or is lost.
LEMMA AnswerMoves ==
  ASSUME PlaceTypes, PlaceInv, Answer, UNCHANGED <<requested, heldUserAch, achPending, lookup>>
  PROVE  PlaceInv'
<1> DEFINE k == sending
<1>1. PICK f \in Families : f = FamilyOf(sending)
  BY DEF FamilyOf, Families
<1>2. /\ queue' = [queue EXCEPT ![f] = QueueAnswer(queue[f], k)]
      /\ sending # NoJob /\ sending' = NoJob
      /\ UNCHANGED <<wire, hand, packet, replies, asked>>
  BY <1>1 DEF Answer, hookVars, clientVars
<1>3. k \in Jobs /\ queue[f] \in Seq(Jobs) /\ \A h \in Families : queue'[h] = IF h = f THEN QueueAnswer(queue[f], k) ELSE queue[h]
  BY <1>2, LocalAssumption DEF PlaceTypes, JobTypes, LocalTypes
<1>4. ~InSeq(k, queue[f])
  <2>1. Holds(k, "sending", Network)
    BY DEF Holds, Shelved
  <2>2. InSeq(k, queue[f]) => Holds(k, f, Network)
    BY DEF Holds, Shelved
  <2>3. QED
    BY <1>3, <2>1, <2>2, NetworkAssumption DEF PlaceInv, JobOK, Tags, Families
<1>5. /\ \A j : InSeq(j, QueueAnswer(queue[f], k)) => InSeq(j, queue[f]) \/ j = k
      /\ NoTwo(QueueAnswer(queue[f], k))
  BY <1>3, <1>4, AppendsGain DEF QueueAnswer, PlaceInv
<1>6. \A h \in Families : NoTwo(queue'[h])
  BY <1>3, <1>5 DEF PlaceInv
<1> HIDE DEF k
<1>7. ASSUME NEW j \in Jobs PROVE (Asked(j) => Asked(j)') /\ (Rests(j) \/ Moves(j))
  <2>1. Asked(j) => Asked(j)'
    BY <1>2 DEF Asked
  <2>2. \A h \in Families : InSeq(j, queue'[h]) => InSeq(j, queue[h]) \/ (h = f /\ j = k)
    BY <1>3, <1>5
  <2>3. \A g \in Tags : Shelved(j, g)' => Shelved(j, g) \/ (g = f /\ j = k)
    BY <1>2, <2>2, LocalAssumption DEF Shelved
  <2>4. CASE j # k
    <3>1. Stays(j)
      BY <1>2, <2>3, <2>4 DEF Stays, Holds
    <3>2. QED
      BY <1>2, <2>1, <3>1 DEF Rests
  <2>5. CASE j = k
    <3>1. Holds(j, "sending", Network) /\ ~Holds(j, "sending", Network)'
      BY <1>2, <2>5, LocalAssumption DEF Holds, Shelved, Families, k
    <3>2. Comes(j, f, Network)
      BY <1>2, <2>3 DEF Comes, Holds
    <3>3. Goes(j) /\ Arises(j)
      BY <3>1, <3>2, NetworkAssumption DEF Goes, Arises, Tags, Families
    <3>4. QED
      BY <1>2, <2>1, <3>3 DEF Moves
  <2>6. QED
    BY <2>4, <2>5
<1>8. QED
  BY <1>6, <1>7, PlacesFollow DEF PlaceInv

\* A copy of an announcement is taken to hand, which no job waits for.
LEMMA InjectMoves ==
  ASSUME PlaceTypes, PlaceInv, NEW t \in Receivers, TryInject(t),
         UNCHANGED <<sending, queue, asked, requested, heldUserAch, achPending, lookup>>
  PROVE  PlaceInv'
<1>1. UNCHANGED <<wire, packet, replies>>
  BY DEF TryInject, clientVars
<1>2. \A u \in Receivers : hand'[u].job = IF u = t THEN DroppedJob ELSE hand[u].job
  BY DEF TryInject, PlaceTypes, JobTypes, PacketTypes, NoPacket, Packet
<1>3. ASSUME NEW j \in Jobs PROVE (Asked(j) => Asked(j)') /\ Rests(j)
  <2>1. Stays(j)
    BY <1>1, <1>2, LayoutAssumption DEF Stays, Holds, Shelved
  <2>2. QED
    BY <1>1, <2>1 DEF Rests, Asked
<1>4. QED
  BY <1>3, PlacesFollow DEF PlaceInv

\* The receivers' steps move jobs as above, or none.
LEMMA ReceiverKeepsPlaces ==
  ASSUME PlaceTypes, PlaceInv, NEW t \in Receivers, Receive(t)
  PROVE  PlaceInv'
<1> USE DEF localVars, achVars, scriptedVars, donorVars, placeVars, clientVars, jobVars, heldVars
<1>1. CASE (LayoutStep(t) \/ Dispatched(t) \/ Original(t) \/ GiveHand(t)) /\ UNCHANGED <<localVars, achVars, scriptedVars>>
  <2>1. CASE LayoutStep(t) \/ Dispatched(t)
    <3>1. UNCHANGED <<packet, hand, wire, replies>>
      BY <2>1 DEF LayoutStep, Count, Agree, Latch, Disable, Dispatched
    <3>2. QED
      BY <1>1, <3>1, NothingMoves DEF SameJobs
  <2>2. CASE Original(t)
    BY <1>1, <2>2, OriginalEnds
  <2>3. CASE GiveHand(t)
    BY <1>1, <2>3, HandEnds
  <2>4. QED
    BY <1>1, <2>1, <2>2, <2>3
<1>2. CASE (Pop(t) \/ Drained(t)) /\ UNCHANGED <<achVars, scriptedVars>>
  <2>1. CASE Pop(t)
    BY <1>2, <2>1, PopMoves
  <2>2. CASE Drained(t)
    <3>1. UNCHANGED <<packet, hand, wire, replies, sending, queue, asked>>
      BY <2>2 DEF Drained
    <3>2. QED
      BY <1>2, <3>1, NothingMoves DEF SameJobs
  <2>3. QED
    BY <1>2, <2>1, <2>2
<1>3. CASE AchievementStep(t) /\ UNCHANGED <<localVars, scriptedVars>>
  <2>1. CASE LookUp(t) \/ ToRebuild(t) \/ HeldDrained(t)
    <3>1. UNCHANGED <<packet, hand, wire, replies, requested, heldUserAch, achPending>>
      BY <2>1 DEF LookUp, ToRebuild, HeldDrained
    <3>2. QED
      BY <1>3, <3>1, NothingMoves DEF SameJobs
  <2>2. CASE StripStats(t)
    <3>1. UNCHANGED <<hand, wire, replies, requested, heldUserAch, achPending>>
      BY <2>2 DEF StripStats
    <3>2. SameJobs
      BY <2>2 DEF StripStats, SameJobs, PlaceTypes, JobTypes, PacketTypes, Packets
    <3>3. QED
      BY <1>3, <3>1, <3>2, NothingMoves
  <2>3. CASE Fill(t)
    BY <1>3, <2>3, FillMoves
  <2>4. CASE Capture(t) \/ Expire(t)
    <3>1. UNCHANGED <<packet, hand, wire, replies, requested>> /\ \E jobs : Release(jobs)
      BY <2>4 DEF Capture, Expire
    <3>2. QED
      BY <1>3, <3>1, ReleaseMoves
  <2>5. CASE PopHeld(t)
    BY <1>3, <2>5, PopHeldMoves
  <2>6. QED
    BY <1>3, <2>1, <2>2, <2>3, <2>4, <2>5 DEF AchievementStep
<1>4. ASSUME NEW fits \in BOOLEAN, Overlay(t, fits), UNCHANGED localVars
      PROVE  PlaceInv'
  <2>1. UNCHANGED <<hand, wire, replies, requested, heldUserAch, achPending, lookup>>
    BY <1>4 DEF Overlay
  <2>2. SameJobs
    BY <1>4 DEF Overlay, SameJobs, PlaceTypes, JobTypes, PacketTypes, Packets
  <2>3. QED
    BY <1>4, <2>1, <2>2, NothingMoves
<1>5. CASE PresenceStep(t) /\ UNCHANGED <<localVars, achVars, scriptedVars>>
  <2>1. CASE TryInject(t)
    BY <1>5, <2>1, InjectMoves
  <2>2. CASE Injected(t)
    <3>1. UNCHANGED <<packet, hand, wire, replies>>
      BY <2>2 DEF Injected
    <3>2. QED
      BY <1>5, <3>1, NothingMoves DEF SameJobs
  <2>3. CASE HandleRecv(t)
    <3>1. UNCHANGED <<hand, wire, replies>>
      BY <2>3 DEF HandleRecv
    <3>2. SameJobs
      BY <2>3 DEF HandleRecv, SameJobs, PlaceTypes, JobTypes, PacketTypes, Packets
    <3>3. QED
      BY <1>5, <3>1, <3>2, NothingMoves
  <2>4. QED
    BY <1>5, <2>1, <2>2, <2>3 DEF PresenceStep
<1>6. QED
  BY <1>1, <1>2, <1>3, <1>4, <1>5 DEF Receive, Rest

\* So do those of the send hook.
LEMMA SendKeepsPlaces ==
  ASSUME PlaceTypes, PlaceInv, Send
  PROVE  PlaceInv'
<1> USE DEF localVars, achVars, scriptedVars, donorVars, placeVars, clientVars, hookVars, jobVars, heldVars, packetVars
<1>1. CASE SendStep /\ UNCHANGED <<achVars, scriptedVars>>
  <2>1. CASE Decline
    <3>1. /\ sending \in Jobs /\ Forward(sending) /\ sending' = NoJob
          /\ UNCHANGED <<hand, packet, replies, asked, queue>>
      BY <2>1, LocalAssumption DEF Decline, PlaceTypes, JobTypes, LocalTypes
    <3>2. QED
      BY <1>1, <3>1, ForwardMoves
  <2>2. CASE Answer
    BY <1>1, <2>2, AnswerMoves
  <2>3. QED
    BY <1>1, <2>1, <2>2 DEF SendStep
<1>2. CASE DonorStep /\ UNCHANGED localVars
  <2>1. ASSUME NEW j \in StatisticsJobs, LookUpDonor(j) \/ \E ok \in BOOLEAN : FetchStatSteamId(j, ok)
        PROVE  PlaceInv'
    <3>1. UNCHANGED <<hand, packet, replies, requested, heldUserAch, achPending>> /\ lookup[j] # ""
      BY <2>1 DEF LookUpDonor, FetchStatSteamId
    <3>2. CASE lookup' = [lookup EXCEPT ![j] = ""] /\ Forward(j)
      <4>1. j \in Jobs
        BY AchievementAssumption, ScriptedAssumption DEF StatisticsJobs
      <4>2. QED
        BY <1>2, <3>1, <3>2, <4>1, ForwardMoves
    <3>3. CASE lookup' = [lookup EXCEPT ![j] = "fetch"] /\ UNCHANGED wire
      <4>1. UNCHANGED <<wire, sending, queue, heldUserAch, achPending, hand, packet, replies, asked, requested>>
        BY <1>2, <3>1, <3>3
      <4>2. \A k \in StatisticsJobs : lookup'[k] # "" <=> lookup[k] # ""
        BY <3>1, <3>3 DEF PlaceTypes, FixedInv
      <4>3. \A k \in Jobs : Stays(k)
        <5> SUFFICES ASSUME NEW k \in Jobs, NEW g \in Tags, NEW u \in Receivers, Holds(k, g, u)'
                     PROVE  Holds(k, g, u)
          BY DEF Stays
        <5>1. Shelved(k, g)' => Shelved(k, g)
          BY <4>1, <4>2 DEF Shelved
        <5>2. packet'[u] = packet[u] /\ hand'[u] = hand[u]
          BY <4>1
        <5>3. QED
          BY <5>1, <5>2 DEF Holds
      <4>4. \A k \in Jobs : Rests(k) /\ (Asked(k) => Asked(k)')
        BY <4>1, <4>3 DEF Rests, Asked
      <4>5. QED
        BY <4>1, <4>4, PlacesFollow DEF PlaceInv
    <3>4. QED
      BY <2>1, <3>2, <3>3 DEF LookUpDonor, FetchStatSteamId, SendsUnder
  <2>2. QED
    BY <1>2, <2>1 DEF DonorStep
<1>3. CASE ProductStep /\ UNCHANGED localVars
  <2>1. UNCHANGED <<packetVars, achVars, donorVars>>
    BY <1>3 DEF ProductStep, SearchToken, AddTokenTo, InjectionEnds, Asks
  <2>2. QED
    BY <1>3, <2>1, NothingMoves DEF SameJobs
<1>4. CASE SendStepPresence /\ UNCHANGED <<localVars, achVars, scriptedVars>>
  <2>1. UNCHANGED packetVars
    BY <1>4 DEF SendStepPresence, TrackSend, Notify
  <2>2. QED
    BY <1>4, <2>1, NothingMoves DEF SameJobs
<1>5. QED
  BY <1>1, <1>2, <1>3, <1>4 DEF Send, Rest

\* And those of the client.
LEMMA ClientKeepsPlaces ==
  ASSUME PlaceTypes, PlaceInv, Client
  PROVE  PlaceInv'
<1> USE DEF localVars, achVars, scriptVars, scriptedVars, donorVars, placeVars, clientVars, hookVars, jobVars, heldVars, packetVars
<1>1. \A j \in Jobs : /\ j \in CloudJobs \cup KeyJobs => j \notin requested
                      /\ j \in AchievementJobs \cup LegacyJobs => j \notin asked
  BY ScriptedAssumption DEF PlaceTypes, JobTypes, LocalTypes, AchTypes
<1>2. ASSUME NEW j \in Jobs, NEW n \in BOOLEAN, Ask(j, n), UNCHANGED <<achVars, scriptedVars>>
      PROVE  PlaceInv'
  <2>1. /\ j \notin asked \cup requested /\ asked' = asked \cup {j}
        /\ UNCHANGED <<hand, packet, replies, queue>>
        /\ (sending' = j /\ UNCHANGED wire) \/ (Forward(j) /\ UNCHANGED sending)
    BY <1>1, <1>2 DEF Ask
  <2>2. CASE sending' = j /\ UNCHANGED wire
    BY <1>2, <2>1, <2>2, LookMoves
  <2>3. CASE Forward(j) /\ UNCHANGED sending
    BY <1>2, <2>1, <2>3, ForwardMoves
  <2>4. QED
    BY <2>1, <2>2, <2>3
<1>3. ASSUME NEW j \in Jobs, RequestSchema(j) \/ (\E self \in BOOLEAN : RequestUser(j, self)),
             UNCHANGED <<localVars, scriptedVars>>
      PROVE  PlaceInv'
  <2>1. /\ j \in AchievementJobs \ requested /\ requested' = requested \cup {j}
        /\ UNCHANGED <<hand, packet, replies, heldUserAch, achPending>> /\ Forward(j)
    BY <1>3 DEF RequestSchema, RequestUser, AchievementJobs
  <2>2. QED
    BY <1>1, <1>3, <2>1, ForwardMoves
<1>4. ASSUME NEW j \in Jobs, RequestStats(j), UNCHANGED localVars
      PROVE  PlaceInv'
  <2>1. /\ j \in (AchievementJobs \cup LegacyJobs) \ requested /\ requested' = requested \cup {j}
        /\ UNCHANGED <<hand, packet, replies, heldUserAch, achPending>>
        /\ \/ lookup' = [lookup EXCEPT ![j] = "pins"] /\ UNCHANGED wire
           \/ Forward(j) /\ UNCHANGED lookup
    BY <1>4 DEF RequestStats, StatisticsJobs, AchievementJobs
  <2>2. CASE lookup' = [lookup EXCEPT ![j] = "pins"] /\ UNCHANGED wire
    BY <1>1, <1>4, <2>1, <2>2, LookMoves
  <2>3. CASE Forward(j) /\ UNCHANGED lookup
    BY <1>1, <1>4, <2>1, <2>3, ForwardMoves
  <2>4. QED
    BY <2>1, <2>2, <2>3
<1>5. CASE ActivateHost /\ UNCHANGED <<achVars, scriptedVars>>
  BY <1>5, NothingMoves DEF ActivateHost, SameJobs
<1>6. ASSUME NEW g, Unlist(g), UNCHANGED <<localVars, scriptedVars>>
      PROVE  PlaceInv'
  BY <1>6, NothingMoves DEF Unlist, SameJobs
<1>7. ASSUME NEW g, List(g) \/ SetStat(g) \/ AddToken(g), UNCHANGED localVars
      PROVE  PlaceInv'
  <2>1. UNCHANGED placeVars /\ packet' = packet
    BY <1>7 DEF List, SetStat, AddToken
  <2>2. QED
    BY <2>1, NothingMoves DEF SameJobs
<1>8. CASE AskProducts(Games) /\ UNCHANGED localVars
  BY <1>8, NothingMoves DEF AskProducts, Asks, SameJobs
<1>9. CASE (Refresh \/ \E g \in AllGames : Launch(g) \/ Exit(g) \/ TrackRPSend(g)) /\ UNCHANGED <<localVars, achVars, scriptedVars>>
  <2>1. UNCHANGED packetVars
    BY <1>9 DEF Refresh, Launch, Exit, Reports, TrackRPSend
  <2>2. QED
    BY <1>9, <2>1, NothingMoves DEF SameJobs
<1>10. QED
  BY <1>2, <1>3, <1>4, <1>5, <1>6, <1>7, <1>8, <1>9 DEF Client, AsksPages, Rest

\* So no step puts a job in two places or answers it twice.
LEMMA StepKeepsPlaces ==
  ASSUME PlaceTypes, PlaceInv, [Next]_vars
  PROVE  PlaceInv'
<1>1. CASE Pages \/ Hold \/ UNCHANGED vars
  <2>1. UNCHANGED placeVars /\ packet' = packet
    BY <1>1 DEF Pages, Hold, HoldTimesOut, Rest, vars, placeVars, localVars, achVars, scriptedVars, donorVars,
       packetVars, hookVars, clientVars, jobVars
  <2>2. QED
    BY <2>1, NothingMoves DEF SameJobs
<1>2. QED
  BY <1>1, ArrivalMoves, ReceiverKeepsPlaces, SendKeepsPlaces, ClientKeepsPlaces DEF Next

\* Only requests that were made are on the wire, and replies are counted.
LEMMA StepKeepsWire ==
  ASSUME PlaceTypes, [Next]_vars
  PROVE  WireTypes'
<1> USE DEF PlaceTypes, JobTypes, WireTypes
<1>1. ASSUME NEW t \in Receivers, Arrival(t)
      PROVE  WireTypes'
  BY <1>1, ArrivingPackets DEF clientVars
<1>2. ASSUME NEW t \in Receivers, Receive(t)
      PROVE  WireTypes'
  <2>1. UNCHANGED wire
    BY <1>2 DEF Receive, LayoutStep, Count, Agree, Latch, Disable, Dispatched, Original, GiveHand, Pop, Drained,
       AchievementStep, LookUp, StripStats, ToRebuild, Fill, Capture, Expire, PopHeld, HeldDrained, Overlay,
       PresenceStep, TryInject, Injected, HandleRecv
  <2>2. CASE Original(t) \/ GiveHand(t)
    <3>1. \E p : SteamTakes(p)
      BY <2>2 DEF Original, GiveHand
    <3>2. replies' \in [Jobs -> Nat]
      BY <3>1 DEF SteamTakes
    <3>3. QED
      BY <2>1, <3>2
  <2>3. CASE ~(Original(t) \/ GiveHand(t))
    <3>1. UNCHANGED replies
      BY <1>2, <2>3 DEF Receive, LayoutStep, Count, Agree, Latch, Disable, Dispatched, Pop, Drained, clientVars,
         AchievementStep, LookUp, StripStats, ToRebuild, Fill, Capture, Expire, PopHeld, HeldDrained, Overlay,
         PresenceStep, TryInject, Injected, HandleRecv
    <3>2. QED
      BY <2>1, <3>1
  <2>4. QED
    BY <2>2, <2>3
<1>3. CASE Send
  <2>1. UNCHANGED replies
    BY <1>3, OthersLeaveHooks DEF clientVars
  <2>2. sending # NoJob => sending \in Jobs
    BY LocalAssumption DEF LocalTypes
  <2>3. StatisticsJobs \subseteq Jobs
    BY AchievementAssumption, ScriptedAssumption DEF StatisticsJobs
  <2>4. CASE SendStep
    BY <2>1, <2>2, <2>4 DEF SendStep, Decline, Answer, Forward
  <2>5. CASE DonorStep
    BY <2>1, <2>3, <2>5 DEF DonorStep, LookUpDonor, FetchStatSteamId, SendsUnder, Forward
  <2>6. CASE ProductStep \/ SendStepPresence
    BY <2>1, <2>6 DEF ProductStep, SearchToken, AddTokenTo, InjectionEnds, Asks, SendStepPresence, TrackSend, Notify,
       packetVars
  <2>7. QED
    BY <1>3, <2>4, <2>5, <2>6 DEF Send
<1>4. CASE Client
  <2>1. UNCHANGED replies
    BY <1>4, OthersLeaveHooks DEF clientVars
  <2>2. CASE \E j \in Jobs : (\E n \in BOOLEAN : Ask(j, n)) \/ RequestSchema(j) \/ RequestStats(j) \/ \E self \in BOOLEAN : RequestUser(j, self)
    BY <2>1, <2>2 DEF Ask, RequestSchema, RequestStats, RequestUser, Forward
  <2>3. CASE UNCHANGED wire
    BY <2>1, <2>3
  <2>4. QED
    BY <1>4, <2>2, <2>3 DEF Client, AsksPages, ActivateHost, Unlist, List, SetStat, AskProducts, AddToken, Asks, Refresh,
       Launch, Exit, Reports, TrackRPSend, packetVars
<1>5. CASE Pages \/ Hold \/ UNCHANGED vars
  BY <1>5 DEF Pages, Hold, HoldTimesOut, vars, packetVars, clientVars
<1>6. QED
  BY <1>1, <1>2, <1>3, <1>4, <1>5 DEF Next

\* It starts with nothing asked.
LEMMA InitPlaces == Init => PlaceTypes /\ PlaceInv
<1> SUFFICES ASSUME Init PROVE PlaceTypes /\ PlaceInv
  OBVIOUS
<1>1. LayoutTypes /\ FixedInv
  BY InitLayout, InitFixed DEF LayoutInv
<1>2. PresenceTypes
  BY DEF Init, PresenceInit, PresenceTypes
<1>3. /\ asked = {} /\ sending = NoJob /\ queue = [f \in Families |-> <<>>] /\ suppressed = {} /\ lost = {}
      /\ requested = {} /\ heldUserAch = <<>> /\ achPending = <<>>
  BY DEF Init, LocalInit, AchievementInit
<1>4. LocalTypes
  BY <1>3, LocalAssumption DEF LocalTypes
<1>5. AchTypes
  BY AchievementAssumption DEF Init, AchievementInit, AchTypes
<1>6. PacketInit(scenario \notin {"layout", "local"})
  BY DEF Init
<1>7. /\ packet = [t \in Receivers |-> Plain] /\ hand = [t \in Receivers |-> NoPacket]
      /\ at = [t \in Receivers |-> "idle"] /\ wire = {} /\ replies = [j \in Jobs |-> 0]
  BY <1>6, Zenon DEF PacketInit
<1>8. WireTypes
  BY <1>7 DEF WireTypes
<1>9. PacketTypes
  <2>1. Plain \in Packets /\ NoPacket \in Packets
    BY DEF Plain, NoPacket, Packet, Packets, Kinds, Abouts
  <2>2. Fits(Plain, "idle")
    BY DEF Plain, Packet, Fits
  <2>3. QED
    BY <1>7, <2>1, <2>2 DEF PacketTypes
<1>10. \A j \in Jobs : \A g \in Tags, t \in Receivers : ~Holds(j, g, t)
  <2> SUFFICES ASSUME NEW j \in Jobs, NEW g \in Tags, NEW t \in Receivers PROVE ~Holds(j, g, t)
    OBVIOUS
  <2>1. packet[t].job # j /\ hand[t].job # j
    BY <1>7, LayoutAssumption DEF Plain, NoPacket, Packet
  <2>2. ~Shelved(j, g)
    <3>1. \A f \in Families : ~InSeq(j, queue[f])
      BY <1>3 DEF InSeq
    <3>2. ~InSeq(j, heldUserAch) /\ ~InSeq(j, JobsOf(achPending))
      BY <1>3 DEF InSeq, JobsOf
    <3>3. \A k \in StatisticsJobs : lookup[k] = ""
      BY <1>1, <1>3 DEF FixedInv
    <3>4. QED
      BY <1>3, <1>7, <3>1, <3>2, <3>3, LocalAssumption DEF Shelved
  <2>3. QED
    BY <2>1, <2>2 DEF Holds
<1>11. \A j \in Jobs : JobOK(j)
  BY <1>7, <1>10 DEF JobOK
<1>12. /\ \A f \in Families : NoTwo(queue[f])
       /\ NoTwo(heldUserAch) /\ NoTwo(JobsOf(achPending))
  BY <1>3 DEF NoTwo, JobsOf
<1>13. QED
  BY <1>1, <1>2, <1>4, <1>5, <1>8, <1>9, <1>11, <1>12 DEF PlaceTypes, JobTypes, PlaceInv

\* Types and places together are inductive.
HooksInv == PlaceTypes /\ PlaceInv

\* No step breaks them.
LEMMA StepKeepsHooks ==
  ASSUME HooksInv, [Next]_vars
  PROVE  HooksInv'
BY StepKeepsLayoutTypes, StepKeepsPresence, StepKeepsLocal, StepKeepsAch, StepKeepsPackets, StepKeepsWire,
   StepKeepsFixed, StepKeepsPlaces DEF HooksInv, PlaceTypes, JobTypes

\* A job is answered once at most, for every set of jobs, receivers and layouts, and whatever is
\* suppressed, queued, held or lost.
THEOREM AnsweredOnce == Spec => []OneReplyPerJob
<1>1. Init => HooksInv
  BY InitPlaces DEF HooksInv
<1>2. HooksInv /\ [Next]_vars => HooksInv'
  BY StepKeepsHooks
<1>3. HooksInv => OneReplyPerJob
  BY DEF HooksInv, PlaceInv, JobOK, OneReplyPerJob
<1>4. QED
  BY <1>1, <1>2, <1>3, PTL DEF Spec

\* What a thread does at the gate is finite, so the attempts are bounded.
LEMMA AttemptsBounded ==
  ASSUME LayoutTypes, AttemptsInv
  PROVE  attempts \in 0 .. (MaxAttempts + Cardinality(Receivers))
<1>1. /\ \A step : Cardinality(Doing(step)) \in Nat /\ Cardinality(Doing(step)) <= Cardinality(Receivers)
      /\ Cardinality(Receivers) \in Nat /\ MaxAttempts \in Nat /\ attempts \in Nat
  BY DoingIsFinite, LayoutAssumption DEF LayoutTypes
<1>2. QED
  BY <1>1 DEF AttemptsInv

\* What Steam is given are packets read at the real offset, one to a job, if one packet at most
\* looks like what it is not.
THEOREM RightPackets ==
  ASSUME MaxFlukes <= 1
  PROVE  Spec => []PacketsAreRight
<1> DEFINE IInv == HooksInv /\ LayoutInv /\ FlukeInv /\ ProductsInv
<1>1. Init => IInv
  BY InitPlaces, InitLayout, InitFlukes, InitProducts DEF HooksInv
<1>2. IInv /\ [Next]_vars => IInv'
  BY StepKeepsHooks, StepKeepsLayoutTypes, StepKeepsAttempts, StepKeepsFlukes, StepKeepsProducts DEF LayoutInv
<1>3. IInv => PacketsAreRight
  <2> SUFFICES ASSUME IInv PROVE PacketsAreRight
    OBVIOUS
  <2>1. OnlyTheRealLayout
    BY LayoutAssumption DEF FlukeInv, OnlyTheRealLayout
  <2>2. OneReplyPerJob
    BY DEF HooksInv, PlaceInv, JobOK, OneReplyPerJob
  <2>3. TypeOK
    <3>1. attempts \in 0 .. (MaxAttempts + Cardinality(Receivers))
      BY AttemptsBounded DEF LayoutInv
    <3>2. /\ layout \in Layouts \cup {Other}
          /\ dataOff \in Layouts \cup {Unresolved, Disabled}
          /\ agreed \in Layouts \cup {Unresolved}
          /\ at \in [Receivers -> {"idle"} \cup Gate \cup Behind]
          /\ matches \in [Receivers -> SUBSET Layouts]
      BY DEF LayoutInv, LayoutTypes
    <3>3. {"idle"} \cup Gate \cup Behind = {"idle", "count", "agree", "latch", "disable", "user", "schema", "stats",
                                            "fill", "original"} \cup DOMAIN NextStage
      BY DEF Gate, Behind
    <3>4. wire \subseteq Jobs /\ replies \in [Jobs -> Nat]
      BY DEF HooksInv, PlaceTypes, JobTypes, WireTypes
    <3>5. /\ asked \subseteq Jobs /\ suppressed \subseteq asked /\ lost \subseteq suppressed
          /\ sending \in asked \cup {NoJob}
          /\ \A f \in Families : queue[f] \in Seq(Jobs) /\ Len(queue[f]) <= MaxQueued
      BY LocalAssumption DEF HooksInv, PlaceTypes, JobTypes, LocalTypes
    <3>6. /\ jobIdToAppId \subseteq requested /\ userAchJobs \subseteq requested /\ own \subseteq requested
          /\ schema \in [Games -> {"none", "blank", "full"}]
          /\ heldUserAch \in Seq(UserJobs) /\ Len(heldUserAch) <= MaxHeld
          /\ overdue \subseteq UserJobs
      BY DEF HooksInv, PlaceTypes, JobTypes, AchTypes
    <3>7. lookup \in [StatisticsJobs -> {"", "pins", "fetch"}]
      BY DEF HooksInv, PlaceTypes, FixedInv
    <3>8. products.step \in {"none", "search", "inject", "sent"}
      BY DEF ProductsInv, Requests, Steps
    <3>9. /\ tracked \in ListedGames \cup {NoGame}
          /\ rpKvs \in [ListedGames -> AllGames \cup {NoGame}]
      BY DEF HooksInv, PlaceTypes, JobTypes, PresenceTypes
    <3>10. QED
      BY <3>1, <3>2, <3>3, <3>4, <3>5, <3>6, <3>7, <3>8, <3>9, Zenon DEF TypeOK
  <2>4. QED
    BY <2>1, <2>2, <2>3 DEF PacketsAreRight
<1>4. QED
  BY <1>1, <1>2, <1>3, PTL DEF Spec

-----------------------------------------------------------------------------
(* Whose progress a page shows                                             *)

\* What is known of the requests and of the games they are about: a request for statistics that
\* went out of a listed game's is the donor's, and one under way is recorded.
OwnInv ==
  /\ own \cap friends = {} /\ friends \subseteq requested
  /\ Games \ listed \subseteq unlisted
  /\ spoofed \subseteq requested \cap StatisticsJobs
  /\ requested \cap StatisticsJobs # {} => scenario = "statistics"
  /\ \A j \in LegacyJobs \cap requested :
       lookup[j] # "" \/ j \in spoofed \/ GameOf[j] \notin listed \/ GameOf[j] \in added
  /\ \A j \in StatsJobs \cap jobIdToAppId : lookup[j] # "" \/ j \in spoofed
  /\ \A j \in StatsJobs : lookup[j] # "" => j \in jobIdToAppId

\* What it is known of a request by where it is.
Ahead(j) == j \in wire \/ \E t \in Receivers : packet[t].job = j /\ at[t] \in DOMAIN NextStage
TracedInv ==
  /\ \A j \in StatsJobs \cap spoofed : Ahead(j) => j \in jobIdToAppId
  /\ \A t \in Receivers : at[t] = "stats" => packet[t].job \in spoofed
  /\ \A t \in Receivers : at[t] = "fill" => packet[t].job \in own
  /\ \A j : InSeq(j, heldUserAch) => j \in own

\* What may be shown to a job, and a packet that the handlers have yet to make so.
Fair(j, about) ==
  /\ about = "donor" => GameOf[j] \in unlisted \/ j \in tooLarge
  /\ about \in {"stripped", "cloud"} => j \in spoofed \/ GameOf[j] \in added
  /\ about = "rebuilt" => j \in own
Due(p, stage) ==
  /\ p.about = "donor" /\ p.job \in spoofed /\ p.kind \in {"stats", "legacy"}
  /\ stage = "stats" \/ stage \in DOMAIN NextStage
Told(p, stage) == p.job \in Jobs => Fair(p.job, p.about) \/ Due(p, stage)
Given(p) == p.job \in Jobs => Fair(p.job, p.about)
AboutInv ==
  /\ \A t \in Receivers : Told(packet[t], at[t]) /\ Given(hand[t])
  /\ \A i \in DOMAIN achPending : Given(achPending[i])
  /\ shown \in [Jobs -> Abouts]
  /\ \A j \in Jobs : Fair(j, shown[j])

\* What happened stays so.
Grows ==
  /\ own \subseteq own' /\ spoofed \subseteq spoofed' /\ unlisted \subseteq unlisted'
  /\ added \subseteq added' /\ tooLarge \subseteq tooLarge'

\* The records the first invariant is about, and the steps that touch them.
recordVars == <<own, friends, listed, unlisted, spoofed, requested, lookup, added, jobIdToAppId>>
RecordMoves ==
  \/ \E g : (Unlist(g) /\ UNCHANGED scriptedVars) \/ List(g)
  \/ \E j \in Jobs : (RequestSchema(j) \/ \E self \in BOOLEAN : RequestUser(j, self)) /\ UNCHANGED scriptedVars
  \/ scenario = "statistics" /\ \E j \in Jobs : RequestStats(j)
  \/ DonorStep
  \/ \E t \in Receivers : LookUp(t) /\ UNCHANGED scriptedVars

\* All others leave them alone.
LEMMA StepsOnRecords ==
  ASSUME [Next]_vars
  PROVE  RecordMoves \/ UNCHANGED recordVars
<1> USE DEF recordVars, achVars, jobVars, heldVars, scriptVars, scriptedVars, donorVars, Rest
<1>1. ASSUME NEW t \in Receivers, Arrival(t)
      PROVE  UNCHANGED recordVars
  BY <1>1 DEF Arrival, FromServers
<1>2. ASSUME NEW t \in Receivers, Receive(t)
      PROVE  RecordMoves \/ UNCHANGED recordVars
  <2>1. CASE AchievementStep(t) /\ UNCHANGED scriptedVars
    <3>1. CASE LookUp(t)
      BY <2>1, <3>1 DEF RecordMoves
    <3>2. CASE ~LookUp(t)
      <4>1. UNCHANGED <<own, friends, listed, unlisted, spoofed, requested, jobIdToAppId>>
        BY <2>1, <3>2 DEF AchievementStep, StripStats, ToRebuild, Fill, Capture, Expire, PopHeld, HeldDrained
      <4>2. QED
        BY <2>1, <4>1
    <3>3. QED
      BY <3>1, <3>2
  <2>2. CASE \E fits \in BOOLEAN : Overlay(t, fits)
    BY <2>2 DEF Overlay
  <2>3. CASE UNCHANGED <<achVars, scriptedVars>>
    BY <2>3
  <2>4. QED
    BY <1>2, <2>1, <2>2, <2>3 DEF Receive
<1>3. CASE Send
  <2>1. CASE DonorStep
    BY <2>1 DEF RecordMoves
  <2>2. CASE ProductStep
    BY <2>2 DEF ProductStep, SearchToken, AddTokenTo, InjectionEnds, Asks
  <2>3. CASE UNCHANGED <<achVars, scriptedVars>>
    BY <2>3
  <2>4. QED
    BY <1>3, <2>1, <2>2, <2>3 DEF Send
<1>4. CASE Client
  <2>1. CASE UNCHANGED <<achVars, scriptedVars>>
    BY <2>1
  <2>2. CASE AsksPages /\ UNCHANGED scriptedVars
    BY <2>2 DEF AsksPages, RecordMoves
  <2>3. CASE \E g : (Unlist(g) /\ UNCHANGED scriptedVars) \/ List(g)
    BY <2>3 DEF RecordMoves
  <2>4. CASE scenario = "statistics" /\ \E j \in Jobs : RequestStats(j)
    BY <2>4 DEF RecordMoves
  <2>5. ASSUME NEW g, SetStat(g) \/ AddToken(g)
        PROVE  UNCHANGED recordVars
    BY <2>5 DEF SetStat, AddToken
  <2>6. CASE AskProducts(Games)
    BY <2>6 DEF AskProducts, Asks
  <2>7. QED
    BY <1>4, <2>1, <2>2, <2>3, <2>4, <2>5, <2>6 DEF Client
<1>5. CASE Pages \/ UNCHANGED vars
  BY <1>5 DEF Pages, vars
<1>6. CASE Hold
  BY <1>6 DEF Hold, HoldTimesOut
<1>7. QED
  BY <1>1, <1>2, <1>3, <1>4, <1>5, <1>6 DEF Next

\* Nothing is taken back from what happened.
LEMMA HistoryGrows ==
  ASSUME [Next]_vars
  PROVE  Grows
<1>1. /\ own \subseteq own' /\ spoofed \subseteq spoofed' /\ unlisted \subseteq unlisted' /\ added \subseteq added'
  <2> USE DEF achVars, jobVars, scriptVars, scriptedVars, donorVars
  <2>1. CASE UNCHANGED recordVars
    BY <2>1 DEF recordVars
  <2>2. ASSUME NEW g, (Unlist(g) /\ UNCHANGED scriptedVars) \/ List(g)
        PROVE  UNCHANGED <<own, spoofed>> /\ unlisted \subseteq unlisted' /\ added \subseteq added'
    BY <2>2 DEF Unlist, List
  <2>3. ASSUME NEW j \in Jobs, (RequestSchema(j) \/ \E self \in BOOLEAN : RequestUser(j, self)) /\ UNCHANGED scriptedVars
        PROVE  UNCHANGED <<spoofed, unlisted, added>> /\ own \subseteq own'
    BY <2>3 DEF RequestSchema, RequestUser, OwnAccount
  <2>4. ASSUME NEW j \in Jobs, RequestStats(j)
        PROVE  UNCHANGED <<own, spoofed, unlisted, added>>
    BY <2>4 DEF RequestStats
  <2>5. CASE DonorStep
    <3>1. UNCHANGED <<own, unlisted, added>> /\ spoofed \subseteq spoofed'
      BY <2>5 DEF DonorStep, LookUpDonor, FetchStatSteamId, SendsUnder
    <3>2. QED
      BY <3>1
  <2>6. ASSUME NEW t \in Receivers, LookUp(t), UNCHANGED scriptedVars
        PROVE  UNCHANGED <<own, spoofed, unlisted, added>>
    BY <2>6 DEF LookUp
  <2>7. QED
    BY <2>1, <2>2, <2>3, <2>4, <2>5, <2>6, StepsOnRecords DEF RecordMoves
<1>2. tooLarge \subseteq tooLarge'
  <2> USE DEF scriptedVars, donorVars, Rest
  <2>1. CASE UNCHANGED tooLarge
    BY <2>1
  <2>2. ASSUME NEW t \in Receivers, NEW fits \in BOOLEAN, Overlay(t, fits)
        PROVE  tooLarge \subseteq tooLarge'
    BY <2>2 DEF Overlay
  <2>3. CASE Send
    <3>1. CASE DonorStep \/ ProductStep
      BY <3>1 DEF DonorStep, LookUpDonor, FetchStatSteamId, ProductStep, SearchToken, AddTokenTo, InjectionEnds, Asks
    <3>2. QED
      BY <2>3, <3>1 DEF Send
  <2>4. CASE Client
    <3>1. CASE \E j \in Jobs : RequestStats(j)
      BY <3>1 DEF RequestStats
    <3>2. CASE \E g : List(g) \/ SetStat(g) \/ AddToken(g)
      BY <3>2 DEF List, SetStat, AddToken
    <3>3. CASE AskProducts(Games)
      BY <3>3 DEF AskProducts, Asks
    <3>4. QED
      BY <2>4, <3>1, <3>2, <3>3 DEF Client
  <2>5. CASE Pages \/ Hold \/ UNCHANGED vars
    BY <2>5 DEF Pages, Hold, vars
  <2>6. CASE \E t \in Receivers : Arrival(t) \/ Receive(t)
    BY <2>2, <2>6 DEF Arrival, FromServers, Receive
  <2>7. QED
    BY <2>3, <2>4, <2>5, <2>6 DEF Next
<1>3. QED
  BY <1>1, <1>2 DEF Grows

\* So what may be shown may be shown from then on.
LEMMA FairStays ==
  ASSUME Grows
  PROVE  \A j, about : Fair(j, about) => Fair(j, about)'
  BY DEF Grows, Fair

\* A job that is in a packet is nowhere else, and was requested if it is about statistics.
LEMMA PacketsHold ==
  ASSUME PlaceTypes, PlaceInv, NEW t \in Receivers, packet[t].job \in Jobs
  PROVE  /\ packet[t].job \notin wire
         /\ packet[t].job \in StatisticsJobs => lookup[packet[t].job] = "" /\ packet[t].job \in requested
         /\ \A u \in Receivers : packet[u].job = packet[t].job => u = t
<1> DEFINE j == packet[t].job
<1>1. JobOK(j) /\ \A u \in Receivers : packet[u].job = j => Holds(j, "packet", u)
  BY DEF PlaceInv, Holds
<1>2. {"packet", "wire", "lookup"} \subseteq Tags /\ Network \in Receivers
  BY NetworkAssumption DEF Tags
<1>3. ~Holds(j, "wire", Network) /\ ~Holds(j, "lookup", Network) /\ Asked(j)
  BY <1>1, <1>2 DEF JobOK
<1>4. j \notin wire /\ (j \in StatisticsJobs => lookup[j] = "")
  BY <1>3 DEF Holds, Shelved, Families
<1>5. j \in StatisticsJobs => j \in requested
  BY <1>3, ScriptedAssumption DEF Asked, PlaceTypes, JobTypes, LocalTypes, StatisticsJobs, AchievementJobs
<1>6. \A u \in Receivers : packet[u].job = j => u = t
  BY <1>1, <1>2 DEF JobOK
<1>7. QED
  BY <1>4, <1>5, <1>6

\* The kinds of jobs that ask for pages and for statistics.
LEMMA KindsOfJobs ==
  /\ StatsJobs \cap LegacyJobs = {} /\ UserJobs \cap StatisticsJobs = {} /\ SchemaJobs \cap StatisticsJobs = {}
  /\ (CloudJobs \cup KeyJobs) \cap (StatisticsJobs \cup UserJobs \cup SchemaJobs) = {}
  /\ \A j \in UserJobs \cup StatisticsJobs : j \in Jobs /\ GameOf[j] \in Games
BY AchievementAssumption, ScriptedAssumption DEF StatisticsJobs, AchievementJobs

\* The records stay what they are known to be.
LEMMA StepKeepsOwn ==
  ASSUME HooksInv, OwnInv, [Next]_vars
  PROVE  OwnInv'
<1> USE DEF HooksInv, OwnInv
<1>1. scenario' = scenario
  BY StepsAtTheGate
<1>2. CASE UNCHANGED recordVars
  BY <1>1, <1>2 DEF recordVars
<1>3. ASSUME NEW g, Unlist(g), UNCHANGED scriptedVars
      PROVE  OwnInv'
  <2>1. /\ listed' = listed \ {g} /\ unlisted' = unlisted \cup {g}
        /\ UNCHANGED <<own, friends, spoofed, requested, lookup, added, jobIdToAppId>>
    BY <1>3 DEF Unlist, jobVars, scriptedVars, donorVars
  <2>2. QED
    BY <1>1, <2>1
<1>4. ASSUME NEW g, List(g)
      PROVE  OwnInv'
  <2>1. /\ listed' = listed \cup {g} /\ added' = added \cup {g}
        /\ UNCHANGED <<own, friends, unlisted, spoofed, requested, lookup, jobIdToAppId>>
    BY <1>4 DEF List, jobVars, donorVars
  <2>2. QED
    BY <1>1, <2>1
<1>5. ASSUME NEW j \in Jobs, RequestSchema(j), UNCHANGED scriptedVars
      PROVE  OwnInv'
  <2>1. /\ j \in SchemaJobs /\ requested' = requested \cup {j} /\ jobIdToAppId' \in {jobIdToAppId, jobIdToAppId \cup {j}}
        /\ UNCHANGED <<own, friends, listed, unlisted, spoofed, lookup, added>>
    BY <1>5 DEF RequestSchema, scriptVars, scriptedVars, donorVars
  <2>2. j \notin StatisticsJobs /\ j \notin StatsJobs /\ j \notin LegacyJobs
    BY <2>1, KindsOfJobs DEF StatisticsJobs
  <2>3. QED
    BY <1>1, <2>1, <2>2
<1>6. ASSUME NEW j \in Jobs, NEW self \in BOOLEAN, RequestUser(j, self), UNCHANGED scriptedVars
      PROVE  OwnInv'
  <2>1. /\ j \in UserJobs \ requested /\ requested' = requested \cup {j}
        /\ own' = own \/ (self /\ own' = own \cup {j})
        /\ friends' = IF self THEN friends ELSE friends \cup {j}
        /\ UNCHANGED <<listed, unlisted, spoofed, lookup, added, jobIdToAppId>>
    BY <1>6 DEF RequestUser, OwnAccount, scriptVars, scriptedVars, donorVars
  <2>2. j \notin StatisticsJobs /\ j \notin StatsJobs /\ j \notin LegacyJobs
    BY <2>1, KindsOfJobs DEF StatisticsJobs
  <2>3. own \subseteq requested
    BY DEF PlaceTypes, JobTypes, AchTypes
  <2>4. own' \cap friends' = {} /\ friends' \subseteq requested'
    BY <2>1, <2>3
  <2>5. QED
    BY <1>1, <2>1, <2>2, <2>4
<1>7. ASSUME NEW j \in Jobs, RequestStats(j), scenario = "statistics"
      PROVE  OwnInv'
  <2>1. /\ j \in StatisticsJobs \ requested /\ requested' = requested \cup {j}
        /\ UNCHANGED <<own, friends, listed, unlisted, spoofed, added>>
    BY <1>7 DEF RequestStats, scriptVars
  <2>2. \/ /\ GameOf[j] \in listed /\ jobIdToAppId' = jobIdToAppId \cup ({j} \cap StatsJobs)
           /\ lookup' = [lookup EXCEPT ![j] = "pins"]
        \/ GameOf[j] \notin listed /\ UNCHANGED <<jobIdToAppId, lookup>>
    BY <1>7 DEF RequestStats, HasDepot
  <2>3. lookup \in [StatisticsJobs -> {"", "pins", "fetch"}]
    BY DEF PlaceTypes, FixedInv
  <2>4. \A k \in StatisticsJobs : lookup'[k] = lookup[k] \/ (k = j /\ lookup'[k] = "pins")
    BY <2>2, <2>3
  <2>5. StatsJobs \subseteq StatisticsJobs /\ LegacyJobs \subseteq StatisticsJobs /\ StatsJobs \cap LegacyJobs = {}
    BY KindsOfJobs DEF StatisticsJobs
  <2>6. \A k \in LegacyJobs \cap requested' :
          lookup'[k] # "" \/ k \in spoofed \/ GameOf[k] \notin listed \/ GameOf[k] \in added
    BY <2>1, <2>2, <2>3, <2>4, <2>5
  <2>7. \A k \in StatsJobs \cap jobIdToAppId' : lookup'[k] # "" \/ k \in spoofed
    BY <2>2, <2>3, <2>4, <2>5
  <2>8. \A k \in StatsJobs : lookup'[k] # "" => k \in jobIdToAppId'
    BY <2>2, <2>4, <2>5
  <2>9. QED
    BY <1>1, <1>7, <2>1, <2>6, <2>7, <2>8
<1>8. ASSUME NEW j \in StatisticsJobs, LookUpDonor(j) \/ \E ok \in BOOLEAN : FetchStatSteamId(j, ok)
      PROVE  OwnInv'
  <2>1. /\ lookup[j] # "" /\ UNCHANGED <<own, friends, listed, unlisted, requested, added, jobIdToAppId>>
        /\ \/ lookup' = [lookup EXCEPT ![j] = "fetch"] /\ UNCHANGED spoofed
           \/ lookup' = [lookup EXCEPT ![j] = ""] /\ spoofed' = spoofed \cup {j}
    BY <1>8 DEF LookUpDonor, FetchStatSteamId, SendsUnder, scriptVars
  <2>2. lookup \in [StatisticsJobs -> {"", "pins", "fetch"}] /\ (j \notin requested => lookup[j] = "")
    BY DEF PlaceTypes, FixedInv
  <2>3. \A k \in StatisticsJobs : /\ lookup[k] # "" => lookup'[k] # "" \/ k \in spoofed'
                                  /\ lookup'[k] # "" => lookup[k] # ""
    BY <2>1, <2>2
  <2>4. StatsJobs \subseteq StatisticsJobs /\ LegacyJobs \subseteq StatisticsJobs
    BY DEF StatisticsJobs
  <2>5. spoofed' \subseteq requested \cap StatisticsJobs /\ spoofed \subseteq spoofed'
    BY <2>1, <2>2
  <2>6. QED
    BY <1>1, <2>1, <2>3, <2>4, <2>5
<1>9. ASSUME NEW t \in Receivers, LookUp(t), UNCHANGED scriptedVars
      PROVE  OwnInv'
  <2>1. /\ jobIdToAppId' = jobIdToAppId \ {packet[t].job}
        /\ UNCHANGED <<own, friends, listed, unlisted, requested, added, spoofed, lookup>>
    BY <1>9 DEF LookUp, scriptVars, scriptedVars, donorVars
  <2>2. packet[t].job \in StatsJobs => lookup[packet[t].job] = ""
    BY PacketsHold, KindsOfJobs DEF StatisticsJobs
  <2>3. QED
    BY <1>1, <2>1, <2>2
<1>10. QED
  BY <1>2, <1>3, <1>4, <1>5, <1>6, <1>7, <1>8, <1>9, StepsOnRecords DEF RecordMoves, DonorStep

\* Where statistics are asked for under a donor's id, no packet is at the gate.
LEMMA NoGateForStatistics ==
  ASSUME LayoutInv, OwnInv, spoofed # {}
  PROVE  IsResolved /\ \A t \in Receivers : at[t] \notin Gate
BY DEF OwnInv, LayoutInv, GateInv

\* One receiver works at a time.
LEMMA OneReceiver ==
  ASSUME PlaceTypes, NEW t \in Receivers, Arrival(t) \/ Receive(t)
  PROVE  \A u \in Receivers : u # t => packet'[u] = packet[u] /\ at'[u] = at[u] /\ hand'[u] = hand[u]
<1> USE DEF PlaceTypes, JobTypes, PacketTypes, LayoutTypes
<1>1. CASE Arrival(t)
  <2>1. UNCHANGED hand /\ \E p \in Packets : \E ls \in SUBSET Layouts : Arrive(t, p, ls)
    BY <1>1, ArrivingPackets
  <2>2. QED
    BY <2>1 DEF Arrive
<1>2. CASE Receive(t)
  <2>1. \A u \in Receivers : u # t => packet'[u] = packet[u]
    BY <1>2 DEF Receive, LayoutStep, Count, Agree, Latch, Disable, Dispatched, Original, GiveHand, Pop, Drained,
       AchievementStep, LookUp, StripStats, ToRebuild, Fill, Capture, Expire, PopHeld, HeldDrained, Overlay,
       PresenceStep, TryInject, Injected, HandleRecv
  <2>2. \A u \in Receivers : u # t => at'[u] = at[u]
    BY <1>2 DEF Receive, LayoutStep, Count, Agree, Latch, Disable, Dispatched, Original, GiveHand, Pop, Drained,
       AchievementStep, LookUp, StripStats, ToRebuild, Fill, Capture, Expire, PopHeld, HeldDrained, Overlay,
       PresenceStep, TryInject, Injected, HandleRecv, GoOn, Leaves
  <2>3. \A u \in Receivers : u # t => hand'[u] = hand[u]
    BY <1>2 DEF Receive, LayoutStep, Count, Agree, Latch, Disable, Dispatched, Original, GiveHand, Pop, Drained,
       AchievementStep, LookUp, StripStats, ToRebuild, Fill, Capture, Expire, PopHeld, HeldDrained, Overlay,
       PresenceStep, TryInject, Injected, HandleRecv
  <2>4. QED
    BY <2>1, <2>2, <2>3
<1>3. QED
  BY <1>1, <1>2

\* What a receiver does with the job of its packet: it keeps it and goes on, or drops it.  Only the
\* packet that is looked up is no longer ahead.
LEMMA PacketsGoOn ==
  ASSUME PlaceTypes, NEW t \in Receivers, Receive(t)
  PROVE  /\ wire' = wire
         /\ packet'[t].job = packet[t].job \/ packet'[t].job = DroppedJob
         /\ at'[t] \in DOMAIN NextStage => at[t] \in DOMAIN NextStage \/ at[t] \in Gate
         /\ LookUp(t) => at'[t] \notin DOMAIN NextStage
         /\ at'[t] = "stats" => at[t] = "stats" \/ LookUp(t)
         /\ at'[t] = "fill" => at[t] = "fill" \/ ToRebuild(t)
<1> USE DEF PlaceTypes, JobTypes, PacketTypes, LayoutTypes
<1>1. wire' = wire
  BY DEF Receive, LayoutStep, Count, Agree, Latch, Disable, Dispatched, Original, GiveHand, Pop, Drained,
     AchievementStep, LookUp, StripStats, ToRebuild, Fill, Capture, Expire, PopHeld, HeldDrained, Overlay,
     PresenceStep, TryInject, Injected, HandleRecv
<1>2. packet'[t].job = packet[t].job \/ packet'[t].job = DroppedJob
  <2>1. CASE UNCHANGED packet
    BY <2>1
  <2>2. CASE Original(t)
    BY <2>2 DEF Original, Plain, Packet
  <2>3. CASE StripStats(t)
    BY <2>3 DEF StripStats, Packets
  <2>4. CASE Fill(t)
    BY <2>4 DEF Fill, HeldCopy, Packets
  <2>5. CASE \E fits \in BOOLEAN : Overlay(t, fits)
    BY <2>5 DEF Overlay, Packets
  <2>6. CASE HandleRecv(t)
    BY <2>6 DEF HandleRecv, Packets
  <2>7. QED
    BY <2>1, <2>2, <2>3, <2>4, <2>5, <2>6 DEF Receive, LayoutStep, Count, Agree, Latch, Disable, Dispatched, GiveHand,
       Pop, Drained, AchievementStep, LookUp, ToRebuild, Capture, Expire, PopHeld, HeldDrained,
       PresenceStep, TryInject, Injected
<1>3. CASE at'[t] = at[t] \/ (at[t] \in DOMAIN NextStage /\ at'[t] \in DOMAIN NextStage \cup {"original"} /\ ~LookUp(t))
  <2>1. LookUp(t) => at[t] = "dispatch" /\ at'[t] \in {"schema", "user", "stats", "original"}
    BY DEF LookUp, Leaves
  <2>2. QED
    BY <1>1, <1>2, <1>3, <2>1 DEF NextStage
<1>4. CASE LayoutStep(t)
  <2>1. at[t] \in Gate /\ at'[t] \in {"disable", "original", "agree", "latch", "inject"}
    BY <1>4, CountedPackets DEF LayoutStep, Count, Agree, Latch, Disable, Gate
  <2>2. ~LookUp(t)
    BY <2>1 DEF LookUp, Gate
  <2>3. QED
    BY <1>1, <1>2, <2>1, <2>2
<1>5. CASE LookUp(t)
  <2>1. at'[t] \in {"schema", "user", "stats", "original"}
    BY <1>5 DEF LookUp, Leaves
  <2>2. QED
    BY <1>1, <1>2, <1>5, <2>1 DEF NextStage
<1>6. CASE Original(t) \/ StripStats(t) \/ ToRebuild(t) \/ Fill(t) \/ Capture(t)
  <2>1. /\ at'[t] \in {"idle", "original", "fill"} /\ (at'[t] = "fill" => ToRebuild(t))
        /\ at[t] \in {"original", "stats", "user", "fill", "schema"}
    BY <1>6 DEF Original, StripStats, ToRebuild, Fill, Capture, Leaves
  <2>2. ~LookUp(t)
    BY <2>1 DEF LookUp
  <2>3. QED
    BY <1>1, <1>2, <2>1, <2>2 DEF NextStage
<1>7. CASE Dispatched(t) \/ Drained(t) \/ Expire(t) \/ HeldDrained(t) \/ Injected(t) \/ TryInject(t) \/ HandleRecv(t)
             \/ \E fits \in BOOLEAN : Overlay(t, fits)
  <2>1. at[t] \in DOMAIN NextStage /\ GoOn(t)
    BY <1>7 DEF Dispatched, Drained, Expire, HeldDrained, TryInject, Injected, HandleRecv, Overlay, NextStage, Families
  <2>2. NextStage[at[t]] \in DOMAIN NextStage \cup {"original"}
    BY <2>1 DEF NextStage
  <2>3. at'[t] \in DOMAIN NextStage \cup {"original"}
    BY <2>1, <2>2 DEF GoOn
  <2>4. ~LookUp(t)
    <3>1. LookUp(t) => at'[t] \in {"schema", "user", "stats", "original"} /\ at[t] = "dispatch"
                         /\ packet[t].kind \in {"schema", "user", "stats"}
      BY DEF LookUp, Leaves
    <3>2. at[t] = "dispatch" => packet[t].kind \notin {"schema", "user", "stats"}
      BY <1>7 DEF Dispatched, Drained, Expire, HeldDrained, TryInject, Injected, HandleRecv, Overlay, Families
    <3>3. QED
      BY <3>1, <3>2
  <2>5. QED
    BY <1>3, <2>1, <2>3, <2>4
<1>8. CASE GiveHand(t) \/ Pop(t) \/ PopHeld(t)
  BY <1>3, <1>8 DEF GiveHand, Pop, PopHeld
<1>9. QED
  BY <1>4, <1>5, <1>6, <1>7, <1>8 DEF Receive, AchievementStep, PresenceStep

\* Where the held replies and those that are ready come from.
LEMMA HeldAndReady ==
  ASSUME JobTypes, [Next]_vars
  PROVE  /\ \A j : InSeq(j, heldUserAch') => InSeq(j, heldUserAch) \/ \E t \in Receivers : Fill(t) /\ j = packet[t].job
         /\ \A i \in DOMAIN achPending' :
              \/ \E k \in DOMAIN achPending : achPending'[i] = achPending[k]
              \/ achPending'[i] \in UserReplies /\ InSeq(achPending'[i].job, heldUserAch)
<1> USE DEF JobTypes, AchTypes
<1>1. CASE UNCHANGED <<heldUserAch, achPending>>
  BY <1>1
<1>2. ASSUME NEW t \in Receivers, Fill(t)
      PROVE  /\ \A j : InSeq(j, heldUserAch') => InSeq(j, heldUserAch) \/ j = packet[t].job
             /\ UNCHANGED achPending
  <2>1. heldUserAch' = heldUserAch \/ heldUserAch' = Append(heldUserAch, packet[t].job)
    BY <1>2 DEF Fill
  <2>2. QED
    BY <1>2, <2>1, AppendsGain DEF Fill
<1>3. ASSUME NEW jobs, Release(jobs)
      PROVE  /\ \A j : InSeq(j, heldUserAch') => InSeq(j, heldUserAch)
             /\ \A i \in DOMAIN achPending' :
                  \/ \E k \in DOMAIN achPending : achPending'[i] = achPending[k]
                  \/ achPending'[i] \in UserReplies /\ InSeq(achPending'[i].job, heldUserAch)
  <2>1. /\ \A j : InSeq(j, heldUserAch') => InSeq(j, heldUserAch)
        /\ achPending' \in Seq(UserReplies)
    BY <1>3, Released
  <2>2. PICK ready \in Seq(UserJobs) :
          /\ \A j : InSeq(j, ready) => InSeq(j, heldUserAch)
          /\ Len(achPending') = Len(achPending) + Len(ready)
          /\ \A i \in 1 .. Len(achPending) : achPending'[i] = achPending[i]
          /\ \A i \in 1 .. Len(ready) : achPending'[Len(achPending) + i].job = ready[i]
    BY <1>3, Released
  <2>3. /\ Len(achPending) \in Nat /\ Len(ready) \in Nat
        /\ DOMAIN achPending = 1 .. Len(achPending) /\ DOMAIN ready = 1 .. Len(ready)
        /\ DOMAIN achPending' = 1 .. Len(achPending) + Len(ready)
        /\ \A i \in DOMAIN achPending' : achPending'[i] \in UserReplies
    BY <2>1, <2>2
  <2>4. \A k \in DOMAIN ready : InSeq(ready[k], heldUserAch)
    <3>1. \A k \in DOMAIN ready : InSeq(ready[k], ready)
      BY Zenon DEF InSeq
    <3>2. QED
      BY <2>2, <3>1
  <2>5. ASSUME NEW i \in DOMAIN achPending'
        PROVE  \/ \E k \in DOMAIN achPending : achPending'[i] = achPending[k]
               \/ achPending'[i] \in UserReplies /\ InSeq(achPending'[i].job, heldUserAch)
    <3>1. CASE i <= Len(achPending)
      BY <2>2, <2>3, <3>1
    <3>2. CASE ~(i <= Len(achPending))
      <4>1. i - Len(achPending) \in DOMAIN ready /\ Len(achPending) + (i - Len(achPending)) = i
        BY <2>3, <3>2
      <4>2. achPending'[i].job = ready[i - Len(achPending)]
        BY <2>2, <2>3, <4>1
      <4>3. QED
        BY <2>3, <2>4, <4>1, <4>2
    <3>3. QED
      BY <3>1, <3>2
  <2>6. QED
    BY <2>1, <2>5
<1>4. ASSUME NEW t \in Receivers, PopHeld(t)
      PROVE  /\ UNCHANGED heldUserAch
             /\ \A i \in DOMAIN achPending' : \E k \in DOMAIN achPending : achPending'[i] = achPending[k]
  <2>1. UNCHANGED heldUserAch /\ achPending # <<>> /\ achPending' = Tail(achPending)
    BY <1>4 DEF PopHeld
  <2>2. \A i \in DOMAIN Tail(achPending) : i + 1 \in DOMAIN achPending /\ Tail(achPending)[i] = achPending[i + 1]
    BY <2>1
  <2>3. QED
    BY <2>1, <2>2
<1>5. CASE \E j \in Jobs : RequestSchema(j) \/ RequestStats(j) \/ \E self \in BOOLEAN : RequestUser(j, self)
  BY <1>1, <1>5 DEF RequestSchema, RequestStats, RequestUser, heldVars
<1>6. CASE \E j \in UserJobs : HoldTimesOut(j)
  BY <1>1, <1>6 DEF HoldTimesOut
<1>7. CASE \E t \in Receivers : LookUp(t)
  BY <1>1, <1>7 DEF LookUp, heldVars
<1>8. CASE \E t \in Receivers : Capture(t) \/ Expire(t)
  BY <1>3, <1>8 DEF Capture, Expire
<1>9. CASE UNCHANGED achJobVars
  BY <1>1, <1>9 DEF achJobVars
<1>10. CASE \E t \in Receivers : Fill(t)
  BY <1>2, <1>10
<1>11. CASE \E t \in Receivers : PopHeld(t)
  BY <1>4, <1>11
<1>12. QED
  BY <1>5, <1>6, <1>7, <1>8, <1>9, <1>10, <1>11, StepsOnAch DEF AchMoves

\* What else is done to a job that asks for statistics.
LEMMA SendersForward ==
  ASSUME Send \/ Client \/ Pages \/ Hold \/ UNCHANGED vars, LocalTypes
  PROVE  \A j \in StatsJobs :
           /\ j \in jobIdToAppId => j \in jobIdToAppId'
           /\ j \in spoofed' => j \in spoofed \/ lookup[j] # ""
           /\ j \in wire' => j \in wire \/ lookup[j] # "" \/ j \notin requested
<1> USE DEF achVars, jobVars, packetVars, Rest
<1>1. CASE Send
  <2>1. CASE SendStep /\ UNCHANGED achVars
    <3>1. wire' \subseteq wire \cup ({sending} \ {NoJob})
      BY <2>1 DEF SendStep, Decline, Answer, Forward
    <3>2. \A j \in StatsJobs : j \notin {sending} \ {NoJob}
      BY KindsOfJobs DEF LocalTypes, StatisticsJobs
    <3>3. QED
      BY <2>1, <3>1, <3>2
  <2>2. CASE DonorStep
    BY <2>2 DEF DonorStep, LookUpDonor, FetchStatSteamId, SendsUnder, Forward
  <2>3. CASE ProductStep
    BY <2>3 DEF ProductStep, SearchToken, AddTokenTo, InjectionEnds, Asks
  <2>4. CASE SendStepPresence /\ UNCHANGED achVars
    BY <2>4 DEF SendStepPresence, TrackSend, Notify
  <2>5. QED
    BY <1>1, <2>1, <2>2, <2>3, <2>4 DEF Send
<1>2. CASE Client
  <2>1. ASSUME NEW j \in Jobs, NEW n \in BOOLEAN, Ask(j, n), UNCHANGED achVars
        PROVE  wire' \subseteq wire \cup {j} /\ j \notin StatsJobs /\ UNCHANGED <<jobIdToAppId, spoofed>>
    BY <2>1, KindsOfJobs DEF Ask, Forward, StatisticsJobs
  <2>2. CASE AsksPages
    <3>1. ASSUME NEW j \in Jobs, RequestSchema(j) \/ \E self \in BOOLEAN : RequestUser(j, self)
          PROVE  /\ wire' \subseteq wire \cup {j} /\ j \notin StatsJobs
                 /\ jobIdToAppId \subseteq jobIdToAppId' /\ UNCHANGED spoofed
      BY <3>1, KindsOfJobs DEF RequestSchema, RequestUser, Forward, StatisticsJobs
    <3>2. QED
      BY <2>2, <3>1 DEF AsksPages
  <2>3. ASSUME NEW j \in Jobs, RequestStats(j)
        PROVE  /\ wire' \subseteq wire \cup {j} /\ j \notin requested
               /\ jobIdToAppId \subseteq jobIdToAppId' /\ UNCHANGED spoofed
    BY <2>3 DEF RequestStats, Forward
  <2>4. CASE UNCHANGED <<wire, jobIdToAppId, spoofed>>
    BY <2>4
  <2>5. CASE ActivateHost /\ UNCHANGED achVars
    BY <2>5 DEF ActivateHost
  <2>6. ASSUME NEW g, Unlist(g) \/ List(g) \/ SetStat(g) \/ AddToken(g)
        PROVE  UNCHANGED <<wire, jobIdToAppId, spoofed>>
    BY <2>6 DEF Unlist, List, SetStat, AddToken
  <2>7. CASE AskProducts(Games)
    BY <2>7 DEF AskProducts, Asks
  <2>8. CASE (Refresh \/ \E g \in AllGames : Launch(g) \/ Exit(g) \/ TrackRPSend(g)) /\ UNCHANGED achVars
    BY <2>8 DEF Refresh, Launch, Exit, Reports, TrackRPSend
  <2>9. QED
    BY <1>2, <2>1, <2>2, <2>3, <2>4, <2>5, <2>6, <2>7, <2>8 DEF Client
<1>3. CASE Pages \/ Hold \/ UNCHANGED vars
  BY <1>3 DEF Pages, Hold, HoldTimesOut, vars
<1>4. QED
  BY <1>1, <1>2, <1>3

\* What is known of a request by where it is stays so.
LEMMA StepKeepsTraced ==
  ASSUME HooksInv, LayoutInv, OwnInv, TracedInv, [Next]_vars
  PROVE  TracedInv'
<1> USE DEF HooksInv
<1>1. Grows
  BY HistoryGrows
<1>2. \A j : InSeq(j, heldUserAch)' => j \in own'
  <2>1. \A t \in Receivers : Fill(t) => packet[t].job \in own
    BY DEF Fill, TracedInv
  <2>2. \A j : InSeq(j, heldUserAch') => j \in own'
    BY <1>1, <2>1, HeldAndReady DEF PlaceTypes, Grows, TracedInv
  <2>3. QED
    BY <2>2
<1>3. ASSUME NEW t \in Receivers, Arrival(t)
      PROVE  TracedInv'
  <2>1. UNCHANGED <<jobIdToAppId, spoofed, own>>
    BY <1>3, ArrivingPackets DEF PlaceTypes, JobTypes, achVars
  <2>2. PICK p \in Packets : \E ls \in SUBSET Layouts :
          /\ Arrive(t, p, ls)
          /\ (p.job = DroppedJob /\ wire' = wire) \/ (p.job \in wire /\ wire' = wire \ {p.job})
    BY <1>3, ArrivingPackets DEF PlaceTypes, JobTypes
  <2>3. packet'[t] = p /\ at'[t] \in {"inject", "original", "count"}
    BY <2>2 DEF Arrive, PlaceTypes, JobTypes, PacketTypes, LayoutTypes
  <2>4. \A u \in Receivers : u # t => packet'[u] = packet[u] /\ at'[u] = at[u]
    BY <1>3, OneReceiver
  <2>5. \A j \in StatsJobs : Ahead(j)' => Ahead(j)
    <3>1. \A j \in StatsJobs : j # DroppedJob
      BY KindsOfJobs, LayoutAssumption DEF StatisticsJobs
    <3>2. QED
      BY <2>2, <2>3, <2>4, <3>1 DEF Ahead
  <2>6. \A j \in StatsJobs \cap spoofed' : Ahead(j)' => j \in jobIdToAppId'
    BY <2>1, <2>5 DEF TracedInv
  <2>7. \A u \in Receivers : /\ at'[u] = "stats" => packet'[u].job \in spoofed'
                             /\ at'[u] = "fill" => packet'[u].job \in own'
    BY <2>1, <2>3, <2>4 DEF TracedInv
  <2>8. QED
    BY <1>2, <2>6, <2>7 DEF TracedInv
<1>4. ASSUME NEW t \in Receivers, Receive(t)
      PROVE  TracedInv'
  <2>1. /\ wire' = wire
        /\ packet'[t].job = packet[t].job \/ packet'[t].job = DroppedJob
        /\ at'[t] \in DOMAIN NextStage => at[t] \in DOMAIN NextStage \/ at[t] \in Gate
        /\ LookUp(t) => at'[t] \notin DOMAIN NextStage
        /\ at'[t] = "stats" => at[t] = "stats" \/ LookUp(t)
        /\ at'[t] = "fill" => at[t] = "fill" \/ ToRebuild(t)
    BY <1>4, PacketsGoOn
  <2>2. \A u \in Receivers : u # t => packet'[u] = packet[u] /\ at'[u] = at[u]
    BY <1>4, OneReceiver
  <2>3. /\ UNCHANGED <<spoofed, own>>
        /\ jobIdToAppId' = jobIdToAppId \/ (LookUp(t) /\ jobIdToAppId' = jobIdToAppId \ {packet[t].job})
    <3> USE DEF achVars, jobVars, Rest
    <3>1. CASE AchievementStep(t)
      BY <3>1 DEF AchievementStep, LookUp, StripStats, ToRebuild, Fill, Capture, Expire, PopHeld, HeldDrained
    <3>2. CASE \E fits \in BOOLEAN : Overlay(t, fits)
      BY <3>2 DEF Overlay
    <3>3. QED
      BY <1>4, <3>1, <3>2 DEF Receive
  <2>4. ASSUME NEW j \in StatsJobs \cap spoofed', Ahead(j)'
        PROVE  j \in jobIdToAppId'
    <3>1. j \in Jobs /\ j # DroppedJob /\ j \in spoofed /\ \A u \in Receivers : at[u] \notin Gate
      BY <2>3, KindsOfJobs, LayoutAssumption, NoGateForStatistics DEF StatisticsJobs
    <3>2. Ahead(j)
      BY <2>1, <2>2, <2>4, <3>1 DEF Ahead
    <3>3. CASE LookUp(t) /\ j = packet[t].job
      <4>1. j \notin wire /\ \A u \in Receivers : packet[u].job = j => u = t
        BY <3>1, <3>3, PacketsHold
      <4>2. QED
        BY <2>1, <2>2, <2>4, <3>3, <4>1 DEF Ahead
    <3>4. QED
      BY <2>3, <3>1, <3>2, <3>3 DEF TracedInv
  <2>5. CASE LookUp(t)
    <3>1. /\ packet' = packet /\ at'[t] \in {packet[t].kind, "original"} /\ packet[t].kind \in {"schema", "user", "stats"}
          /\ at'[t] = "stats" => packet[t].job \in jobIdToAppId \cup userAchJobs
      BY <2>5 DEF LookUp, Leaves, PlaceTypes, JobTypes, LayoutTypes
    <3>2. at'[t] = "stats" => packet[t].job \in spoofed
      <4>1. packet[t].kind = "stats" => packet[t].job \in StatsJobs
        BY DEF PlaceTypes, JobTypes, PacketTypes, Fits
      <4>2. packet[t].job \in StatsJobs => packet[t].job \notin userAchJobs /\ lookup[packet[t].job] = ""
        BY KindsOfJobs, PacketsHold DEF PlaceTypes, JobTypes, AchTypes, StatisticsJobs
      <4>3. QED
        BY <3>1, <4>1, <4>2 DEF OwnInv
    <3>3. at'[t] # "fill"
      BY <3>1
    <3>4. \A u \in Receivers : /\ at'[u] = "stats" => packet'[u].job \in spoofed'
                               /\ at'[u] = "fill" => packet'[u].job \in own'
      BY <2>2, <2>3, <3>1, <3>2, <3>3 DEF TracedInv
    <3>5. QED
      BY <1>2, <2>4, <3>4 DEF TracedInv
  <2>6. CASE ToRebuild(t)
    <3>1. packet' = packet /\ at'[t] \in {"fill", "original"} /\ (at'[t] = "fill" => packet[t].job \in own)
      BY <2>6 DEF ToRebuild, Leaves, PlaceTypes, JobTypes, LayoutTypes
    <3>2. \A u \in Receivers : /\ at'[u] = "stats" => packet'[u].job \in spoofed'
                               /\ at'[u] = "fill" => packet'[u].job \in own'
      BY <2>2, <2>3, <3>1 DEF TracedInv
    <3>3. QED
      BY <1>2, <2>4, <3>2 DEF TracedInv
  <2>7. CASE ~LookUp(t) /\ ~ToRebuild(t)
    <3>1. at'[t] \in {"stats", "fill"} => at'[t] = at[t]
      BY <2>1, <2>7
    <3>2. at'[t] = at[t] /\ at[t] \in {"stats", "fill"} => packet' = packet
      BY <1>4 DEF Receive, LayoutStep, Count, Agree, Latch, Disable, Dispatched, Original, GiveHand, Pop, Drained,
         AchievementStep, LookUp, StripStats, ToRebuild, Fill, Capture, Expire, PopHeld, HeldDrained, Overlay,
         PresenceStep, TryInject, Injected, HandleRecv, Leaves, PlaceTypes, JobTypes, LayoutTypes
    <3>3. \A u \in Receivers : /\ at'[u] = "stats" => packet'[u].job \in spoofed'
                               /\ at'[u] = "fill" => packet'[u].job \in own'
      BY <2>2, <2>3, <3>1, <3>2 DEF TracedInv
    <3>4. QED
      BY <1>2, <2>4, <3>3 DEF TracedInv
  <2>8. QED
    BY <2>5, <2>6, <2>7
<1>5. CASE Send \/ Client \/ Pages \/ Hold \/ UNCHANGED vars
  <2>1. UNCHANGED <<at, packet>>
    BY <1>5, OthersLeaveHooks
  <2>2. \A j \in StatsJobs : /\ j \in jobIdToAppId => j \in jobIdToAppId'
                             /\ j \in spoofed' => j \in spoofed \/ lookup[j] # ""
                             /\ j \in wire' => j \in wire \/ lookup[j] # "" \/ j \notin requested
    BY <1>5, SendersForward DEF PlaceTypes, JobTypes
  <2>3. ASSUME NEW j \in StatsJobs \cap spoofed', Ahead(j)'
        PROVE  j \in jobIdToAppId'
    <3>1. CASE lookup[j] # ""
      BY <2>2, <3>1 DEF OwnInv
    <3>2. CASE lookup[j] = ""
      <4>1. j \in spoofed /\ j \in requested
        BY <2>2, <3>2 DEF OwnInv
      <4>2. Ahead(j)
        BY <2>1, <2>2, <2>3, <3>2, <4>1 DEF Ahead
      <4>3. QED
        BY <2>2, <4>1, <4>2 DEF TracedInv
    <3>3. QED
      BY <3>1, <3>2
  <2>4. \A u \in Receivers : /\ at'[u] = "stats" => packet'[u].job \in spoofed'
                             /\ at'[u] = "fill" => packet'[u].job \in own'
    BY <1>1, <2>1 DEF TracedInv, Grows
  <2>5. QED
    BY <1>2, <2>3, <2>4 DEF TracedInv
<1>6. QED
  BY <1>3, <1>4, <1>5 DEF Next

\* What is right to give or to have at hand is right from then on.
LEMMA TellingStays ==
  ASSUME Grows
  PROVE  /\ \A p : Given(p) => Given(p)'
         /\ \A p, stage : Told(p, stage) => Told(p, stage)'
  BY FairStays DEF Given, Told, Due, Grows

\* It is, if one receiver's packets are.
LEMMA OneTold ==
  ASSUME PlaceTypes, AboutInv, Grows, NEW t \in Receivers, Arrival(t) \/ Receive(t),
         NEW p, packet'[t] = p, NEW stage, at'[t] = stage, Told(p, stage)', NEW h, hand'[t] = h, Given(h)'
  PROVE  \A u \in Receivers : (Told(packet[u], at[u]) /\ Given(hand[u]))'
<1> SUFFICES ASSUME NEW u \in Receivers PROVE (Told(packet[u], at[u]) /\ Given(hand[u]))'
  OBVIOUS
<1>1. PICK q, next, g : /\ q = packet'[u] /\ next = at'[u] /\ g = hand'[u]
                        /\ Told(q, next)' /\ Given(g)'
  <2>1. CASE u = t
    BY <2>1
  <2>2. CASE u # t
    <3>1. packet'[u] = packet[u] /\ at'[u] = at[u] /\ hand'[u] = hand[u]
      BY <2>2, OneReceiver
    <3>2. PICK q, next, g : q = packet[u] /\ next = at[u] /\ g = hand[u]
      OBVIOUS
    <3>3. Told(q, next) /\ Given(g)
      BY <3>2 DEF AboutInv
    <3>4. Told(q, next)' /\ Given(g)'
      BY <3>3, TellingStays
    <3>5. QED
      BY <3>1, <3>2, <3>4
  <2>3. QED
    BY <2>1, <2>2
<1>2. Told(packet[u], at[u])'
  BY <1>1 DEF Told, Fair, Due
<1>3. Given(hand[u])'
  BY <1>1 DEF Given, Fair
<1>4. QED
  BY <1>2, <1>3

\* Steam shows what it is given.
LEMMA TakenFairly ==
  ASSUME AboutInv, Grows, NEW p \in Packets, Given(p), SteamTakes(p)
  PROVE  shown' \in [Jobs -> Abouts] /\ \A j \in Jobs : Fair(j, shown[j])'
<1>1. \A j, about : Fair(j, about) => Fair(j, about)'
  BY FairStays
<1>2. shown' = IF p.job \in Jobs THEN [shown EXCEPT ![p.job] = p.about] ELSE shown
  BY DEF SteamTakes
<1>3. p.about \in Abouts /\ shown \in [Jobs -> Abouts]
  BY DEF Packets, AboutInv
<1>4. shown' \in [Jobs -> Abouts]
  BY <1>2, <1>3
<1>5. ASSUME NEW j \in Jobs PROVE Fair(j, shown[j])'
  <2>1. PICK about : about = shown'[j]
    OBVIOUS
  <2>2. Fair(j, about)
    <3>1. CASE j = p.job
      <4>1. about = p.about
        BY <1>2, <1>3, <2>1, <3>1
      <4>2. QED
        BY <3>1, <4>1 DEF Given
    <3>2. CASE j # p.job
      <4>1. about = shown[j]
        BY <1>2, <1>3, <2>1, <3>2
      <4>2. QED
        BY <4>1 DEF AboutInv
    <3>3. QED
      BY <3>1, <3>2
  <2>3. Fair(j, about)'
    BY <1>1, <2>2
  <2>4. QED
    BY <2>1, <2>3 DEF Fair
<1>6. QED
  BY <1>4, <1>5

\* What is ready to be given was held, or was ready before.
LEMMA ReadyIsFair ==
  ASSUME JobTypes, TracedInv, AboutInv, [Next]_vars
  PROVE  \A i \in DOMAIN achPending' : Given(achPending[i])'
<1>1. Grows
  BY HistoryGrows
<1> SUFFICES ASSUME NEW i \in DOMAIN achPending' PROVE Given(achPending[i])'
  OBVIOUS
<1>2. PICK p : p = achPending'[i]
  OBVIOUS
<1>3. Given(p)'
  <2>1. CASE \E k \in DOMAIN achPending : achPending'[i] = achPending[k]
    <3>1. Given(p)
      BY <1>2, <2>1 DEF AboutInv
    <3>2. QED
      BY <1>1, <3>1, TellingStays
  <2>2. CASE p \in UserReplies /\ InSeq(p.job, heldUserAch)
    <3>1. p.job \in own' /\ p.about \in {"as is", "rebuilt"}
      BY <1>1, <2>2 DEF TracedInv, Grows, UserReplies
    <3>2. QED
      BY <3>1 DEF Given, Fair
  <2>3. QED
    BY <1>2, <2>1, <2>2, HeldAndReady
<1>4. QED
  BY <1>2, <1>3 DEF Given, Fair

\* What a receiver takes to hand may be given.
LEMMA HandIsFair ==
  ASSUME PlaceTypes, AboutInv, Grows, NEW t \in Receivers, Receive(t), NEW h, h = hand'[t]
  PROVE  Given(h)'
<1> USE DEF PlaceTypes, JobTypes, PacketTypes
<1>1. \A q : Given(q) => Given(q)'
  BY TellingStays
<1>2. CASE hand' = hand
  <2>1. Given(h)
    BY <1>2 DEF AboutInv
  <2>2. QED
    BY <1>1, <2>1
<1>3. CASE GiveHand(t) \/ TryInject(t)
  <2>1. h.job = DroppedJob
    <3>1. NoPacket.job = DroppedJob /\ Packet("persona", DroppedJob, injectPkt).job = DroppedJob
      BY DEF NoPacket, Packet
    <3>2. h \in {NoPacket, Packet("persona", DroppedJob, injectPkt)}
      BY <1>3 DEF GiveHand, TryInject
    <3>3. QED
      BY <3>1, <3>2
  <2>2. QED
    BY <2>1, LayoutAssumption DEF Given
<1>4. CASE Pop(t)
  <2>1. h.about = "local"
    BY <1>4 DEF Pop, Packet
  <2>2. QED
    BY <2>1 DEF Given, Fair
<1>5. CASE PopHeld(t)
  <2>1. h = Head(achPending) /\ achPending # <<>> /\ achPending \in Seq(UserReplies)
    BY <1>5 DEF PopHeld, AchTypes
  <2>2. 1 \in DOMAIN achPending /\ h = achPending[1]
    BY <2>1
  <2>3. Given(h)
    BY <2>2 DEF AboutInv
  <2>4. QED
    BY <1>1, <2>3
<1>6. QED
  BY <1>2, <1>3, <1>4, <1>5 DEF Receive, LayoutStep, Count, Agree, Latch, Disable, Dispatched, Original, Drained,
     AchievementStep, LookUp, StripStats, ToRebuild, Fill, Capture, Expire, HeldDrained, Overlay,
     PresenceStep, Injected, HandleRecv

\* What it does to the packet it has makes that fair, or leaves it to a later stage.
LEMMA PacketIsTold ==
  ASSUME HooksInv, OwnInv, TracedInv, AboutInv, Grows, NEW t \in Receivers, Receive(t),
         NEW p, p = packet'[t], NEW stage, stage = at'[t]
  PROVE  Told(p, stage)'
<1> USE DEF HooksInv
<1>1. /\ packet[t] \in Packets /\ Fits(packet[t], at[t]) /\ Told(packet[t], at[t])
      /\ packet \in [Receivers -> Packets] /\ DOMAIN at = Receivers
  BY DEF AboutInv, PlaceTypes, JobTypes, PacketTypes, LayoutTypes
<1>2. \A q, next : Told(q, next) => Told(q, next)'
  BY TellingStays
<1>3. ASSUME p = packet[t], Given(p)
      PROVE  Told(p, stage)'
  <2>1. Told(p, stage)
    BY <1>3 DEF Told, Given
  <2>2. QED
    BY <1>2, <2>1
<1>4. CASE GiveHand(t) \/ Pop(t) \/ PopHeld(t)
  <2>1. p = packet[t] /\ stage = at[t]
    BY <1>4 DEF GiveHand, Pop, PopHeld
  <2>2. QED
    BY <1>1, <1>2, <2>1
<1>5. CASE LayoutStep(t) \/ ToRebuild(t) \/ Capture(t)
  <2>1. p = packet[t] /\ at[t] \in Gate \cup {"user", "schema"}
    BY <1>5 DEF LayoutStep, Count, Agree, Latch, Disable, ToRebuild, Capture, Gate
  <2>2. ~Due(p, at[t])
    BY <2>1 DEF Due, Gate, NextStage
  <2>3. QED
    BY <1>1, <1>3, <2>1, <2>2 DEF Told, Given
<1>6. CASE Dispatched(t) \/ Drained(t) \/ Expire(t) \/ HeldDrained(t) \/ Injected(t) \/ TryInject(t)
  <2>1. /\ p = packet[t] /\ at[t] \in DOMAIN NextStage /\ GoOn(t)
        /\ at[t] = "dispatch" => p.kind \in {"foreign", "plain", "reply"}
    BY <1>6 DEF Dispatched, Drained, Expire, HeldDrained, TryInject, Injected, NextStage, Families
  <2>2. at[t] # "dispatch" => stage \in DOMAIN NextStage
    BY <1>1, <2>1 DEF GoOn, NextStage
  <2>3. Due(p, at[t]) => Due(p, stage)
    BY <2>1, <2>2 DEF Due
  <2>4. Told(p, stage)
    BY <1>1, <2>1, <2>3 DEF Told
  <2>5. QED
    BY <1>2, <2>4
<1>7. CASE Original(t) \/ HandleRecv(t)
  <2>1. p.job = DroppedJob
    <3>1. CASE Original(t)
      BY <1>1, <3>1 DEF Original, Plain, Packet
    <3>2. CASE HandleRecv(t)
      <4>1. packet[t].job = DroppedJob
        BY <1>1, <3>2 DEF HandleRecv, Fits
      <4>2. p.job = packet[t].job
        BY <1>1, <3>2 DEF HandleRecv, Packets
      <4>3. QED
        BY <4>1, <4>2
    <3>3. QED
      BY <1>7, <3>1, <3>2
  <2>2. QED
    BY <2>1, LayoutAssumption DEF Told
<1>8. CASE LookUp(t)
  <2>1. /\ p = packet[t] /\ at[t] = "dispatch" /\ p.kind \in {"schema", "user", "stats"}
        /\ stage = IF p.job \in jobIdToAppId \cup userAchJobs THEN p.kind ELSE "original"
    BY <1>1, <1>8 DEF LookUp, Leaves
  <2>2. CASE Due(p, at[t])
    <3>1. p.kind = "stats" /\ p.job \in StatsJobs /\ p.job \in spoofed
      BY <1>1, <2>1, <2>2 DEF Due, Fits
    <3>2. Ahead(p.job)
      BY <2>1 DEF Ahead, NextStage
    <3>3. stage = "stats"
      BY <2>1, <3>1, <3>2 DEF TracedInv
    <3>4. Told(p, stage)
      BY <2>2, <3>3 DEF Told, Due
    <3>5. QED
      BY <1>2, <3>4
  <2>3. CASE ~Due(p, at[t])
    BY <1>1, <1>3, <2>1, <2>3 DEF Told, Given
  <2>4. QED
    BY <2>2, <2>3
<1>9. CASE StripStats(t)
  <2>1. /\ packet[t].job \in spoofed /\ packet[t].job \in StatsJobs /\ at[t] = "stats" /\ stage = "original"
        /\ p = [packet[t] EXCEPT !.about = IF HasDepot(GameOf[packet[t].job]) THEN "stripped" ELSE packet[t].about]
    BY <1>1, <1>9 DEF StripStats, Leaves, TracedInv, Fits
  <2>2. p.job = packet[t].job
    BY <1>1, <2>1 DEF Packets
  <2>3. CASE HasDepot(GameOf[packet[t].job])
    <3>1. p.about = "stripped"
      BY <1>1, <2>1, <2>3 DEF Packets
    <3>2. Told(p, stage)
      BY <2>1, <2>2, <3>1 DEF Told, Fair
    <3>3. QED
      BY <1>2, <3>2
  <2>4. CASE ~HasDepot(GameOf[packet[t].job])
    <3>1. p.about = packet[t].about
      BY <1>1, <2>1, <2>4 DEF Packets
    <3>2. GameOf[p.job] \in unlisted
      BY <2>1, <2>2, <2>4, KindsOfJobs DEF HasDepot, OwnInv, StatisticsJobs
    <3>3. Told(p, stage)
      BY <1>1, <2>2, <3>1, <3>2 DEF Told, Fair, Due
    <3>4. QED
      BY <1>2, <3>3
  <2>5. QED
    BY <2>3, <2>4
<1>10. CASE Fill(t)
  <2>1. packet[t].job \in own /\ packet[t].kind = "user"
    BY <1>1, <1>10 DEF Fill, TracedInv, Fits
  <2>2. p \in {packet[t], [packet[t] EXCEPT !.about = "rebuilt"], [packet[t] EXCEPT !.job = DroppedJob]}
    BY <1>1, <1>10 DEF Fill, HeldCopy
  <2>3. CASE p = packet[t]
    <3>1. ~Due(p, at[t])
      BY <2>1, <2>3 DEF Due
    <3>2. QED
      BY <1>1, <1>3, <2>3, <3>1 DEF Told, Given
  <2>4. CASE p = [packet[t] EXCEPT !.about = "rebuilt"]
    <3>1. p.about = "rebuilt" /\ p.job = packet[t].job
      BY <1>1, <2>4 DEF Packets
    <3>2. Told(p, stage)
      BY <2>1, <3>1 DEF Told, Fair
    <3>3. QED
      BY <1>2, <3>2
  <2>5. CASE p = [packet[t] EXCEPT !.job = DroppedJob]
    <3>1. p.job = DroppedJob
      BY <1>1, <2>5 DEF Packets
    <3>2. QED
      BY <3>1, LayoutAssumption DEF Told
  <2>6. QED
    BY <2>2, <2>3, <2>4, <2>5
<1>11. ASSUME NEW fits \in BOOLEAN, Overlay(t, fits)
       PROVE  Told(p, stage)'
  <2> DEFINE j == packet[t].job
  <2>1. /\ packet[t].kind = "legacy" /\ j \in LegacyJobs /\ at[t] = "dispatch"
        /\ p = [packet[t] EXCEPT !.about = IF HasDepot(GameOf[j]) /\ fits THEN AchievementsOf(GameOf[j]) ELSE packet[t].about]
        /\ tooLarge' = IF HasDepot(GameOf[j]) /\ ~fits THEN tooLarge \cup {j} ELSE tooLarge
    BY <1>1, <1>11 DEF Overlay, Fits
  <2>2. /\ p.job = j
        /\ p.about = IF HasDepot(GameOf[j]) /\ fits THEN AchievementsOf(GameOf[j]) ELSE packet[t].about
    BY <1>1, <2>1 DEF Packets
  <2>3. j \in Jobs /\ GameOf[j] \in Games /\ j \in requested /\ lookup[j] = ""
    BY <2>1, KindsOfJobs, PacketsHold DEF StatisticsJobs
  <2> HIDE DEF j
  <2>4. CASE HasDepot(GameOf[j]) /\ fits
    <3>1. p.about \in {"cloud", "stripped"}
      BY <2>2, <2>4 DEF AchievementsOf
    <3>2. j \in spoofed \/ GameOf[j] \in added
      BY <2>1, <2>3, <2>4 DEF OwnInv, HasDepot
    <3>3. Told(p, stage)
      BY <2>2, <3>1, <3>2 DEF Told, Fair
    <3>4. QED
      BY <1>2, <3>3
  <2>5. CASE ~(HasDepot(GameOf[j]) /\ fits)
    <3>1. p.about = packet[t].about
      BY <2>2, <2>5
    <3>2. GameOf[j] \in unlisted' \/ j \in tooLarge'
      BY <2>1, <2>3, <2>5 DEF HasDepot, OwnInv, Grows
    <3>3. /\ p.about \in {"stripped", "cloud"} => j \in spoofed' \/ GameOf[j] \in added'
          /\ p.about = "rebuilt" => j \in own'
      BY <1>1, <2>3, <3>1 DEF Told, Fair, Due, Grows, j
    <3>4. QED
      BY <2>2, <3>2, <3>3 DEF Told, Fair
  <2>6. QED
    BY <2>4, <2>5
<1>12. QED
  BY <1>4, <1>5, <1>6, <1>7, <1>8, <1>9, <1>10, <1>11 DEF Receive, AchievementStep, PresenceStep

\* Nothing is shown that is not fair, and nothing on its way there is.
LEMMA StepKeepsAbout ==
  ASSUME HooksInv, LayoutInv, OwnInv, TracedInv, AboutInv, [Next]_vars
  PROVE  AboutInv'
<1> USE DEF HooksInv
<1>1. Grows
  BY HistoryGrows
<1>2. \A i \in DOMAIN achPending' : Given(achPending[i])'
  BY ReadyIsFair DEF PlaceTypes
<1>3. ASSUME UNCHANGED shown
      PROVE  shown' \in [Jobs -> Abouts] /\ \A j \in Jobs : Fair(j, shown[j])'
  <2>1. shown' \in [Jobs -> Abouts]
    BY <1>3 DEF AboutInv
  <2>2. \A j \in Jobs : Fair(j, shown[j])'
    BY <1>1, <1>3 DEF AboutInv, Fair, Grows
  <2>3. QED
    BY <2>1, <2>2
<1>4. ASSUME NEW t \in Receivers, Arrival(t)
      PROVE  AboutInv'
  <2>1. UNCHANGED <<shown, hand, spoofed>>
    BY <1>4, ArrivingPackets DEF PlaceTypes, JobTypes, clientVars, achVars
  <2>2. PICK p \in Packets : \E ls \in SUBSET Layouts :
          /\ Arrive(t, p, ls)
          /\ p.job = DroppedJob \/ (p.job \in wire /\ p \in ReplyTo(p.job))
    BY <1>4, ArrivingPackets DEF PlaceTypes, JobTypes
  <2>3. PICK stage : /\ packet'[t] = p /\ at'[t] = stage
                     /\ IsResolved => stage = "inject"
    BY <2>2 DEF Arrive, PlaceTypes, JobTypes, PacketTypes, LayoutTypes
  <2>4. Told(p, stage)
    <3>1. CASE p.job = DroppedJob
      BY <3>1, LayoutAssumption DEF Told
    <3>2. CASE p.job \in wire /\ p \in ReplyTo(p.job)
      <4>1. /\ p.about \in {"full", "blank", "valve", "own", "steam", "donor"}
            /\ p.about = "donor" => p.job \in spoofed /\ p.kind \in {"stats", "legacy"}
        BY <3>2, Replies DEF PlaceTypes, JobTypes, WireTypes
      <4>2. CASE p.about # "donor"
        BY <4>1, <4>2 DEF Told, Fair
      <4>3. CASE p.about = "donor"
        <5>1. stage = "inject"
          BY <2>3, <4>1, <4>3, NoGateForStatistics
        <5>2. QED
          BY <4>1, <4>3, <5>1 DEF Told, Due, NextStage
      <4>4. QED
        BY <4>2, <4>3
    <3>3. QED
      BY <2>2, <3>1, <3>2
  <2>5. Told(p, stage)'
    BY <1>1, <2>4, TellingStays
  <2>6. PICK h : h = hand'[t]
    OBVIOUS
  <2>7. Given(h)'
    BY <1>1, <2>1, <2>6, TellingStays DEF AboutInv
  <2>8. \A u \in Receivers : (Told(packet[u], at[u]) /\ Given(hand[u]))'
    BY <1>1, <1>4, <2>3, <2>5, <2>6, <2>7, OneTold
  <2>9. QED
    BY <1>2, <1>3, <2>1, <2>8 DEF AboutInv
<1>5. ASSUME NEW t \in Receivers, Receive(t)
      PROVE  AboutInv'
  <2>1. PICK p, stage, h : p = packet'[t] /\ stage = at'[t] /\ h = hand'[t]
    OBVIOUS
  <2>2. Told(p, stage)' /\ Given(h)'
    BY <1>1, <1>5, <2>1, PacketIsTold, HandIsFair
  <2>3. \A u \in Receivers : (Told(packet[u], at[u]) /\ Given(hand[u]))'
    BY <1>1, <1>5, <2>1, <2>2, OneTold
  <2>4. CASE Original(t) \/ GiveHand(t)
    <3>1. PICK q \in Packets : SteamTakes(q) /\ Given(q)
      <4>1. CASE Original(t)
        <5>1. SteamTakes(packet[t]) /\ ~Due(packet[t], at[t])
          BY <4>1 DEF Original, Due, NextStage
        <5>2. QED
          BY <5>1 DEF AboutInv, Told, Given, PlaceTypes, JobTypes, PacketTypes
      <4>2. CASE GiveHand(t)
        BY <4>2 DEF GiveHand, AboutInv, PlaceTypes, JobTypes, PacketTypes
      <4>3. QED
        BY <2>4, <4>1, <4>2
    <3>2. shown' \in [Jobs -> Abouts] /\ \A j \in Jobs : Fair(j, shown[j])'
      BY <1>1, <3>1, TakenFairly
    <3>3. QED
      BY <1>2, <2>3, <3>2 DEF AboutInv
  <2>5. CASE ~(Original(t) \/ GiveHand(t))
    <3>1. UNCHANGED shown
      BY <1>5, <2>5 DEF Receive, LayoutStep, Count, Agree, Latch, Disable, Dispatched, Pop, Drained, clientVars,
         AchievementStep, LookUp, StripStats, ToRebuild, Fill, Capture, Expire, PopHeld, HeldDrained, Overlay,
         PresenceStep, TryInject, Injected, HandleRecv
    <3>2. QED
      BY <1>2, <1>3, <2>3, <3>1 DEF AboutInv
  <2>6. QED
    BY <2>4, <2>5
<1>6. CASE Send \/ Client \/ Pages \/ Hold \/ UNCHANGED vars
  <2>1. UNCHANGED <<at, packet, hand, shown>>
    BY <1>6, OthersLeaveHooks DEF clientVars
  <2>2. \A u \in Receivers : (Told(packet[u], at[u]) /\ Given(hand[u]))'
    BY <1>1, <2>1 DEF AboutInv, Told, Given, Due, Fair, Grows
  <2>3. QED
    BY <1>2, <1>3, <2>1, <2>2 DEF AboutInv
<1>7. QED
  BY <1>4, <1>5, <1>6 DEF Next

\* It starts with nothing asked or shown.
LEMMA InitProgress == Init => OwnInv /\ TracedInv /\ AboutInv
<1> SUFFICES ASSUME Init PROVE OwnInv /\ TracedInv /\ AboutInv
  OBVIOUS
<1>0. \A i : i \notin DOMAIN <<>>
  <2>1. <<>> \in Seq({}) /\ Len(<<>>) = 0
    OBVIOUS
  <2>2. DOMAIN <<>> = 1 .. 0
    BY <2>1
  <2>3. QED
    BY <2>2
<1>1. /\ own = {} /\ friends = {} /\ listed = Games /\ spoofed = {} /\ requested = {} /\ jobIdToAppId = {}
      /\ heldUserAch = <<>> /\ achPending = <<>> /\ lookup = [j \in StatisticsJobs |-> ""]
  BY DEF Init, AchievementInit, ScriptedInit
<1>2. PacketInit(scenario \notin {"layout", "local"})
  BY DEF Init
<1>3. /\ packet = [t \in Receivers |-> Plain] /\ hand = [t \in Receivers |-> NoPacket]
      /\ at = [t \in Receivers |-> "idle"] /\ shown = [j \in Jobs |-> ""]
  BY <1>2, Zenon DEF PacketInit
<1>4. OwnInv
  BY <1>1 DEF OwnInv, StatisticsJobs
<1>5. TracedInv
  <2>1. \A j : ~InSeq(j, heldUserAch)
    BY <1>1, <1>0 DEF InSeq
  <2>2. \A t \in Receivers : at[t] = "idle"
    BY <1>3
  <2>3. StatsJobs \cap spoofed = {}
    BY <1>1
  <2>4. QED
    BY <2>1, <2>2, <2>3 DEF TracedInv
<1>6. \A t \in Receivers : packet[t].job = DroppedJob /\ hand[t].job = DroppedJob
  BY <1>3 DEF Plain, NoPacket, Packet
<1>7. AboutInv
  <2>1. \A t \in Receivers : Told(packet[t], at[t]) /\ Given(hand[t])
    BY <1>6, LayoutAssumption DEF Told, Given
  <2>2. shown \in [Jobs -> Abouts] /\ \A j \in Jobs : shown[j] = ""
    BY <1>3 DEF Abouts
  <2>3. \A j \in Jobs : Fair(j, shown[j])
    BY <2>2 DEF Fair
  <2>4. DOMAIN achPending = {}
    BY <1>0, <1>1
  <2>5. QED
    BY <2>1, <2>2, <2>3, <2>4 DEF AboutInv
<1>8. QED
  BY <1>4, <1>5, <1>7

\* Statistics asked for under a donor's id are stripped before they are shown, and progress is
\* built for the user's own pages only, whatever jobs and games there are, and whatever the scripts
\* come to say between a request and its reply.
THEOREM ProgressIsTheirOwn == Spec => []NobodyElsesProgress
<1> DEFINE IInv == HooksInv /\ LayoutInv /\ OwnInv /\ TracedInv /\ AboutInv
<1>1. Init => IInv
  BY InitPlaces, InitLayout, InitProgress DEF HooksInv
<1>2. IInv /\ [Next]_vars => IInv'
  BY StepKeepsHooks, StepKeepsLayoutTypes, StepKeepsAttempts, StepKeepsOwn, StepKeepsTraced, StepKeepsAbout DEF LayoutInv
<1>3. IInv => NobodyElsesProgress
  BY DEF AboutInv, Fair, OwnInv, NobodyElsesProgress
<1>4. QED
  BY <1>1, <1>2, <1>3, PTL DEF Spec
=============================================================================
