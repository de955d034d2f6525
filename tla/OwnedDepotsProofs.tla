------------------------- MODULE OwnedDepotsProofs -------------------------
(***************************************************************************)
(* Proofs about OwnedDepots, for every number of threads, packages, lists  *)
(* and nested calls.                                                       *)
(***************************************************************************)
EXTENDS OwnedDepots, SequenceTheorems, FiniteSetTheorems, TLAPS

Frames == [pc : Pcs, list : Lists, toWalk : SUBSET Packages, owned : SUBSET Depots(Packages)]

-----------------------------------------------------------------------------
(* What a step does to the stacks                                          *)

\* The frame of a step is the innermost call of its thread.
LEMMA TopOf ==
  ASSUME TypeOK, NEW t \in Threads, stack[t] # <<>>
  PROVE  /\ Len(stack[t]) \in Nat \ {0}
         /\ Len(stack[t]) \in 1..Len(stack[t])
         /\ Top(t) \in Frames
         /\ \A i \in 1..Len(stack[t]) : stack[t][i] \in Frames
<1>1. stack[t] \in Seq(Frames)
  BY DEF TypeOK, Frames
<1>2. Len(stack[t]) \in Nat \ {0}
  BY <1>1, EmptySeq
<1>3. QED
  BY <1>1, <1>2, ElementOfSeq DEF Top

\* SetTop changes the innermost frame of one thread, and no length.
LEMMA SetTopEffect ==
  ASSUME TypeOK, NEW t \in Threads, stack[t] # <<>>, NEW f \in Frames, SetTop(t, f)
  PROVE  /\ stack' \in [Threads -> Seq(Frames)]
         /\ \A u \in Threads : Len(stack'[u]) = Len(stack[u])
         /\ \A u \in Threads : \A i \in 1..Len(stack[u]) :
              stack'[u][i] = IF u = t /\ i = Len(stack[t]) THEN f ELSE stack[u][i]
<1>1. stack \in [Threads -> Seq(Frames)]
  BY DEF TypeOK, Frames
<1>2. Len(stack[t]) \in 1..Len(stack[t])
  BY TopOf
<1>3. stack' = [stack EXCEPT ![t] = [stack[t] EXCEPT ![Len(stack[t])] = f]]
  BY <1>1 DEF SetTop
<1>4. /\ [stack[t] EXCEPT ![Len(stack[t])] = f] \in Seq(Frames)
      /\ Len([stack[t] EXCEPT ![Len(stack[t])] = f]) = Len(stack[t])
      /\ \A j \in 1..Len(stack[t]) :
           [stack[t] EXCEPT ![Len(stack[t])] = f][j] = IF j = Len(stack[t]) THEN f ELSE stack[t][j]
  <2>1. stack[t] \in Seq(Frames)
    BY <1>1
  <2> HIDE DEF Frames
  <2>2. QED
    BY <1>2, <2>1, ExceptSeq
<1> HIDE DEF Frames
<1>5. stack'[t] = [stack[t] EXCEPT ![Len(stack[t])] = f] /\ \A u \in Threads \ {t} : stack'[u] = stack[u]
  BY <1>1, <1>3
<1>6. stack' \in [Threads -> Seq(Frames)]
  BY <1>1, <1>3, <1>4
<1>7. QED
  BY <1>4, <1>5, <1>6

\* Return takes the innermost frame of one thread away.
LEMMA ReturnEffect ==
  ASSUME TypeOK, NEW t \in Threads, stack[t] # <<>>, Return(t)
  PROVE  /\ stack' \in [Threads -> Seq(Frames)]
         /\ Len(stack'[t]) = Len(stack[t]) - 1
         /\ \A u \in Threads \ {t} : stack'[u] = stack[u]
         /\ \A i \in 1..(Len(stack[t]) - 1) : stack'[t][i] = stack[t][i]
<1> DEFINE n == Len(stack[t]) - 1
<1>1. stack \in [Threads -> Seq(Frames)]
  BY DEF TypeOK, Frames
<1>2. n \in Nat /\ \A i \in 1..n : stack[t][i] \in Frames
  BY TopOf
<1>3. stack' = [stack EXCEPT ![t] = SubSeq(stack[t], 1, n)]
  BY <1>1 DEF Return
<1> HIDE DEF n
<1>4. /\ SubSeq(stack[t], 1, n) \in Seq(Frames)
      /\ Len(SubSeq(stack[t], 1, n)) = IF 1 <= n THEN n - 1 + 1 ELSE 0
      /\ \A i \in 1..(n - 1 + 1) : SubSeq(stack[t], 1, n)[i] = stack[t][1 + i - 1]
  <2>1. 1 \in Int /\ n \in Int
    BY <1>2
  <2>2. QED
    BY <1>2, <2>1, SubSeqProperties
<1>5. Len(SubSeq(stack[t], 1, n)) = n /\ \A i \in 1..n : SubSeq(stack[t], 1, n)[i] = stack[t][i]
  BY <1>2, <1>4
<1>6. stack'[t] = SubSeq(stack[t], 1, n) /\ \A u \in Threads \ {t} : stack'[u] = stack[u]
  BY <1>1, <1>3
<1>7. stack' \in [Threads -> Seq(Frames)]
  BY <1>1, <1>3, <1>4
<1>8. QED
  BY <1>5, <1>6, <1>7 DEF n

\* A call of CheckAppOwnership adds a frame.
LEMMA EnterEffect ==
  ASSUME TypeOK, NEW t \in Threads, stack' = [stack EXCEPT ![t] = Append(@, Entered)]
  PROVE  /\ stack' \in [Threads -> Seq(Frames)]
         /\ Len(stack'[t]) = Len(stack[t]) + 1
         /\ stack'[t][Len(stack[t]) + 1] = Entered
         /\ \A u \in Threads \ {t} : stack'[u] = stack[u]
         /\ \A i \in 1..Len(stack[t]) : stack'[t][i] = stack[t][i]
<1>1. stack \in [Threads -> Seq(Frames)]
  BY DEF TypeOK, Frames
<1>2. Entered \in Frames
  <2>1. delivered \in Seq(SUBSET Packages)
    BY DEF TypeOK
  <2>2. 0 \in Lists
    BY <2>1, LenProperties DEF Lists
  <2>3. QED
    BY <2>2 DEF Entered, Frame, Frames, Pcs
<1>3. /\ Append(stack[t], Entered) \in Seq(Frames)
      /\ Len(Append(stack[t], Entered)) = Len(stack[t]) + 1
      /\ \A i \in 1..Len(stack[t]) : Append(stack[t], Entered)[i] = stack[t][i]
      /\ Append(stack[t], Entered)[Len(stack[t]) + 1] = Entered
  <2>1. stack[t] \in Seq(Frames)
    BY <1>1
  <2> HIDE DEF Frames
  <2>2. QED
    BY <1>2, <2>1, AppendProperties
<1>4. stack'[t] = Append(stack[t], Entered) /\ \A u \in Threads \ {t} : stack'[u] = stack[u]
  BY <1>1
<1>5. QED
  BY <1>1, <1>3, <1>4

-----------------------------------------------------------------------------
(* What a step does to the set of dumping calls                            *)

DumpPcs == {"swap", "walk", "release"}
Bounded == \A t \in Threads : Len(stack[t]) <= MaxDepth
Pos(t) == <<t, Len(stack[t])>>
FrameAt(d) == stack[d[1]][d[2]]

\* A frame that is changed in place.
LEMMA SetTopDumping ==
  ASSUME TypeOK, Bounded, NEW t \in Threads, stack[t] # <<>>, NEW f \in Frames, SetTop(t, f)
  PROVE  /\ Bounded'
         /\ Dumping' = IF f.pc \in DumpPcs THEN Dumping \cup {Pos(t)} ELSE Dumping \ {Pos(t)}
         /\ Pos(t) \in Dumping <=> Top(t).pc \in DumpPcs
         /\ \A d \in Dumping' : FrameAt(d)' = IF d = Pos(t) THEN f ELSE FrameAt(d)
<1>1. /\ \A u \in Threads : Len(stack[u]) \in Nat /\ Len(stack'[u]) = Len(stack[u])
      /\ \A u \in Threads : \A i \in 1..Len(stack[u]) :
           stack'[u][i] = IF u = t /\ i = Len(stack[t]) THEN f ELSE stack[u][i]
  <2>1. \A u \in Threads : Len(stack[u]) \in Nat
    BY DEF TypeOK
  <2>2. QED
    BY <2>1, SetTopEffect, Zenon
<1>2. Len(stack[t]) \in 1..Len(stack[t])
  BY TopOf
<1>3. MaxDepth \in Nat
  BY DepthAssumption
<1>4. Bounded'
  BY <1>1 DEF Bounded
<1>5. \A d \in Threads \X (1..MaxDepth) :
        d \in Dumping' <=> IF d = Pos(t) THEN f.pc \in DumpPcs ELSE d \in Dumping
  BY <1>1, <1>2, <1>3 DEF Dumping, Pos, DumpPcs
<1>6. Pos(t) \in Threads \X (1..MaxDepth)
  BY <1>1, <1>2, <1>3 DEF Pos, Bounded
<1>7. Dumping' = IF f.pc \in DumpPcs THEN Dumping \cup {Pos(t)} ELSE Dumping \ {Pos(t)}
  <2>1. Dumping \subseteq Threads \X (1..MaxDepth) /\ Dumping' \subseteq Threads \X (1..MaxDepth)
    BY DEF Dumping
  <2>2. QED
    BY <1>5, <1>6, <2>1
<1>8. Pos(t) \in Dumping <=> Top(t).pc \in DumpPcs
  BY <1>1, <1>6 DEF Dumping, Pos, DumpPcs, Top
<1>9. \A d \in Dumping' : FrameAt(d)' = IF d = Pos(t) THEN f ELSE FrameAt(d)
  BY <1>1, <1>2, <1>3 DEF Dumping, FrameAt, Pos
<1>10. QED
  BY <1>4, <1>7, <1>8, <1>9

\* A call that returns.
LEMMA ReturnDumping ==
  ASSUME TypeOK, Bounded, NEW t \in Threads, stack[t] # <<>>, Return(t)
  PROVE  /\ Bounded'
         /\ Dumping' = Dumping \ {Pos(t)}
         /\ Pos(t) \in Dumping <=> Top(t).pc \in DumpPcs
         /\ \A d \in Dumping : d # Pos(t) => FrameAt(d)' = FrameAt(d)
<1>1. /\ Len(stack'[t]) = Len(stack[t]) - 1
      /\ \A u \in Threads : Len(stack[u]) \in Nat /\ (u # t => stack'[u] = stack[u])
      /\ \A i \in 1..(Len(stack[t]) - 1) : stack'[t][i] = stack[t][i]
  BY ReturnEffect, LenProperties DEF TypeOK
<1>2. Len(stack[t]) \in 1..Len(stack[t])
  BY TopOf
<1>3. MaxDepth \in Nat
  BY DepthAssumption
<1>4. Bounded'
  BY <1>1, <1>3 DEF Bounded
<1>5. \A d \in Threads \X (1..MaxDepth) : d \in Dumping' <=> d \in Dumping /\ d # Pos(t)
  BY <1>1, <1>2, <1>3 DEF Dumping, Pos
<1>6. Dumping' = Dumping \ {Pos(t)}
  <2>1. Dumping \subseteq Threads \X (1..MaxDepth) /\ Dumping' \subseteq Threads \X (1..MaxDepth)
    BY DEF Dumping
  <2>2. QED
    BY <1>5, <2>1
<1>7. Pos(t) \in Dumping <=> Top(t).pc \in DumpPcs
  BY <1>1, <1>2, <1>3 DEF Dumping, Pos, DumpPcs, Top, Bounded
<1>8. \A d \in Dumping : d # Pos(t) => FrameAt(d)' = FrameAt(d)
  BY <1>1, <1>2, <1>3 DEF Dumping, FrameAt, Pos
<1>9. QED
  BY <1>4, <1>6, <1>7, <1>8

\* A call that begins, from outside or inside a walk.
LEMMA EnterDumping ==
  ASSUME TypeOK, Bounded, NEW t \in Threads, Len(stack[t]) < MaxDepth,
         stack' = [stack EXCEPT ![t] = Append(@, Entered)]
  PROVE  /\ Bounded'
         /\ Dumping' = Dumping
         /\ \A d \in Dumping : FrameAt(d)' = FrameAt(d)
<1>1. /\ Len(stack'[t]) = Len(stack[t]) + 1
      /\ stack'[t][Len(stack[t]) + 1] = Entered
      /\ \A u \in Threads : Len(stack[u]) \in Nat /\ (u # t => stack'[u] = stack[u])
      /\ \A i \in 1..Len(stack[t]) : stack'[t][i] = stack[t][i]
  BY EnterEffect, LenProperties DEF TypeOK
<1>2. MaxDepth \in Nat
  BY DepthAssumption
<1>3. Bounded'
  BY <1>1, <1>2 DEF Bounded
<1>4. Entered.pc = "check"
  BY DEF Entered, Frame
<1>5. \A d \in Threads \X (1..MaxDepth) : d \in Dumping' <=> d \in Dumping
  BY <1>1, <1>2, <1>4 DEF Dumping
<1>6. Dumping' = Dumping
  <2>1. Dumping \subseteq Threads \X (1..MaxDepth) /\ Dumping' \subseteq Threads \X (1..MaxDepth)
    BY DEF Dumping
  <2>2. QED
    BY <1>5, <2>1
<1>7. \A d \in Dumping : FrameAt(d)' = FrameAt(d)
  BY <1>1, <1>2 DEF Dumping, FrameAt
<1>8. QED
  BY <1>3, <1>6, <1>7

-----------------------------------------------------------------------------
(* Type correctness                                                        *)

\* Every call but the innermost of its thread is inside GetPackageInfo.
Inner == \A t \in Threads : \A i \in 1..(Len(stack[t]) - 1) : stack[t][i].pc = "walk"

\* Each kind of change keeps the types of the stacks.
LEMMA SetTopTypes ==
  ASSUME TypeOK, NEW t \in Threads, stack[t] # <<>>, NEW f \in Frames, SetTop(t, f)
  PROVE  stack' \in [Threads -> Seq(Frames)] /\ Inner'
<1>1. /\ \A u \in Threads : Len(stack[u]) \in Nat
      /\ Inner
  BY LenProperties DEF TypeOK, Inner
<1>2. /\ stack' \in [Threads -> Seq(Frames)]
      /\ \A u \in Threads : Len(stack'[u]) = Len(stack[u])
      /\ \A u \in Threads : \A i \in 1..Len(stack[u]) :
           stack'[u][i] = IF u = t /\ i = Len(stack[t]) THEN f ELSE stack[u][i]
  BY SetTopEffect
<1>3. \A u \in Threads : \A i \in 1..(Len(stack[u]) - 1) : stack'[u][i] = stack[u][i]
  BY <1>1, <1>2
<1>4. QED
  BY <1>1, <1>2, <1>3 DEF Inner

\* The same for a call that returns to its caller, which goes on with pc.
LEMMA ReturnTypes ==
  ASSUME TypeOK, NEW t \in Threads, stack[t] # <<>>, Return(t)
  PROVE  stack' \in [Threads -> Seq(Frames)] /\ Inner'
<1>1. Len(stack[t]) \in Nat /\ Inner
  BY LenProperties DEF TypeOK, Inner
<1>2. /\ stack' \in [Threads -> Seq(Frames)]
      /\ Len(stack'[t]) = Len(stack[t]) - 1
      /\ \A u \in Threads \ {t} : stack'[u] = stack[u]
      /\ \A i \in 1..(Len(stack[t]) - 1) : stack'[t][i] = stack[t][i]
  BY ReturnEffect
<1>3. ASSUME NEW u \in Threads, NEW i \in 1..(Len(stack'[u]) - 1)
      PROVE  stack'[u][i].pc = "walk"
  <2>1. CASE u = t
    <3>1. i \in 1..(Len(stack[t]) - 1) /\ stack'[t][i] = stack[t][i]
      BY <1>1, <1>2, <1>3, <2>1
    <3>2. QED
      BY <1>1, <2>1, <3>1 DEF Inner
  <2>2. CASE u # t
    BY <1>1, <1>2, <1>3, <2>2 DEF Inner
  <2>3. QED
    BY <2>1, <2>2
<1>4. QED
  BY <1>2, <1>3 DEF Inner

\* The same for a call that begins with a fresh frame.
LEMMA EnterTypes ==
  ASSUME TypeOK, NEW t \in Threads, stack[t] = <<>> \/ At(t, "walk"),
         stack' = [stack EXCEPT ![t] = Append(@, Entered)]
  PROVE  stack' \in [Threads -> Seq(Frames)] /\ Inner'
<1>1. Len(stack[t]) \in Nat /\ (stack[t] = <<>> => Len(stack[t]) = 0)
  BY LenProperties, EmptySeq DEF TypeOK
<1>2. stack[t] # <<>> => stack[t][Len(stack[t])].pc = "walk"
  BY DEF At, Top
<1>3. Inner
  BY DEF TypeOK, Inner
<1>4. /\ stack' \in [Threads -> Seq(Frames)]
      /\ Len(stack'[t]) = Len(stack[t]) + 1
      /\ \A u \in Threads \ {t} : stack'[u] = stack[u]
      /\ \A i \in 1..Len(stack[t]) : stack'[t][i] = stack[t][i]
  BY EnterEffect
<1>5. \A i \in 1..(Len(stack'[t]) - 1) : stack'[t][i].pc = "walk"
  BY <1>1, <1>2, <1>3, <1>4 DEF Inner
<1>6. QED
  BY <1>3, <1>4, <1>5 DEF Inner

\* The frame a thread goes on with when only its program counter changes.
LEMMA GotoFrame ==
  ASSUME TypeOK, NEW t \in Threads, stack[t] # <<>>, NEW pc \in Pcs
  PROVE  [Top(t) EXCEPT !.pc = pc] \in Frames
BY TopOf DEF Frames

\* The initial states are well typed.
LEMMA InitTypeOK == Init => TypeOK
<1> SUFFICES ASSUME Init PROVE TypeOK
  OBVIOUS
<1>1. delivered = <<>> /\ <<>> \in Seq(SUBSET Packages) /\ Len(delivered) = 0
  BY EmptySeq DEF Init
<1>2. \A t \in Threads : stack[t] \in Seq(Frames) /\ Len(stack[t]) = 0
  BY EmptySeq DEF Init
<1>3. 0 \in Lists
  BY <1>1 DEF Lists
<1>4. stack \in [Threads -> Seq(Frames)]
  BY <1>2 DEF Init
<1>5. \A t \in Threads : \A i \in 1..(Len(stack[t]) - 1) : stack[t][i].pc = "walk"
  BY <1>2
<1>6. /\ delivered \in Seq(SUBSET Packages)
      /\ pendingLicenses \in Lists /\ source \in Lists
      /\ ownedDepots \subseteq Depots(Packages)
  BY <1>1, <1>3 DEF Init
<1>7. licensesPending \in BOOLEAN /\ captured \in BOOLEAN /\ dumpRunning \in BOOLEAN
      /\ ownedDepotsReady \in BOOLEAN
  BY DEF Init
<1>8. QED
  BY <1>4, <1>5, <1>6, <1>7 DEF TypeOK, Frames

\* Every step preserves the types.
LEMMA NextTypeOK == TypeOK /\ [Next]_vars => TypeOK'
<1> SUFFICES ASSUME TypeOK, [Next]_vars PROVE TypeOK'
  OBVIOUS
<1> USE DEF parked, published, vars
<1>1. /\ delivered \in Seq(SUBSET Packages) /\ Len(delivered) \in Nat
      /\ stack \in [Threads -> Seq(Frames)] /\ Inner
  BY LenProperties DEF TypeOK, Frames, Inner
<1>2. /\ pendingLicenses \in Lists /\ source \in Lists /\ 0 \in Lists
      /\ licensesPending \in BOOLEAN /\ captured \in BOOLEAN /\ dumpRunning \in BOOLEAN
      /\ ownedDepotsReady \in BOOLEAN /\ ownedDepots \subseteq Depots(Packages)
  BY <1>1 DEF TypeOK, Lists
<1>3. ASSUME delivered' = delivered, stack' \in [Threads -> Seq(Frames)], Inner',
             pendingLicenses' \in Lists, source' \in Lists,
             licensesPending' \in BOOLEAN, captured' \in BOOLEAN, dumpRunning' \in BOOLEAN,
             ownedDepotsReady' \in BOOLEAN, ownedDepots' \subseteq Depots(Packages)
      PROVE  TypeOK'
  BY <1>1, <1>3 DEF TypeOK, Frames, Inner, Lists
<1> HIDE DEF Frames
<1>5. CASE UNCHANGED vars
  BY <1>1, <1>2, <1>3, <1>5 DEF Inner
<1>6. CASE Capture
  BY <1>1, <1>2, <1>3, <1>6 DEF Capture, Inner
<1>7. ASSUME NEW t \in Threads, NEW packages \in SUBSET Packages, OnLicenseList(t, packages)
      PROVE  TypeOK'
  <2>1. delivered' \in Seq(SUBSET Packages) /\ Len(delivered') = Len(delivered) + 1
    BY <1>1, <1>7, AppendProperties DEF OnLicenseList
  <2>2. Lists \subseteq Lists' /\ pendingLicenses' \in Lists' /\ Frames \subseteq Frames'
    BY <1>1, <1>7, <2>1 DEF OnLicenseList, Lists, Frames
  <2>3. stack' \in [Threads -> Seq(Frames)] /\ Inner'
    <3>1. stack' = [stack EXCEPT ![t] = Append(@, Entered)]
      BY <1>7 DEF OnLicenseList
    <3>2. QED
      BY <1>7, <3>1, EnterTypes DEF OnLicenseList
  <2>4. \A q : q \in Seq(Frames) => q \in Seq(Frames')
    BY <2>2
  <2>5. stack' \in [Threads -> Seq(Frames')]
    BY <2>3, <2>4
  <2>6. QED
    BY <1>2, <1>7, <2>1, <2>2, <2>3, <2>5 DEF OnLicenseList, TypeOK, Frames, Inner
<1>8. ASSUME NEW t \in Threads, CheckAppOwnership(t)
      PROVE  TypeOK'
  BY <1>2, <1>3, <1>8, EnterTypes DEF CheckAppOwnership
<1>9. ASSUME NEW t \in Threads, Check(t)
      PROVE  TypeOK'
  <2>1. stack[t] # <<>> /\ [Top(t) EXCEPT !.pc = "claim"] \in Frames
    BY <1>9, GotoFrame DEF Check, At, Pcs
  <2>2. stack' \in [Threads -> Seq(Frames)] /\ Inner'
    BY <1>9, <2>1, SetTopTypes, ReturnTypes DEF Check, Goto
  <2>3. QED
    BY <1>2, <1>3, <1>9, <2>2 DEF Check
<1>10. ASSUME NEW t \in Threads, Claim(t)
       PROVE  TypeOK'
  <2>1. stack[t] # <<>> /\ [Top(t) EXCEPT !.pc = "swap"] \in Frames
    BY <1>10, GotoFrame DEF Claim, At, Pcs
  <2>2. stack' \in [Threads -> Seq(Frames)] /\ Inner'
    BY <1>10, <2>1, SetTopTypes, ReturnTypes DEF Claim, Goto
  <2>3. QED
    BY <1>2, <1>3, <1>10, <2>2 DEF Claim
<1>11. ASSUME NEW t \in Threads, Swap(t)
       PROVE  TypeOK'
  <2> DEFINE packages == PackagesOf(pendingLicenses)
             f == Frame(IF packages = {} THEN "release" ELSE "walk", pendingLicenses, packages, {})
  <2>1. packages \in SUBSET Packages
    BY <1>1, <1>2, ElementOfSeq DEF PackagesOf, Lists
  <2>2. f \in Frames
    BY <1>2, <2>1 DEF Frames, Frame, Pcs
  <2>3. stack' \in [Threads -> Seq(Frames)] /\ Inner'
    BY <1>11, <2>2, SetTopTypes DEF Swap, At
  <2>4. QED
    BY <1>2, <1>3, <1>11, <2>3 DEF Swap
<1>12. ASSUME NEW t \in Threads, NEW p \in Packages, NEW cached \in BOOLEAN, Resolve(t, p, cached)
       PROVE  TypeOK'
  <2> DEFINE f == [Top(t) EXCEPT !.toWalk = @ \ {p},
                                 !.owned = IF cached THEN @ \cup DepotsOf[p] ELSE @]
  <2>1. stack[t] # <<>> /\ Top(t) \in Frames
    BY <1>12, TopOf DEF Resolve, At
  <2>2. f \in Frames
    BY <2>1 DEF Frames, Depots
  <2>3. stack' \in [Threads -> Seq(Frames)] /\ Inner'
    BY <1>12, <2>1, <2>2, SetTopTypes DEF Resolve
  <2>4. QED
    BY <1>2, <1>3, <1>12, <2>3 DEF Resolve
<1>13. ASSUME NEW t \in Threads, Publish(t)
       PROVE  TypeOK'
  <2>1. /\ stack[t] # <<>> /\ Top(t) \in Frames
        /\ [Top(t) EXCEPT !.pc = "release"] \in Frames
    BY <1>13, GotoFrame, TopOf DEF Publish, At, Pcs
  <2>2. stack' \in [Threads -> Seq(Frames)] /\ Inner'
    BY <1>13, <2>1, SetTopTypes DEF Publish, Goto
  <2>3. Top(t).owned \subseteq Depots(Packages) /\ Top(t).list \in Lists
    BY <2>1 DEF Frames
  <2>4. QED
    BY <1>2, <1>3, <1>13, <2>2, <2>3 DEF Publish
<1>14. ASSUME NEW t \in Threads, Release(t)
       PROVE  TypeOK'
  <2>1. stack' \in [Threads -> Seq(Frames)] /\ Inner'
    BY <1>14, ReturnTypes DEF Release, At
  <2>2. QED
    BY <1>2, <1>3, <1>14, <2>1 DEF Release
<1>15. QED
  BY <1>5, <1>6, <1>7, <1>8, <1>9, <1>10, <1>11, <1>12, <1>13, <1>14
  DEF Next, ThreadStep, Walk

-----------------------------------------------------------------------------
(* The inductive invariant                                                 *)

\* FrameInv, by frames.
FrameOK(f) ==
  /\ f.pc = "walk" =>
       /\ source <= f.list
       /\ f.toWalk \subseteq PackagesOf(f.list)
       /\ f.owned \subseteq Depots(PackagesOf(f.list))
  /\ f.pc = "release" => f.list = source \/ PackagesOf(f.list) = {}

\* The frames of dumping calls are typed, and are the top frames.
LEMMA DumpingFrames ==
  ASSUME IInv
  PROVE  /\ \A d \in Dumping : FrameAt(d) \in Frames /\ FrameOK(FrameAt(d))
         /\ Bounded
         /\ \A t \in Threads : Pos(t) \in Dumping => FrameAt(Pos(t)) = Top(t)
         /\ \A t \in Threads : Pos(t) \in Dumping => Dumping = {Pos(t)}
<1>1. \A t \in Threads : \A i \in 1..Len(stack[t]) : stack[t][i] \in Frames
  BY ElementOfSeq DEF IInv, TypeOK, Frames
<1>2. \A t \in Threads : Len(stack[t]) \in Nat
  BY LenProperties DEF IInv, TypeOK
<1>3. \A d \in Dumping : d[1] \in Threads /\ d[2] \in 1..Len(stack[d[1]])
  BY <1>2, DepthAssumption DEF Dumping
<1>4. \A d \in Dumping : FrameAt(d) \in Frames
  BY <1>1, <1>3 DEF FrameAt
<1>5. \A d \in Dumping : FrameOK(FrameAt(d))
  BY DEF IInv, FrameInv, FrameOK, FrameAt
<1>6. QED
  BY <1>4, <1>5 DEF IInv, DumpInv, Bounded, FrameAt, Pos, Top

\* What the lists hold does not change when another arrives.
LEMMA ListsStay ==
  ASSUME TypeOK, NEW packages \in SUBSET Packages, delivered' = Append(delivered, packages)
  PROVE  /\ Len(delivered') = Len(delivered) + 1
         /\ \A l \in Lists : PackagesOf(l)' = PackagesOf(l)
<1>1. /\ Len(delivered) \in Nat
      /\ Len(delivered') = Len(delivered) + 1
      /\ \A i \in 1..Len(delivered) : delivered'[i] = delivered[i]
  BY LenProperties, AppendProperties DEF TypeOK
<1>2. QED
  BY <1>1 DEF PackagesOf, Lists

\* The steps that leave the dumping calls as they are.
Quiet ==
  \/ UNCHANGED vars
  \/ Capture
  \/ \E t \in Threads, packages \in SUBSET Packages : OnLicenseList(t, packages)
  \/ \E t \in Threads : CheckAppOwnership(t) \/ Check(t) \/ (dumpRunning /\ Claim(t))

\* A quiet step neither adds nor ends a dumping call, nor touches its frame.
LEMMA QuietDumping ==
  ASSUME IInv, Quiet
  PROVE  /\ Bounded' /\ Dumping' = Dumping
         /\ \A d \in Dumping : FrameAt(d)' = FrameAt(d)
         /\ dumpRunning' = dumpRunning
         /\ UNCHANGED published
<1> USE DEF parked, published, vars
<1>1. TypeOK /\ Bounded
  BY DumpingFrames DEF IInv
<1>2. ASSUME stack' = stack
      PROVE  Bounded' /\ Dumping' = Dumping /\ \A d \in Dumping : FrameAt(d)' = FrameAt(d)
  BY <1>1, <1>2 DEF Bounded, Dumping, FrameAt
<1>3. CASE UNCHANGED vars \/ Capture
  BY <1>2, <1>3 DEF Capture
<1>4. ASSUME NEW t \in Threads, NEW packages \in SUBSET Packages, OnLicenseList(t, packages)
      PROVE  Bounded' /\ Dumping' = Dumping /\ \A d \in Dumping : FrameAt(d)' = FrameAt(d)
  <2>1. stack' = [stack EXCEPT ![t] = Append(@, Entered)] /\ Len(stack[t]) = 0
    BY <1>4 DEF OnLicenseList
  <2>2. Len(stack[t]) < MaxDepth
    BY <2>1, DepthAssumption
  <2>3. QED
    BY <1>1, <2>1, <2>2, EnterDumping
<1>5. ASSUME NEW t \in Threads, CheckAppOwnership(t)
      PROVE  Bounded' /\ Dumping' = Dumping /\ \A d \in Dumping : FrameAt(d)' = FrameAt(d)
  BY <1>1, <1>5, EnterDumping DEF CheckAppOwnership
<1>6. ASSUME NEW t \in Threads, Check(t) \/ (dumpRunning /\ Claim(t))
      PROVE  Bounded' /\ Dumping' = Dumping /\ \A d \in Dumping : FrameAt(d)' = FrameAt(d)
  <2>1. stack[t] # <<>> /\ Top(t).pc \in {"check", "claim"}
    BY <1>6 DEF Check, Claim, At
  <2>2. Top(t).pc \notin DumpPcs
    BY <2>1 DEF DumpPcs
  <2>3. CASE Return(t)
    BY <1>1, <2>1, <2>2, <2>3, ReturnDumping
  <2>4. CASE Goto(t, "claim")
    <3> DEFINE f == [Top(t) EXCEPT !.pc = "claim"]
    <3>1. f \in Frames
      BY <1>1, <2>1, GotoFrame DEF Pcs
    <3>2. f.pc \notin DumpPcs
      BY <1>1, <2>1, TopOf DEF Frames, DumpPcs
    <3>3. SetTop(t, f)
      BY <2>4 DEF Goto
    <3> HIDE DEF f
    <3>4. QED
      BY <1>1, <2>1, <2>2, <3>1, <3>2, <3>3, SetTopDumping
  <2>5. QED
    BY <1>6, <2>3, <2>4 DEF Check, Claim
<1>7. dumpRunning' = dumpRunning /\ UNCHANGED published
  <2>1. dumpRunning \in BOOLEAN
    BY <1>1 DEF TypeOK
  <2>2. QED
    BY <2>1 DEF Quiet, Capture, OnLicenseList, CheckAppOwnership, Check, Claim
<1>8. QED
  BY <1>3, <1>4, <1>5, <1>6, <1>7 DEF Quiet

\* The initial states satisfy the invariant.
LEMMA InitIInv == Init => IInv
<1> SUFFICES ASSUME Init PROVE IInv
  OBVIOUS
<1>1. TypeOK
  BY InitTypeOK
<1>2. \A t \in Threads : Len(stack[t]) = 0
  BY EmptySeq DEF Init
<1>3. Dumping = {}
  BY <1>2, DepthAssumption DEF Dumping
<1>4. Len(delivered) = 0
  BY EmptySeq DEF Init
<1>5. DumpInv
  BY <1>2, <1>3, DepthAssumption DEF DumpInv, Init
<1>6. ParkInv /\ FreshInv /\ FrameInv /\ NewestListIsKept /\ OneListAnswers
  BY <1>2, <1>3, <1>4 DEF ParkInv, FreshInv, FrameInv, NewestListIsKept, OneListAnswers, Init
<1>7. QED
  BY <1>1, <1>5, <1>6 DEF IInv

\* A call has no list before its swap.
LEMMA NextFreshInv == TypeOK /\ FreshInv /\ [Next]_vars => FreshInv'
<1> SUFFICES ASSUME TypeOK, FreshInv, [Next]_vars PROVE FreshInv'
  OBVIOUS
<1> USE DEF parked, published, vars
<1>1. \A t \in Threads : Len(stack[t]) \in Nat
  BY LenProperties DEF TypeOK
<1>2. Entered.list = 0
  BY DEF Entered, Frame
<1>3. ASSUME stack' = stack
      PROVE  FreshInv'
  BY <1>3 DEF FreshInv
<1>4. ASSUME NEW t \in Threads, stack' = [stack EXCEPT ![t] = Append(@, Entered)]
      PROVE  FreshInv'
  BY <1>1, <1>2, <1>4, EnterEffect DEF FreshInv
<1>5. ASSUME NEW t \in Threads, stack[t] # <<>>, Return(t)
      PROVE  FreshInv'
  BY <1>1, <1>5, ReturnEffect DEF FreshInv
<1>6. ASSUME NEW t \in Threads, stack[t] # <<>>, NEW f \in Frames, SetTop(t, f),
             f.pc \in {"check", "claim", "swap"} => f.list = 0
      PROVE  FreshInv'
  <2>1. /\ \A u \in Threads : Len(stack'[u]) = Len(stack[u])
        /\ \A u \in Threads : \A i \in 1..Len(stack[u]) :
             stack'[u][i] = IF u = t /\ i = Len(stack[t]) THEN f ELSE stack[u][i]
    BY <1>6, SetTopEffect
  <2>2. QED
    BY <1>6, <2>1 DEF FreshInv
<1>7. CASE UNCHANGED vars \/ Capture
  BY <1>3, <1>7 DEF Capture
<1>8. ASSUME NEW t \in Threads, NEW packages \in SUBSET Packages, OnLicenseList(t, packages)
      PROVE  FreshInv'
  <2>1. stack' = [stack EXCEPT ![t] = Append(@, Entered)]
    BY <1>8 DEF OnLicenseList
  <2>2. QED
    BY <1>4, <2>1
<1>9. ASSUME NEW t \in Threads, CheckAppOwnership(t)
      PROVE  FreshInv'
  BY <1>4, <1>9 DEF CheckAppOwnership
<1>10. ASSUME NEW t \in Threads, Check(t) \/ Claim(t)
       PROVE  FreshInv'
  <2>1. stack[t] # <<>> /\ Top(t).list = 0 /\ Top(t) \in Frames
    BY <1>10, TopOf DEF Check, Claim, At, Top, FreshInv
  <2>2. ASSUME NEW pc \in {"claim", "swap"}, Goto(t, pc)
        PROVE  FreshInv'
    <3> DEFINE f == [Top(t) EXCEPT !.pc = pc]
    <3>1. f \in Frames
      BY <2>1, GotoFrame DEF Pcs
    <3>2. f.list = 0
      BY <2>1 DEF Frames
    <3>3. SetTop(t, f)
      BY <2>2 DEF Goto
    <3> HIDE DEF f
    <3>4. QED
      BY <1>6, <2>1, <3>1, <3>2, <3>3
  <2>3. QED
    BY <1>5, <1>10, <2>1, <2>2 DEF Check, Claim
<1>11. ASSUME NEW t \in Threads, Swap(t)
       PROVE  FreshInv'
  <2> DEFINE packages == PackagesOf(pendingLicenses)
             f == Frame(IF packages = {} THEN "release" ELSE "walk", pendingLicenses, packages, {})
  <2>1. delivered \in Seq(SUBSET Packages) /\ pendingLicenses \in Lists
    BY DEF TypeOK
  <2>2. packages \in SUBSET Packages
    BY <2>1, LenProperties, ElementOfSeq DEF PackagesOf, Lists
  <2>3. f \in Frames /\ f.pc \in {"release", "walk"}
    BY <2>1, <2>2 DEF Frames, Frame, Pcs
  <2>4. stack[t] # <<>> /\ SetTop(t, f)
    BY <1>11 DEF Swap, At
  <2> HIDE DEF f
  <2>5. QED
    BY <1>6, <2>3, <2>4
<1>12. ASSUME NEW t \in Threads, NEW p \in Packages, NEW cached \in BOOLEAN, Resolve(t, p, cached)
       PROVE  FreshInv'
  <2> DEFINE f == [Top(t) EXCEPT !.toWalk = @ \ {p},
                                 !.owned = IF cached THEN @ \cup DepotsOf[p] ELSE @]
  <2>1. stack[t] # <<>> /\ Top(t) \in Frames /\ Top(t).pc = "walk"
    BY <1>12, TopOf DEF Resolve, At
  <2>2. f \in Frames /\ f.pc = "walk"
    BY <2>1 DEF Frames, Depots
  <2>3. SetTop(t, f)
    BY <1>12 DEF Resolve
  <2> HIDE DEF f
  <2>4. QED
    BY <1>6, <2>1, <2>2, <2>3
<1>13. ASSUME NEW t \in Threads, Publish(t)
       PROVE  FreshInv'
  <2> DEFINE f == [Top(t) EXCEPT !.pc = "release"]
  <2>1. stack[t] # <<>> /\ Top(t) \in Frames
    BY <1>13, TopOf DEF Publish, At
  <2>2. f \in Frames /\ f.pc = "release"
    BY <2>1 DEF Frames, Pcs
  <2>3. SetTop(t, f)
    BY <1>13 DEF Publish, Goto
  <2> HIDE DEF f
  <2>4. QED
    BY <1>6, <2>1, <2>2, <2>3
<1>14. ASSUME NEW t \in Threads, Release(t)
       PROVE  FreshInv'
  BY <1>5, <1>14 DEF Release, At
<1>15. QED
  BY <1>7, <1>8, <1>9, <1>10, <1>11, <1>12, <1>13, <1>14 DEF Next, ThreadStep, Walk

\* What is left of IInv for a step, types and FreshInv apart.
Rest == DumpInv /\ ParkInv /\ FrameInv /\ NewestListIsKept /\ OneListAnswers

\* The same, with the frames of dumping calls by their positions, before a step and
\* after it.
LEMMA RestAt ==
  /\ Rest <=>
       /\ Bounded /\ (\A d, e \in Dumping : d = e) /\ (dumpRunning <=> Dumping # {})
       /\ ParkInv
       /\ \A d \in Dumping : FrameOK(FrameAt(d))
       /\ NewestListIsKept /\ OneListAnswers
  /\ NewestListIsKept <=>
       (Len(delivered) > 0 =>
          \/ pendingLicenses = Len(delivered) /\ licensesPending
          \/ \E d \in Dumping : FrameAt(d).list = Len(delivered)
          \/ source = Len(delivered)
          \/ PackagesOf(Len(delivered)) = {})
BY DEF Rest, DumpInv, Bounded, FrameInv, FrameOK, FrameAt, NewestListIsKept

\* What has to be shown of the state after a step.
LEMMA RestNext ==
  ASSUME Bounded', \A d, e \in Dumping' : d = e, dumpRunning' <=> Dumping' # {},
         ParkInv', \A d \in Dumping' : FrameOK(FrameAt(d))', NewestListIsKept', OneListAnswers'
  PROVE  Rest'
BY DEF Rest, DumpInv, Bounded, FrameInv, FrameOK, FrameAt

\* The newest list is kept by a step that delivers none.
LEMMA KeptNext ==
  ASSUME UNCHANGED delivered, \A l : PackagesOf(l)' = PackagesOf(l),
         Len(delivered) > 0 =>
           \/ pendingLicenses' = Len(delivered) /\ licensesPending'
           \/ \E d \in Dumping' : FrameAt(d)'.list = Len(delivered)
           \/ source' = Len(delivered)
           \/ PackagesOf(Len(delivered)) = {}
  PROVE  NewestListIsKept'
<1>1. Len(delivered') = Len(delivered) /\ PackagesOf(Len(delivered))' = PackagesOf(Len(delivered))
  OBVIOUS
<1>2. QED
  BY <1>1 DEF NewestListIsKept, FrameAt

\* A newer list only replaces the parked one; the other quiet steps change nothing
\* that the invariant is about.
LEMMA QuietKeepsRest == IInv /\ Quiet => Rest'
<1> SUFFICES ASSUME IInv, Quiet PROVE Rest'
  OBVIOUS
<1> USE DEF parked, published, vars
<1>1. /\ Bounded' /\ Dumping' = Dumping
      /\ \A d \in Dumping : FrameAt(d)' = FrameAt(d)
      /\ dumpRunning' = dumpRunning
      /\ ownedDepots' = ownedDepots /\ ownedDepotsReady' = ownedDepotsReady /\ source' = source
  BY QuietDumping
<1>2. /\ Rest /\ TypeOK
      /\ \A d \in Dumping : FrameOK(FrameAt(d)) /\ FrameAt(d) \in Frames
  BY DumpingFrames DEF IInv, Rest
<1>3. \A d, e \in Dumping' : d = e
  BY <1>1, <1>2, RestAt
<1>4. dumpRunning' <=> Dumping' # {}
  BY <1>1, <1>2, RestAt
<1>5. source \in Lists /\ \A d \in Dumping : FrameAt(d).list \in Lists
  BY <1>2 DEF TypeOK, Frames
<1>6. CASE UNCHANGED parked
  <2>1. \A l : PackagesOf(l)' = PackagesOf(l)
    BY <1>6 DEF PackagesOf
  <2>2. \A d \in Dumping' : FrameOK(FrameAt(d))'
    BY <1>1, <1>2, <2>1 DEF FrameOK
  <2>3. ParkInv' /\ OneListAnswers'
    BY <1>1, <1>2, <1>6, <2>1 DEF Rest, ParkInv, OneListAnswers
  <2>4. NewestListIsKept'
    <3>1. NewestListIsKept
      BY <1>2 DEF Rest
    <3>2. Len(delivered') = Len(delivered) /\ PackagesOf(Len(delivered))' = PackagesOf(Len(delivered))
      BY <1>6, <2>1
    <3>3. QED
      BY <1>1, <1>6, <3>1, <3>2 DEF NewestListIsKept, FrameAt
  <2>5. QED
    BY <1>1, <1>3, <1>4, <2>2, <2>3, <2>4, RestNext
<1>7. ASSUME NEW t \in Threads, NEW packages \in SUBSET Packages, OnLicenseList(t, packages)
      PROVE  Rest'
  <2>1. /\ Len(delivered') = Len(delivered) + 1
        /\ \A l \in Lists : PackagesOf(l)' = PackagesOf(l)
    BY <1>2, <1>7, ListsStay DEF OnLicenseList
  <2>2. \A d \in Dumping' : FrameOK(FrameAt(d))'
    BY <1>1, <1>2, <1>5, <2>1 DEF FrameOK
  <2>3. OneListAnswers'
    BY <1>1, <1>2, <1>5, <2>1 DEF Rest, OneListAnswers
  <2>4. ParkInv' /\ NewestListIsKept'
    BY <1>7, <2>1 DEF OnLicenseList, ParkInv, NewestListIsKept
  <2>5. QED
    BY <1>1, <1>3, <1>4, <2>2, <2>3, <2>4, RestNext
<1>8. QED
  BY <1>6, <1>7 DEF Quiet, Capture, CheckAppOwnership, Check, Claim

\* The claim starts the only dump.
LEMMA ClaimKeepsRest ==
  ASSUME IInv, NEW t \in Threads, Claim(t), ~dumpRunning
  PROVE  Rest'
<1> DEFINE f == [Top(t) EXCEPT !.pc = "swap"]
<1>1. TypeOK /\ Rest /\ Bounded /\ Dumping = {}
  BY DumpingFrames, RestAt DEF IInv, Rest
<1>2. stack[t] # <<>> /\ Top(t) \in Frames /\ SetTop(t, f)
  BY <1>1, TopOf DEF Claim, At, Goto
<1>3. f \in Frames /\ f.pc = "swap"
  BY <1>2 DEF Frames, Pcs
<1> HIDE DEF f
<1>4. Bounded' /\ Dumping' = {Pos(t)} /\ \A d \in Dumping' : FrameAt(d)' = f
  BY <1>1, <1>2, <1>3, SetTopDumping DEF DumpPcs
<1>5. dumpRunning' /\ UNCHANGED <<delivered, pendingLicenses, licensesPending, ownedDepots, ownedDepotsReady, source>>
  BY DEF Claim, parked, published
<1>6. \A d \in Dumping' : FrameOK(FrameAt(d))'
  BY <1>3, <1>4 DEF FrameOK
<1>7. ParkInv' /\ OneListAnswers'
  BY <1>1, <1>5 DEF Rest, ParkInv, OneListAnswers, PackagesOf
<1>8. NewestListIsKept'
  <2>1. \A l : PackagesOf(l)' = PackagesOf(l)
    BY <1>5 DEF PackagesOf
  <2>2. QED
    BY <1>1, <1>5, <2>1, RestAt, KeptNext
<1>9. QED
  BY <1>4, <1>5, <1>6, <1>7, <1>8, RestNext

\* A step of the dump itself that leaves it dumping, with the frame f.
LEMMA DumpGoesOn ==
  ASSUME IInv, NEW t \in Threads, stack[t] # <<>>, Top(t).pc \in DumpPcs,
         NEW f \in Frames, f.pc \in DumpPcs, SetTop(t, f), UNCHANGED dumpRunning
  PROVE  /\ Dumping = {Pos(t)} /\ FrameAt(Pos(t)) = Top(t) /\ FrameOK(Top(t))
         /\ Dumping' = {Pos(t)} /\ \A d \in Dumping' : FrameAt(d)' = f
         /\ Bounded' /\ dumpRunning'
<1>1. TypeOK /\ Rest /\ Bounded
  BY DumpingFrames DEF IInv, Rest
<1>2. /\ Bounded' /\ Dumping' = Dumping \cup {Pos(t)} /\ Pos(t) \in Dumping
      /\ \A d \in Dumping' : d = Pos(t) => FrameAt(d)' = f
  BY <1>1, SetTopDumping
<1>3. QED
  BY <1>1, <1>2, DumpingFrames, RestAt

\* The swap takes the newest list into the frame, or nothing.
LEMMA SwapKeepsRest ==
  ASSUME IInv, NEW t \in Threads, Swap(t)
  PROVE  Rest'
<1> DEFINE packages == PackagesOf(pendingLicenses)
           f == Frame(IF packages = {} THEN "release" ELSE "walk", pendingLicenses, packages, {})
<1>1. /\ TypeOK /\ Rest /\ FreshInv
      /\ delivered \in Seq(SUBSET Packages) /\ Len(delivered) \in Nat
      /\ pendingLicenses \in Lists /\ source \in Lists
  BY LenProperties DEF IInv, Rest, TypeOK
<1>2. packages \in SUBSET Packages /\ (pendingLicenses = 0 => packages = {})
  BY <1>1, ElementOfSeq DEF PackagesOf, Lists
<1>3. /\ f \in Frames /\ f.list = pendingLicenses /\ f.toWalk = packages /\ f.owned = {}
      /\ f.pc = IF packages = {} THEN "release" ELSE "walk"
  BY <1>1, <1>2 DEF Frames, Frame, Pcs
<1>4. stack[t] # <<>> /\ Top(t).pc = "swap" /\ SetTop(t, f)
  BY DEF Swap, At
<1>5. /\ pendingLicenses' = 0
      /\ UNCHANGED <<delivered, dumpRunning, ownedDepots, ownedDepotsReady, source>>
  BY DEF Swap, published
<1> HIDE DEF f
<1>6. /\ Dumping = {Pos(t)} /\ FrameAt(Pos(t)) = Top(t)
      /\ Dumping' = {Pos(t)} /\ (\A d \in Dumping' : FrameAt(d)' = f) /\ Bounded' /\ dumpRunning'
  BY <1>3, <1>4, <1>5, DumpGoesOn DEF DumpPcs
<1>7. Top(t).list = 0
  BY <1>1, <1>4, TopOf DEF FreshInv, Top
<1>8. \A l : PackagesOf(l)' = PackagesOf(l)
  BY <1>5 DEF PackagesOf
<1>9. \A d \in Dumping' : FrameOK(FrameAt(d))'
  <2>1. packages # {} => source <= pendingLicenses
    BY <1>1, <1>2 DEF Rest, ParkInv, Lists
  <2>2. QED
    BY <1>3, <1>5, <1>6, <1>8, <2>1 DEF FrameOK
<1>10. NewestListIsKept'
  BY <1>1, <1>3, <1>5, <1>6, <1>7, <1>8, RestAt, KeptNext
<1>11. ParkInv' /\ OneListAnswers'
  BY <1>1, <1>5, <1>8 DEF Rest, ParkInv, OneListAnswers
<1>12. QED
  BY <1>6, <1>9, <1>10, <1>11, RestNext

\* A package adds its depots to what its list grants.
LEMMA ResolveKeepsRest ==
  ASSUME IInv, NEW t \in Threads, NEW p \in Packages, NEW cached \in BOOLEAN,
         Resolve(t, p, cached)
  PROVE  Rest'
<1> DEFINE f == [Top(t) EXCEPT !.toWalk = @ \ {p},
                               !.owned = IF cached THEN @ \cup DepotsOf[p] ELSE @]
<1>1. TypeOK /\ Rest
  BY DEF IInv, Rest
<1>2. /\ stack[t] # <<>> /\ Top(t) \in Frames /\ Top(t).pc = "walk"
      /\ p \in Top(t).toWalk /\ SetTop(t, f)
  BY <1>1, TopOf DEF Resolve, At
<1>3. /\ f \in Frames /\ f.pc = "walk" /\ f.list = Top(t).list
      /\ f.toWalk \subseteq Top(t).toWalk /\ f.owned \subseteq Top(t).owned \cup DepotsOf[p]
  BY <1>2 DEF Frames, Depots
<1>4. UNCHANGED <<delivered, pendingLicenses, licensesPending, dumpRunning, ownedDepots, ownedDepotsReady, source>>
  BY DEF Resolve, parked, published
<1> HIDE DEF f
<1>5. /\ Dumping = {Pos(t)} /\ FrameAt(Pos(t)) = Top(t) /\ FrameOK(Top(t))
      /\ Dumping' = {Pos(t)} /\ (\A d \in Dumping' : FrameAt(d)' = f) /\ Bounded' /\ dumpRunning'
  BY <1>2, <1>3, <1>4, DumpGoesOn DEF DumpPcs
<1>6. \A l : PackagesOf(l)' = PackagesOf(l)
  BY <1>4 DEF PackagesOf
<1>7. \A d \in Dumping' : FrameOK(FrameAt(d))'
  <2>1. DepotsOf[p] \subseteq Depots(PackagesOf(Top(t).list))
    BY <1>2, <1>5 DEF FrameOK, Depots
  <2>2. QED
    BY <1>2, <1>3, <1>4, <1>5, <1>6, <2>1 DEF FrameOK
<1>8. NewestListIsKept'
  BY <1>1, <1>3, <1>4, <1>5, <1>6, RestAt, KeptNext
<1>9. ParkInv' /\ OneListAnswers'
  BY <1>1, <1>4, <1>6 DEF Rest, ParkInv, OneListAnswers
<1>10. QED
  BY <1>5, <1>7, <1>8, <1>9, RestNext

\* What is published is the list of the only walk, which is no older than before.
LEMMA PublishKeepsRest ==
  ASSUME IInv, NEW t \in Threads, Publish(t)
  PROVE  Rest' /\ source' >= source
<1> DEFINE f == [Top(t) EXCEPT !.pc = "release"]
<1>1. /\ TypeOK /\ Rest /\ Len(delivered) \in Nat /\ source \in Lists
  BY LenProperties DEF IInv, Rest, TypeOK
<1>2. /\ stack[t] # <<>> /\ Top(t) \in Frames /\ Top(t).pc = "walk" /\ SetTop(t, f)
  BY <1>1, TopOf DEF Publish, At, Goto
<1>3. f \in Frames /\ f.pc = "release" /\ f.list = Top(t).list /\ Top(t).list \in Lists
  BY <1>2 DEF Frames, Pcs
<1>4. /\ ownedDepots' = Top(t).owned /\ source' = Top(t).list
      /\ UNCHANGED <<delivered, pendingLicenses, licensesPending, dumpRunning>>
  BY DEF Publish, parked
<1> HIDE DEF f
<1>5. /\ Dumping = {Pos(t)} /\ FrameAt(Pos(t)) = Top(t) /\ FrameOK(Top(t))
      /\ Dumping' = {Pos(t)} /\ (\A d \in Dumping' : FrameAt(d)' = f) /\ Bounded' /\ dumpRunning'
  BY <1>2, <1>3, <1>4, DumpGoesOn DEF DumpPcs
<1>6. \A l : PackagesOf(l)' = PackagesOf(l)
  BY <1>4 DEF PackagesOf
<1>7. source <= Top(t).list /\ Top(t).owned \subseteq Depots(PackagesOf(Top(t).list))
  BY <1>2, <1>5 DEF FrameOK
<1>8. \A d \in Dumping' : FrameOK(FrameAt(d))'
  BY <1>3, <1>4, <1>5 DEF FrameOK
<1>9. NewestListIsKept'
  <2>1. source = Len(delivered) => source' = Len(delivered)
    BY <1>1, <1>3, <1>4, <1>7 DEF Lists
  <2>2. QED
    BY <1>1, <1>3, <1>4, <1>5, <1>6, <2>1, RestAt, KeptNext
<1>10. ParkInv' /\ OneListAnswers'
  BY <1>1, <1>4, <1>6, <1>7 DEF Rest, ParkInv, OneListAnswers
<1>11. QED
  <2>1. source' >= source
    BY <1>1, <1>3, <1>4, <1>7 DEF Lists
  <2>2. QED
    BY <1>5, <1>8, <1>9, <1>10, <2>1, RestNext

\* The dump ends when its list is published or had nothing to publish.
LEMMA ReleaseKeepsRest ==
  ASSUME IInv, NEW t \in Threads, Release(t)
  PROVE  Rest'
<1>1. TypeOK /\ Rest /\ Bounded
  BY DumpingFrames DEF IInv, Rest
<1>2. stack[t] # <<>> /\ Top(t).pc = "release" /\ Return(t)
  BY DEF Release, At
<1>3. Bounded' /\ Dumping' = Dumping \ {Pos(t)} /\ Pos(t) \in Dumping
  BY <1>1, <1>2, ReturnDumping DEF DumpPcs
<1>4. /\ Dumping = {Pos(t)} /\ FrameAt(Pos(t)) = Top(t) /\ FrameOK(Top(t))
  BY <1>3, DumpingFrames
<1>5. Dumping' = {}
  BY <1>3, <1>4
<1>6. /\ ~dumpRunning'
      /\ UNCHANGED <<delivered, pendingLicenses, licensesPending, ownedDepots, ownedDepotsReady, source>>
  BY DEF Release, parked, published
<1>7. NewestListIsKept'
  <2>1. \A l : PackagesOf(l)' = PackagesOf(l)
    BY <1>6 DEF PackagesOf
  <2>2. QED
    BY <1>1, <1>2, <1>4, <1>6, <2>1, RestAt, KeptNext DEF FrameOK
<1>8. ParkInv' /\ OneListAnswers'
  BY <1>1, <1>6 DEF Rest, ParkInv, OneListAnswers, PackagesOf
<1>9. QED
  BY <1>3, <1>5, <1>6, <1>7, <1>8, RestNext

-----------------------------------------------------------------------------
(* The theorems                                                            *)

\* Every step preserves the invariant.
LEMMA NextIInv == IInv /\ [Next]_vars => IInv'
<1> SUFFICES ASSUME IInv, [Next]_vars PROVE IInv'
  OBVIOUS
<1>1. TypeOK' /\ FreshInv'
  BY NextTypeOK, NextFreshInv DEF IInv
<1>2. Rest'
  <2>1. ASSUME NEW t \in Threads, Claim(t) PROVE Rest'
    BY <2>1, QuietKeepsRest, ClaimKeepsRest DEF Quiet
  <2>2. ASSUME NEW t \in Threads, CheckAppOwnership(t) \/ Check(t) PROVE Rest'
    BY <2>2, QuietKeepsRest DEF Quiet
  <2>3. ASSUME NEW t \in Threads, Walk(t) PROVE Rest'
    BY <2>3, ResolveKeepsRest, PublishKeepsRest DEF Walk
  <2>4. CASE \/ UNCHANGED vars
             \/ Capture
             \/ \E t \in Threads, packages \in SUBSET Packages : OnLicenseList(t, packages)
    BY <2>4, QuietKeepsRest DEF Quiet
  <2>5. QED
    BY <2>1, <2>2, <2>3, <2>4, SwapKeepsRest, ReleaseKeepsRest DEF Next, ThreadStep
<1>3. QED
  BY <1>1, <1>2 DEF IInv, Rest

\* The inductive invariant holds in every reachable state of TryDumpOwnedDepots.
THEOREM Invariance == Spec => []IInv
<1>1. QED
  BY InitIInv, NextIInv, PTL DEF Spec

\* The types of the parked list, the calls and the published depots are right.
THEOREM TypeCorrect == Spec => []TypeOK
<1>1. IInv => TypeOK
  BY DEF IInv
<1>2. QED
  BY <1>1, Invariance, PTL

\* g_dumpRunning admits one walk at a time, nested calls included.
THEOREM OneDumpAtATime == Spec => []OneDump
<1>1. IInv => OneDump
  <2> SUFFICES ASSUME IInv PROVE OneDump
    OBVIOUS
  <2>1. (\A d, e \in Dumping : d = e) /\ (dumpRunning <=> Dumping # {})
    BY DEF IInv, DumpInv
  <2>2. CASE Dumping = {}
    BY <2>1, <2>2, FS_EmptySet DEF OneDump
  <2>3. ASSUME NEW d \in Dumping PROVE OneDump
    <3>1. Dumping = {d}
      BY <2>1
    <3>2. Cardinality(Dumping) = 1
      BY <3>1, FS_Singleton
    <3>3. QED
      BY <2>1, <3>1, <3>2 DEF OneDump
  <2>4. QED
    BY <2>2, <2>3
<1>2. QED
  BY <1>1, Invariance, PTL

\* No license list is lost between the network thread and the walks.
THEOREM NewestListKept == Spec => []NewestListIsKept
<1>1. IInv => NewestListIsKept
  BY DEF IInv
<1>2. QED
  BY <1>1, Invariance, PTL

\* The published depots are those of packages of one list.
THEOREM AnswersFromOneList == Spec => []OneListAnswers
<1>1. IInv => OneListAnswers
  BY DEF IInv
<1>2. QED
  BY <1>1, Invariance, PTL

\* The result of a list never overwrites the result of a newer one.
THEOREM NewestWins == Spec => NewestListWins
<1>1. IInv /\ [Next]_vars => [source' >= source]_vars
  <2> SUFFICES ASSUME IInv, Next PROVE source' >= source
    OBVIOUS
  <2>1. source \in Nat
    BY LenProperties DEF IInv, TypeOK, Lists
  <2>2. ASSUME NEW t \in Threads, Publish(t) PROVE source' >= source
    BY <2>2, PublishKeepsRest
  <2>3. CASE UNCHANGED source
    BY <2>1, <2>3
  <2>4. QED
    BY <2>2, <2>3 DEF Next, ThreadStep, Walk, Capture, OnLicenseList, CheckAppOwnership, Check,
                      Claim, Swap, Resolve, Release, published
<1>2. QED
  BY <1>1, Invariance, PTL DEF Spec, NewestListWins

\* For any threads, lists, packages and nested calls of TryDumpOwnedDepots: one walk at a
\* time, no newest list lost, and no answer that mixes lists.
THEOREM DumpsStayRight == Spec => []DumpsAreRight
<1>1. TypeOK /\ OneDump /\ NewestListIsKept /\ OneListAnswers => DumpsAreRight
  BY DEF DumpsAreRight
<1>2. QED
  BY <1>1, TypeCorrect, OneDumpAtATime, NewestListKept, AnswersFromOneList, PTL
=============================================================================
