---------------------------- MODULE OwnedDepots ----------------------------
(***************************************************************************)
(* From the account's license list to the set of owned depots              *)
(* (Hooks_Package.cpp, Hooks_NetPacket_Licenses).  The network thread parks *)
(* a list; any thread on which CheckAppOwnership runs may take it and walk *)
(* it, asking Steam for every package.  Steam may call CheckAppOwnership   *)
(* again from inside that question, and a reconnect may bring a newer list *)
(* at any time.                                                            *)
(***************************************************************************)
EXTENDS Naturals, Sequences, FiniteSets

CONSTANTS
  Threads,      \* threads on which Steam calls in
  Packages,     \* licensed packages
  DepotsOf,     \* the depots of a package
  MaxDepth,     \* bound on CheckAppOwnership inside GetPackageInfo, for model checking
  MaxLists      \* bound on license lists, for model checking

ASSUME DepthAssumption == MaxDepth \in Nat \ {0} /\ MaxLists \in Nat

VARIABLES
  delivered,          \* every license list, in the order of arrival
  pendingLicenses,    \* g_pendingLicenses, as the number of a list; 0 after the swap
  licensesPending,    \* g_licensesPending
  captured,           \* CAPTURE_READY(GetPackageInfo)
  dumpRunning,        \* g_dumpRunning
  stack,              \* per thread, its calls of TryDumpOwnedDepots, the innermost last
  ownedDepots,        \* g_ownedDepots
  ownedDepotsReady,   \* g_ownedDepotsReady
  source              \* history: the list g_ownedDepots came from

parked == <<delivered, pendingLicenses, licensesPending>>
published == <<ownedDepots, ownedDepotsReady, source>>
vars == <<parked, captured, dumpRunning, stack, published>>

PackagesOf(list) == IF list = 0 THEN {} ELSE delivered[list]

Frame(pc, list, toWalk, owned) == [pc |-> pc, list |-> list, toWalk |-> toWalk, owned |-> owned]
Entered == Frame("check", 0, {}, {})

Top(t) == stack[t][Len(stack[t])]
At(t, pc) == stack[t] # <<>> /\ Top(t).pc = pc
SetTop(t, frame) == stack' = [stack EXCEPT ![t][Len(stack[t])] = frame]
Return(t) == stack' = [stack EXCEPT ![t] = SubSeq(@, 1, Len(@) - 1)]
Goto(t, pc) == SetTop(t, [Top(t) EXCEPT !.pc = pc])

Init ==
  /\ delivered = <<>>
  /\ pendingLicenses = 0
  /\ licensesPending = FALSE
  /\ captured = FALSE
  /\ dumpRunning = FALSE
  /\ stack = [t \in Threads |-> <<>>]
  /\ ownedDepots = {}
  /\ ownedDepotsReady = FALSE
  /\ source = 0

-----------------------------------------------------------------------------
\* Steam's own first call of GetPackageInfo.
Capture ==
  /\ ~captured
  /\ captured' = TRUE
  /\ UNCHANGED <<parked, dumpRunning, stack, published>>

\* CMsgClientLicenseList: the list replaces what is parked, and the same thread
\* then tries to walk it.
OnLicenseList(t, packages) ==
  /\ stack[t] = <<>>
  /\ Len(delivered) < MaxLists
  /\ delivered' = Append(delivered, packages)
  /\ pendingLicenses' = Len(delivered) + 1
  /\ licensesPending' = TRUE
  /\ stack' = [stack EXCEPT ![t] = <<Entered>>]
  /\ UNCHANGED <<captured, dumpRunning, published>>

\* CheckAppOwnership, on a thread of its own accord or from inside GetPackageInfo.
CheckAppOwnership(t) ==
  /\ stack[t] = <<>> \/ (At(t, "walk") /\ Top(t).toWalk # {})
  /\ Len(stack[t]) < MaxDepth
  /\ stack' = [stack EXCEPT ![t] = Append(@, Entered)]
  /\ UNCHANGED <<parked, captured, dumpRunning, published>>

Check(t) ==
  /\ At(t, "check")
  /\ IF licensesPending /\ captured THEN Goto(t, "claim") ELSE Return(t)
  /\ UNCHANGED <<parked, captured, dumpRunning, published>>

\* The exchange: only one walk at a time, nested calls included.
ClaimUnseen(t) ==
  /\ At(t, "claim")
  /\ dumpRunning' = TRUE
  /\ Goto(t, "swap")
  /\ UNCHANGED <<parked, captured, published>>
Claim(t) ==
  /\ At(t, "claim")
  /\ dumpRunning' = TRUE
  /\ IF dumpRunning THEN Return(t) ELSE Goto(t, "swap")
  /\ UNCHANGED <<parked, captured, published>>

\* The list is taken, under the list's mutex.  An empty one is not walked.
Swap(t) ==
  /\ At(t, "swap")
  /\ SetTop(t, Frame(IF PackagesOf(pendingLicenses) = {} THEN "release" ELSE "walk",
                     pendingLicenses, PackagesOf(pendingLicenses), {}))
  /\ pendingLicenses' = 0
  /\ licensesPending' = FALSE
  /\ UNCHANGED <<delivered, captured, dumpRunning, published>>

\* GetPackageInfo of one package; Steam may not have it cached.
Resolve(t, p, cached) ==
  /\ At(t, "walk")
  /\ p \in Top(t).toWalk
  /\ SetTop(t, [Top(t) EXCEPT !.toWalk = @ \ {p},
                              !.owned = IF cached THEN @ \cup DepotsOf[p] ELSE @])
  /\ UNCHANGED <<parked, captured, dumpRunning, published>>

Publish(t) ==
  /\ At(t, "walk")
  /\ Top(t).toWalk = {}
  /\ ownedDepots' = Top(t).owned
  /\ ownedDepotsReady' = TRUE
  /\ source' = Top(t).list
  /\ Goto(t, "release")
  /\ UNCHANGED <<parked, captured, dumpRunning>>

ReleaseClearsFlag(t) ==
  /\ At(t, "release")
  /\ dumpRunning' = FALSE
  /\ licensesPending' = FALSE
  /\ Return(t)
  /\ UNCHANGED <<delivered, pendingLicenses, captured, published>>
Release(t) ==
  /\ At(t, "release")
  /\ dumpRunning' = FALSE
  /\ Return(t)
  /\ UNCHANGED <<parked, captured, published>>

-----------------------------------------------------------------------------
Walk(t) ==
  \/ \E p \in Packages, cached \in BOOLEAN : Resolve(t, p, cached)
  \/ Publish(t)

ThreadStep(t) ==
  \/ Check(t)
  \/ Claim(t)
  \/ Swap(t)
  \/ Walk(t)
  \/ Release(t)

Next ==
  \/ Capture
  \/ \E t \in Threads, packages \in SUBSET Packages : OnLicenseList(t, packages)
  \/ \E t \in Threads : CheckAppOwnership(t) \/ ThreadStep(t)

Spec == Init /\ [][Next]_vars

\* "CheckAppOwnership runs often enough": Steam calls in from every thread again and
\* again, captures GetPackageInfo some day, and its calls return however often they
\* are interrupted by nested ones.
FairSpec ==
  /\ Spec
  /\ WF_vars(Capture)
  /\ \A t \in Threads :
       /\ WF_vars(ThreadStep(t))
       /\ SF_vars(Walk(t))
       /\ WF_vars(stack[t] = <<>> /\ CheckAppOwnership(t))

-----------------------------------------------------------------------------
(* Properties                                                              *)

Pcs == {"check", "claim", "swap", "walk", "release"}
Lists == 0..Len(delivered)
Depots(packages) == UNION {DepotsOf[p] : p \in packages}

\* The type invariant.  Only the innermost call of a thread does anything: an outer
\* one is inside GetPackageInfo.
TypeOK ==
  /\ delivered \in Seq(SUBSET Packages)
  /\ pendingLicenses \in Lists
  /\ licensesPending \in BOOLEAN
  /\ captured \in BOOLEAN
  /\ dumpRunning \in BOOLEAN
  /\ stack \in [Threads -> Seq([pc : Pcs, list : Lists, toWalk : SUBSET Packages,
                                owned : SUBSET Depots(Packages)])]
  /\ \A t \in Threads : \A i \in 1..(Len(stack[t]) - 1) : stack[t][i].pc = "walk"
  /\ ownedDepotsReady \in BOOLEAN
  /\ ownedDepots \subseteq Depots(Packages)
  /\ source \in Lists

\* The calls that hold g_dumpRunning.
Dumping ==
  {d \in Threads \X (1..MaxDepth) :
     d[2] <= Len(stack[d[1]]) /\ stack[d[1]][d[2]].pc \in {"swap", "walk", "release"}}

\* One walk at a time, on whatever thread and however deep: a call from inside
\* GetPackageInfo never starts a second one.
OneDump == Cardinality(Dumping) = (IF dumpRunning THEN 1 ELSE 0)

\* "It also stops a slower walk of an old list overwriting a newer one's result."
NewestListWins == [][source' >= source]_vars

\* "A list that lands meanwhile stays pending": the newest list is parked and
\* flagged, or being walked, or what was published, unless it is empty.
NewestListIsKept ==
  Len(delivered) > 0 =>
    \/ pendingLicenses = Len(delivered) /\ licensesPending
    \/ \E d \in Dumping : stack[d[1]][d[2]].list = Len(delivered)
    \/ source = Len(delivered)
    \/ PackagesOf(Len(delivered)) = {}

\* What a reader gets comes from one list: no depot of a package that only an
\* earlier or a later list names.
OneListAnswers ==
  ownedDepotsReady => ownedDepots \subseteq Depots(PackagesOf(source))

\* The newest list is resolved in the end, if it is not empty.
NewestListIsPublished ==
  []<>(\/ delivered = <<>>
       \/ PackagesOf(Len(delivered)) = {}
       \/ ownedDepotsReady /\ source = Len(delivered))

\* One walk at a time publishes the depots of one list, and the newest list is never lost.
DumpsAreRight == TypeOK /\ OneDump /\ NewestListIsKept /\ OneListAnswers

\* Results go from older lists to newer ones, up to the newest.
NewestListPrevails == NewestListWins /\ NewestListIsPublished

-----------------------------------------------------------------------------
(* The inductive invariant behind the safety properties                    *)

\* At most one call dumps, and the flag says whether one does.
DumpInv ==
  /\ \A t \in Threads : Len(stack[t]) <= MaxDepth
  /\ \A d, e \in Dumping : d = e
  /\ dumpRunning <=> Dumping # {}

\* What is parked is the newest list, flagged.
ParkInv ==
  /\ pendingLicenses \in {0, Len(delivered)}
  /\ pendingLicenses # 0 => licensesPending

\* A call that has not swapped has no list.
FreshInv ==
  \A t \in Threads : \A i \in 1..Len(stack[t]) :
    stack[t][i].pc \in {"check", "claim", "swap"} => stack[t][i].list = 0

\* A walk is of a list no older than what is published, and collects from that list
\* only; a call that is done has published its list, or had nothing to publish.
FrameInv ==
  \A d \in Dumping :
    LET f == stack[d[1]][d[2]] IN
    /\ f.pc = "walk" =>
         /\ source <= f.list
         /\ f.toWalk \subseteq PackagesOf(f.list)
         /\ f.owned \subseteq Depots(PackagesOf(f.list))
    /\ f.pc = "release" => f.list = source \/ PackagesOf(f.list) = {}

IInv == TypeOK /\ DumpInv /\ ParkInv /\ FreshInv /\ FrameInv /\ NewestListIsKept
        /\ OneListAnswers
=============================================================================
