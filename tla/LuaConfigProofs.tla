-------------------------- MODULE LuaConfigProofs --------------------------
(***************************************************************************)
(* Proofs about LuaConfig, for every finite set of files, every set of     *)
(* depots, keys, manifests and scripts, and every number of loads,         *)
(* reloads, unloads and calls of callbacks.                                *)
(***************************************************************************)
EXTENDS LuaConfig, TLAPS, FiniteSetTheorems

-----------------------------------------------------------------------------
(* The inductive invariant                                                 *)

\* A depot a callback added is one no file lists.
RuntimeInv == \A d \in runtimeIds : Providers(d) = {}

\* Parse sequences tell files apart, and a file that pins something has one.
SequenceInv ==
  /\ \A f \in Files : fileParseSequence[f] <= nextFileParseSequence
  /\ \A f, g \in Files : fileParseSequence[f] = fileParseSequence[g] /\ f # g => fileParseSequence[f] = 0
  /\ \A f \in Files : PinnedBy(f) # {} => fileParseSequence[f] # 0

\* Of any files one was parsed last.
LatestExists(sequence) ==
  \A C \in SUBSET Files : C # {} => \E f \in C : \A g \in C : sequence[g] <= sequence[f]

TablesInv == TablesFollowFiles /\ RuntimeInv /\ SequenceInv /\ LatestExists(fileParseSequence)

-----------------------------------------------------------------------------
(* Files and depots                                                        *)

\* A file that is not loaded contributes nothing.
LEMMA NoScriptIsEmpty == NoScript \in Script /\ Listed(NoScript) = {} /\ Pinned(NoScript) = {}
  BY DEF NoScript, Script, Listed, Pinned

\* What is left of a depot's providers when one file goes is counted by the table, and
\* the last provider is the one whose count is 1.
LEMMA WithoutFile ==
  ASSUME TypeOK, RefCountIsProviders, NEW f \in Files, NEW d \in Depots
  PROVE  /\ IsFiniteSet(Providers(d))
         /\ RefCountWithout(f)[d] = Cardinality(Providers(d) \ {f})
         /\ RefCountWithout(f)[d] \in Nat
         /\ d \in LastProvided(f) <=> Providers(d) = {f}
         /\ RefCountWithout(f)[d] = 0 <=> Providers(d) \subseteq {f}
<1>1. IsFiniteSet(Providers(d))
  BY FilesAssumption, FS_Subset DEF Providers
<1>2. depotRefCount[d] = Cardinality(Providers(d)) /\ Cardinality(Providers(d)) \in Nat
  BY <1>1, FS_CardinalityType DEF RefCountIsProviders
<1>3. /\ IsFiniteSet(Providers(d) \ {f})
      /\ Cardinality(Providers(d) \ {f}) = IF f \in Providers(d) THEN Cardinality(Providers(d)) - 1 ELSE Cardinality(Providers(d))
  BY <1>1, FS_RemoveElement
<1>4. Cardinality(Providers(d) \ {f}) \in Nat /\ (Cardinality(Providers(d) \ {f}) = 0 <=> Providers(d) \ {f} = {})
  BY <1>3, FS_CardinalityType, FS_EmptySet
<1>5. f \in Providers(d) <=> d \in fileDepots[f]
  BY DEF Providers
<1>6. RefCountWithout(f)[d] = Cardinality(Providers(d) \ {f})
  BY <1>2, <1>3, <1>5 DEF RefCountWithout
<1>7. d \in LastProvided(f) <=> f \in Providers(d) /\ Cardinality(Providers(d)) = 1
  BY <1>2, <1>5 DEF LastProvided, TypeOK
<1>8. f \in Providers(d) /\ Cardinality(Providers(d)) = 1 <=> Providers(d) = {f}
  BY <1>2, <1>3, <1>4
<1>9. QED
  BY <1>1, <1>4, <1>6, <1>7, <1>8

\* A file that now lists other depots is a provider of those.
LEMMA ProvidersAfter ==
  ASSUME TypeOK, NEW f \in Files, NEW s \in Script, fileDepots' = [fileDepots EXCEPT ![f] = Listed(s)], NEW d \in Depots
  PROVE  Providers(d)' = IF d \in Listed(s) THEN (Providers(d) \ {f}) \cup {f} ELSE Providers(d) \ {f}
  BY DEF Providers, TypeOK

\* A commit and an unload alike: the tables of depots take the contribution of one file
\* for its previous one.
Replaces(f, s, mtime) ==
  /\ fileDepots' = [fileDepots EXCEPT ![f] = Listed(s)]
  /\ depotRefCount' = [d \in Depots |-> RefCountWithout(f)[d] + (IF d \in Listed(s) THEN 1 ELSE 0)]
  /\ depotKeySet' = [d \in Depots |-> KeyAfterAdd(KeysWithout(f)[d], s.keys[d])]
  /\ purchaseTime' = [d \in Depots |->
       IF d \in Listed(s) THEN Later(PurchaseWithout(f)[d], mtime) ELSE PurchaseWithout(f)[d]]
  /\ fileMtime' = [fileMtime EXCEPT ![f] = mtime]
  /\ fileManifestOverrides' = PinsWith(f, s)
  /\ loaded' = [loaded EXCEPT ![f] = s]
  /\ runtimeIds' = runtimeIds \ Listed(s)

DepotsInv == TypeOK /\ DepotsFollowFiles /\ KeyNotLost /\ PurchaseTimeCoversProviders /\ RuntimeInv

\* What such a step does to the types.
LEMMA ReplacesTypes ==
  ASSUME DepotsInv, NEW f \in Files, NEW s \in Script, NEW mtime \in Nat, Replaces(f, s, mtime)
  PROVE  /\ depotKeySet' \in [Depots -> Keys \cup {NoKey, Absent}]
         /\ fileDepots' \in [Files -> SUBSET Depots]
         /\ fileManifestOverrides' \in [Files -> [Depots -> Gids \cup {NoGid}]]
         /\ depotRefCount' \in [Depots -> Nat] /\ fileMtime' \in [Files -> Nat] /\ purchaseTime' \in [Depots -> Nat]
         /\ loaded' \in [Files -> Script] /\ runtimeIds' \subseteq Depots
<1> USE DEF DepotsInv, TypeOK, Replaces
<1>1. Listed(s) \subseteq Depots /\ s.gids \in [Depots -> Gids \cup {NoGid}] /\ s.keys \in [Depots -> Keys \cup {NoKey, Absent}]
  BY DEF Listed, Script
<1>2. depotRefCount' \in [Depots -> Nat]
  <2>1. \A d \in Depots : RefCountWithout(f)[d] \in Nat
    BY WithoutFile DEF DepotsFollowFiles
  <2>2. depotRefCount' = [d \in Depots |-> RefCountWithout(f)[d] + (IF d \in Listed(s) THEN 1 ELSE 0)]
    BY DEF Replaces
  <2>3. QED
    BY ONLY <2>1, <2>2
<1>3. depotKeySet' \in [Depots -> Keys \cup {NoKey, Absent}]
  BY <1>1 DEF KeyAfterAdd, KeysWithout
<1>4. purchaseTime' \in [Depots -> Nat]
  BY DEF PurchaseWithout, Later
<1>5. fileManifestOverrides' \in [Files -> [Depots -> Gids \cup {NoGid}]]
  BY <1>1 DEF PinsWith
<1>6. QED
  BY <1>1, <1>2, <1>3, <1>4, <1>5

\* What it does to what is wanted, and why.
LEMMA ReplacesDepots ==
  ASSUME DepotsInv, NEW f \in Files, NEW s \in Script, NEW mtime \in Nat, Replaces(f, s, mtime)
  PROVE  DepotsFollowFiles' /\ RuntimeInv'
<1> USE DEF DepotsInv, DepotsFollowFiles
<1>0. fileDepots' = [fileDepots EXCEPT ![f] = Listed(s)]
  BY DEF Replaces
<1>1. RefCountIsProviders'
  <2>1. ASSUME NEW d \in Depots
        PROVE  depotRefCount'[d] = Cardinality(Providers(d)')
    <3>1. IsFiniteSet(Providers(d) \ {f}) /\ RefCountWithout(f)[d] = Cardinality(Providers(d) \ {f})
      BY WithoutFile, FS_Subset
    <3>2. Cardinality((Providers(d) \ {f}) \cup {f}) = Cardinality(Providers(d) \ {f}) + 1
      BY <3>1, FS_AddElement
    <3>3. depotRefCount'[d] = RefCountWithout(f)[d] + (IF d \in Listed(s) THEN 1 ELSE 0)
      BY DEF Replaces
    <3>4. RefCountWithout(f)[d] \in Nat
      BY WithoutFile
    <3>5. CASE d \in Listed(s)
      BY <1>0, <3>1, <3>2, <3>3, <3>5, ProvidersAfter
    <3>6. CASE d \notin Listed(s)
      <4>1. Providers(d)' = Providers(d) \ {f}
        BY <1>0, <3>6, ProvidersAfter
      <4>2. depotRefCount'[d] = RefCountWithout(f)[d]
        BY <3>3, <3>4, <3>6
      <4>3. QED
        BY <3>1, <4>1, <4>2
    <3>7. QED
      BY <3>5, <3>6
  <2>2. QED
    BY <2>1 DEF RefCountIsProviders
<1>2. WantedIsProvided'
  <2>1. ASSUME NEW d \in Depots
        PROVE  depotKeySet'[d] # Absent <=> (Providers(d)' # {} \/ d \in runtimeIds')
    <3>1. depotKeySet'[d] = KeyAfterAdd(KeysWithout(f)[d], s.keys[d]) /\ runtimeIds' = runtimeIds \ Listed(s)
      BY DEF Replaces
    <3>2. KeysWithout(f)[d] = IF Providers(d) = {f} THEN Absent ELSE depotKeySet[d]
      BY WithoutFile DEF KeysWithout
    <3>3. (d \in Listed(s) <=> s.keys[d] # Absent) /\ s.keys[d] \in Keys \cup {NoKey, Absent}
      BY DEF Listed, Script
    <3>4. depotKeySet[d] # Absent <=> (Providers(d) # {} \/ d \in runtimeIds)
      BY DEF WantedIsProvided, HasDepot
    <3>5. d \in runtimeIds => Providers(d) = {}
      BY DEF RuntimeInv
    <3>6. CASE d \in Listed(s)
      BY <1>0, <3>1, <3>3, <3>6, ProvidersAfter, KeysAssumption DEF KeyAfterAdd
    <3>7. CASE d \notin Listed(s)
      <4>1. depotKeySet'[d] = KeysWithout(f)[d]
        BY <3>1, <3>3, <3>7 DEF KeyAfterAdd
      <4>2. Providers(d)' = Providers(d) \ {f} /\ (d \in runtimeIds' <=> d \in runtimeIds)
        BY <1>0, <3>1, <3>7, ProvidersAfter
      <4>3. QED
        BY <3>2, <3>4, <3>5, <4>1, <4>2
    <3>8. QED
      BY <3>6, <3>7
  <2>2. QED
    BY <2>1 DEF WantedIsProvided, HasDepot
<1>3. TablesMatchLoaded'
  BY DEF Replaces, PinsWith, TypeOK, TablesMatchLoaded
<1>4. RuntimeInv'
  <2>1. runtimeIds' = runtimeIds \ Listed(s)
    BY DEF Replaces
  <2>2. ASSUME NEW d \in runtimeIds'
        PROVE  Providers(d)' = {}
    <3>1. d \in Depots /\ d \in runtimeIds /\ d \notin Listed(s)
      BY <2>1, <2>2 DEF TypeOK
    <3>2. Providers(d) = {}
      BY <3>1 DEF RuntimeInv
    <3>3. Providers(d)' = Providers(d) \ {f}
      BY <1>0, <3>1, ProvidersAfter
    <3>4. QED
      BY <3>2, <3>3
  <2>3. QED
    BY <2>2 DEF RuntimeInv
<1>5. QED
  BY <1>1, <1>2, <1>3, <1>4

\* What it does to keys and purchase times.
LEMMA ReplacesValues ==
  ASSUME DepotsInv, NEW f \in Files, NEW s \in Script, NEW mtime \in Nat, Replaces(f, s, mtime)
  PROVE  KeyNotLost' /\ PurchaseTimeCoversProviders'
<1> USE DEF DepotsInv, DepotsFollowFiles
<1>0. fileDepots' = [fileDepots EXCEPT ![f] = Listed(s)] /\ loaded' = [loaded EXCEPT ![f] = s]
  BY DEF Replaces
<1>1. ASSUME NEW g \in Files, NEW d \in Depots, loaded'[g].keys[d] \in Keys
      PROVE  depotKeySet'[d] \in Keys
  <2>1. depotKeySet'[d] = KeyAfterAdd(KeysWithout(f)[d], s.keys[d])
    BY DEF Replaces
  <2>2. s.keys[d] \in Keys \cup {NoKey, Absent}
    BY DEF Script
  <2>3. CASE s.keys[d] \in Keys
    BY <2>1, <2>3, KeysAssumption DEF KeyAfterAdd
  <2>4. CASE s.keys[d] \notin Keys
    <3>1. g # f /\ loaded[g].keys[d] \in Keys
      BY <1>0, <1>1, <2>4 DEF TypeOK
    <3>2. g \in Providers(d)
      BY <3>1, KeysAssumption DEF TablesMatchLoaded, Listed, Providers
    <3>3. KeysWithout(f)[d] = depotKeySet[d]
      BY <3>1, <3>2, WithoutFile DEF KeysWithout
    <3>4. depotKeySet[d] \in Keys
      BY <3>1 DEF KeyNotLost
    <3>5. QED
      BY <2>1, <2>2, <2>4, <3>3, <3>4, KeysAssumption DEF KeyAfterAdd
  <2>5. QED
    BY <2>3, <2>4
<1>2. ASSUME NEW d \in Depots, NEW g \in Providers(d)'
      PROVE  purchaseTime'[d] >= fileMtime'[g]
  <2>1. /\ purchaseTime'[d] = IF d \in Listed(s) THEN Later(PurchaseWithout(f)[d], mtime) ELSE PurchaseWithout(f)[d]
        /\ fileMtime' = [fileMtime EXCEPT ![f] = mtime]
    BY DEF Replaces
  <2>2. PurchaseWithout(f)[d] = IF Providers(d) = {f} THEN 0 ELSE purchaseTime[d]
    BY WithoutFile DEF PurchaseWithout
  <2>3. purchaseTime[d] \in Nat /\ g \in Files /\ fileMtime[g] \in Nat
    BY DEF TypeOK, Providers
  <2>4. CASE g = f
    <3>0. Providers(d)' = IF d \in Listed(s) THEN (Providers(d) \ {f}) \cup {f} ELSE Providers(d) \ {f}
      BY <1>0, ProvidersAfter
    <3>1. d \in Listed(s) /\ fileMtime'[g] = mtime
      <4>1. d \in Listed(s)
        BY <1>2, <2>4, <3>0
      <4>2. fileMtime'[g] = mtime
        BY <2>1, <2>4 DEF TypeOK
      <4>3. QED
        BY <4>1, <4>2
    <3>2. QED
      BY <2>1, <2>2, <2>3, <3>1 DEF Later
  <2>5. CASE g # f
    <3>1. g \in Providers(d) /\ fileMtime'[g] = fileMtime[g]
      BY <1>0, <2>1, <2>5, ProvidersAfter DEF TypeOK, Providers
    <3>2. PurchaseWithout(f)[d] = purchaseTime[d] /\ purchaseTime[d] >= fileMtime[g]
      BY <2>2, <2>5, <3>1 DEF PurchaseTimeCoversProviders
    <3>3. QED
      BY <2>1, <2>3, <3>1, <3>2 DEF Later
  <2>6. QED
    BY <2>4, <2>5
<1>3. QED
  BY <1>1, <1>2 DEF KeyNotLost, PurchaseTimeCoversProviders

-----------------------------------------------------------------------------
(* Pins and parse sequences                                                *)

\* No two files were parsed at once.
Distinct(sequence) ==
  \A f, g \in Files : sequence[f] = sequence[g] /\ f # g => sequence[f] = 0

\* The files a rebuild of the pin of d compares.
Candidates(pins, sequence, d) == {f \in Files : pins[f][d] # NoGid /\ sequence[f] # 0}

\* A file that is parsed last, or whose sequence is erased, leaves a last one among any files.
LEMMA LatestAfter ==
  ASSUME NEW sequence \in [Files -> Nat], LatestExists(sequence), NEW f \in Files, NEW n \in Nat,
         n = 0 \/ \A g \in Files : sequence[g] <= n
  PROVE  LatestExists([sequence EXCEPT ![f] = n])
<1> DEFINE after == [sequence EXCEPT ![f] = n]
<1>0. /\ after[f] = n
      /\ \A g \in Files : g # f => after[g] = sequence[g]
      /\ \A g \in Files : sequence[g] \in Nat
  OBVIOUS
<1> HIDE DEF after
<1>1. ASSUME NEW C \in SUBSET Files, C # {}
      PROVE  \E g \in C : \A h \in C : after[h] <= after[g]
  <2>1. CASE f \in C /\ \A g \in Files : sequence[g] <= n
    BY <1>0, <1>1, <2>1
  <2>2. CASE C = {f}
    BY <1>0, <2>2
  <2>3. CASE C \ {f} # {} /\ (f \notin C \/ n = 0)
    <3>1. PICK g \in C \ {f} : \A h \in C \ {f} : sequence[h] <= sequence[g]
      BY <2>3 DEF LatestExists
    <3>2. \A h \in C : after[h] <= after[g]
      BY <1>0, <2>3, <3>1
    <3>3. QED
      BY <3>1, <3>2
  <2>4. QED
    BY <1>1, <2>1, <2>2, <2>3
<1>2. QED
  BY <1>1 DEF LatestExists, after

\* What RebuildManifestOverride finds: the pin of the file among the candidates that was
\* parsed last.
LEMMA NewestPinIsLatest ==
  ASSUME NEW pins \in [Files -> [Depots -> Gids \cup {NoGid}]], NEW sequence \in [Files -> Nat],
         LatestExists(sequence), Distinct(sequence), NEW d \in Depots
  PROVE  /\ NewestPin(pins, sequence, d) \in Gids \cup {NoGid}
         /\ Candidates(pins, sequence, d) = {} => NewestPin(pins, sequence, d) = NoGid
         /\ \A f \in Candidates(pins, sequence, d) :
              (\A g \in Candidates(pins, sequence, d) : sequence[g] <= sequence[f])
                => NewestPin(pins, sequence, d) = pins[f][d]
<1> DEFINE C == Candidates(pins, sequence, d)
<1> DEFINE newest == CHOOSE f \in C : \A g \in C : sequence[g] <= sequence[f]
<1>1. NewestPin(pins, sequence, d) = IF C = {} THEN NoGid ELSE pins[newest][d]
  BY DEF NewestPin, Candidates
<1>2. C \in SUBSET Files /\ \A f \in C : sequence[f] # 0 /\ sequence[f] \in Nat
  BY DEF Candidates
<1> HIDE DEF C
<1>3. C # {} => newest \in C /\ \A g \in C : sequence[g] <= sequence[newest]
  BY <1>2 DEF LatestExists
<1> HIDE DEF newest
<1>4. ASSUME NEW f \in C, \A g \in C : sequence[g] <= sequence[f]
      PROVE  f = newest
  <2>0. newest \in C /\ sequence[f] <= sequence[newest] /\ sequence[newest] <= sequence[f]
    BY <1>3, <1>4, Zenon
  <2>1. newest \in C /\ sequence[f] = sequence[newest]
    <3>1. sequence[f] \in Nat /\ sequence[newest] \in Nat
      BY <1>2, <2>0, Zenon
    <3>2. \A a, b \in Nat : a <= b /\ b <= a => a = b
      OBVIOUS
    <3>3. QED
      BY <2>0, <3>1, <3>2, Zenon
  <2>2. QED
    BY <1>2, <2>1 DEF Distinct
<1>5. C # {} => pins[newest][d] \in Gids \cup {NoGid}
  BY <1>2, <1>3
<1>6. QED
  BY <1>1, <1>4, <1>5 DEF C

PinsInv == TypeOK /\ SequenceInv /\ LatestExists(fileParseSequence) /\ ActivePinIsNewest

\* A commit and an unload alike: the pins the file sets, or set, are found again.
RebuildsPins(f, s, sequence) ==
  /\ fileManifestOverrides' = PinsWith(f, s)
  /\ manifestOverrides' = [d \in Depots |->
       IF d \in PinnedBy(f) \cup Pinned(s) THEN NewestPin(fileManifestOverrides', sequence, d)
       ELSE manifestOverrides[d]]
  /\ runtimePins' = runtimePins \ (PinnedBy(f) \cup Pinned(s))

\* The files that pin something after such a step.
LEMMA PinnedAfter ==
  ASSUME TypeOK, NEW f \in Files, NEW s \in Script, fileManifestOverrides' = PinsWith(f, s)
  PROVE  /\ fileManifestOverrides' \in [Files -> [Depots -> Gids \cup {NoGid}]]
         /\ PinnedBy(f)' = Pinned(s)
         /\ \A g \in Files : g # f => PinnedBy(g)' = PinnedBy(g) /\ fileManifestOverrides'[g] = fileManifestOverrides[g]
  BY DEF PinsWith, PinnedBy, Pinned, TypeOK, Script

\* After it the active pin of a depot is that of the file parsed last among those that pin it.
LEMMA RebuiltPins ==
  ASSUME PinsInv, NEW f \in Files, NEW s \in Script, NEW sequence \in [Files -> Nat], NEW n \in Nat,
         LatestExists(sequence), Distinct(sequence), RebuildsPins(f, s, sequence),
         fileParseSequence' = [fileParseSequence EXCEPT ![f] = n],
         \A g \in Files : PinnedBy(g)' # {} => sequence[g] = fileParseSequence'[g] /\ sequence[g] # 0
  PROVE  manifestOverrides' \in [Depots -> Gids \cup {NoGid}] /\ ActivePinIsNewest'
<1> DEFINE rebuilt == PinnedBy(f) \cup Pinned(s)
<1>1. /\ fileManifestOverrides' \in [Files -> [Depots -> Gids \cup {NoGid}]]
      /\ PinnedBy(f)' = Pinned(s)
      /\ \A g \in Files : g # f => PinnedBy(g)' = PinnedBy(g) /\ fileManifestOverrides'[g] = fileManifestOverrides[g]
  BY PinnedAfter DEF PinsInv, RebuildsPins
<1>2. /\ manifestOverrides' = [d \in Depots |->
            IF d \in rebuilt THEN NewestPin(fileManifestOverrides', sequence, d) ELSE manifestOverrides[d]]
      /\ runtimePins' = runtimePins \ rebuilt
  BY DEF RebuildsPins
<1>3. ASSUME NEW d \in Depots
      PROVE  NewestPin(fileManifestOverrides', sequence, d) \in Gids \cup {NoGid}
  BY <1>1, NewestPinIsLatest
<1>4. manifestOverrides' \in [Depots -> Gids \cup {NoGid}]
  BY <1>2, <1>3 DEF PinsInv, TypeOK
<1>5. ASSUME NEW d \in Depots, d \notin runtimePins'
      PROVE  LET pinning == {g \in Files : d \in PinnedBy(g)'} IN
             /\ pinning = {} => manifestOverrides'[d] = NoGid
             /\ \A h \in pinning :
                  (\A g \in pinning : fileParseSequence'[g] <= fileParseSequence'[h])
                    => manifestOverrides'[d] = fileManifestOverrides'[h][d]
  <2> DEFINE pinning == {g \in Files : d \in PinnedBy(g)'}
  <2>1. CASE d \in rebuilt
    <3>1. manifestOverrides'[d] = NewestPin(fileManifestOverrides', sequence, d)
      BY <1>2, <2>1
    <3>2. pinning = Candidates(fileManifestOverrides', sequence, d)
      BY DEF PinnedBy, Candidates
    <3>3. \A g \in pinning : sequence[g] = fileParseSequence'[g]
      OBVIOUS
    <3>4. /\ Candidates(fileManifestOverrides', sequence, d) = {} => NewestPin(fileManifestOverrides', sequence, d) = NoGid
          /\ \A h \in Candidates(fileManifestOverrides', sequence, d) :
               (\A g \in Candidates(fileManifestOverrides', sequence, d) : sequence[g] <= sequence[h])
                 => NewestPin(fileManifestOverrides', sequence, d) = fileManifestOverrides'[h][d]
      BY <1>1, NewestPinIsLatest
    <3> HIDE DEF pinning
    <3>5. /\ pinning = {} => manifestOverrides'[d] = NoGid
          /\ \A h \in pinning :
               (\A g \in pinning : fileParseSequence'[g] <= fileParseSequence'[h])
                 => manifestOverrides'[d] = fileManifestOverrides'[h][d]
      BY ONLY <3>1, <3>2, <3>3, <3>4
    <3>6. QED
      BY <3>5 DEF pinning
  <2>2. CASE d \notin rebuilt
    <3>1. manifestOverrides'[d] = manifestOverrides[d] /\ d \notin runtimePins
      BY <1>2, <1>5, <2>2
    <3>2. \A g \in Files : d \in PinnedBy(g)' <=> d \in PinnedBy(g)
      BY <1>1, <2>2
    <3>3. \A g \in pinning : g # f
      BY <1>1, <2>2
    <3>4. \A g \in pinning : /\ fileParseSequence'[g] = fileParseSequence[g]
                             /\ fileManifestOverrides'[g] = fileManifestOverrides[g]
      BY <1>1, <3>3 DEF PinsInv, TypeOK
    <3>5. pinning = {g \in Files : d \in PinnedBy(g)}
      BY <3>2
    <3> HIDE DEF pinning
    <3>6. /\ pinning = {} => manifestOverrides[d] = NoGid
          /\ \A h \in pinning : (\A g \in pinning : fileParseSequence[g] <= fileParseSequence[h])
               => manifestOverrides[d] = fileManifestOverrides[h][d]
      BY <3>1, <3>5 DEF PinsInv, ActivePinIsNewest
    <3>7. QED
      BY <3>1, <3>4, <3>6 DEF pinning
  <2>3. QED
    BY <2>1, <2>2
<1>6. QED
  BY <1>4, <1>5 DEF ActivePinIsNewest

-----------------------------------------------------------------------------
(* The steps that keep the tables together                                 *)

\* No files are loaded at first.
LEMMA InitTables ==
  ASSUME Init
  PROVE  TablesInv
<1> USE DEF Init
<1>1. NoScript \in Script /\ Listed(NoScript) = {}
  BY NoScriptIsEmpty
<1>2. NothingStaged \in [file : Files \cup {NoFile}, script : Script, mtime : Nat]
  BY <1>1 DEF NothingStaged
<1>3. TypeOK
  BY <1>1, <1>2 DEF TypeOK
<1>4. \A d \in Depots : Providers(d) = {}
  BY DEF Providers
<1>5. DepotsFollowFiles
  <2>1. RefCountIsProviders
    BY <1>4, FS_EmptySet DEF RefCountIsProviders
  <2>2. WantedIsProvided
    BY <1>4 DEF WantedIsProvided, HasDepot
  <2>3. TablesMatchLoaded
    BY <1>1 DEF TablesMatchLoaded, NoScript
  <2>4. QED
    BY <2>1, <2>2, <2>3 DEF DepotsFollowFiles
<1>6. SettingsFollowFiles
  BY <1>4, KeysAssumption DEF SettingsFollowFiles, KeyNotLost, ActivePinIsNewest, PurchaseTimeCoversProviders, PinnedBy, NoScript
<1>7. SequenceInv /\ RuntimeInv
  BY DEF SequenceInv, RuntimeInv, PinnedBy
<1>8. LatestExists(fileParseSequence)
  BY DEF LatestExists
<1>9. QED
  BY <1>3, <1>5, <1>6, <1>7, <1>8 DEF TablesInv, TablesFollowFiles

\* A commit replaces the contribution of its file and finds its pins again.
LEMMA CommitKeepsTables ==
  ASSUME TablesInv, Commit
  PROVE  TablesInv'
<1> DEFINE f == staged.file
<1> DEFINE s == staged.script
<1> DEFINE n == nextFileParseSequence + 1
<1>1. f \in Files /\ s \in Script /\ staged.mtime \in Nat /\ n \in Nat
  BY DEF Commit, TablesInv, TablesFollowFiles, TypeOK
<1>2. /\ Replaces(f, s, staged.mtime)
      /\ RebuildsPins(f, s, fileParseSequence')
      /\ fileParseSequence' = [fileParseSequence EXCEPT ![f] = n]
      /\ nextFileParseSequence' = n
      /\ pendingRemovals' = pendingRemovals \cup LastProvided(f)
      /\ pendingAdditions' = pendingAdditions \cup FirstProvided(f, s)
      /\ runtimePins' = runtimePins \ (PinnedBy(f) \cup Pinned(s))
      /\ staged' = NothingStaged
      /\ UNCHANGED <<hasManifestCodeFunc, started>>
  BY DEF Commit, Replaces, RebuildsPins
<1> HIDE DEF f, s, n
<1>3. DepotsInv /\ PinsInv
  BY DEF TablesInv, TablesFollowFiles, SettingsFollowFiles, DepotsInv, PinsInv
<1>4. DepotsFollowFiles' /\ RuntimeInv' /\ KeyNotLost' /\ PurchaseTimeCoversProviders'
  BY <1>1, <1>2, <1>3, ReplacesDepots, ReplacesValues
<1>5. /\ depotKeySet' \in [Depots -> Keys \cup {NoKey, Absent}]
      /\ fileDepots' \in [Files -> SUBSET Depots]
      /\ fileManifestOverrides' \in [Files -> [Depots -> Gids \cup {NoGid}]]
      /\ depotRefCount' \in [Depots -> Nat] /\ fileMtime' \in [Files -> Nat] /\ purchaseTime' \in [Depots -> Nat]
      /\ loaded' \in [Files -> Script] /\ runtimeIds' \subseteq Depots
  BY <1>1, <1>2, <1>3, ReplacesTypes
<1>6. fileParseSequence' \in [Files -> Nat]
  BY <1>1, <1>2, <1>3 DEF PinsInv, TypeOK
<1>7. SequenceInv' /\ Distinct(fileParseSequence')
  <2>1. /\ fileParseSequence'[f] = n
        /\ \A g \in Files : g # f => fileParseSequence'[g] = fileParseSequence[g]
        /\ \A g \in Files : fileParseSequence[g] \in Nat /\ fileParseSequence[g] <= nextFileParseSequence
        /\ \A g \in Files : fileParseSequence[g] < n
        /\ nextFileParseSequence \in Nat /\ n # 0 /\ nextFileParseSequence < n
    BY <1>1, <1>2, <1>3 DEF PinsInv, TypeOK, SequenceInv, n
  <2>2. \A g \in Files : g # f => PinnedBy(g)' = PinnedBy(g)
    BY <1>1, <1>2, <1>3, PinnedAfter DEF PinsInv, Replaces
  <2>3. \A g \in Files : fileParseSequence'[g] <= nextFileParseSequence'
    BY <1>1, <1>2, <2>1
  <2>4. \A g, h \in Files : fileParseSequence'[g] = fileParseSequence'[h] /\ g # h => fileParseSequence'[g] = 0
    BY <1>1, <1>3, <2>1 DEF PinsInv, SequenceInv
  <2>5. \A g \in Files : PinnedBy(g)' # {} => fileParseSequence'[g] # 0
    BY <1>3, <2>1, <2>2 DEF PinsInv, SequenceInv
  <2>6. QED
    BY <2>3, <2>4, <2>5 DEF SequenceInv, Distinct
<1>8. LatestExists(fileParseSequence')
  <2>1. \A g \in Files : fileParseSequence[g] <= n
    BY <1>3 DEF PinsInv, SequenceInv, TypeOK, n
  <2>2. LatestExists([fileParseSequence EXCEPT ![f] = n])
    BY <1>1, <1>3, <2>1, LatestAfter DEF PinsInv, TypeOK
  <2>3. QED
    BY <1>2, <2>2
<1>9. manifestOverrides' \in [Depots -> Gids \cup {NoGid}] /\ ActivePinIsNewest'
  <2>1. \A g \in Files : PinnedBy(g)' # {} => fileParseSequence'[g] # 0
    BY <1>7 DEF SequenceInv
  <2>2. QED
    BY <1>1, <1>2, <1>3, <1>6, <1>7, <1>8, <2>1, RebuiltPins
<1>10. TypeOK'
  <2>1. NothingStaged \in [file : Files \cup {NoFile}, script : Script, mtime : Nat]
    BY NoScriptIsEmpty DEF NothingStaged
  <2>2. LastProvided(f) \subseteq Depots /\ FirstProvided(f, s) \subseteq Depots
    BY <1>1, <1>3 DEF LastProvided, FirstProvided, Listed, PinsInv, TypeOK
  <2>3. pendingRemovals' \subseteq Depots /\ pendingAdditions' \subseteq Depots /\ runtimePins' \subseteq Depots
    BY <1>2, <1>3, <2>2 DEF PinsInv, TypeOK
  <2>4. QED
    BY <1>1, <1>2, <1>3, <1>5, <1>6, <1>9, <2>1, <2>3 DEF PinsInv, TypeOK
<1>11. LatestExists(fileParseSequence)'
  BY <1>8 DEF LatestExists
<1>12. QED
  BY <1>4, <1>7, <1>9, <1>10, <1>11 DEF TablesInv, TablesFollowFiles, SettingsFollowFiles

\* An unload replaces the contribution of its file by nothing.
LEMMA UnloadReplaces ==
  ASSUME TablesInv, NEW f \in Files, UnloadFile(f)
  PROVE  Replaces(f, NoScript, 0) /\ RebuildsPins(f, NoScript, fileParseSequence)
<1> USE DEF UnloadFile
<1>1. Listed(NoScript) = {} /\ Pinned(NoScript) = {} /\ NoScript.keys = [d \in Depots |-> Absent]
  BY NoScriptIsEmpty DEF NoScript
<1>2. DepotsInv
  BY DEF TablesInv, TablesFollowFiles, SettingsFollowFiles, DepotsInv
<1>3. depotRefCount' = [d \in Depots |-> RefCountWithout(f)[d] + (IF d \in Listed(NoScript) THEN 1 ELSE 0)]
  <2>1. \A d \in Depots : RefCountWithout(f)[d] \in Nat
    BY <1>2, WithoutFile DEF DepotsInv, DepotsFollowFiles
  <2>2. \A d \in Depots : RefCountWithout(f)[d] + (IF d \in Listed(NoScript) THEN 1 ELSE 0) = RefCountWithout(f)[d]
    BY <1>1, <2>1
  <2>3. RefCountWithout(f) = [d \in Depots |-> RefCountWithout(f)[d]]
    BY DEF RefCountWithout
  <2>4. QED
    BY <2>2, <2>3
<1>4. depotKeySet' = [d \in Depots |-> KeyAfterAdd(KeysWithout(f)[d], NoScript.keys[d])]
  BY <1>1 DEF KeyAfterAdd, KeysWithout
<1>5. purchaseTime' = [d \in Depots |->
        IF d \in Listed(NoScript) THEN Later(PurchaseWithout(f)[d], 0) ELSE PurchaseWithout(f)[d]]
  BY <1>1 DEF PurchaseWithout
<1>6. QED
  BY <1>1, <1>3, <1>4, <1>5 DEF Replaces, RebuildsPins

\* The tables are together after an unload.
LEMMA UnloadKeepsTables ==
  ASSUME TablesInv, NEW f \in Files, UnloadFile(f)
  PROVE  TablesInv'
<1>1. Replaces(f, NoScript, 0) /\ RebuildsPins(f, NoScript, fileParseSequence)
  BY UnloadReplaces
<1>2. /\ fileParseSequence' = [fileParseSequence EXCEPT ![f] = 0]
      /\ pendingRemovals' = pendingRemovals \cup LastProvided(f)
      /\ UNCHANGED <<pendingAdditions, nextFileParseSequence, hasManifestCodeFunc, staged, started>>
  BY DEF UnloadFile
<1>3. DepotsInv /\ PinsInv /\ NoScript \in Script /\ Pinned(NoScript) = {}
  BY NoScriptIsEmpty DEF TablesInv, TablesFollowFiles, SettingsFollowFiles, DepotsInv, PinsInv
<1>4. DepotsFollowFiles' /\ RuntimeInv' /\ KeyNotLost' /\ PurchaseTimeCoversProviders'
  BY <1>1, <1>3, ReplacesDepots, ReplacesValues
<1>5. /\ depotKeySet' \in [Depots -> Keys \cup {NoKey, Absent}]
      /\ fileDepots' \in [Files -> SUBSET Depots]
      /\ fileManifestOverrides' \in [Files -> [Depots -> Gids \cup {NoGid}]]
      /\ depotRefCount' \in [Depots -> Nat] /\ fileMtime' \in [Files -> Nat] /\ purchaseTime' \in [Depots -> Nat]
      /\ loaded' \in [Files -> Script] /\ runtimeIds' \subseteq Depots
  BY <1>1, <1>3, ReplacesTypes
<1>6. fileParseSequence' \in [Files -> Nat] /\ fileParseSequence \in [Files -> Nat]
  BY <1>2, <1>3 DEF PinsInv, TypeOK
<1>7. /\ PinnedBy(f)' = {}
      /\ \A g \in Files : g # f => PinnedBy(g)' = PinnedBy(g) /\ fileParseSequence'[g] = fileParseSequence[g]
      /\ fileParseSequence'[f] = 0
  BY <1>1, <1>2, <1>3, <1>6, PinnedAfter DEF PinsInv, Replaces
<1>8. SequenceInv'
  <2>1. \A g \in Files : fileParseSequence'[g] <= nextFileParseSequence'
    BY <1>2, <1>3, <1>7 DEF PinsInv, SequenceInv, TypeOK
  <2>2. \A g, h \in Files : fileParseSequence'[g] = fileParseSequence'[h] /\ g # h => fileParseSequence'[g] = 0
    BY <1>3, <1>7 DEF PinsInv, SequenceInv
  <2>3. \A g \in Files : PinnedBy(g)' # {} => fileParseSequence'[g] # 0
    BY <1>3, <1>7 DEF PinsInv, SequenceInv
  <2>4. QED
    BY <2>1, <2>2, <2>3 DEF SequenceInv
<1>9. LatestExists(fileParseSequence)'
  <2>1. LatestExists([fileParseSequence EXCEPT ![f] = 0])
    BY <1>3, <1>6, LatestAfter DEF PinsInv
  <2>2. QED
    BY <1>2, <2>1 DEF LatestExists
<1>10. manifestOverrides' \in [Depots -> Gids \cup {NoGid}] /\ ActivePinIsNewest'
  <2>1. \A g \in Files : PinnedBy(g)' # {} => fileParseSequence[g] = fileParseSequence'[g] /\ fileParseSequence[g] # 0
    BY <1>7, <1>3 DEF PinsInv, SequenceInv
  <2>2. LatestExists(fileParseSequence) /\ Distinct(fileParseSequence)
    BY <1>3 DEF PinsInv, SequenceInv, Distinct
  <2>3. QED
    BY <1>1, <1>2, <1>3, <1>6, <2>1, <2>2, RebuiltPins
<1>11. TypeOK'
  <2>1. pendingRemovals' \subseteq Depots /\ runtimePins' \subseteq Depots
    BY <1>1, <1>2, <1>3 DEF PinsInv, TypeOK, LastProvided, RebuildsPins
  <2>2. QED
    BY <1>2, <1>3, <1>5, <1>6, <1>10, <2>1 DEF PinsInv, TypeOK
<1>12. QED
  BY <1>4, <1>8, <1>9, <1>10, <1>11 DEF TablesInv, TablesFollowFiles, SettingsFollowFiles

-----------------------------------------------------------------------------
(* The other steps                                                         *)

\* A step that leaves the tables of files and depots alone keeps them together.
LEMMA SameTables ==
  ASSUME TablesInv, TypeOK',
         UNCHANGED <<depotKeySet, manifestOverrides, fileDepots, fileManifestOverrides, fileParseSequence,
                     nextFileParseSequence, depotRefCount, fileMtime, purchaseTime, historyVars>>
  PROVE  TablesInv'
<1> USE DEF TablesInv, TablesFollowFiles, historyVars
<1>1. DepotsFollowFiles'
  BY DEF DepotsFollowFiles, RefCountIsProviders, WantedIsProvided, TablesMatchLoaded, Providers, HasDepot
<1>2. SettingsFollowFiles'
  BY DEF SettingsFollowFiles, KeyNotLost, ActivePinIsNewest, PurchaseTimeCoversProviders, Providers, PinnedBy
<1>3. RuntimeInv' /\ SequenceInv' /\ LatestExists(fileParseSequence)'
  BY DEF RuntimeInv, SequenceInv, LatestExists, Providers, PinnedBy
<1>4. QED
  BY <1>1, <1>2, <1>3

\* The run of a script only stages its effects.
LEMMA RunKeepsTables ==
  ASSUME TablesInv, NEW f \in Files, NEW s \in Scripts, NEW mtime \in 0 .. MaxTime, RunScript(f, s, mtime)
  PROVE  TablesInv'
<1>1. staged' \in [file : Files \cup {NoFile}, script : Script, mtime : Nat] /\ hasManifestCodeFunc' \in BOOLEAN
  BY ScriptsAssumption, BoundsAssumption DEF RunScript, TablesInv, TablesFollowFiles, TypeOK, Script
<1>2. TypeOK'
  BY <1>1 DEF RunScript, TablesInv, TablesFollowFiles, TypeOK, tableVars, historyVars
<1>3. QED
  BY <1>2, SameTables DEF RunScript, tableVars

\* A rejected run changes nothing.
LEMMA KeepPreviousKeepsTables ==
  ASSUME TablesInv, KeepPrevious
  PROVE  TablesInv'
<1>1. NothingStaged \in [file : Files \cup {NoFile}, script : Script, mtime : Nat]
  BY NoScriptIsEmpty DEF NothingStaged
<1>2. TypeOK'
  BY <1>1 DEF KeepPrevious, TablesInv, TablesFollowFiles, TypeOK, tableVars, historyVars
<1>3. QED
  BY <1>2, SameTables DEF KeepPrevious, tableVars

\* Neither do the readers of the queues, nor the end of the start.
LEMMA QueuesKeepTables ==
  ASSUME TablesInv, TakePendingRemovals \/ TakePendingAdditions \/ FinishStartup
  PROVE  TablesInv'
<1> USE DEF TakePendingRemovals, TakePendingAdditions, FinishStartup, ClearPendingAdditions
<1>1. TypeOK'
  BY DEF TablesInv, TablesFollowFiles, TypeOK, historyVars
<1>2. QED
  BY <1>1, SameTables DEF historyVars

\* A callback that adds a depot makes it wanted, by a file or by itself.
LEMMA AddKeepsTables ==
  ASSUME TablesInv, NEW d \in Depots, NEW key \in Keys \cup {NoKey}, AddAppIdAtRuntime(d, key)
  PROVE  TablesInv'
<1> USE DEF TablesInv, TablesFollowFiles, AddAppIdAtRuntime
<1>1. /\ depotKeySet'[d] = KeyAfterAdd(depotKeySet[d], key)
      /\ \A e \in Depots : e # d => depotKeySet'[e] = depotKeySet[e]
      /\ depotKeySet' \in [Depots -> Keys \cup {NoKey, Absent}]
  BY DEF TypeOK, KeyAfterAdd
<1>2. depotKeySet'[d] # Absent /\ (depotKeySet[d] \in Keys => depotKeySet'[d] \in Keys)
  BY <1>1, KeysAssumption DEF KeyAfterAdd
<1>3. depotRefCount[d] = 0 <=> Providers(d) = {}
  <2>1. IsFiniteSet(Providers(d))
    BY FilesAssumption, FS_Subset DEF Providers
  <2>2. QED
    BY <2>1, FS_EmptySet DEF DepotsFollowFiles, RefCountIsProviders
<1>4. \A e \in Depots : Providers(e)' = Providers(e)
  BY DEF Providers
<1>5. TypeOK'
  BY <1>1 DEF TypeOK
<1>6. RefCountIsProviders' /\ TablesMatchLoaded'
  BY <1>4 DEF DepotsFollowFiles, RefCountIsProviders, TablesMatchLoaded
<1>7. WantedIsProvided'
  <2>1. ASSUME NEW e \in Depots
        PROVE  depotKeySet'[e] # Absent <=> (Providers(e)' # {} \/ e \in runtimeIds')
    <3>1. depotKeySet[e] # Absent <=> (Providers(e) # {} \/ e \in runtimeIds)
      BY DEF DepotsFollowFiles, WantedIsProvided, HasDepot
    <3>2. CASE e = d
      BY <1>2, <1>3, <1>4, <3>1, <3>2
    <3>3. CASE e # d
      BY <1>1, <1>4, <3>1, <3>3
    <3>4. QED
      BY <3>2, <3>3
  <2>2. QED
    BY <2>1 DEF WantedIsProvided, HasDepot
<1>8. RuntimeInv'
  BY <1>3, <1>4 DEF RuntimeInv, TypeOK
<1>9. KeyNotLost'
  BY <1>1, <1>2 DEF SettingsFollowFiles, KeyNotLost
<1>10. ActivePinIsNewest' /\ PurchaseTimeCoversProviders'
  BY DEF SettingsFollowFiles, ActivePinIsNewest, PurchaseTimeCoversProviders, PinnedBy, Providers
<1>11. SequenceInv' /\ LatestExists(fileParseSequence)'
  BY DEF SequenceInv, LatestExists, PinnedBy
<1>12. QED
  BY <1>5, <1>6, <1>7, <1>8, <1>9, <1>10, <1>11 DEF DepotsFollowFiles, SettingsFollowFiles

\* A callback that sets a pin is answered by no file until the next rebuild.
LEMMA SetKeepsTables ==
  ASSUME TablesInv, NEW d \in Depots, NEW gid \in Gids, SetManifestIdAtRuntime(d, gid)
  PROVE  TablesInv'
<1> USE DEF TablesInv, TablesFollowFiles, SetManifestIdAtRuntime
<1>1. TypeOK'
  BY DEF TypeOK
<1>2. DepotsFollowFiles'
  BY DEF DepotsFollowFiles, RefCountIsProviders, WantedIsProvided, TablesMatchLoaded, Providers, HasDepot
<1>3. KeyNotLost' /\ PurchaseTimeCoversProviders'
  BY DEF SettingsFollowFiles, KeyNotLost, PurchaseTimeCoversProviders, Providers
<1>4. ActivePinIsNewest'
  <2>1. \A e \in Depots : e \notin runtimePins' => e \notin runtimePins /\ manifestOverrides'[e] = manifestOverrides[e]
    BY DEF TypeOK
  <2>2. QED
    BY <2>1 DEF SettingsFollowFiles, ActivePinIsNewest, PinnedBy
<1>5. RuntimeInv' /\ SequenceInv' /\ LatestExists(fileParseSequence)'
  BY DEF RuntimeInv, SequenceInv, LatestExists, Providers, PinnedBy
<1>6. QED
  BY <1>1, <1>2, <1>3, <1>4, <1>5 DEF SettingsFollowFiles

\* Every step keeps the invariant.
LEMMA StepKeepsTables ==
  ASSUME TablesInv, [Next]_vars
  PROVE  TablesInv'
<1>1. ASSUME NEW f \in Files, NEW s \in Scripts, NEW mtime \in 0 .. MaxTime, RunScript(f, s, mtime)
      PROVE  TablesInv'
  BY <1>1, RunKeepsTables
<1>2. CASE KeepPrevious
  BY <1>2, KeepPreviousKeepsTables
<1>3. CASE Commit
  BY <1>3, CommitKeepsTables
<1>4. ASSUME NEW f \in Files, UnloadFile(f)
      PROVE  TablesInv'
  BY <1>4, UnloadKeepsTables
<1>5. ASSUME NEW d \in Depots, NEW key \in Keys \cup {NoKey}, AddAppIdAtRuntime(d, key)
      PROVE  TablesInv'
  BY <1>5, AddKeepsTables
<1>6. ASSUME NEW d \in Depots, NEW gid \in Gids, SetManifestIdAtRuntime(d, gid)
      PROVE  TablesInv'
  BY <1>6, SetKeepsTables
<1>7. CASE TakePendingRemovals \/ TakePendingAdditions \/ FinishStartup
  BY <1>7, QueuesKeepTables
<1>8. CASE UNCHANGED vars
  <2>1. TypeOK'
    BY <1>8 DEF TablesInv, TablesFollowFiles, TypeOK, vars, tableVars, historyVars
  <2>2. QED
    BY <1>8, <2>1, SameTables DEF vars, tableVars
<1>9. QED
  BY <1>1, <1>2, <1>3, <1>4, <1>5, <1>6, <1>7, <1>8 DEF Next

-----------------------------------------------------------------------------
(* The steps as the registry sees them                                     *)

\* What is wanted after the contribution of a file is replaced: the depots it alone
\* provided go, those it provides first come.
LEMMA ReplacesWanted ==
  ASSUME DepotsInv, NEW f \in Files, NEW s \in Script, NEW mtime \in Nat, Replaces(f, s, mtime)
  PROVE  /\ LastProvided(f) \subseteq AllDepotIds /\ FirstProvided(f, s) \subseteq Depots
         /\ AllDepotIds' = (AllDepotIds \ LastProvided(f)) \cup FirstProvided(f, s)
<1>1. ASSUME NEW d \in Depots
      PROVE  /\ d \in LastProvided(f) => HasDepot(d)
             /\ HasDepot(d)' <=> (HasDepot(d) /\ d \notin LastProvided(f)) \/ d \in FirstProvided(f, s)
  <2>1. depotKeySet'[d] = KeyAfterAdd(KeysWithout(f)[d], s.keys[d])
    BY DEF Replaces
  <2>2. (d \in Listed(s) <=> s.keys[d] # Absent) /\ s.keys[d] \in Keys \cup {NoKey, Absent}
    BY DEF Listed, Script
  <2>3. d \in FirstProvided(f, s) <=> d \in Listed(s) /\ Providers(d) \subseteq {f}
    BY WithoutFile DEF FirstProvided, DepotsInv, DepotsFollowFiles, Listed
  <2>4. HasDepot(d) <=> Providers(d) # {} \/ d \in runtimeIds
    BY DEF DepotsInv, DepotsFollowFiles, WantedIsProvided
  <2>5. d \in LastProvided(f) <=> Providers(d) = {f}
    BY WithoutFile DEF DepotsInv, DepotsFollowFiles
  <2>6. KeysWithout(f)[d] # Absent <=> HasDepot(d) /\ d \notin LastProvided(f)
    BY DEF KeysWithout, HasDepot
  <2>7. HasDepot(d)' <=> KeysWithout(f)[d] # Absent \/ d \in Listed(s)
    BY <2>1, <2>2, KeysAssumption DEF HasDepot, KeyAfterAdd
  <2>8. QED
    BY <2>3, <2>4, <2>5, <2>6, <2>7
<1>2. LastProvided(f) \subseteq Depots /\ FirstProvided(f, s) \subseteq Depots
  BY DEF LastProvided, FirstProvided, Listed, DepotsInv, TypeOK
<1>3. AllDepotIds' = {d \in Depots : HasDepot(d)'}
  BY DEF AllDepotIds
<1>4. QED
  BY <1>1, <1>2, <1>3 DEF AllDepotIds

\* Every step of the tables is one of the registry, or none.
LEMMA StepOfTheRegistry ==
  ASSUME TablesInv, [Next]_vars
  PROVE  [Registry!RegistryNext]_Registry!registryVars
<1> USE DEF Registry!registryVars, Registry!RegistryNext
<1>0. DepotsInv
  BY DEF TablesInv, TablesFollowFiles, SettingsFollowFiles, DepotsInv
<1>1. ASSUME UNCHANGED <<depotKeySet, pendingRemovals, pendingAdditions>>
      PROVE  UNCHANGED <<AllDepotIds, pendingRemovals, pendingAdditions>>
  BY <1>1 DEF AllDepotIds, HasDepot
<1>2. CASE Commit
  <2> DEFINE f == staged.file
  <2> DEFINE s == staged.script
  <2>1. f \in Files /\ s \in Script /\ staged.mtime \in Nat
    BY <1>2 DEF Commit, TablesInv, TablesFollowFiles, TypeOK
  <2>2. Replaces(f, s, staged.mtime)
    BY <1>2 DEF Commit, Replaces
  <2>3. pendingRemovals' = pendingRemovals \cup LastProvided(f) /\ pendingAdditions' = pendingAdditions \cup FirstProvided(f, s)
    BY <1>2 DEF Commit
  <2> HIDE DEF f, s
  <2>4. Registry!Reload(LastProvided(f), FirstProvided(f, s))
    BY <1>0, <2>1, <2>2, <2>3, ReplacesWanted DEF Registry!Reload
  <2>5. LastProvided(f) \in SUBSET Depots /\ FirstProvided(f, s) \in SUBSET Depots
    BY <1>0, <2>1, <2>2, ReplacesWanted DEF AllDepotIds
  <2>6. QED
    BY <2>4, <2>5
<1>3. ASSUME NEW f \in Files, UnloadFile(f)
      PROVE  Registry!RegistryNext
  <2>1. Replaces(f, NoScript, 0) /\ NoScript \in Script /\ FirstProvided(f, NoScript) = {}
    BY <1>3, UnloadReplaces, NoScriptIsEmpty DEF FirstProvided
  <2>2. pendingRemovals' = pendingRemovals \cup LastProvided(f) /\ pendingAdditions' = pendingAdditions
    BY <1>3 DEF UnloadFile
  <2>3. Registry!Reload(LastProvided(f), {}) /\ LastProvided(f) \in SUBSET Depots
    BY <1>0, <2>1, <2>2, ReplacesWanted DEF Registry!Reload, AllDepotIds
  <2>4. QED
    BY <2>3
<1>4. ASSUME NEW d \in Depots, NEW key \in Keys \cup {NoKey}, AddAppIdAtRuntime(d, key)
      PROVE  Registry!RegistryNext
  <2>1. /\ depotKeySet' = [depotKeySet EXCEPT ![d] = KeyAfterAdd(@, key)]
        /\ UNCHANGED <<pendingRemovals, pendingAdditions>>
    BY <1>4 DEF AddAppIdAtRuntime
  <2>2. \A e \in Depots : HasDepot(e)' <=> HasDepot(e) \/ e = d
    BY <1>0, <2>1, KeysAssumption DEF HasDepot, KeyAfterAdd, DepotsInv, TypeOK
  <2>3. AllDepotIds' = AllDepotIds \cup {d}
    BY <2>2 DEF AllDepotIds
  <2>4. Registry!AddUnqueued(d)
    BY <2>1, <2>3 DEF Registry!AddUnqueued
  <2>5. QED
    BY <2>4
<1>5. CASE TakePendingRemovals
  <2>1. AllDepotIds' = AllDepotIds
    BY <1>5 DEF TakePendingRemovals, AllDepotIds, HasDepot
  <2>2. QED
    BY <1>5, <2>1 DEF TakePendingRemovals, Registry!TakeRemovals
<1>6. CASE TakePendingAdditions \/ FinishStartup
  <2>1. ClearPendingAdditions
    BY <1>6 DEF TakePendingAdditions, FinishStartup
  <2>2. AllDepotIds' = AllDepotIds
    BY <2>1 DEF ClearPendingAdditions, AllDepotIds, HasDepot
  <2>3. QED
    BY <2>1, <2>2 DEF ClearPendingAdditions, Registry!TakeAdditions
<1>7. ASSUME NEW f \in Files, NEW s \in Scripts, NEW mtime \in 0 .. MaxTime, RunScript(f, s, mtime)
      PROVE  UNCHANGED <<AllDepotIds, pendingRemovals, pendingAdditions>>
  BY <1>1, <1>7 DEF RunScript, tableVars
<1>8. CASE KeepPrevious
  BY <1>1, <1>8 DEF KeepPrevious, tableVars
<1>9. ASSUME NEW d \in Depots, NEW gid \in Gids, SetManifestIdAtRuntime(d, gid)
      PROVE  UNCHANGED <<AllDepotIds, pendingRemovals, pendingAdditions>>
  BY <1>1, <1>9 DEF SetManifestIdAtRuntime
<1>10. CASE UNCHANGED vars
  BY <1>1, <1>10 DEF vars, tableVars
<1>11. QED
  BY <1>2, <1>3, <1>4, <1>5, <1>6, <1>7, <1>8, <1>9, <1>10 DEF Next

-----------------------------------------------------------------------------
(* Theorems                                                                *)

\* The invariant holds in every reachable state.
LEMMA TablesAlways == Spec => []TablesInv
<1>1. Init => TablesInv
  BY InitTables
<1>2. TablesInv /\ [Next]_vars => TablesInv'
  BY StepKeepsTables
<1>3. QED
  BY <1>1, <1>2, PTL DEF Spec

\* Whatever sequence of loads, reloads, unloads and calls of callbacks led there, every
\* table follows from the files that are loaded: a reference count is the number of files
\* that list the depot, a depot is wanted exactly when one does or a callback added it,
\* no key a loaded file gives is lost, the active pin is the one of the file parsed last
\* and no purchase time is earlier than a provider's file (ParseFile, UnloadFileLocked and
\* RebuildManifestOverride of LuaConfig.cpp).
THEOREM TablesStayRight == Spec => []TablesFollowFiles
<1>1. TablesInv => TablesFollowFiles
  BY DEF TablesInv
<1>2. QED
  BY <1>1, TablesAlways, PTL

\* The tables of a file that contributes something are replaced only by those of a script
\* read to its end: ParseFile throws away the staged operations of a half-saved one.
THEOREM HalfFilesAreRefused == Spec => NoTruncatedReplacement
<1> DEFINE Whole == \A f \in Files :
      (Listed(loaded[f]) \cup Pinned(loaded[f]) # {} /\ loaded'[f] # loaded[f]) => loaded'[f].complete
<1>1. ASSUME TablesInv, [Next]_vars
      PROVE  Whole
  <2>1. CASE Commit
    <3>1. loaded' = [loaded EXCEPT ![staged.file] = staged.script]
          /\ (staged.script.complete \/ ~Tracked(staged.file)) /\ staged.file \in Files
      BY <2>1 DEF Commit
    <3>2. \A f \in Files : Listed(loaded[f]) \cup Pinned(loaded[f]) # {} => Tracked(f)
      BY <1>1 DEF TablesInv, TablesFollowFiles, DepotsFollowFiles, TablesMatchLoaded, Tracked, PinnedBy, Pinned
    <3>3. QED
      BY <1>1, <3>1, <3>2 DEF TablesInv, TablesFollowFiles, TypeOK
  <2>2. ASSUME NEW f \in Files, UnloadFile(f)
        PROVE  Whole
    <3>1. loaded' = [loaded EXCEPT ![f] = NoScript] /\ NoScript.complete
      BY <2>2 DEF UnloadFile, NoScript
    <3>2. QED
      BY <1>1, <3>1 DEF TablesInv, TablesFollowFiles, TypeOK
  <2>3. ASSUME loaded' = loaded
        PROVE  Whole
    BY <2>3
  <2>4. QED
    BY <1>1, <2>1, <2>2, <2>3 DEF Next, RunScript, KeepPrevious, AddAppIdAtRuntime, SetManifestIdAtRuntime,
       TakePendingRemovals, TakePendingAdditions, FinishStartup, ClearPendingAdditions, historyVars, vars
<1>2. TablesInv /\ [Next]_vars => [Whole]_vars
  BY <1>1
<1>3. QED
  BY <1>2, TablesAlways, PTL DEF Spec, NoTruncatedReplacement

\* LuaConfig keeps the promise DepotRegistry states: every depot that a reload makes wanted
\* or unwanted is queued by the same exclusive section of g_stateMutex, and only what a
\* callback adds is not.
THEOREM TablesImplementTheRegistry == Spec => ImplementsRegistry
<1>1. Init => Registry!RegistryInit
  BY DEF Init, Registry!RegistryInit, AllDepotIds, HasDepot
<1>2. TablesInv /\ [Next]_vars => [Registry!RegistryNext]_Registry!registryVars
  BY StepOfTheRegistry
<1>3. QED
  BY <1>1, <1>2, TablesAlways, PTL DEF Spec, ImplementsRegistry, Registry!RegistrySpec
=============================================================================
