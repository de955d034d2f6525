---------------------------- MODULE GamesProofs ----------------------------
(***************************************************************************)
(* Proofs about Games, for every set of pids and games, every number of    *)
(* processes, threads and calls, and every set of sites and libraries: what *)
(* the processes are told (OnlineFix), how they are attributed and injected *)
(* (Handshakes), the breakpoints (Traps) and the inside of an injection     *)
(* (RemoteLibrary).                                                         *)
(***************************************************************************)
EXTENDS Games, TLAPS

-----------------------------------------------------------------------------
(* What is known about processes                                           *)

AppIds == Games \cup {NoId}
PipeIds == Games \cup {NoId, FixId}
Process ==
  [born : Nat, kind : {"none", "game", "steam", "child"}, app : AppIds, id : PipeIds, env : PipeIds,
   bound : BOOLEAN, keep : BOOLEAN, alone : BOOLEAN, p2p : BOOLEAN, told : PipeIds, named : AppIds]
ServerSteps == {"idle", "look up", "inspect", "environment", "remember", "resolve", "apply", "post"}
ServerState ==
  [step : ServerSteps, pid : Pids \cup {0}, time : Nat, of : Nat, env : PipeIds, app : PipeIds]

FixTypes ==
  /\ realAppId \in AppIds /\ netSockets \in BOOLEAN /\ suppress \in BOOLEAN
  /\ spawning \in Process /\ processes \in [Pids -> Process] /\ births \in 0 .. MaxBirths
  /\ handlers \subseteq OurMethods

ServerTypes == ipc \in ServerState /\ (ipc.step # "idle" => ipc.pid \in Pids)

\* A creation time a process has had: none that appears from now on will have it.
Seen(time) == time <= births /\ (time = spawning.born => time = 0)

\* Creation times tell processes apart.
BirthInv ==
  /\ spawning = Nobody \/ spawning.born # 0
  /\ spawning.born <= births
  /\ \A pid \in Pids : Seen(processes[pid].born)
  /\ \A pid, other \in Pids : processes[pid].born = processes[other].born /\ pid # other => processes[pid].born = 0

\* A process runs under its own id or under 480.
OwnId(process) == process.id \in {process.app, FixId}
IdInv == OwnId(spawning) /\ \A pid \in Pids : OwnId(processes[pid])

\* The globals are about this process, and so is what it was told.
KnownTo(process) ==
  /\ process.kind = "game"
  /\ process.id = FixId => realAppId = process.app /\ suppress = process.keep /\ netSockets = process.p2p
  /\ process.id # FixId => realAppId = NoId
  /\ process.app \in Games
  /\ (process.told # NoId /\ process.app \in Listed /\ "GetAppID" \in handlers) => process.told = Expected(process)
  /\ process.named \in {NoId, process.app}

\* They are about a game that no other was launched with, as long as none is launched.
AloneInv ==
  /\ spawning.alone => Launched = {} /\ KnownTo(spawning)
  /\ \A pid \in Pids : processes[pid].alone => /\ Launched = {pid} /\ spawning = Nobody
                                               /\ KnownTo(processes[pid])

FixInv == FixTypes /\ BirthInv /\ IdInv /\ AloneInv /\ OthersKeepTheirErrors

\* Nobody is a process.
LEMMA NobodyIsTyped == Nobody \in Process /\ Nobody.born = 0 /\ ~Nobody.alone /\ Nobody.kind = "none" /\ OwnId(Nobody)
  BY DEF Nobody, Process, AppIds, PipeIds, OwnId

\* At first there are no processes.
LEMMA InitFix ==
  ASSUME HandshakesInit
  PROVE  FixInv /\ ServerTypes
<1> USE NobodyIsTyped DEF HandshakesInit, OnlineFixInit
<1>1. FixTypes
  <2>1. handlers \subseteq OurMethods
    BY DEF RegisterHandlers
  <2>2. 0 \in 0 .. MaxBirths
    BY OnlineFixAssumption
  <2>3. QED
    BY <2>1, <2>2 DEF FixTypes, AppIds
<1>2. BirthInv
  BY DEF BirthInv, Seen
<1>3. IdInv /\ AloneInv /\ OthersKeepTheirErrors
  BY DEF IdInv, AloneInv, OthersKeepTheirErrors
<1>4. ServerTypes
  BY DEF ServerTypes, ServerState, ServerSteps, Idle, PipeIds
<1>5. QED
  BY <1>1, <1>2, <1>3, <1>4 DEF FixInv

\* A process that no step of others touches stays what it is.
LEMMA SameProcesses ==
  ASSUME FixInv, UNCHANGED fixVars
  PROVE  FixInv'
<1> USE DEF FixInv, fixVars
<1>1. FixTypes' /\ BirthInv' /\ IdInv' /\ OthersKeepTheirErrors'
  BY DEF FixTypes, BirthInv, Seen, IdInv, OthersKeepTheirErrors
<1>2. AloneInv'
  BY DEF AloneInv, KnownTo, Launched
<1>3. QED
  BY <1>1, <1>2

\* A game is spawned: the globals are about it.
LEMMA SpawnKeepsFix ==
  ASSUME FixInv, NEW g \in Games, NEW fix \in BOOLEAN, NEW keep \in BOOLEAN, OnSpawnProcessHit(g, fix, keep)
  PROVE  FixInv'
<1> USE DEF FixInv
<1> DEFINE process == [Nobody EXCEPT !.born = births + 1, !.kind = "game", !.app = g,
                         !.id = IF fix THEN FixId ELSE g, !.keep = fix /\ keep, !.alone = (Launched = {})]
<1>1. /\ spawning = Nobody /\ births < MaxBirths /\ births' = births + 1 /\ births \in Nat
      /\ realAppId' = (IF fix THEN g ELSE NoId) /\ suppress' = (fix /\ keep)
      /\ netSockets' = (netSockets /\ ~fix)
      /\ spawning' = process
      /\ processes' = [pid \in Pids |-> [processes[pid] EXCEPT !.alone = FALSE]]
      /\ UNCHANGED <<handlers, masked>>
  BY DEF OnSpawnProcessHit, SocketsAfter, FixTypes
<1>2. /\ process \in Process /\ process.born = births + 1 /\ process.kind = "game" /\ process.app = g
      /\ process.id = (IF fix THEN FixId ELSE g) /\ process.keep = (fix /\ keep) /\ process.p2p = FALSE
      /\ process.alone = (Launched = {}) /\ process.told = NoId /\ process.named = NoId
  <2> DEFINE kept == fix /\ keep
  <2> DEFINE alone == Launched = {}
  <2> DEFINE id == IF fix THEN FixId ELSE g
  <2>1. kept \in BOOLEAN /\ alone \in BOOLEAN
    BY Zenon
  <2>2. births + 1 \in Nat /\ id \in PipeIds
    BY <1>1 DEF PipeIds
  <2>3. process = [Nobody EXCEPT !.born = births + 1, !.kind = "game", !.app = g, !.id = id, !.keep = kept, !.alone = alone]
    BY Zenon
  <2> HIDE DEF kept, alone, id, process
  <2>4. /\ process \in Process /\ process.born = births + 1 /\ process.kind = "game" /\ process.app = g
        /\ process.id = id /\ process.keep = kept /\ process.alone = alone
        /\ process.p2p = FALSE /\ process.told = NoId /\ process.named = NoId
    BY <1>1, <2>1, <2>2, <2>3 DEF Nobody, Process, AppIds, PipeIds
  <2>5. QED
    BY <2>4, Zenon DEF kept, alone, id
<1> HIDE DEF process
<1>3. \A pid \in Pids : /\ processes'[pid] \in Process /\ processes'[pid].alone = FALSE
                        /\ processes'[pid].born = processes[pid].born /\ processes'[pid].kind = processes[pid].kind
                        /\ processes'[pid].id = processes[pid].id /\ processes'[pid].app = processes[pid].app
  BY <1>1 DEF FixTypes, Process
<1>4. FixTypes'
  BY <1>1, <1>2, <1>3, OnlineFixAssumption DEF FixTypes, AppIds
<1>5. BirthInv'
  BY <1>1, <1>2, <1>3 DEF BirthInv, Seen, FixTypes, Process
<1>6. IdInv'
  BY <1>1, <1>2, <1>3 DEF IdInv, OwnId
<1>7. AloneInv'
  <2>1. Launched' = Launched
    BY <1>3 DEF Launched
  <2>2. KnownTo(spawning)'
    BY <1>1, <1>2, OnlineFixAssumption DEF KnownTo
  <2>3. QED
    BY <1>1, <1>2, <1>3, <2>1, <2>2 DEF AloneInv
<1>8. QED
  BY <1>1, <1>4, <1>5, <1>6, <1>7 DEF OthersKeepTheirErrors

\* What is spawned gets a pid: nothing else about it changes but its environment.
LEMMA BuildKeepsFix ==
  ASSUME FixInv, NEW pid \in Pids, BuildSpawnEnvBlock(pid)
  PROVE  FixInv'
<1> USE DEF FixInv
<1> DEFINE env == IF IsFix(spawning) /\ realAppId # NoId THEN realAppId ELSE spawning.id
<1> DEFINE process == [spawning EXCEPT !.env = env]
<1>1. /\ spawning # Nobody /\ processes[pid].born = 0
      /\ processes' = [processes EXCEPT ![pid] = process]
      /\ spawning' = Nobody
      /\ UNCHANGED <<realAppId, netSockets, suppress, births, handlers, masked>>
  BY DEF BuildSpawnEnvBlock, Alive
<1>2. env \in PipeIds
  BY DEF FixTypes, AppIds, PipeIds, Process
<1> HIDE DEF env
<1>3. /\ process \in Process /\ process.born = spawning.born /\ process.kind = spawning.kind /\ process.app = spawning.app
      /\ process.id = spawning.id /\ process.keep = spawning.keep /\ process.p2p = spawning.p2p
      /\ process.alone = spawning.alone /\ process.told = spawning.told /\ process.named = spawning.named
  BY <1>2 DEF FixTypes, Process
<1> HIDE DEF process
<1>4. /\ processes' \in [Pids -> Process] /\ processes'[pid] = process
      /\ \A other \in Pids : other # pid => processes'[other] = processes[other]
  BY <1>1, <1>3 DEF FixTypes
<1>5. FixTypes'
  BY <1>1, <1>4, NobodyIsTyped DEF FixTypes
<1>6. BirthInv'
  BY <1>1, <1>3, <1>4, NobodyIsTyped DEF BirthInv, Seen, FixTypes, Process
<1>7. IdInv'
  BY <1>1, <1>3, <1>4, NobodyIsTyped DEF IdInv, OwnId
<1>8. AloneInv'
  <2>1. ~spawning'.alone
    BY <1>1, NobodyIsTyped
  <2>2. ASSUME NEW other \in Pids, processes'[other].alone
        PROVE  Launched' = {other} /\ spawning' = Nobody /\ KnownTo(processes[other])'
    <3>1. other = pid
      BY <1>1, <1>4, <2>2 DEF AloneInv
    <3>2. Launched = {} /\ KnownTo(spawning)
      BY <1>3, <1>4, <2>2, <3>1 DEF AloneInv
    <3>3. KnownTo(processes[pid])'
      <4>1. /\ processes'[pid].kind = spawning.kind /\ processes'[pid].app = spawning.app
            /\ processes'[pid].id = spawning.id /\ processes'[pid].keep = spawning.keep
            /\ processes'[pid].p2p = spawning.p2p /\ processes'[pid].told = spawning.told
            /\ processes'[pid].named = spawning.named
        BY <1>3, <1>4
      <4>2. UNCHANGED <<realAppId, netSockets, suppress, handlers>>
        BY <1>1
      <4>3. QED
        BY ONLY <3>2, <4>1, <4>2 DEF KnownTo, Expected, IsFix
    <3>4. Launched' = {pid}
      BY <1>3, <1>4, <3>2 DEF Launched, KnownTo
    <3>5. QED
      BY <1>1, <3>1, <3>3, <3>4
  <2>3. QED
    BY <2>1, <2>2 DEF AloneInv
<1>9. QED
  BY <1>1, <1>5, <1>6, <1>7, <1>8 DEF OthersKeepTheirErrors

\* A process that appears is no game Steam spawned.
LEMMA AppearKeepsFix ==
  ASSUME FixInv, NEW pid \in Pids, NEW kind \in {"steam", "child"}, NEW app \in AppIds, Appear(pid, kind, app)
  PROVE  FixInv'
<1> USE DEF FixInv
<1> DEFINE process == [Nobody EXCEPT !.born = births + 1, !.kind = kind, !.app = app, !.id = app]
<1>1. /\ processes[pid].born = 0 /\ births < MaxBirths /\ births' = births + 1 /\ births \in Nat
      /\ processes' = [processes EXCEPT ![pid] = process]
      /\ UNCHANGED <<realAppId, netSockets, suppress, spawning, handlers, masked>>
  BY DEF Appear, Alive, FixTypes
<1>2. /\ process \in Process /\ process.born = births + 1 /\ process.kind = kind /\ process.app = app
      /\ process.id = app /\ process.alone = FALSE
  <2>1. births + 1 \in Nat /\ app \in PipeIds /\ kind \in {"none", "game", "steam", "child"}
    BY <1>1 DEF AppIds, PipeIds
  <2>2. process \in Process
    BY <2>1 DEF Nobody, Process, AppIds, PipeIds
  <2>3. QED
    BY <2>2 DEF Nobody
<1> HIDE DEF process
<1>3. /\ processes' \in [Pids -> Process] /\ processes'[pid] = process
      /\ \A other \in Pids : other # pid => processes'[other] = processes[other]
  BY <1>1, <1>2 DEF FixTypes
<1>4. FixTypes'
  BY <1>1, <1>3, OnlineFixAssumption DEF FixTypes
<1>5. BirthInv'
  BY <1>1, <1>2, <1>3 DEF BirthInv, Seen, FixTypes, Process
<1>6. IdInv'
  BY <1>1, <1>2, <1>3 DEF IdInv, OwnId
<1>7. AloneInv'
  <2>1. Launched' = Launched \ {pid}
    BY <1>2, <1>3 DEF Launched
  <2>2. \A other \in Pids : processes'[other].alone => other # pid
    BY <1>2, <1>3
  <2>3. QED
    BY <1>1, <1>3, <2>1, <2>2 DEF AloneInv, KnownTo, Expected, IsFix
<1>8. QED
  BY <1>1, <1>4, <1>5, <1>6, <1>7 DEF OthersKeepTheirErrors

\* A process ends.
LEMMA EndKeepsFix ==
  ASSUME FixInv, NEW pid \in Pids, End(pid)
  PROVE  FixInv'
<1> USE DEF FixInv
<1>1. /\ processes' = [processes EXCEPT ![pid] = Nobody]
      /\ UNCHANGED <<realAppId, netSockets, suppress, spawning, births, handlers, masked>>
  BY DEF End
<1>2. /\ processes' \in [Pids -> Process] /\ processes'[pid] = Nobody
      /\ \A other \in Pids : other # pid => processes'[other] = processes[other]
  BY <1>1, NobodyIsTyped DEF FixTypes
<1>3. FixTypes' /\ IdInv'
  BY <1>1, <1>2, NobodyIsTyped DEF FixTypes, IdInv, OwnId
<1>4. BirthInv'
  BY <1>1, <1>2, NobodyIsTyped DEF BirthInv, Seen, FixTypes, Process
<1>5. AloneInv'
  <2>1. Launched' = Launched \ {pid}
    BY <1>2, NobodyIsTyped DEF Launched
  <2>2. \A other \in Pids : processes'[other].alone => other # pid
    BY <1>2, NobodyIsTyped
  <2>3. QED
    BY <1>1, <1>2, <2>1, <2>2 DEF AloneInv, KnownTo, Expected, IsFix
<1>6. QED
  BY <1>1, <1>3, <1>4, <1>5 DEF OthersKeepTheirErrors

-----------------------------------------------------------------------------
(* What processes are told                                                 *)

\* The processes are the ones they were.
SameIdentities ==
  /\ processes' \in [Pids -> Process]
  /\ \A pid \in Pids : /\ processes'[pid].born = processes[pid].born /\ processes'[pid].kind = processes[pid].kind
                       /\ processes'[pid].app = processes[pid].app /\ processes'[pid].id = processes[pid].id
                       /\ processes'[pid].keep = processes[pid].keep /\ processes'[pid].alone = processes[pid].alone
  /\ UNCHANGED <<realAppId, suppress, spawning, births, handlers>>

\* If they are, all a step can get wrong is what is known about a game that is alone.
LEMMA SameIdentitiesKeepFix ==
  ASSUME FixInv, SameIdentities, netSockets' \in BOOLEAN, OthersKeepTheirErrors',
         netSockets' = netSockets \/ Launched # {},
         \A pid \in Pids : processes[pid].alone => KnownTo(processes[pid])'
  PROVE  FixInv'
<1> USE DEF FixInv, SameIdentities
<1>1. FixTypes' /\ IdInv'
  BY DEF FixTypes, IdInv, OwnId
<1>2. BirthInv'
  BY DEF BirthInv, Seen
<1>3. Launched' = Launched
  BY DEF Launched
<1>4. spawning.alone => KnownTo(spawning)'
  BY DEF AloneInv, KnownTo, Expected, IsFix
<1>5. AloneInv'
  BY <1>3, <1>4 DEF AloneInv
<1>6. QED
  BY <1>1, <1>2, <1>5

\* A process has been told nothing new.
SameAsTold(pid) ==
  /\ processes'[pid].p2p = processes[pid].p2p /\ processes'[pid].told = processes[pid].told
  /\ processes'[pid].named = processes[pid].named

\* A process whose own fields and whose game's globals stay keeps what is known about it.
LEMMA SameAsToldIsKnown ==
  ASSUME FixInv, SameIdentities, netSockets' = netSockets, NEW pid \in Pids, processes[pid].alone, SameAsTold(pid)
  PROVE  KnownTo(processes[pid])'
<1>1. KnownTo(processes[pid])
  BY DEF FixInv, AloneInv
<1>2. QED
  BY <1>1 DEF SameIdentities, SameAsTold, KnownTo, Expected, IsFix

\* The pipe of a process is bound.
LEMMA BindKeepsFix ==
  ASSUME FixInv, NEW pid \in Pids, Bind(pid)
  PROVE  FixInv'
<1>1. /\ processes' = [processes EXCEPT ![pid].bound = TRUE]
      /\ UNCHANGED <<realAppId, netSockets, suppress, spawning, births, handlers, masked>>
  BY DEF Bind
<1>2. SameIdentities /\ \A other \in Pids : SameAsTold(other)
  BY <1>1 DEF SameIdentities, SameAsTold, FixInv, FixTypes, Process
<1>3. QED
  BY <1>1, <1>2, SameIdentitiesKeepFix, SameAsToldIsKnown DEF FixInv, FixTypes, OthersKeepTheirErrors

\* Games under 480 are announced under the name of the game the globals are about.
LEMMA AnnounceKeepsFix ==
  ASSUME FixInv, Announce
  PROVE  FixInv'
<1>1. /\ processes' = [pid \in Pids |->
           IF processes[pid].kind = "game" /\ IsFix(processes[pid])
           THEN [processes[pid] EXCEPT !.named = realAppId] ELSE processes[pid]]
      /\ UNCHANGED <<realAppId, netSockets, suppress, spawning, births, handlers, masked>>
  BY DEF Announce
<1>2. SameIdentities
  BY <1>1 DEF SameIdentities, FixInv, FixTypes, Process
<1>3. ASSUME NEW pid \in Pids, processes[pid].alone
      PROVE  KnownTo(processes[pid])'
  <2>1. KnownTo(processes[pid])
    BY <1>3 DEF FixInv, AloneInv
  <2>2. processes'[pid].named \in {NoId, processes[pid].app}
    BY <1>1, <2>1 DEF KnownTo, IsFix, FixInv, FixTypes, Process
  <2>3. processes'[pid].p2p = processes[pid].p2p /\ processes'[pid].told = processes[pid].told
    BY <1>1 DEF FixInv, FixTypes, Process
  <2>4. QED
    BY <1>1, <1>2, <2>1, <2>2, <2>3 DEF SameIdentities, KnownTo, Expected, IsFix
<1>4. QED
  BY <1>1, <1>2, <1>3, SameIdentitiesKeepFix DEF FixInv, FixTypes, OthersKeepTheirErrors

\* A game uses peer-to-peer: if it is alone, the globals now say so.
LEMMA UseSocketsKeepsFix ==
  ASSUME FixInv, NEW pid \in Pids, UseSockets(pid)
  PROVE  FixInv'
<1>1. /\ processes[pid].kind = "game"
      /\ netSockets' = (netSockets \/ (realAppId # NoId /\ ~ShouldReportOnlineFixAppId))
      /\ processes' = [processes EXCEPT ![pid] = [processes[pid] EXCEPT !.p2p = TRUE, !.told = NoId]]
      /\ UNCHANGED <<realAppId, suppress, spawning, births, handlers, masked>>
  BY DEF UseSockets, Becomes
<1>2. [processes[pid] EXCEPT !.p2p = TRUE, !.told = NoId] \in Process
  BY DEF FixInv, FixTypes, Process, PipeIds
<1>3. SameIdentities /\ processes'[pid].p2p = TRUE /\ processes'[pid].told = NoId
      /\ processes'[pid].named = processes[pid].named
  BY <1>1, <1>2 DEF SameIdentities, FixInv, FixTypes, Process
<1>4. netSockets' \in BOOLEAN /\ (realAppId # NoId => netSockets')
  BY <1>1 DEF ShouldReportOnlineFixAppId, FixInv, FixTypes
<1>5. Launched # {}
  BY <1>1 DEF Launched
<1>6. ASSUME NEW other \in Pids, processes[other].alone
      PROVE  KnownTo(processes[other])'
  <2>1. KnownTo(processes[other]) /\ other = pid
    BY <1>1, <1>6 DEF FixInv, AloneInv, Launched
  <2>2. processes[other].id = FixId => netSockets'
    BY <1>4, <2>1, OnlineFixAssumption DEF KnownTo
  <2>3. QED
    BY <1>1, <1>3, <2>1, <2>2 DEF SameIdentities, KnownTo
<1>7. QED
  BY <1>1, <1>3, <1>4, <1>5, <1>6, SameIdentitiesKeepFix DEF FixInv, OthersKeepTheirErrors

\* A process is told an id: for one that is alone, the one that is expected.
LEMMA AnswerKeepsFix ==
  ASSUME FixInv, NEW pid \in Pids, NEW id \in PipeIds, Answers(pid, id),
         UNCHANGED <<realAppId, netSockets, suppress, spawning, births, handlers, masked>>,
         (processes[pid].alone /\ id # NoId /\ processes[pid].app \in Listed /\ "GetAppID" \in handlers)
           => id = Expected(processes[pid])
  PROVE  FixInv'
<1>1. processes' = [processes EXCEPT ![pid] = [processes[pid] EXCEPT !.told = id]]
  BY DEF Answers, Becomes
<1>2. [processes[pid] EXCEPT !.told = id] \in Process
  BY DEF FixInv, FixTypes, Process
<1>3. /\ SameIdentities /\ processes'[pid].told = id
      /\ \A other \in Pids : /\ other # pid => processes'[other].told = processes[other].told
                             /\ processes'[other].p2p = processes[other].p2p
                             /\ processes'[other].named = processes[other].named
  BY <1>1, <1>2 DEF SameIdentities, FixInv, FixTypes, Process
<1>4. ASSUME NEW other \in Pids, processes[other].alone
      PROVE  KnownTo(processes[other])'
  <2>1. KnownTo(processes[other])
    BY <1>4 DEF FixInv, AloneInv
  <2>2. (processes'[other].told # NoId /\ processes[other].app \in Listed /\ "GetAppID" \in handlers)
           => processes'[other].told = Expected(processes[other])
    BY <1>3, <1>4, <2>1 DEF KnownTo
  <2>3. QED
    BY <1>3, <2>1, <2>2 DEF SameIdentities, KnownTo, Expected, IsFix
<1>5. QED
  BY <1>3, <1>4, SameIdentitiesKeepFix DEF FixInv, FixTypes, OthersKeepTheirErrors

\* What the pipe of a process is bound to, and what its calls are resolved to.
LEMMA PipeIdIsOwn ==
  ASSUME FixInv, NEW pid \in Pids
  PROVE  /\ PipeAppId(pid) \in {NoId, processes[pid].id} /\ PipeAppId(pid) \in PipeIds /\ ResolveAppId(pid) \in PipeIds
         /\ PipeAppId(pid) \in Listed => processes[pid].app = PipeAppId(pid)
  BY OnlineFixAssumption DEF FixInv, FixTypes, IdInv, OwnId, PipeAppId, ResolveAppId, Process, PipeIds, AppIds

\* Steam answers GetAppID itself if no handler takes the call.
LEMMA GetAppIDKeepsFix ==
  ASSUME FixInv, NEW pid \in Pids, GetAppID(pid)
  PROVE  FixInv'
<1>1. /\ processes[pid].bound
      /\ UNCHANGED <<realAppId, netSockets, suppress, spawning, births, handlers, masked>>
  BY DEF GetAppID
<1>2. CASE Handled(pid, "GetAppID")
  BY <1>1, <1>2, SameProcesses DEF GetAppID, fixVars
<1>3. CASE ~Handled(pid, "GetAppID")
  <2>1. Answers(pid, PipeAppId(pid))
    BY <1>3 DEF GetAppID
  <2>2. ASSUME processes[pid].alone, processes[pid].app \in Listed, "GetAppID" \in handlers
        PROVE  FALSE
    <3>1. KnownTo(processes[pid]) /\ OwnId(processes[pid])
      BY <2>2 DEF FixInv, AloneInv, IdInv
    <3>2. ResolveAppId(pid) = processes[pid].app
      BY <1>1, <2>2, <3>1, OnlineFixAssumption DEF KnownTo, OwnId, ResolveAppId, PipeAppId
    <3>3. QED
      BY <1>3, <2>2, <3>2 DEF Handled
  <2>3. QED
    BY <1>1, <2>1, <2>2, PipeIdIsOwn, AnswerKeepsFix
<1>4. QED
  BY <1>2, <1>3

\* The handler answers, for what the globals and the pipe say by then.
LEMMA PostKeepsFix ==
  ASSUME FixInv, ServerTypes, PostGetAppID
  PROVE  FixInv'
<1> DEFINE pid == ipc.pid
<1> DEFINE id == IF ShouldReportOnlineFixAppId \/ ResolveAppId(pid) = NoId THEN PipeAppId(pid) ELSE ResolveAppId(pid)
<1>1. /\ pid \in Pids
      /\ UNCHANGED <<realAppId, netSockets, suppress, spawning, births, handlers, masked>>
  BY DEF PostGetAppID, ServerTypes
<1>2. CASE processes[pid].born # ipc.time
  BY <1>1, <1>2, SameProcesses DEF PostGetAppID, fixVars
<1>3. CASE processes[pid].born = ipc.time
  <2>1. Answers(pid, id)
    BY <1>3 DEF PostGetAppID
  <2>2. id \in PipeIds
    BY <1>1, PipeIdIsOwn
  <2>3. ASSUME processes[pid].alone, id # NoId
        PROVE  id = Expected(processes[pid])
    <3>1. KnownTo(processes[pid]) /\ OwnId(processes[pid])
      BY <1>1, <2>3 DEF FixInv, AloneInv, IdInv
    <3>2. PipeAppId(pid) \in {NoId, processes[pid].id}
      BY <1>1, PipeIdIsOwn
    <3>3. CASE processes[pid].id = FixId
      <4>1. /\ realAppId = processes[pid].app /\ realAppId # NoId
            /\ ShouldReportOnlineFixAppId <=> processes[pid].p2p /\ ~processes[pid].keep
        BY <3>1, <3>3, OnlineFixAssumption DEF KnownTo, ShouldReportOnlineFixAppId
      <4>2. ResolveAppId(pid) = processes[pid].app
        BY <4>1 DEF ResolveAppId
      <4>3. QED
        BY <2>3, <3>2, <3>3, <4>1, <4>2 DEF Expected, IsFix
    <3>4. CASE processes[pid].id # FixId
      <4>1. realAppId = NoId /\ processes[pid].id = processes[pid].app
        BY <3>1, <3>4 DEF KnownTo, OwnId
      <4>2. QED
        BY <2>3, <3>2, <3>4, <4>1 DEF Expected, IsFix, ShouldReportOnlineFixAppId, ResolveAppId
    <3>5. QED
      BY <3>3, <3>4
  <2> HIDE DEF pid, id
  <2>4. QED
    BY <1>1, <2>1, <2>2, <2>3, AnswerKeepsFix
<1>4. QED
  BY <1>2, <1>3

\* A Workshop call fails: only a game of the scripts, and only for want of rights, is told
\* otherwise.
LEMMA WorkshopKeepsFix ==
  ASSUME FixInv, NEW pid \in Pids, NEW result \in {"denied", "timeout"}, WorkshopFails(pid, result)
  PROVE  FixInv'
<1>1. UNCHANGED <<realAppId, netSockets, suppress, spawning, processes, births, handlers>>
  BY DEF WorkshopFails
<1>2. OthersKeepTheirErrors'
  <2>1. CASE masked' = masked
    BY <2>1 DEF FixInv, OthersKeepTheirErrors
  <2>2. CASE masked' = masked \cup {<<processes[pid].app, result>>} /\ ShouldOverrideUgcResult(OverriddenFor(pid), result)
    <3>1. processes[pid].app \in Listed /\ result = "denied"
      BY <2>2, PipeIdIsOwn DEF ShouldOverrideUgcResult, OverriddenFor
    <3>2. QED
      BY <2>2, <3>1 DEF FixInv, OthersKeepTheirErrors
  <2>3. QED
    BY <2>1, <2>2 DEF WorkshopFails
<1>3. SameIdentities /\ \A other \in Pids : SameAsTold(other)
  BY <1>1 DEF SameIdentities, SameAsTold, FixInv, FixTypes
<1>4. QED
  BY <1>1, <1>2, <1>3, SameIdentitiesKeepFix, SameAsToldIsKnown DEF FixInv, FixTypes

-----------------------------------------------------------------------------
(* Handshakes                                                              *)

\* The snapshots are of processes that have been seen, and right about a live one.
SnapshotInv ==
  /\ inspected \subseteq [pid : Pids, time : Nat, of : Nat, env : PipeIds]
  /\ \A e \in inspected : e.time # 0 /\ Seen(e.time)
  /\ CachedSnapshotsAreRight

\* The handshake under way has seen a process; what it read is of that process if it is
\* still there.
HandshakeInv ==
  /\ Seen(ipc.time)
  /\ (ipc.step = "remember" /\ ipc.time # 0 /\ ipc.time = processes[ipc.pid].born) => ipc.of = ipc.time
  /\ ipc.step \in {"resolve", "apply"} => ipc.time # 0

\* A process has had the library loaded once or not at all, as its key says, unless a
\* handshake that was not its own did that.
Key(pid, time) == [pid |-> pid, time |-> time]
LoadedAsClaimed(pid) ==
  LET born == processes[pid].born IN
  (born # 0 /\ born \notin strayed) => attempts[born] = (IF Key(pid, born) \in injected THEN 1 ELSE 0)
InjectionInv ==
  /\ injected \subseteq [pid : Pids, time : Nat]
  /\ \A key \in injected : Seen(key.time)
  /\ attempts \in [1 .. MaxBirths -> Nat]
  /\ \A born \in 1 .. MaxBirths : ~Seen(born) => attempts[born] = 0
  /\ served \subseteq 1 .. MaxBirths
  /\ \A pid \in Pids : LoadedAsClaimed(pid)
  /\ LoadedOnce

HandInv == ServerTypes /\ SnapshotInv /\ HandshakeInv /\ InjectionInv

\* Nothing has connected at first.
LEMMA InitHand ==
  ASSUME HandshakesInit
  PROVE  HandInv
<1>1. /\ inspected = {} /\ injected = {} /\ served = {} /\ strayed = {} /\ ipc = Idle
      /\ attempts = [born \in 1 .. MaxBirths |-> 0]
      /\ processes = [pid \in Pids |-> Nobody] /\ spawning = Nobody /\ births = 0
  BY DEF HandshakesInit, OnlineFixInit
<1>2. ServerTypes
  BY InitFix
<1>3. SnapshotInv
  BY <1>1 DEF SnapshotInv, CachedSnapshotsAreRight
<1>4. HandshakeInv
  BY <1>1 DEF HandshakeInv, Idle, Seen
<1>5. InjectionInv
  BY <1>1, NobodyIsTyped DEF InjectionInv, LoadedAsClaimed, LoadedOnce
<1>6. QED
  BY <1>2, <1>3, <1>4, <1>5 DEF HandInv

\* Who is there after a step of the processes was there before, or nobody has seen it.
Newcomers ==
  /\ \A time \in Nat : Seen(time) => Seen(time)'
  /\ \A pid \in Pids : \/ processes'[pid].born \in {0, processes[pid].born}
                       \/ processes'[pid].born \in 1 .. MaxBirths /\ ~Seen(processes'[pid].born)

\* The steps of Steam's threads and of the processes.
ProcessStep ==
  \/ \E g \in Games, fix, keep \in BOOLEAN : OnSpawnProcessHit(g, fix, keep)
  \/ \E pid \in Pids : BuildSpawnEnvBlock(pid)
  \/ \E pid \in Pids, kind \in {"steam", "child"}, app \in AppIds : Appear(pid, kind, app)
  \/ \E pid \in Pids : End(pid)
  \/ \E pid \in Pids : Bind(pid)
  \/ Announce
  \/ \E pid \in Pids : Call(pid)
  \/ PostGetAppID

\* Each keeps what is known about processes.
LEMMA ProcessStepKeepsFix ==
  ASSUME FixInv, ServerTypes, ProcessStep
  PROVE  FixInv'
  BY SpawnKeepsFix, BuildKeepsFix, AppearKeepsFix, EndKeepsFix, BindKeepsFix, AnnounceKeepsFix,
     UseSocketsKeepsFix, GetAppIDKeepsFix, WorkshopKeepsFix, PostKeepsFix DEF ProcessStep, Call

\* A creation time is given to one process only.
LEMMA ProcessStepIsNew ==
  ASSUME FixInv, ServerTypes, ProcessStep
  PROVE  Newcomers
<1> USE DEF FixInv
<1>1. ASSUME NEW g \in Games, NEW fix \in BOOLEAN, NEW keep \in BOOLEAN, OnSpawnProcessHit(g, fix, keep)
      PROVE  Newcomers
  <2>1. /\ births' = births + 1 /\ births \in Nat /\ spawning = Nobody /\ spawning'.born = births + 1
        /\ \A pid \in Pids : processes'[pid].born = processes[pid].born
    BY <1>1 DEF OnSpawnProcessHit, FixTypes, Process, Nobody
  <2>2. QED
    BY <2>1, NobodyIsTyped DEF Newcomers, Seen
<1>2. ASSUME NEW pid \in Pids, BuildSpawnEnvBlock(pid)
      PROVE  Newcomers
  <2>1. /\ births' = births /\ spawning' = Nobody /\ processes'[pid].born = spawning.born
        /\ \A other \in Pids : other # pid => processes'[other].born = processes[other].born
    BY <1>2 DEF BuildSpawnEnvBlock, FixTypes, Process
  <2>2. spawning.born # 0 /\ spawning.born <= births /\ spawning.born \in Nat /\ births <= MaxBirths
    BY <1>2 DEF BuildSpawnEnvBlock, BirthInv, FixTypes, Process
  <2>3. \A time \in Nat : Seen(time) => Seen(time)'
    BY <2>1, NobodyIsTyped DEF Seen
  <2>4. spawning.born \in 1 .. MaxBirths /\ ~Seen(spawning.born)
    BY <2>2, OnlineFixAssumption DEF Seen, FixTypes
  <2>5. QED
    BY <2>1, <2>3, <2>4 DEF Newcomers
<1>3. ASSUME NEW pid \in Pids, NEW kind \in {"steam", "child"}, NEW app \in AppIds, Appear(pid, kind, app)
      PROVE  Newcomers
  <2>1. /\ births' = births + 1 /\ births \in Nat /\ births < MaxBirths /\ spawning' = spawning
        /\ processes'[pid].born = births + 1
        /\ \A other \in Pids : other # pid => processes'[other].born = processes[other].born
    BY <1>3 DEF Appear, FixTypes, Process, Nobody
  <2>2. QED
    BY <2>1, OnlineFixAssumption DEF Newcomers, Seen
<1>4. ASSUME NEW pid \in Pids, End(pid)
      PROVE  Newcomers
  <2>1. /\ births' = births /\ spawning' = spawning /\ processes'[pid].born = 0
        /\ \A other \in Pids : other # pid => processes'[other].born = processes[other].born
    BY <1>4, NobodyIsTyped DEF End, FixTypes
  <2>2. QED
    BY <2>1 DEF Newcomers, Seen
<1>5. ASSUME births' = births, spawning' = spawning, \A pid \in Pids : processes'[pid].born = processes[pid].born
      PROVE  Newcomers
  BY <1>5 DEF Newcomers, Seen
<1>6. ASSUME NEW pid \in Pids, Bind(pid)
      PROVE  Newcomers
  BY <1>5, <1>6 DEF Bind, FixTypes, Process
<1>7. CASE Announce
  <2>1. \A pid \in Pids : processes'[pid].born = processes[pid].born
    BY <1>7 DEF Announce, FixTypes, Process
  <2>2. QED
    BY <1>5, <1>7, <2>1 DEF Announce
<1>8. ASSUME NEW pid \in Pids, UseSockets(pid)
      PROVE  Newcomers
  <2>1. \A other \in Pids : processes'[other].born = processes[other].born
    BY <1>8 DEF UseSockets, Becomes, FixTypes, Process
  <2>2. QED
    BY <1>5, <1>8, <2>1 DEF UseSockets
<1>9. ASSUME NEW pid \in Pids, NEW id, Answers(pid, id)
      PROVE  \A other \in Pids : processes'[other].born = processes[other].born
  BY <1>9 DEF Answers, Becomes, FixTypes, Process
<1>10. ASSUME NEW pid \in Pids, GetAppID(pid)
       PROVE  Newcomers
  BY <1>5, <1>9, <1>10 DEF GetAppID
<1>11. ASSUME NEW pid \in Pids, NEW result \in {"denied", "timeout"}, WorkshopFails(pid, result)
       PROVE  Newcomers
  BY <1>5, <1>11 DEF WorkshopFails
<1>12. CASE PostGetAppID
  <2>1. ipc.pid \in Pids
    BY <1>12 DEF PostGetAppID, ServerTypes
  <2>2. \A other \in Pids : processes'[other].born = processes[other].born
    BY <1>9, <1>12, <2>1 DEF PostGetAppID
  <2>3. QED
    BY <1>5, <1>12, <2>2 DEF PostGetAppID
<1>13. QED
  BY <1>1, <1>2, <1>3, <1>4, <1>6, <1>7, <1>8, <1>10, <1>11, <1>12 DEF ProcessStep, Call

\* None of them disturbs the handshakes: who comes is new.
LEMMA ProcessStepKeepsHand ==
  ASSUME FixInv, HandInv, Newcomers, processes' \in [Pids -> Process], UNCHANGED handVars, ServerTypes',
         ipc' = ipc \/ (ipc.step \in {"idle", "post"} /\ Seen(ipc.time))'
  PROVE  HandInv'
<1> USE DEF HandInv, handVars
<1>1. ASSUME NEW time \in Nat, time # 0, Seen(time), NEW pid \in Pids, processes'[pid].born = time
      PROVE  processes[pid].born = time
  BY <1>1 DEF Newcomers
<1>2. SnapshotInv'
  BY <1>1 DEF SnapshotInv, CachedSnapshotsAreRight, Newcomers
<1>3. HandshakeInv'
  <2>1. CASE ipc' = ipc
    <3>1. Seen(ipc.time)'
      BY <2>1 DEF HandshakeInv, Newcomers, ServerTypes, ServerState, Seen
    <3>2. ipc.step = "remember" => ipc.pid \in Pids /\ ipc.time \in Nat
      BY DEF ServerTypes, ServerState
    <3>3. QED
      BY <1>1, <2>1, <3>1, <3>2 DEF HandshakeInv
  <2>2. CASE (ipc.step \in {"idle", "post"} /\ Seen(ipc.time))'
    BY <2>2 DEF HandshakeInv
  <2>3. QED
    BY <2>1, <2>2
<1>4. InjectionInv'
  <2>1. ASSUME NEW pid \in Pids
        PROVE  LoadedAsClaimed(pid)'
    <3>1. CASE processes'[pid].born \in {0, processes[pid].born}
      BY <3>1 DEF InjectionInv, LoadedAsClaimed
    <3>2. CASE processes'[pid].born \in 1 .. MaxBirths /\ ~Seen(processes'[pid].born)
      <4>1. attempts[processes'[pid].born] = 0
        BY <3>2 DEF InjectionInv
      <4>2. Key(pid, processes'[pid].born) \notin injected
        BY <3>2 DEF InjectionInv, Key
      <4>3. QED
        BY <4>1, <4>2 DEF LoadedAsClaimed
    <3>3. QED
      BY <3>1, <3>2 DEF Newcomers
  <2>2. \A key \in injected : Seen(key.time)'
    BY DEF InjectionInv, Newcomers
  <2>3. \A born \in 1 .. MaxBirths : ~Seen(born)' => attempts[born] = 0
    BY DEF InjectionInv, Newcomers
  <2>4. QED
    BY <2>1, <2>2, <2>3 DEF InjectionInv, LoadedOnce
<1>5. QED
  BY <1>2, <1>3, <1>4

\* A step of the server that remembers and loads nothing moves the handshake on.
LEMMA ServerMoves ==
  ASSUME FixInv, HandInv, UNCHANGED <<fixVars, handVars>>, ServerTypes', HandshakeInv'
  PROVE  HandInv'
<1> USE DEF HandInv, fixVars, handVars
<1>1. SnapshotInv'
  BY DEF SnapshotInv, CachedSnapshotsAreRight, Seen
<1>2. InjectionInv'
  BY DEF InjectionInv, LoadedAsClaimed, LoadedOnce, Seen
<1>3. QED
  BY <1>1, <1>2

\* A process connects.
LEMMA ConnectKeepsHand ==
  ASSUME FixInv, HandInv, NEW pid \in Pids, OnHandshake(pid)
  PROVE  HandInv'
<1>1. ipc' = [Idle EXCEPT !.step = "look up", !.pid = pid] /\ UNCHANGED <<fixVars, handVars>>
  BY DEF OnHandshake
<1>2. ServerTypes'
  BY <1>1 DEF ServerTypes, ServerState, ServerSteps, Idle, PipeIds
<1>3. HandshakeInv'
  BY <1>1 DEF HandshakeInv, Seen, Idle, FixInv, FixTypes, fixVars
<1>4. QED
  BY <1>1, <1>2, <1>3, ServerMoves

\* A process that is looked up is known by a time it has had, or is inspected.
LEMMA LookUpKeepsHand ==
  ASSUME FixInv, HandInv, LookUp
  PROVE  HandInv'
<1> USE DEF HandInv
<1>1. ipc.step = "look up" /\ ipc.pid \in Pids /\ ipc \in ServerState /\ UNCHANGED <<fixVars, handVars>>
  BY DEF LookUp, ServerTypes
<1>2. CASE ipc' = [ipc EXCEPT !.step = "inspect"]
  <2>1. ServerTypes'
    BY <1>1, <1>2 DEF ServerTypes, ServerState, ServerSteps
  <2>2. HandshakeInv'
    BY <1>1, <1>2 DEF HandshakeInv, Seen, fixVars, ServerState
  <2>3. QED
    BY <1>1, <2>1, <2>2, ServerMoves
<1>3. ASSUME NEW e \in inspected,
             ipc' = [ipc EXCEPT !.step = "resolve", !.time = e.time, !.of = e.of, !.env = e.env]
      PROVE  HandInv'
  <2>1. e.time \in Nat /\ e.of \in Nat /\ e.env \in PipeIds /\ e.time # 0 /\ Seen(e.time)
    BY DEF SnapshotInv
  <2>2. ServerTypes'
    BY <1>1, <1>3, <2>1 DEF ServerTypes, ServerState, ServerSteps
  <2>3. HandshakeInv'
    BY <1>1, <1>3, <2>1 DEF HandshakeInv, Seen, fixVars, ServerState
  <2>4. QED
    BY <1>1, <2>2, <2>3, ServerMoves
<1>4. QED
  BY <1>2, <1>3 DEF LookUp, Goes

\* The creation time that is read is one the pid's process has, or 0.
LEMMA InspectKeepsHand ==
  ASSUME FixInv, HandInv, Inspect
  PROVE  HandInv'
<1> USE DEF HandInv
<1>1. /\ ipc.pid \in Pids /\ ipc \in ServerState /\ UNCHANGED <<fixVars, handVars>>
      /\ ipc' = [ipc EXCEPT !.step = "environment", !.time = processes[ipc.pid].born]
  BY DEF Inspect, ServerTypes, CreationTime
<1>2. processes[ipc.pid].born \in Nat /\ Seen(processes[ipc.pid].born)
  BY <1>1 DEF FixInv, FixTypes, BirthInv, Process
<1>3. ServerTypes'
  BY <1>1, <1>2 DEF ServerTypes, ServerState, ServerSteps
<1>4. HandshakeInv'
  BY <1>1, <1>2 DEF HandshakeInv, Seen, fixVars, ServerState
<1>5. QED
  BY <1>1, <1>3, <1>4, ServerMoves

\* If the process with the time that was read is still there, the environment is its own.
LEMMA ReadEnvironmentKeepsHand ==
  ASSUME FixInv, HandInv, ReadEnvironment
  PROVE  HandInv'
<1> USE DEF HandInv
<1>1. ipc.pid \in Pids /\ ipc \in ServerState /\ UNCHANGED <<fixVars, handVars>>
  BY DEF ReadEnvironment, ServerTypes
<1>2. PICK env \in EnvironmentsOf(ipc.pid) :
         ipc' = [ipc EXCEPT !.step = "remember", !.of = processes[ipc.pid].born, !.env = env]
  BY DEF ReadEnvironment
<1>3. processes[ipc.pid].born \in Nat /\ env \in PipeIds
  BY <1>1, <1>2 DEF FixInv, FixTypes, Process, EnvironmentsOf, PipeIds
<1>4. ServerTypes'
  BY <1>1, <1>2, <1>3 DEF ServerTypes, ServerState, ServerSteps
<1>5. HandshakeInv'
  BY <1>1, <1>2 DEF HandshakeInv, Seen, fixVars, ServerState
<1>6. QED
  BY <1>1, <1>4, <1>5, ServerMoves

\* What is remembered under a live process's time was read from it.
LEMMA RememberKeepsHand ==
  ASSUME FixInv, HandInv, Remember
  PROVE  HandInv'
<1> USE DEF HandInv
<1> DEFINE entry == [pid |-> ipc.pid, time |-> ipc.time, of |-> ipc.of, env |-> ipc.env]
<1>1. /\ ipc.step = "remember" /\ ipc.pid \in Pids /\ ipc \in ServerState
      /\ UNCHANGED <<fixVars, injected, attempts, served, strayed>>
      /\ ipc.time = 0 => inspected' = inspected /\ ipc' = Idle
      /\ ipc.time # 0 => /\ inspected' \subseteq inspected \cup {entry}
                         /\ ipc' = [ipc EXCEPT !.step = "resolve"]
  BY DEF Remember, KeyTime, Goes, ServerTypes
<1>2. ServerTypes'
  <2>1. CASE ipc' = Idle
    BY <2>1 DEF ServerTypes, ServerState, ServerSteps, Idle, PipeIds
  <2>2. CASE ipc' = [ipc EXCEPT !.step = "resolve"]
    BY <1>1, <2>2 DEF ServerTypes, ServerState, ServerSteps
  <2>3. QED
    BY <1>1, <2>1, <2>2
<1>3. SnapshotInv'
  <2>1. CASE ipc.time = 0
    BY <1>1, <2>1 DEF SnapshotInv, CachedSnapshotsAreRight, Seen, fixVars
  <2>2. CASE ipc.time # 0
    <3>1. entry \in [pid : Pids, time : Nat, of : Nat, env : PipeIds]
      BY <1>1 DEF ServerState
    <3>2. /\ entry.time # 0 /\ Seen(entry.time)
          /\ entry.time = processes[entry.pid].born => entry.of = entry.time
      BY <1>1, <2>2 DEF HandshakeInv
    <3> HIDE DEF entry
    <3>3. QED
      BY <1>1, <2>2, <3>1, <3>2 DEF SnapshotInv, CachedSnapshotsAreRight, Seen, fixVars
  <2>3. QED
    BY <2>1, <2>2
<1>4. HandshakeInv'
  BY <1>1 DEF HandshakeInv, Seen, fixVars, ServerState, Idle, FixInv, FixTypes
<1>5. InjectionInv'
  BY <1>1 DEF InjectionInv, LoadedAsClaimed, LoadedOnce, Seen, fixVars
<1>6. QED
  BY <1>2, <1>3, <1>4, <1>5

\* The game is resolved.
LEMMA ResolveKeepsHand ==
  ASSUME FixInv, HandInv, ResolveAppIdWithRetry
  PROVE  HandInv'
<1> USE DEF HandInv
<1>1. ipc.step = "resolve" /\ ipc.pid \in Pids /\ ipc \in ServerState /\ UNCHANGED <<fixVars, handVars>>
  BY DEF ResolveAppIdWithRetry, ServerTypes
<1>2. PICK app \in PipeIds : ipc' = [ipc EXCEPT !.step = "apply", !.app = app]
  <2>1. ResolveAppId(ipc.pid) \in PipeIds /\ processes[ipc.pid].app \in PipeIds /\ ipc.env \in PipeIds /\ NoId \in PipeIds
    BY <1>1, PipeIdIsOwn DEF FixInv, FixTypes, Process, ServerState, AppIds, PipeIds
  <2>2. QED
    BY <2>1 DEF ResolveAppIdWithRetry
<1>3. ServerTypes'
  BY <1>1, <1>2 DEF ServerTypes, ServerState, ServerSteps
<1>4. HandshakeInv'
  BY <1>1, <1>2 DEF HandshakeInv, Seen, fixVars, ServerState
<1>5. QED
  BY <1>1, <1>3, <1>4, ServerMoves

\* The library is loaded once into the process whose handshake this is; another that has
\* got its pid counts as strayed.
LEMMA ApplyKeepsHand ==
  ASSUME FixInv, HandInv, Apply
  PROVE  HandInv'
<1> USE DEF HandInv
<1> DEFINE key == Key(ipc.pid, ipc.time)
<1> DEFINE target == processes[ipc.pid].born
<1>1. /\ ipc.step = "apply" /\ ipc.pid \in Pids /\ ipc \in ServerState /\ ipc' = Idle
      /\ UNCHANGED <<fixVars, inspected>>
  BY DEF Apply, ServerTypes
<1>2. /\ ipc.time # 0 /\ ipc.time \in Nat /\ Seen(ipc.time)
      /\ target \in Nat /\ Seen(target) /\ births \in Nat /\ births <= MaxBirths /\ MaxBirths \in Nat
  BY <1>1, OnlineFixAssumption DEF HandshakeInv, FixInv, FixTypes, BirthInv, Process, ServerState
<1>3. target # 0 => target \in 1 .. MaxBirths
  BY <1>2 DEF Seen
<1>4. ServerTypes' /\ HandshakeInv' /\ SnapshotInv'
  <2>1. ServerTypes'
    BY <1>1 DEF ServerTypes, ServerState, ServerSteps, Idle, PipeIds
  <2>2. HandshakeInv'
    BY <1>1, <1>2 DEF HandshakeInv, Seen, Idle, FixInv, BirthInv, fixVars
  <2>3. SnapshotInv'
    BY <1>1 DEF SnapshotInv, CachedSnapshotsAreRight, Seen, fixVars
  <2>4. QED
    BY <2>1, <2>2, <2>3
<1>5. CASE ipc.app \notin Listed
  <2>1. UNCHANGED <<injected, served, attempts, strayed>>
    BY <1>5 DEF Apply
  <2>2. InjectionInv'
    BY <1>1, <2>1 DEF InjectionInv, LoadedAsClaimed, LoadedOnce, Seen, fixVars
  <2>3. QED
    BY <1>4, <2>2
<1>6. CASE ipc.app \in Listed
  <2>1. /\ injected' = injected \cup {key}
        /\ attempts' = IF key \notin injected /\ target # 0 THEN [attempts EXCEPT ![target] = @ + 1] ELSE attempts
        /\ target = ipc.time => served' = served \cup {target} /\ strayed' = strayed
        /\ target # ipc.time => strayed' = strayed \cup {target} /\ served' = served
    BY <1>6 DEF Apply, ClaimInjection, Key
  <2>2. key \in [pid : Pids, time : Nat] /\ key.time = ipc.time
    BY <1>1, <1>2 DEF Key
  <2>3. /\ attempts' \in [1 .. MaxBirths -> Nat]
        /\ \A born \in 1 .. MaxBirths : born # target => attempts'[born] = attempts[born]
        /\ target # 0 => attempts'[target] = (IF key \notin injected THEN attempts[target] + 1 ELSE attempts[target])
    BY <1>3, <2>1 DEF InjectionInv
  <2>4. \A pid \in Pids, time \in Nat : pid # ipc.pid => (Key(pid, time) \in injected' <=> Key(pid, time) \in injected)
    BY <2>1 DEF Key
  <2>5. Key(ipc.pid, ipc.time) \in injected'
    BY <2>1
  <2>6. (target = ipc.time /\ target \notin strayed) => attempts'[target] = 1
    BY <1>1, <1>2, <1>3, <2>3 DEF InjectionInv, LoadedAsClaimed
  <2> HIDE DEF key
  <2>7. ASSUME NEW pid \in Pids
        PROVE  LoadedAsClaimed(pid)'
    <3>1. processes' = processes /\ processes[pid].born \in Nat
          /\ (processes[pid].born # 0 => processes[pid].born \in 1 .. MaxBirths)
      BY <1>1, <1>2 DEF fixVars, FixInv, FixTypes, BirthInv, Process, Seen
    <3>2. CASE pid = ipc.pid
      BY <2>1, <2>5, <2>6, <3>1, <3>2 DEF LoadedAsClaimed
    <3>3. CASE pid # ipc.pid /\ processes[pid].born # 0
      <4>1. processes[pid].born # target
        BY <1>1, <3>3 DEF FixInv, BirthInv
      <4>2. attempts'[processes[pid].born] = attempts[processes[pid].born]
        BY <2>3, <3>1, <3>3, <4>1
      <4>3. strayed \subseteq strayed'
        BY <2>1
      <4>4. QED
        BY <2>4, <3>1, <3>3, <4>2, <4>3 DEF InjectionInv, LoadedAsClaimed
    <3>4. CASE processes[pid].born = 0
      BY <3>1, <3>4 DEF LoadedAsClaimed
    <3>5. QED
      BY <3>2, <3>3, <3>4
  <2>8. LoadedOnce'
    <3>1. ASSUME NEW born \in served', born \notin strayed'
          PROVE  attempts'[born] = 1
      <4>1. CASE born = target
        BY <2>1, <2>6, <3>1, <4>1
      <4>2. CASE born # target
        BY <2>1, <2>3, <3>1, <4>2 DEF InjectionInv, LoadedOnce
      <4>3. QED
        BY <4>1, <4>2
    <3>2. QED
      BY <3>1 DEF LoadedOnce
  <2>9. served' \subseteq 1 .. MaxBirths
    BY <1>2, <1>3, <2>1 DEF InjectionInv
  <2>10. \A born \in 1 .. MaxBirths : ~Seen(born)' => attempts'[born] = 0
    BY <1>1, <1>2, <2>3 DEF InjectionInv, Seen, fixVars
  <2>11. injected' \subseteq [pid : Pids, time : Nat] /\ \A k \in injected' : Seen(k.time)'
    BY <1>1, <1>2, <2>1, <2>2 DEF InjectionInv, Seen, fixVars
  <2>12. QED
    BY <1>4, <2>3, <2>7, <2>8, <2>9, <2>10, <2>11 DEF InjectionInv
<1>7. QED
  BY <1>5, <1>6

\* Every step of the processes, of Steam and of its server keeps both.
LEMMA ProcessesKeepGames ==
  ASSUME FixInv, HandInv, Processes
  PROVE  FixInv' /\ HandInv'
<1>1. CASE LookUp \/ Inspect \/ ReadEnvironment \/ Remember \/ ResolveAppIdWithRetry \/ Apply
           \/ \E pid \in Pids : OnHandshake(pid)
  <2>1. UNCHANGED fixVars
    BY <1>1 DEF LookUp, Inspect, ReadEnvironment, Remember, ResolveAppIdWithRetry, Apply, OnHandshake
  <2>2. QED
    BY <1>1, <2>1, SameProcesses, LookUpKeepsHand, InspectKeepsHand, ReadEnvironmentKeepsHand, RememberKeepsHand,
       ResolveKeepsHand, ApplyKeepsHand, ConnectKeepsHand
<1>2. ASSUME ProcessStep, UNCHANGED handVars, ServerTypes', ipc' = ipc \/ (ipc.step \in {"idle", "post"} /\ Seen(ipc.time))'
      PROVE  FixInv' /\ HandInv'
  <2>1. FixInv' /\ Newcomers
    BY <1>2, ProcessStepKeepsFix, ProcessStepIsNew DEF HandInv
  <2>2. QED
    BY <1>2, <2>1, ProcessStepKeepsHand DEF FixInv, FixTypes
<1>3. ASSUME ProcessStep, UNCHANGED <<ipc, handVars>>
      PROVE  FixInv' /\ HandInv'
  BY <1>2, <1>3 DEF HandInv, ServerTypes
<1>4. CASE Spawner \/ Others
  <2>1. ProcessStep
    BY <1>4 DEF Spawner, Others, ProcessStep, AppIds
  <2>2. QED
    BY <1>3, <1>4, <2>1 DEF Spawner, Others
<1>5. CASE PostGetAppID /\ UNCHANGED handVars
  <2>1. ipc' = Idle /\ ServerTypes' /\ ProcessStep
    BY <1>5 DEF PostGetAppID, ServerTypes, ServerState, ServerSteps, Idle, PipeIds, ProcessStep
  <2>2. (ipc.step \in {"idle", "post"} /\ Seen(ipc.time))'
    BY <1>5, <2>1 DEF Idle, Seen, PostGetAppID, FixInv, FixTypes
  <2>3. QED
    BY <1>2, <1>5, <2>1, <2>2
<1>6. CASE Calls
  <2>1. ProcessStep /\ UNCHANGED handVars
    BY <1>6 DEF Calls, ProcessStep
  <2>2. ASSUME ipc' = ipc
        PROVE  FixInv' /\ HandInv'
    BY <1>3, <2>1, <2>2
  <2>3. ASSUME NEW pid \in Pids, GetAppID(pid), ipc' = [Idle EXCEPT !.step = "post", !.pid = pid, !.time = processes[pid].born]
        PROVE  FixInv' /\ HandInv'
    <3>1. processes[pid].born \in Nat /\ Seen(processes[pid].born)
      BY DEF FixInv, FixTypes, BirthInv, Process
    <3>2. ServerTypes'
      BY <2>3, <3>1 DEF ServerTypes, ServerState, ServerSteps, Idle, PipeIds
    <3>3. (ipc.step \in {"idle", "post"} /\ Seen(ipc.time))'
      BY <2>3, <3>1 DEF Idle, Seen, GetAppID
    <3>4. QED
      BY <1>2, <2>1, <3>2, <3>3
  <2>4. QED
    BY <1>6, <2>2, <2>3 DEF Calls, Call, Announce, UseSockets, GetAppID, WorkshopFails
<1>7. QED
  BY <1>1, <1>4, <1>5, <1>6 DEF Processes, Server

-----------------------------------------------------------------------------
(* Breakpoints                                                             *)

TrapSteps == {"idle", "fetch", "breakpoint", "restore", "hit", "single step", "unhandled", "gone"}
TrapTypes ==
  /\ byte \in [Sites -> {"own", "int3"}] /\ saved = [site \in Sites |-> "own"]
  /\ listed \subseteq installed /\ installed \subseteq Sites
  /\ captured \subseteq Sites \ Persistent /\ flag \subseteq Threads
  /\ arming \in [steps : {<<>>, <<"patch">>, <<"push", "patch">>}, site : Sites \cup {NoSite}]
  /\ at \in [Threads -> [step : TrapSteps, site : Sites \cup {NoSite}]]
  /\ \A t \in Threads : at[t].step \notin Outside => at[t].site \in Sites
  /\ hits \in [Threads -> Nat] /\ calls \in Nat

\* A site is patched once it has been armed, and an unpatched one is as it was.
Pending(site) == arming.steps # <<>> /\ arming.site = site
Patched(site) == site \in installed /\ ~Pending(site)
Within(t, site) == at[t].site = site /\ at[t].step \notin Outside
ArmingInv ==
  /\ arming.steps # <<>> => arming.site \in installed
  /\ arming.steps = <<"push", "patch">> => arming.site \notin listed
  /\ arming.steps = <<"patch">> => arming.site \in listed
  /\ \A site \in Sites : ~Patched(site) =>
       /\ byte[site] = "own" /\ site \notin captured
       /\ \A t \in Threads : Within(t, site) => at[t].step = "fetch" /\ t \notin flag

\* Whatever is patched is listed, until the process ends.
Ended == \A t \in Threads : at[t].step = "gone"
ListedInv == Ended \/ \A site \in Sites : Patched(site) => site \in listed

\* Only calls of persistent sites are followed by a single step.
FlagInv ==
  /\ \A t \in flag : at[t].step = "gone" \/ (at[t].site \in Persistent /\ at[t].step # "idle")
  /\ \A t \in Threads : at[t].step = "single step" => t \in flag

\* A thread that will write the breakpoint again.
WillRearm(t, site) ==
  /\ at[t].site = site
  /\ at[t].step \in {"hit", "unhandled"} \/ (t \in flag /\ at[t].step \in {"fetch", "single step"})
\* While a patched byte is the function's own, somebody is on the way to write it again, or
\* to store what the site is there for.
SiteHolds(site) ==
  IF site \in Persistent THEN byte[site] = "int3" \/ \E t \in Threads : WillRearm(t, site)
  ELSE byte[site] = "own" <=> site \in captured \/ \E t \in Threads : Within(t, site) /\ at[t].step = "hit"
SiteInv == \A site \in listed : Patched(site) => SiteHolds(site)

\* A call that began at a breakpoint is on its way to one interception, or back from it.
OneInterception(t) ==
  /\ at[t].step \notin Outside => Patched(at[t].site)
  /\ at[t].step = "idle" => hits[t] = 1
  /\ at[t].step = "fetch" => IF byte[at[t].site] = "int3" THEN hits[t] = 0
                             ELSE hits[t] = 1 /\ (at[t].site \in Persistent => t \in flag)
  /\ at[t].step \in {"breakpoint", "restore", "hit"} => hits[t] = 0
  /\ at[t].step = "hit" => byte[at[t].site] = "own"
  /\ at[t].step = "single step" => hits[t] = 1
\* A call that nobody crossed is alone in its function.
Lonely(t) == \A u \in Threads, site \in Sites : Within(t, site) /\ Within(u, site) => u = t
CallInv ==
  /\ armed \subseteq Threads
  /\ \A t \in Threads \ crossed : Lonely(t) /\ (t \in armed => OneInterception(t))

TrapInv == TrapTypes /\ ArmingInv /\ ListedInv /\ FlagInv /\ SiteInv /\ CallInv /\ HandledOnceListed

\* The steps ahead of the thread that arms.
LEMMA ArmingSteps ==
  ASSUME TrapTypes
  PROVE  /\ Doing("push") <=> arming.steps = <<"push", "patch">>
         /\ Doing("patch") <=> arming.steps = <<"patch">>
         /\ Tail(<<"push", "patch">>) = <<"patch">> /\ Tail(<<"patch">>) = <<>>
         /\ <<"patch">> # <<>> /\ <<"push", "patch">> # <<>> /\ <<"push", "patch">> # <<"patch">>
  BY DEF TrapTypes, Doing

\* At first nothing is armed and nobody calls.
LEMMA InitTraps ==
  ASSUME TrapsInit
  PROVE  TrapInv
<1> USE DEF TrapsInit
<1>1. TrapTypes
  BY DEF TrapTypes, TrapSteps, Outside
<1>2. ArmingInv /\ ListedInv /\ FlagInv /\ SiteInv
  BY DEF ArmingInv, ListedInv, FlagInv, SiteInv, Patched, Pending, Within, Outside
<1>3. CallInv
  BY DEF CallInv, Lonely, Within, Outside
<1>4. HandledOnceListed
  BY DEF HandledOnceListed, Survives
<1>5. QED
  BY <1>1, <1>2, <1>3, <1>4 DEF TrapInv

\* The invariant says what the property does.
LEMMA TrapInvHolds ==
  ASSUME TrapInv
  PROVE  BreakpointsHold
<1> USE DEF TrapInv
<1>1. ASSUME NEW site \in listed, Inside(site) = {}, Doing("patch") => site # arming.site
      PROVE  IF site \in Persistent THEN byte[site] = "int3" ELSE site \in captured <=> byte[site] # "int3"
  <2>1. site \in Sites /\ byte[site] \in {"own", "int3"} /\ \A t \in Threads : ~Within(t, site)
    BY <1>1 DEF TrapTypes, Inside, Within
  <2>2. Patched(site)
    BY <1>1, ArmingSteps DEF ArmingInv, Patched, Pending, TrapTypes
  <2>3. \A t \in Threads : ~WillRearm(t, site)
    BY <2>1 DEF WillRearm, Within, Outside
  <2>4. SiteHolds(site)
    BY <1>1, <2>2 DEF SiteInv
  <2>5. QED
    BY <2>1, <2>3, <2>4 DEF SiteHolds
<1>2. \A t \in armed \ crossed : at[t].step = "idle" => hits[t] = 1
  BY DEF CallInv, OneInterception
<1>3. QED
  BY <1>1, <1>2 DEF BreakpointsHold, TrapsStay

\* A site whose byte stays, and where the threads stay, holds.
LEMMA SameSite ==
  ASSUME UNCHANGED <<at, flag, captured>>, NEW site, byte'[site] = byte[site], SiteHolds(site)
  PROVE  SiteHolds(site)'
<1>1. \A t \in Threads : (WillRearm(t, site)' <=> WillRearm(t, site)) /\ (Within(t, site)' <=> Within(t, site))
  BY DEF WillRearm, Within
<1>2. QED
  BY <1>1 DEF SiteHolds

\* A call whose thread stays where it is, and whose site stays as it is, is intercepted once.
LEMMA SameCalls ==
  ASSUME TrapInv, UNCHANGED <<at, flag, history>>, \A site \in Sites : Patched(site) => Patched(site)' /\ byte'[site] = byte[site]
  PROVE  CallInv'
<1>1. ASSUME NEW t \in Threads, t \notin crossed
      PROVE  Lonely(t)' /\ (t \in armed => OneInterception(t)')
  <2>1. Lonely(t) /\ (t \in armed => OneInterception(t))
    BY <1>1 DEF TrapInv, CallInv
  <2>2. Lonely(t)'
    BY <2>1 DEF Lonely, Within
  <2>3. ASSUME OneInterception(t)
        PROVE  OneInterception(t)'
    <3>1. at[t].step \notin Outside => at[t].site \in Sites /\ Patched(at[t].site)
      BY <2>3 DEF TrapInv, TrapTypes, OneInterception
    <3>2. at[t].step \notin Outside => Patched(at[t].site)' /\ byte'[at[t].site] = byte[at[t].site]
      BY <3>1
    <3>3. QED
      BY <2>3, <3>2 DEF OneInterception, Outside, history
  <2>4. QED
    BY <2>1, <2>2, <2>3
<1>2. QED
  BY <1>1 DEF TrapInv, CallInv, history

\* A site that is armed now was as it was: its byte is saved, and nobody is stopped there.
LEMMA ArmKeepsTraps ==
  ASSUME TrapInv, Survives, NEW site \in Sites, ArmInt3(site)
  PROVE  TrapInv'
<1> USE DEF TrapInv
<1>1. /\ arming.steps = <<>> /\ site \notin installed
      /\ saved' = [saved EXCEPT ![site] = byte[site]]
      /\ arming' = [steps |-> <<"push", "patch">>, site |-> site]
      /\ installed' = installed \cup {site}
      /\ UNCHANGED <<byte, listed, at, flag, captured, history>>
  BY DEF ArmInt3, ArmSteps
<1>2. byte[site] = "own"
  BY <1>1 DEF ArmingInv, Patched
<1>3. TrapTypes'
  BY <1>1, <1>2 DEF TrapTypes, history
<1>4. \A other \in Sites : Patched(other)' <=> Patched(other)
  BY <1>1 DEF Patched, Pending
<1>5. ArmingInv'
  BY <1>1, <1>4 DEF ArmingInv, Within, TrapTypes
<1>6. ListedInv' /\ FlagInv'
  BY <1>1, <1>4 DEF ListedInv, Ended, FlagInv
<1>7. SiteInv'
  BY <1>1, <1>4, SameSite DEF SiteInv, TrapTypes
<1>8. CallInv'
  BY <1>1, <1>4, SameCalls
<1>9. HandledOnceListed'
  BY <1>1 DEF Survives, HandledOnceListed
<1>10. QED
  BY <1>3, <1>5, <1>6, <1>7, <1>8, <1>9

\* It is listed before its byte is written.
LEMMA PushKeepsTraps ==
  ASSUME TrapInv, Survives, Push
  PROVE  TrapInv'
<1> USE DEF TrapInv
<1>1. /\ arming.steps = <<"push", "patch">> /\ arming'.steps = <<"patch">> /\ arming'.site = arming.site
      /\ arming' \in [steps : {<<>>, <<"patch">>, <<"push", "patch">>}, site : Sites \cup {NoSite}]
      /\ listed' = listed \cup {arming.site}
      /\ UNCHANGED <<byte, saved, at, flag, captured, history, installed>>
  BY ArmingSteps DEF Push, StepDone, TrapTypes
<1>2. arming.site \in installed /\ arming.site \in Sites
  BY <1>1, ArmingSteps DEF ArmingInv, TrapTypes
<1>3. TrapTypes'
  BY <1>1, <1>2 DEF TrapTypes, history
<1>4. \A other \in Sites : Patched(other)' <=> Patched(other)
  BY <1>1, ArmingSteps DEF Patched, Pending
<1>5. ~Patched(arming.site)
  BY <1>1, ArmingSteps DEF Patched, Pending
<1>6. ArmingInv'
  BY <1>1, <1>2, <1>4, ArmingSteps DEF ArmingInv, Within
<1>7. ListedInv' /\ FlagInv'
  BY <1>1, <1>4 DEF ListedInv, Ended, FlagInv
<1>8. SiteInv'
  BY <1>1, <1>2, <1>4, <1>5, SameSite DEF SiteInv, TrapTypes
<1>9. CallInv'
  BY <1>1, <1>4, SameCalls
<1>10. HandledOnceListed'
  BY <1>1 DEF Survives, HandledOnceListed
<1>11. QED
  BY <1>3, <1>6, <1>7, <1>8, <1>9, <1>10

\* Once its byte is written it is patched, and listed.
LEMMA PatchKeepsTraps ==
  ASSUME TrapInv, Survives, Patch
  PROVE  TrapInv'
<1> USE DEF TrapInv
<1>1. /\ arming.steps = <<"patch">> /\ arming'.steps = <<>> /\ arming'.site = arming.site
      /\ arming' \in [steps : {<<>>, <<"patch">>, <<"push", "patch">>}, site : Sites \cup {NoSite}]
      /\ byte' = [byte EXCEPT ![arming.site] = "int3"]
      /\ UNCHANGED <<saved, listed, at, flag, captured, history, installed>>
  BY ArmingSteps DEF Patch, StepDone, TrapTypes
<1>2. arming.site \in installed /\ arming.site \in Sites /\ arming.site \in listed /\ ~Patched(arming.site)
  BY <1>1, ArmingSteps DEF ArmingInv, TrapTypes, Patched, Pending
<1>3. TrapTypes'
  BY <1>1, <1>2 DEF TrapTypes, history
<1>4. \A other \in Sites : Patched(other)' <=> Patched(other) \/ other = arming.site
  BY <1>1, <1>2, ArmingSteps DEF Patched, Pending
<1>5. ArmingInv'
  BY <1>1, <1>2, <1>4, ArmingSteps DEF ArmingInv, Within, TrapTypes
<1>6. ListedInv' /\ FlagInv'
  BY <1>1, <1>2, <1>4 DEF ListedInv, Ended, FlagInv
<1>7. SiteInv'
  <2>1. ASSUME NEW site \in listed, site # arming.site, Patched(site)
        PROVE  SiteHolds(site)'
    BY <1>1, <2>1, SameSite DEF SiteInv, TrapTypes
  <2>2. SiteHolds(arming.site)'
    <3>1. byte'[arming.site] = "int3" /\ arming.site \notin captured'
      BY <1>1, <1>2 DEF TrapTypes, ArmingInv
    <3>2. \A t \in Threads : ~(Within(t, arming.site)' /\ at'[t].step = "hit")
      BY <1>1, <1>2 DEF ArmingInv, Within
    <3>3. QED
      BY <1>1, <3>1, <3>2 DEF SiteHolds, Within
  <2>3. QED
    BY <1>1, <1>4, <2>1, <2>2 DEF SiteInv, TrapTypes
<1>8. CallInv'
  <2>1. \A site \in Sites : Patched(site) => byte'[site] = byte[site]
    BY <1>1, <1>2 DEF TrapTypes
  <2>2. QED
    BY <1>1, <1>4, <2>1, SameCalls
<1>9. HandledOnceListed'
  BY <1>1 DEF Survives, HandledOnceListed
<1>10. QED
  BY <1>3, <1>5, <1>6, <1>7, <1>8, <1>9

\* When the process ends its threads are gone.
LEMMA DisarmKeepsTraps ==
  ASSUME TrapInv, Survives, DisarmAll
  PROVE  TrapInv'
<1> USE DEF TrapInv
<1>1. /\ arming.steps = <<>>
      /\ at' = [t \in Threads |-> [step |-> "gone", site |-> NoSite]]
      /\ byte' = [site \in Sites |-> IF site \in listed /\ byte[site] = "int3" THEN saved[site] ELSE byte[site]]
      /\ listed' = {}
      /\ UNCHANGED <<saved, arming, flag, captured, history, installed>>
  BY DEF DisarmAll
<1>2. TrapTypes'
  BY <1>1 DEF TrapTypes, history, TrapSteps, Outside
<1>3. \A site \in Sites : Patched(site)' <=> Patched(site)
  BY <1>1 DEF Patched, Pending
<1>4. ArmingInv'
  <2>1. \A site \in Sites : ~Patched(site) => byte'[site] = "own"
    BY <1>1 DEF ArmingInv, TrapTypes
  <2>2. \A t \in Threads, site \in Sites : ~Within(t, site)'
    BY <1>1 DEF Within, Outside
  <2>3. QED
    BY <1>1, <1>3, <2>1, <2>2 DEF ArmingInv
<1>5. ListedInv' /\ FlagInv' /\ SiteInv'
  BY <1>1 DEF ListedInv, Ended, FlagInv, SiteInv, TrapTypes
<1>6. CallInv'
  <2>1. \A t \in Threads : at'[t].step = "gone"
    BY <1>1
  <2>2. \A t \in Threads : Lonely(t)' /\ OneInterception(t)'
    BY <2>1 DEF Lonely, OneInterception, Within, Outside
  <2>3. QED
    BY <1>1, <2>2 DEF CallInv, history
<1>7. HandledOnceListed'
  BY <1>1 DEF Survives, HandledOnceListed
<1>8. QED
  BY <1>2, <1>4, <1>5, <1>6, <1>7

\* A thread goes on where it is.
LEMMA ThreadMoves ==
  ASSUME TrapTypes, NEW t \in Threads, NEW step \in TrapSteps, To(t, step)
  PROVE  /\ at'[t].step = step /\ at'[t].site = at[t].site
         /\ \A u \in Threads : u # t => at'[u] = at[u]
         /\ at' \in [Threads -> [step : TrapSteps, site : Sites \cup {NoSite}]]
<1>1. at \in [Threads -> [step : TrapSteps, site : Sites \cup {NoSite}]] /\ at' = [at EXCEPT ![t].step = step]
  BY DEF TrapTypes, To
<1>2. QED
  BY ONLY <1>1, t \in Threads, step \in TrapSteps

\* A thread's step inside a function disturbs that function's site and itself only.
LEMMA LocalStep ==
  ASSUME TrapInv, Survives, NEW t \in Threads, NEW site, site = at[t].site, at[t].step \notin Outside,
         NEW step \in TrapSteps \ {"gone"}, To(t, step),
         NEW own \in {"own", "int3"}, byte' = [byte EXCEPT ![site] = own],
         UNCHANGED <<saved, listed, arming, installed, calls, armed, crossed>>,
         flag' \subseteq Threads, \A u \in Threads : u # t => (u \in flag' <=> u \in flag),
         captured' \subseteq Sites \ Persistent, \A other \in Sites : other # site => (other \in captured' <=> other \in captured),
         hits' \in [Threads -> Nat], \A u \in Threads : u # t => hits'[u] = hits[u],
         Patched(site) \/ (step = "idle" /\ own = "own" /\ site \notin captured'),
         t \in flag' => site \in Persistent /\ step # "idle",
         step = "single step" => t \in flag',
         Patched(site) => SiteHolds(site)',
         (t \in armed /\ t \notin crossed) => OneInterception(t)',
         step = "unhandled" => Doing("push")
  PROVE  TrapInv'
<1> USE DEF TrapInv
<1>1. /\ site \in Sites /\ byte'[site] = own
      /\ \A other \in Sites : other # site => byte'[other] = byte[other]
      /\ at'[t].step = step /\ at'[t].site = site /\ at[t].step # "gone"
      /\ \A u \in Threads : u # t => at'[u] = at[u]
      /\ at' \in [Threads -> [step : TrapSteps, site : Sites \cup {NoSite}]]
  <2>1. site \in Sites /\ at[t].step # "gone"
    BY DEF TrapTypes, Outside
  <2>2. byte'[site] = own /\ \A other \in Sites : other # site => byte'[other] = byte[other]
    BY <2>1 DEF TrapTypes
  <2>3. /\ at'[t].step = step /\ at'[t].site = at[t].site
        /\ \A u \in Threads : u # t => at'[u] = at[u]
        /\ at' \in [Threads -> [step : TrapSteps, site : Sites \cup {NoSite}]]
    BY ThreadMoves
  <2>4. QED
    BY <2>1, <2>2, <2>3
<1>2. \A u \in Threads : at'[u].site = at[u].site
  BY <1>1
<1>3. \A other \in Sites : Patched(other)' <=> Patched(other)
  BY DEF Patched, Pending
<1>4. \A u \in Threads, other \in Sites : Within(u, other)' => Within(u, other)
  BY <1>1 DEF Within
<1>5. TrapTypes'
  BY <1>1 DEF TrapTypes
<1>6. ArmingInv'
  <2>1. ASSUME NEW other \in Sites, ~Patched(other)
        PROVE  /\ byte'[other] = "own" /\ other \notin captured'
               /\ \A u \in Threads : Within(u, other)' => at'[u].step = "fetch" /\ u \notin flag'
    <3>1. CASE other = site
      <4>1. \A u \in Threads : Within(u, other)' => u # t
        BY <1>1, <2>1, <3>1 DEF Within, Outside
      <4>2. own = "own" /\ site \notin captured'
        BY <2>1, <3>1
      <4>3. \A u \in Threads : Within(u, other)' => at'[u] = at[u] /\ at[u].step = "fetch" /\ u \notin flag /\ u # t
        BY <1>1, <1>4, <2>1, <4>1 DEF ArmingInv
      <4>4. QED
        BY <1>1, <3>1, <4>2, <4>3
    <3>2. CASE other # site
      <4>1. \A u \in Threads : Within(u, other)' => u # t
        BY <1>1, <3>2 DEF Within
      <4>2. QED
        BY <1>1, <1>4, <2>1, <3>2, <4>1 DEF ArmingInv
    <3>3. QED
      BY <3>1, <3>2
  <2>2. QED
    BY <1>3, <2>1 DEF ArmingInv
<1>7. ListedInv'
  <2>1. ~Ended
    BY <1>1 DEF Ended
  <2>2. QED
    BY <1>3, <2>1 DEF ListedInv
<1>8. FlagInv'
  <2>1. ASSUME NEW u \in flag'
        PROVE  at'[u].step = "gone" \/ (at'[u].site \in Persistent /\ at'[u].step # "idle")
    <3>1. CASE u = t
      BY <1>1, <2>1, <3>1
    <3>2. CASE u # t
      <4>1. u \in Threads /\ u \in flag
        BY <2>1, <3>2
      <4>2. at'[u] = at[u]
        BY <1>1, <3>2, <4>1
      <4>3. QED
        BY <4>1, <4>2 DEF FlagInv
    <3>3. QED
      BY <3>1, <3>2
  <2>2. ASSUME NEW u \in Threads, at'[u].step = "single step"
        PROVE  u \in flag'
    <3>1. CASE u = t
      BY <1>1, <2>2, <3>1
    <3>2. CASE u # t
      BY <1>1, <2>2, <3>2 DEF FlagInv
    <3>3. QED
      BY <3>1, <3>2
  <2>3. QED
    BY <2>1, <2>2 DEF FlagInv
<1>9. SiteInv'
  <2>1. ASSUME NEW other \in listed, other # site, Patched(other)
        PROVE  SiteHolds(other)'
    <3>1. other \in Sites /\ SiteHolds(other)
      BY <2>1 DEF SiteInv, TrapTypes
    <3>2. \A u \in Threads : /\ WillRearm(u, other)' <=> WillRearm(u, other)
                             /\ (Within(u, other) /\ at[u].step = "hit")' <=> Within(u, other) /\ at[u].step = "hit"
      BY <1>1, <2>1 DEF WillRearm, Within
    <3>3. QED
      BY <1>1, <2>1, <3>1, <3>2 DEF SiteHolds
  <2>2. ASSUME NEW other \in listed', Patched(other)'
        PROVE  SiteHolds(other)'
    <3>1. other \in listed /\ other \in Sites
      BY <2>2 DEF TrapTypes
    <3>2. Patched(other)
      BY <1>3, <2>2, <3>1
    <3>3. CASE other = site
      BY <3>2, <3>3
    <3>4. CASE other # site
      BY <2>1, <3>1, <3>2, <3>4
    <3>5. QED
      BY <3>3, <3>4
  <2>3. QED
    BY <2>2 DEF SiteInv
<1>10. CallInv'
  <2>1. ASSUME NEW u \in Threads, u \notin crossed
        PROVE  Lonely(u)' /\ (u \in armed => OneInterception(u)')
    <3>1. Lonely(u) /\ (u \in armed => OneInterception(u))
      BY <2>1 DEF CallInv
    <3>2. Lonely(u)'
      BY <1>4, <3>1 DEF Lonely
    <3>3. ASSUME u # t, OneInterception(u)
          PROVE  OneInterception(u)'
      <4>1. at'[u] = at[u] /\ hits'[u] = hits[u] /\ (u \in flag' <=> u \in flag)
        BY <1>1, <3>3
      <4>2. at[u].step \notin Outside => at[u].site \in Sites /\ at[u].site # site
        BY <1>1, <3>1, <3>3 DEF Lonely, Within, TrapTypes
      <4>3. at[u].step \notin Outside => byte'[at[u].site] = byte[at[u].site] /\ (Patched(at[u].site)' <=> Patched(at[u].site))
        BY <1>1, <1>3, <4>2
      <4>4. QED
        BY <3>3, <4>1, <4>3 DEF OneInterception, Outside
    <3>4. QED
      BY <2>1, <3>1, <3>2, <3>3
  <2>2. QED
    BY <2>1 DEF CallInv
<1>11. HandledOnceListed'
  <2>1. ~Survives' => step = "unhandled"
    BY <1>1 DEF Survives
  <2>2. QED
    BY <2>1 DEF HandledOnceListed, Doing
<1>12. QED
  BY <1>5, <1>6, <1>7, <1>8, <1>9, <1>10, <1>11

\* What holds of the site of a thread that is past its first fetch.
LEMMA StoppedAtSite ==
  ASSUME TrapInv, NEW t \in Threads, at[t].step \notin Outside, NEW site, site = at[t].site
  PROVE  /\ site \in Sites /\ byte[site] \in {"own", "int3"} /\ saved[site] = "own"
         /\ (at[t].step # "fetch" \/ t \in flag \/ byte[site] = "int3") => Patched(site)
         /\ Patched(site) => site \in listed /\ SiteHolds(site)
         /\ t \in flag => site \in Persistent
         /\ (t \in armed /\ t \notin crossed) => OneInterception(t)
         /\ byte = [byte EXCEPT ![site] = byte[site]]
<1> USE DEF TrapInv
<1>1. site \in Sites /\ byte[site] \in {"own", "int3"} /\ saved[site] = "own"
  BY DEF TrapTypes
<1>2. (at[t].step # "fetch" \/ t \in flag \/ byte[site] = "int3") => Patched(site)
  BY <1>1 DEF ArmingInv, Within
<1>3. ~Ended
  BY DEF Ended, Outside
<1>4. Patched(site) => site \in listed /\ SiteHolds(site)
  BY <1>1, <1>3 DEF ListedInv, SiteInv
<1>5. t \in flag => site \in Persistent
  BY DEF FlagInv, Outside
<1>6. (t \in armed /\ t \notin crossed) => OneInterception(t)
  BY DEF CallInv
<1>7. byte = [byte EXCEPT ![site] = byte[site]]
  BY DEF TrapTypes
<1>8. QED
  BY <1>1, <1>2, <1>4, <1>5, <1>6, <1>7

\* A thread takes the first instruction of a function.
LEMMA ExecuteKeepsTraps ==
  ASSUME TrapInv, Survives, NEW t \in Threads, Execute(t), NEW site, site = at[t].site
  PROVE  TrapInv'
<1>1. /\ at[t].step = "fetch" /\ at[t].step \notin Outside
      /\ UNCHANGED <<byte, saved, listed, arming, installed, flag, captured, calls, hits, armed, crossed>>
  BY DEF Execute, armVars, history, Outside
<1>2. /\ site \in Sites /\ byte[site] \in {"own", "int3"}
      /\ (t \in flag \/ byte[site] = "int3") => Patched(site)
      /\ Patched(site) => SiteHolds(site)
      /\ t \in flag => site \in Persistent
      /\ (t \in armed /\ t \notin crossed) => OneInterception(t)
      /\ byte' = [byte EXCEPT ![site] = byte[site]]
  BY <1>1, StoppedAtSite
<1>3. flag' \subseteq Threads /\ captured' \subseteq Sites \ Persistent /\ hits' \in [Threads -> Nat]
      /\ (byte[site] = "own" /\ ~Patched(site) => site \notin captured')
  BY <1>1, <1>2 DEF TrapInv, TrapTypes, ArmingInv
<1>4. PICK step \in {"breakpoint", "single step", "idle"} :
        /\ To(t, step)
        /\ step = "breakpoint" => byte[site] = "int3"
        /\ step = "single step" => byte[site] = "own" /\ t \in flag
        /\ step = "idle" => byte[site] = "own" /\ t \notin flag
  BY <1>2 DEF Execute
<1>5. /\ at'[t].step = step /\ at'[t].site = site /\ step \in TrapSteps \ {"gone"}
      /\ \A u \in Threads : u # t => at'[u] = at[u]
  BY <1>4, ThreadMoves DEF TrapInv, TrapSteps
<1>6. Patched(site) => SiteHolds(site)'
  <2>1. ASSUME Patched(site)
        PROVE  SiteHolds(site)'
    <3>1. SiteHolds(site) /\ at[t].site = site
      BY <1>2, <2>1
    <3>2. \A u \in Threads : /\ u # t /\ WillRearm(u, site) => WillRearm(u, site)'
                             /\ (Within(u, site) /\ at[u].step = "hit")' <=> Within(u, site) /\ at[u].step = "hit"
      BY <1>1, <1>4, <1>5 DEF WillRearm, Within
    <3>3. CASE site \in Persistent
      <4>1. CASE byte[site] = "int3"
        BY <1>1, <3>3, <4>1 DEF SiteHolds
      <4>2. CASE step = "single step"
        <5>1. WillRearm(t, site)'
          BY <1>1, <1>4, <1>5, <4>2 DEF WillRearm
        <5>2. QED
          BY <3>3, <5>1 DEF SiteHolds
      <4>3. CASE step = "idle"
        <5>1. ~WillRearm(t, site)
          BY <1>1, <1>4, <4>3 DEF WillRearm
        <5>2. QED
          BY <1>1, <1>4, <3>1, <3>2, <3>3, <4>3, <5>1 DEF SiteHolds
      <4>4. QED
        BY <1>4, <4>1, <4>2, <4>3
    <3>4. CASE site \notin Persistent
      BY <1>1, <3>1, <3>2, <3>4 DEF SiteHolds
    <3>5. QED
      BY <3>3, <3>4
  <2>2. QED
    BY <2>1
<1>7. (t \in armed /\ t \notin crossed) => OneInterception(t)'
  <2>1. Patched(site)' <=> Patched(site)
    BY <1>1 DEF Patched, Pending
  <2>2. QED
    BY <1>1, <1>2, <1>4, <1>5, <2>1 DEF OneInterception, Outside
<1>8. Patched(site) \/ (step = "idle" /\ byte[site] = "own" /\ site \notin captured')
  BY <1>2, <1>3, <1>4
<1>9. QED
  <2>1. step = "single step" => t \in flag'
    BY <1>1, <1>4
  <2>2. t \in flag' => site \in Persistent /\ step # "idle"
    BY <1>1, <1>2, <1>4
  <2>3. step # "unhandled" /\ To(t, step) /\ site = at[t].site
    BY <1>4
  <2>4. QED
    BY <1>1, <1>2, <1>3, <1>5, <1>6, <1>7, <1>8, <2>1, <2>2, <2>3, LocalStep

\* The handler finds the site of a breakpoint, unless one is being added.
LEMMA OnBreakpointKeepsTraps ==
  ASSUME TrapInv, Survives, NEW t \in Threads, OnBreakpoint(t), NEW site, site = at[t].site
  PROVE  TrapInv'
<1>1. /\ at[t].step = "breakpoint" /\ at[t].step \notin Outside
      /\ UNCHANGED <<byte, saved, listed, arming, installed, flag, captured, calls, hits, armed, crossed>>
  BY DEF OnBreakpoint, Finds, armVars, history, Outside
<1>2. /\ site \in Sites /\ byte[site] \in {"own", "int3"} /\ Patched(site) /\ site \in listed /\ SiteHolds(site)
      /\ t \in flag => site \in Persistent
      /\ (t \in armed /\ t \notin crossed) => OneInterception(t)
      /\ byte' = [byte EXCEPT ![site] = byte[site]]
  BY <1>1, StoppedAtSite
<1>3. flag' \subseteq Threads /\ captured' \subseteq Sites \ Persistent /\ hits' \in [Threads -> Nat]
  BY <1>1 DEF TrapInv, TrapTypes
<1>4. PICK step \in {"restore", "unhandled"} : To(t, step) /\ (step = "unhandled" => Doing("push"))
  BY <1>2 DEF OnBreakpoint, Finds
<1>5. /\ at'[t].step = step /\ at'[t].site = site /\ step \in TrapSteps \ {"gone"}
      /\ \A u \in Threads : u # t => at'[u] = at[u]
  BY <1>4, ThreadMoves DEF TrapInv, TrapSteps
<1>6. SiteHolds(site)'
  <2>1. ~WillRearm(t, site) /\ ~(Within(t, site) /\ at[t].step = "hit")
    BY <1>1 DEF WillRearm
  <2>2. \A u \in Threads : u # t => /\ WillRearm(u, site) => WillRearm(u, site)'
                                    /\ (Within(u, site) /\ at[u].step = "hit")' <=> Within(u, site) /\ at[u].step = "hit"
    BY <1>1, <1>5 DEF WillRearm, Within
  <2>3. ~(Within(t, site) /\ at[t].step = "hit")'
    BY <1>4, <1>5
  <2>4. QED
    BY <1>1, <1>2, <2>1, <2>2, <2>3 DEF SiteHolds
<1>7. (t \in armed /\ t \notin crossed) => OneInterception(t)'
  <2>1. Patched(site)'
    BY <1>1, <1>2 DEF Patched, Pending
  <2>2. QED
    BY <1>1, <1>2, <1>4, <1>5, <2>1 DEF OneInterception, Outside
<1>8. t \in flag' => site \in Persistent /\ step # "idle"
  BY <1>1, <1>2, <1>4
<1>9. step # "single step" /\ site = at[t].site
  BY <1>4
<1>10. QED
  BY <1>1, <1>2, <1>3, <1>4, <1>5, <1>6, <1>7, <1>8, <1>9, LocalStep

\* The handler writes the function's own byte: a thread is on the way to store what the
\* site is there for, or to write the breakpoint again.
LEMMA RestoreByteKeepsTraps ==
  ASSUME TrapInv, Survives, NEW t \in Threads, RestoreByte(t), NEW site, site = at[t].site
  PROVE  TrapInv'
<1>1. /\ at[t].step = "restore" /\ at[t].step \notin Outside /\ To(t, "hit")
      /\ byte' = [byte EXCEPT ![site] = saved[site]]
      /\ UNCHANGED <<saved, listed, arming, installed, flag, captured, calls, hits, armed, crossed>>
  BY DEF RestoreByte, armVars, history, Outside
<1>2. /\ site \in Sites /\ saved[site] = "own" /\ Patched(site)
      /\ t \in flag => site \in Persistent
      /\ (t \in armed /\ t \notin crossed) => OneInterception(t)
  BY <1>1, StoppedAtSite
<1>3. flag' \subseteq Threads /\ captured' \subseteq Sites \ Persistent /\ hits' \in [Threads -> Nat]
  BY <1>1 DEF TrapInv, TrapTypes
<1>4. byte' = [byte EXCEPT ![site] = "own"] /\ byte'[site] = "own"
  BY <1>1, <1>2 DEF TrapInv, TrapTypes
<1>5. "hit" \in TrapSteps \ {"gone"} /\ at'[t].step = "hit" /\ at'[t].site = site
  BY <1>1, ThreadMoves DEF TrapInv, TrapSteps
<1>6. SiteHolds(site)'
  <2>1. WillRearm(t, site)' /\ (Within(t, site) /\ at[t].step = "hit")'
    BY <1>5 DEF WillRearm, Within, Outside
  <2>2. QED
    BY <1>4, <2>1 DEF SiteHolds
<1>7. (t \in armed /\ t \notin crossed) => OneInterception(t)'
  <2>1. Patched(site)'
    BY <1>1, <1>2 DEF Patched, Pending
  <2>2. QED
    BY <1>1, <1>2, <1>4, <1>5, <2>1 DEF OneInterception, Outside
<1>8. t \in flag' => site \in Persistent
  BY <1>1, <1>2
<1>9. QED
  BY <1>1, <1>2, <1>3, <1>4, <1>5, <1>6, <1>7, <1>8, LocalStep

\* What the site is there for happens, and the thread takes the instruction again.
LEMMA OnHitKeepsTraps ==
  ASSUME TrapInv, Survives, NEW t \in Threads, OnHit(t), NEW site, site = at[t].site
  PROVE  TrapInv'
<1>1. /\ at[t].step = "hit" /\ at[t].step \notin Outside /\ To(t, "fetch")
      /\ hits' = [hits EXCEPT ![t] = @ + 1]
      /\ captured' = captured \cup ({site} \ Persistent)
      /\ flag' = IF site \in Persistent THEN flag \cup {t} ELSE flag
      /\ UNCHANGED <<byte, saved, listed, arming, installed, calls, armed, crossed>>
  BY DEF OnHit, Kept, Outside
<1>2. /\ site \in Sites /\ byte[site] \in {"own", "int3"} /\ Patched(site) /\ SiteHolds(site)
      /\ t \in flag => site \in Persistent
      /\ (t \in armed /\ t \notin crossed) => OneInterception(t)
      /\ byte' = [byte EXCEPT ![site] = byte[site]]
  BY <1>1, StoppedAtSite
<1>3. /\ flag' \subseteq Threads /\ captured' \subseteq Sites \ Persistent /\ hits' \in [Threads -> Nat]
      /\ hits'[t] = hits[t] + 1 /\ \A u \in Threads : u # t => hits'[u] = hits[u]
      /\ \A u \in Threads : u # t => (u \in flag' <=> u \in flag)
      /\ \A other \in Sites : other # site => (other \in captured' <=> other \in captured)
  <2>1. hits \in [Threads -> Nat] /\ captured \subseteq Sites \ Persistent /\ flag \subseteq Threads
    BY DEF TrapInv, TrapTypes
  <2>2. QED
    BY <1>1, <1>2, <2>1
<1>4. "fetch" \in TrapSteps \ {"gone"} /\ at'[t].step = "fetch" /\ at'[t].site = site
  BY <1>1, ThreadMoves DEF TrapInv, TrapSteps
<1>5. SiteHolds(site)'
  <2>1. CASE site \in Persistent
    <3>1. WillRearm(t, site)'
      BY <1>1, <1>4, <2>1 DEF WillRearm
    <3>2. QED
      BY <2>1, <3>1 DEF SiteHolds
  <2>2. CASE site \notin Persistent
    <3>1. byte[site] = "own"
      BY <1>1, <1>2, <2>2 DEF SiteHolds, Within
    <3>2. byte'[site] = "own" /\ site \in captured'
      BY <1>1, <2>2, <3>1
    <3>3. QED
      BY <2>2, <3>2 DEF SiteHolds
  <2>3. QED
    BY <2>1, <2>2
<1>6. (t \in armed /\ t \notin crossed) => OneInterception(t)'
  <2>1. Patched(site)'
    BY <1>1, <1>2 DEF Patched, Pending
  <2>2. ASSUME OneInterception(t)
        PROVE  OneInterception(t)'
    <3>1. byte'[site] = "own" /\ hits'[t] = 1
      BY <1>1, <1>3, <2>2 DEF OneInterception
    <3>2. site \in Persistent => t \in flag'
      BY <1>1
    <3>3. QED
      BY <1>4, <2>1, <3>1, <3>2 DEF OneInterception, Outside
  <2>3. QED
    BY <1>2, <2>2
<1>7. t \in flag' => site \in Persistent
  BY <1>1, <1>2
<1>8. at[t].step \notin Outside /\ To(t, "fetch") /\ UNCHANGED <<saved, listed, arming, installed, calls, armed, crossed>>
  BY <1>1
<1>9. QED
  BY <1>2, <1>3, <1>4, <1>5, <1>6, <1>7, <1>8, LocalStep

\* After the instruction the breakpoint is written again.
LEMMA OnSingleStepKeepsTraps ==
  ASSUME TrapInv, Survives, NEW t \in Threads, OnSingleStep(t), NEW site, site = at[t].site
  PROVE  TrapInv'
<1>1. /\ at[t].step = "single step" /\ at[t].step \notin Outside /\ flag' = flag \ {t}
      /\ UNCHANGED <<saved, listed, arming, installed, captured, calls, hits, armed, crossed>>
  BY DEF OnSingleStep, armVars, history, Outside
<1>2. /\ site \in Sites /\ byte[site] \in {"own", "int3"} /\ Patched(site) /\ SiteHolds(site) /\ site \in listed
      /\ (t \in armed /\ t \notin crossed) => OneInterception(t)
      /\ byte = [byte EXCEPT ![site] = byte[site]]
  BY <1>1, StoppedAtSite
<1>3. site \in Persistent
  BY <1>1 DEF TrapInv, FlagInv
<1>4. flag' \subseteq Threads /\ captured' \subseteq Sites \ Persistent /\ hits' \in [Threads -> Nat]
  BY <1>1 DEF TrapInv, TrapTypes
<1>5. PICK step \in {"idle", "unhandled"}, own \in {"own", "int3"} :
        /\ To(t, step) /\ byte' = [byte EXCEPT ![site] = own]
        /\ step = "idle" => own = "int3"
        /\ step = "unhandled" => Doing("push") /\ own = byte[site]
  <2>1. CASE To(t, "idle") /\ byte' = [byte EXCEPT ![site] = "int3"]
    BY <2>1
  <2>2. CASE To(t, "unhandled") /\ Doing("push") /\ byte' = byte
    BY <1>2, <2>2
  <2>3. QED
    BY <1>2, <2>1, <2>2 DEF OnSingleStep, Finds, Rearmed
<1>6. step \in TrapSteps \ {"gone"} /\ at'[t].step = step /\ at'[t].site = site /\ byte'[site] = own
  <2>1. byte'[site] = own
    BY <1>2, <1>5 DEF TrapInv, TrapTypes
  <2>2. step \in TrapSteps \ {"gone"}
    BY <1>5 DEF TrapSteps
  <2>3. QED
    BY <1>5, <2>1, <2>2, ThreadMoves DEF TrapInv
<1>7. SiteHolds(site)'
  <2>1. CASE step = "idle"
    BY <1>3, <1>5, <1>6, <2>1 DEF SiteHolds
  <2>2. CASE step = "unhandled"
    <3>1. WillRearm(t, site)'
      BY <1>6, <2>2 DEF WillRearm
    <3>2. QED
      BY <1>3, <3>1 DEF SiteHolds
  <2>3. QED
    BY <1>5, <2>1, <2>2
<1>8. (t \in armed /\ t \notin crossed) => OneInterception(t)'
  <2>1. Patched(site)'
    BY <1>1, <1>2 DEF Patched, Pending
  <2>2. QED
    BY <1>1, <1>2, <1>5, <1>6, <2>1 DEF OneInterception, Outside
<1>9. /\ t \notin flag' /\ step # "single step"
      /\ \A u \in Threads : u # t => (u \in flag' <=> u \in flag)
  BY <1>1, <1>5
<1>10. QED
  BY <1>1, <1>2, <1>3, <1>4, <1>5, <1>6, <1>7, <1>8, <1>9, LocalStep

\* A call finds the breakpoint or does not; whoever is in the function already is crossed.
LEMMA CallFunctionKeepsTraps ==
  ASSUME TrapInv, Survives, NEW t \in Threads, NEW site \in Sites, CallFunction(t, site)
  PROVE  TrapInv'
<1> USE DEF TrapInv
<1>1. /\ at[t].step = "idle" /\ calls' = calls + 1
      /\ at' = [at EXCEPT ![t] = [step |-> "fetch", site |-> site]]
      /\ hits' = [hits EXCEPT ![t] = 0]
      /\ armed' = IF byte[site] = "int3" THEN armed \cup {t} ELSE armed \ {t}
      /\ UNCHANGED <<byte, saved, listed, arming, installed, flag, captured>>
  BY DEF CallFunction, armVars
<1>2. /\ Inside(site) = {} => crossed' = crossed \ {t}
      /\ Inside(site) # {} => crossed' = crossed \cup Inside(site) \cup {t}
  BY DEF CallFunction
<1>3. t \notin flag
  BY <1>1 DEF FlagInv
<1>4. /\ at'[t] = [step |-> "fetch", site |-> site] /\ at'[t].step = "fetch" /\ at'[t].site = site
      /\ \A u \in Threads : u # t => at'[u] = at[u]
  BY <1>1 DEF TrapTypes
<1>5. \A other \in Sites : Patched(other)' <=> Patched(other)
  BY <1>1 DEF Patched, Pending
<1>6. \A u \in Threads, other \in Sites : Within(u, other)' <=> IF u = t THEN other = site ELSE Within(u, other)
  BY <1>4 DEF Within, Outside
<1>7. TrapTypes'
  <2>1. at' \in [Threads -> [step : TrapSteps, site : Sites \cup {NoSite}]]
    BY <1>1 DEF TrapTypes, TrapSteps
  <2>2. \A u \in Threads : at'[u].step \notin Outside => at'[u].site \in Sites
    BY <1>4 DEF TrapTypes
  <2>3. hits' \in [Threads -> Nat] /\ calls' \in Nat
    BY <1>1 DEF TrapTypes
  <2>4. QED
    BY <1>1, <2>1, <2>2, <2>3 DEF TrapTypes
<1>8. ArmingInv'
  <2>1. ASSUME NEW other \in Sites, ~Patched(other), NEW u \in Threads, Within(u, other)'
        PROVE  at'[u].step = "fetch" /\ u \notin flag'
    BY <1>1, <1>3, <1>4, <1>6, <2>1 DEF ArmingInv
  <2>2. QED
    BY <1>1, <1>5, <2>1 DEF ArmingInv
<1>9. ListedInv' /\ FlagInv'
  <2>1. ~Ended
    BY <1>1 DEF Ended
  <2>2. QED
    BY <1>1, <1>3, <1>4, <1>5, <2>1 DEF ListedInv, FlagInv, TrapTypes
<1>10. SiteInv'
  <2>1. ASSUME NEW other \in listed, Patched(other)
        PROVE  SiteHolds(other)'
    <3>1. \A u \in Threads : /\ WillRearm(u, other)' <=> WillRearm(u, other)
                             /\ (Within(u, other) /\ at[u].step = "hit")' <=> Within(u, other) /\ at[u].step = "hit"
      BY <1>1, <1>3, <1>4 DEF WillRearm, Within
    <3>2. SiteHolds(other)
      BY <2>1 DEF SiteInv
    <3>3. QED
      BY <1>1, <3>1, <3>2 DEF SiteHolds
  <2>2. QED
    BY <1>1, <1>5, <2>1 DEF SiteInv, TrapTypes
<1>11. CallInv'
  <2>1. ASSUME t \notin crossed'
        PROVE  Lonely(t)' /\ (t \in armed' => OneInterception(t)')
    <3>1. \A u \in Threads : ~Within(u, site)
      BY <1>2, <2>1 DEF Within, Inside
    <3>2. Lonely(t)'
      BY <1>6, <3>1 DEF Lonely
    <3>3. ASSUME t \in armed'
          PROVE  OneInterception(t)'
      <4>1. byte[site] = "int3"
        BY <1>1, <3>3
      <4>2. Patched(site)'
        BY <1>5, <4>1 DEF ArmingInv
      <4>3. hits'[t] = 0
        BY <1>1 DEF TrapTypes
      <4>4. QED
        BY <1>1, <1>4, <4>1, <4>2, <4>3 DEF OneInterception, Outside
    <3>4. QED
      BY <3>2, <3>3
  <2>2. ASSUME NEW u \in Threads, u # t, u \notin crossed'
        PROVE  Lonely(u)' /\ (u \in armed' => OneInterception(u)')
    <3>1. u \notin crossed /\ ~Within(u, site)
      BY <1>2, <2>2 DEF Within, Inside
    <3>2. Lonely(u) /\ (u \in armed => OneInterception(u))
      BY <3>1 DEF CallInv
    <3>3. Lonely(u)'
      BY <1>6, <2>2, <3>1, <3>2 DEF Lonely
    <3>4. u \in armed' => u \in armed
      BY <1>1, <2>2
    <3>5. ASSUME OneInterception(u)
          PROVE  OneInterception(u)'
      <4>1. at'[u] = at[u] /\ hits'[u] = hits[u]
        BY <1>1, <1>4, <2>2 DEF TrapTypes
      <4>2. at[u].step \notin Outside => at[u].site \in Sites
        BY DEF TrapTypes
      <4>3. at[u].step \notin Outside => (Patched(at[u].site)' <=> Patched(at[u].site))
        BY <1>1, <4>1 DEF Patched, Pending
      <4>4. QED
        BY <1>1, <3>5, <4>1, <4>2, <4>3 DEF OneInterception, Outside
    <3>6. QED
      BY <3>2, <3>3, <3>4, <3>5
  <2>3. armed' \subseteq Threads
    BY <1>1 DEF CallInv
  <2>4. QED
    BY <2>1, <2>2, <2>3 DEF CallInv
<1>12. HandledOnceListed'
  BY <1>4 DEF HandledOnceListed, Survives
<1>13. QED
  BY <1>7, <1>8, <1>9, <1>10, <1>11, <1>12

\* Every step of Steam's threads and of the one that arms keeps the breakpoints right.
LEMMA TrapsKeepTraps ==
  ASSUME TrapInv, TrapsNext
  PROVE  TrapInv'
<1>1. ASSUME NEW t \in Threads, Thread(t)
      PROVE  TrapInv'
  BY <1>1, ExecuteKeepsTraps, OnBreakpointKeepsTraps, RestoreByteKeepsTraps, OnHitKeepsTraps,
     OnSingleStepKeepsTraps, CallFunctionKeepsTraps DEF TrapsNext, Thread
<1>2. QED
  BY <1>1, ArmKeepsTraps, PushKeepsTraps, PatchKeepsTraps, DisarmKeepsTraps DEF TrapsNext

\* So does a step of anything else.
LEMMA SameTraps ==
  ASSUME TrapInv, UNCHANGED trapVars
  PROVE  TrapInv'
<1> USE DEF TrapInv, trapVars, armVars, history
<1>1. /\ \A site \in Sites : Patched(site)' <=> Patched(site)
      /\ \A site \in Sites : (Patched(site) /\ SiteHolds(site)) => SiteHolds(site)'
  BY SameSite DEF Patched, Pending
<1>2. TrapTypes' /\ ArmingInv'
  BY <1>1 DEF TrapTypes, ArmingInv, Within
<1>3. ListedInv' /\ FlagInv' /\ SiteInv'
  BY <1>1 DEF ListedInv, Ended, FlagInv, SiteInv, TrapTypes
<1>4. CallInv'
  BY <1>1, SameCalls
<1>5. HandledOnceListed'
  BY DEF HandledOnceListed, Survives, Doing
<1>6. QED
  BY <1>2, <1>3, <1>4, <1>5

-----------------------------------------------------------------------------
(* Libraries                                                               *)

\* What ResolveRemoteExport's definition says of a link, given what it says of the others.
Follow(f, link, modules) ==
  LET module == FindModule(link[1])
      found == link[2] <= MaxDepth /\ module \in modules
  IN CASE ~found -> NoModule
       [] found /\ exports[module] = "code" -> module
       [] found /\ exports[module] \in {"unsupported", "nothing"} -> NoModule
       [] OTHER -> f[<<exports[module], link[2] + 1>>]
Follows(f, modules) == f = [link \in Links |-> Follow(f, link, modules)]
FollowsFrom(f, depth, modules) == \A link \in Links : link[2] >= depth => f[link] = Follow(f, link, modules)

\* From the greatest depth down to none.
LEMMA DownToZero ==
  ASSUME NEW S, 9 \in S, \A deeper \in S, depth \in 0 .. 8 : deeper = depth + 1 => depth \in S
  PROVE  0 \in S
  OBVIOUS

\* What is right for the links of a depth can be extended to those one nearer.
LEMMA OneLinkNearer ==
  ASSUME exports \in [Modules -> Exports], NEW modules \in SUBSET Modules,
         NEW depth \in 0 .. MaxDepth, NEW f, FollowsFrom(f, depth + 1, modules)
  PROVE  \E g : FollowsFrom(g, depth, modules)
<1> DEFINE g == [link \in Links |-> IF link[2] > depth THEN f[link] ELSE Follow(f, link, modules)]
<1>1. \A link \in Links : link[2] \in 0 .. MaxDepth + 1
  BY DEF Links
<1>2. ASSUME NEW link \in Links, link[2] >= depth
      PROVE  g[link] = Follow(g, link, modules)
  <2>1. g[link] = Follow(f, link, modules)
    BY <1>1, <1>2 DEF FollowsFrom, MaxDepth
  <2>2. ASSUME link[2] <= MaxDepth, NEW module \in Modules
        PROVE  g[<<exports[module], link[2] + 1>>] = f[<<exports[module], link[2] + 1>>]
    <3>1. <<exports[module], link[2] + 1>> \in Links
      BY <1>1, <2>2 DEF Links, MaxDepth
    <3>2. <<exports[module], link[2] + 1>>[2] > depth
      BY <1>1, <1>2
    <3>3. QED
      BY <3>1, <3>2
  <2> HIDE DEF g
  <2>3. Follow(f, link, modules) = Follow(g, link, modules)
    BY <2>2 DEF Follow
  <2>4. QED
    BY <2>1, <2>3
<1>3. FollowsFrom(g, depth, modules)
  BY <1>2 DEF FollowsFrom
<1>4. QED
  BY <1>3

\* Eight forwarders at most are followed, so that ResolveRemoteExport is defined.
LEMMA ResolutionFollows ==
  ASSUME exports \in [Modules -> Exports], NEW modules \in SUBSET Modules
  PROVE  Follows(Resolution(modules), modules)
<1> DEFINE Defined(depth) == \E f : FollowsFrom(f, depth, modules)
<1>1. Defined(MaxDepth + 1)
  <2> DEFINE f == [link \in Links |-> NoModule]
  <2>1. FollowsFrom(f, MaxDepth + 1, modules)
    BY DEF FollowsFrom, Follow, Links, MaxDepth
  <2>2. QED
    BY <2>1
<1>2. \A depth \in 0 .. MaxDepth : Defined(depth + 1) => Defined(depth)
  BY OneLinkNearer
<1> HIDE DEF Defined
<1>3. Defined(0)
  <2> DEFINE S == {depth \in 0 .. 9 : Defined(depth)}
  <2>1. Defined(9)
    BY <1>1 DEF MaxDepth
  <2>2. ASSUME NEW depth \in 0 .. 8, NEW deeper, deeper = depth + 1, Defined(deeper)
        PROVE  Defined(depth)
    BY <1>2, <2>2 DEF MaxDepth
  <2>3. 9 \in S /\ \A deeper \in S, depth \in 0 .. 8 : deeper = depth + 1 => depth \in S
    BY <2>1, <2>2
  <2> HIDE DEF S
  <2>4. 0 \in S
    BY <2>3, DownToZero
  <2>5. QED
    BY <2>4 DEF S
<1>4. PICK f : FollowsFrom(f, 0, modules)
  BY <1>3 DEF Defined
<1> DEFINE g == [link \in Links |-> f[link]]
<1>5. \A link \in Links : g[link] = Follow(g, link, modules)
  <2>1. \A link \in Links : f[link] = Follow(f, link, modules)
    BY <1>4 DEF FollowsFrom, Links
  <2>2. ASSUME NEW link \in Links
        PROVE  Follow(f, link, modules) = Follow(g, link, modules)
    <3>1. ASSUME link[2] <= MaxDepth, NEW module \in Modules
          PROVE  <<exports[module], link[2] + 1>> \in Links
      BY <3>1 DEF Links, MaxDepth
    <3>2. \A module \in Modules : link[2] <= MaxDepth =>
            g[<<exports[module], link[2] + 1>>] = f[<<exports[module], link[2] + 1>>]
      BY <3>1
    <3> HIDE DEF g
    <3>3. QED
      BY <3>2 DEF Follow
  <2>3. QED
    BY <2>1, <2>2
<1>6. g = [link \in Links |-> g[link]]
  OBVIOUS
<1> HIDE DEF g
<1>7. Follows(g, modules)
  BY <1>5, <1>6 DEF Follows
<1>8. Resolution(modules) = CHOOSE h : Follows(h, modules)
  BY Zenon DEF Resolution, Follows, Follow
<1> HIDE DEF Follows
<1>9. QED
  BY <1>7, <1>8

\* What it returns is a module of the game that has the code, or none.
WithTheCode == {module \in Modules : exports[module] = "code"}
LEMMA ResolvesToTheCode ==
  ASSUME exports \in [Modules -> Exports], NEW modules \in SUBSET Modules
  PROVE  ResolveRemoteExport(modules) \in WithTheCode \cup {NoModule}
<1> DEFINE R == Resolution(modules)
<1> DEFINE Right(depth) == \A name \in Exports : R[<<name, depth>>] \in WithTheCode \cup {NoModule}
<1>1. \A link \in Links : R[link] = Follow(R, link, modules)
  BY ResolutionFollows DEF Follows
<1> HIDE DEF R
<1>2. Right(MaxDepth + 1)
  <2>1. ASSUME NEW name \in Exports
        PROVE  R[<<name, MaxDepth + 1>>] = NoModule
    <3>1. <<name, MaxDepth + 1>> \in Links /\ <<name, MaxDepth + 1>>[2] = MaxDepth + 1
      BY DEF Links, MaxDepth
    <3>2. R[<<name, MaxDepth + 1>>] = Follow(R, <<name, MaxDepth + 1>>, modules)
      BY <1>1, <3>1
    <3>3. QED
      BY <3>1, <3>2 DEF Follow, MaxDepth
  <2>2. QED
    BY <2>1
<1>3. ASSUME NEW depth \in 0 .. MaxDepth, Right(depth + 1)
      PROVE  Right(depth)
  <2>1. ASSUME NEW name \in Exports
        PROVE  R[<<name, depth>>] \in WithTheCode \cup {NoModule}
    <3>1. <<name, depth>> \in Links /\ <<name, depth>>[1] = name /\ <<name, depth>>[2] = depth
      BY DEF Links, MaxDepth
    <3>2. R[<<name, depth>>] = Follow(R, <<name, depth>>, modules)
      BY <1>1, <3>1
    <3>3. \A module \in modules : exports[module] \in Exports
      OBVIOUS
    <3>4. QED
      BY <1>3, <3>1, <3>2, <3>3 DEF Follow, WithTheCode
  <2>2. QED
    BY <2>1
<1>4. "kernel32" \in Exports
  BY DEF Exports, Modules
<1> HIDE DEF Right
<1>5. Right(0)
  <2> DEFINE S == {depth \in 0 .. 9 : Right(depth)}
  <2>1. Right(9)
    BY <1>2 DEF MaxDepth
  <2>2. ASSUME NEW depth \in 0 .. 8, NEW deeper, deeper = depth + 1, Right(deeper)
        PROVE  Right(depth)
    BY <1>3, <2>2 DEF MaxDepth
  <2>3. 9 \in S /\ \A deeper \in S, depth \in 0 .. 8 : deeper = depth + 1 => depth \in S
    BY <2>1, <2>2
  <2> HIDE DEF S
  <2>4. 0 \in S
    BY <2>3, DownToZero
  <2>5. QED
    BY <2>4 DEF S
<1>6. QED
  BY <1>4, <1>5 DEF Right, R, ResolveRemoteExport

Results == {"Ok", "OpenProcessFailed", "UnknownArchitecture", "ResolveLoadLibraryFailed", "AllocFailed",
            "WriteFailed", "CreateThreadFailed", "WaitFailed", "RemoteLoadFailed"}
InjectSteps == {"idle", "open", "architecture", "resolve", "allocate", "write", "start", "wait", "exit code"}
RemoteTypes ==
  /\ game \in {"running", "ended", "crashed"} /\ exports \in [Modules -> Exports]
  /\ inject \in [step : InjectSteps, library : Libraries \cup {NoLibrary}, loadLibrary : Modules \cup {NoModule}]
  /\ inject.library \in Libraries <=> inject.step # "idle"
  /\ memory \in [Libraries -> {"none", "blank", "path", "freed"}]
  /\ remote \in [Libraries -> {"none", "started", "loading", "loaded", "failed"}]
  /\ status \in [Libraries -> Results \cup {"none"}] /\ cutShort \subseteq Libraries

\* A thread is started at LoadLibraryW's code only, and what one reads is there until the
\* thread is over or its wait cut short.
Current(library) == library = inject.library
PathInv ==
  /\ inject.step \in {"allocate", "write", "start"} => inject.loadLibrary \in WithTheCode
  /\ inject.step \in {"start", "wait", "exit code"} => memory[inject.library] = "path"
  /\ inject.step = "exit code" => Over(inject.library)
  /\ \A library \in Libraries :
       /\ ~Current(library) => memory[library] \in {"none", "freed"}
       /\ game = "running" /\ remote[library] = "started" =>
            library \in cutShort \/ (Current(library) /\ inject.step = "wait")
  /\ game = "crashed" => cutShort # {}

\* A library that has not been reported as anything is not in the game, unless it is under way.
StatusInv ==
  \A library \in Libraries :
    /\ Current(library) => status[library] = "none"
    /\ status[library] = "none" /\ remote[library] # "none" => Current(library) /\ inject.step \in {"wait", "exit code"}

RemoteInv == RemoteTypes /\ PathInv /\ StatusInv /\ SuccessIsTrue

\* It says what the properties do.
LEMMA RemoteInvHolds ==
  ASSUME RemoteInv
  PROVE  PathOutlivesItsReader /\ SuccessIsTrue
  BY DEF RemoteInv, PathInv, Current, PathOutlivesItsReader

\* At first nothing has been injected.
LEMMA InitRemote ==
  ASSUME RemoteInit
  PROVE  RemoteInv
<1> USE DEF RemoteInit
<1>1. RemoteTypes
  BY NoLibraryAssumption DEF RemoteTypes, InjectSteps
<1>2. PathInv /\ StatusInv /\ SuccessIsTrue
  BY NoLibraryAssumption DEF PathInv, StatusInv, SuccessIsTrue, Current
<1>3. QED
  BY <1>1, <1>2 DEF RemoteInv

\* Any return leaves no library under way, and its path freed.
LEMMA ReturnKeepsRemote ==
  ASSUME RemoteInv, NEW result \in Results, Return(result), inject.step # "idle", UNCHANGED <<exports, remote, game>>,
         cutShort' \subseteq Libraries, cutShort \subseteq cutShort',
         (game = "running" /\ remote[inject.library] = "started") => inject.library \in cutShort',
         (result = "Ok" /\ game = "running") => remote[inject.library] = "loaded"
  PROVE  RemoteInv'
<1> USE DEF RemoteInv
<1>1. /\ inject'.step = "idle" /\ inject'.library = NoLibrary /\ inject.library \in Libraries
      /\ inject' \in [step : InjectSteps, library : Libraries \cup {NoLibrary}, loadLibrary : Modules \cup {NoModule}]
  BY DEF Return, RemoteTypes, InjectSteps
<1>2. /\ status' = [status EXCEPT ![inject.library] = result]
      /\ memory' = [memory EXCEPT ![inject.library] = FreedAs(inject.library)]
      /\ FreedAs(inject.library) \in {"none", "freed"}
  BY DEF Return, FreedAs
<1>3. RemoteTypes'
  BY <1>1, <1>2, NoLibraryAssumption DEF RemoteTypes
<1>4. PathInv'
  <2>1. ASSUME NEW library \in Libraries
        PROVE  /\ memory'[library] \in {"none", "freed"}
               /\ game = "running" /\ remote[library] = "started" => library \in cutShort'
    BY <1>1, <1>2 DEF RemoteTypes, PathInv, Current
  <2>2. QED
    BY <1>1, <2>1 DEF PathInv
<1>5. StatusInv'
  <2>1. ASSUME NEW library \in Libraries
        PROVE  ~Current(library)' /\ (status'[library] = "none" => remote'[library] = "none")
    BY <1>1, <1>2, NoLibraryAssumption DEF RemoteTypes, StatusInv, Current, Results
  <2>2. QED
    BY <2>1 DEF StatusInv
<1>6. SuccessIsTrue'
  BY <1>1, <1>2 DEF SuccessIsTrue, RemoteTypes
<1>7. QED
  BY <1>3, <1>4, <1>5, <1>6

\* The injecting thread goes on with its library.
LEMMA InjectionGoesOn ==
  ASSUME RemoteInv, inject.step # "idle", NEW step \in InjectSteps \ {"idle"}, NEW loadLibrary \in Modules \cup {NoModule},
         inject' = [step |-> step, library |-> inject.library, loadLibrary |-> loadLibrary],
         NEW held \in {"none", "blank", "path", "freed"}, memory' = [memory EXCEPT ![inject.library] = held],
         UNCHANGED <<game, exports, remote, status, cutShort>>,
         step \in {"allocate", "write", "start"} => loadLibrary \in WithTheCode,
         step \in {"start", "exit code"} => held = "path",
         step = "exit code" => Over(inject.library),
         inject.step = "wait" => step = "exit code",
         inject.step = "exit code" => step = "exit code",
         step # "wait"
  PROVE  RemoteInv'
<1> USE DEF RemoteInv
<1>1. inject'.step = step /\ inject'.library = inject.library /\ inject'.loadLibrary = loadLibrary /\ inject.library \in Libraries
  BY DEF RemoteTypes
<1>2. RemoteTypes'
  BY <1>1 DEF RemoteTypes
<1>3. memory'[inject.library] = held /\ \A library \in Libraries : ~Current(library) => memory'[library] = memory[library]
  BY <1>1 DEF RemoteTypes, Current
<1>4. PathInv'
  <2>1. ASSUME NEW library \in Libraries, game = "running", remote[library] = "started", library \notin cutShort
        PROVE  FALSE
    BY <1>1, <2>1 DEF PathInv, Current, Over
  <2>2. QED
    BY <1>1, <1>3, <2>1 DEF PathInv, WithTheCode, Current, Over
<1>5. StatusInv' /\ SuccessIsTrue'
  BY <1>1 DEF StatusInv, Current, SuccessIsTrue
<1>6. QED
  BY <1>2, <1>4, <1>5

\* The steps of InjectLibrary up to the thread it starts.
LEMMA InjectingThreadKeepsRemote ==
  ASSUME RemoteInv, InjectingThread
  PROVE  RemoteInv'
<1> USE DEF RemoteInv
<1>1. UNCHANGED <<game, exports, remote, cutShort>> /\ cutShort \subseteq Libraries
  BY DEF InjectingThread, RemoteTypes
<1>2. ASSUME NEW library \in Libraries, Claimed(library)
      PROVE  RemoteInv'
  <2>1. /\ inject'.step = "open" /\ inject'.library = library /\ inject.step = "idle" /\ status[library] = "none"
        /\ inject' \in [step : InjectSteps, library : Libraries \cup {NoLibrary}, loadLibrary : Modules \cup {NoModule}]
        /\ UNCHANGED <<memory, status>>
    BY <1>2 DEF Claimed, RemoteTypes, InjectSteps
  <2>2. RemoteTypes'
    BY <1>1, <2>1 DEF RemoteTypes
  <2>3. \A other \in Libraries : ~Current(other)
    BY <2>1 DEF RemoteTypes, Current
  <2>4. PathInv'
    BY <1>1, <2>1, <2>3 DEF PathInv
  <2>5. StatusInv' /\ SuccessIsTrue'
    BY <1>1, <2>1, <2>3 DEF StatusInv, Current, SuccessIsTrue
  <2>6. QED
    BY <2>2, <2>4, <2>5
<1>3. ASSUME NEW result \in Results, result # "Ok", inject.step \notin {"idle", "wait", "exit code"}, Return(result)
      PROVE  RemoteInv'
  <2>1. game = "running" /\ remote[inject.library] = "started" => inject.library \in cutShort
    BY <1>3 DEF PathInv, RemoteTypes
  <2>2. QED
    BY <1>1, <1>3, <2>1, ReturnKeepsRemote
<1>4. ASSUME NEW from, inject.step = from, NEW step, Goto(step)
      PROVE  inject' = [step |-> step, library |-> inject.library, loadLibrary |-> inject.loadLibrary]
  <2>1. inject = [step |-> inject.step, library |-> inject.library, loadLibrary |-> inject.loadLibrary]
    BY DEF RemoteTypes
  <2>2. QED
    BY <1>4, <2>1 DEF Goto
<1>5. inject.step # "idle" => inject.library \in Libraries /\ inject.loadLibrary \in Modules \cup {NoModule}
  BY DEF RemoteTypes
<1>6. inject.step # "idle" => /\ memory = [memory EXCEPT ![inject.library] = memory[inject.library]]
                              /\ memory[inject.library] \in {"none", "blank", "path", "freed"}
  BY <1>5 DEF RemoteTypes
<1>7. CASE OpenProcess \/ DetectArchitecture
  <2>1. ASSUME inject.step \in {"open", "architecture"}, NEW step \in {"architecture", "resolve"}, Goto(step), UNCHANGED <<memory, status>>
        PROVE  RemoteInv'
    BY <1>1, <1>4, <1>5, <1>6, <2>1, InjectionGoesOn DEF InjectSteps
  <2>2. QED
    BY <1>3, <1>7, <2>1 DEF OpenProcess, DetectArchitecture, Results
<1>8. CASE ResolveRemoteLoadLibraryW
  <2>1. inject.step = "resolve"
    BY <1>8 DEF ResolveRemoteLoadLibraryW
  <2>2. ASSUME NEW module \in WithTheCode, inject' = [inject EXCEPT !.step = "allocate", !.loadLibrary = module],
               UNCHANGED <<memory, status>>
        PROVE  RemoteInv'
    <3>1. inject' = [step |-> "allocate", library |-> inject.library, loadLibrary |-> module]
      <4>1. inject = [step |-> inject.step, library |-> inject.library, loadLibrary |-> inject.loadLibrary]
        BY DEF RemoteTypes
      <4>2. QED
        BY <2>2, <4>1
    <3>2. QED
      BY <1>1, <1>5, <1>6, <2>1, <2>2, <3>1, InjectionGoesOn DEF InjectSteps, WithTheCode
  <2>3. PICK modules \in SUBSET Modules :
          LET module == ResolveRemoteExport(modules) IN
          IF module = NoModule THEN Return("ResolveLoadLibraryFailed")
          ELSE /\ inject' = [inject EXCEPT !.step = "allocate", !.loadLibrary = module]
               /\ UNCHANGED <<memory, status>>
    BY <1>8 DEF ResolveRemoteLoadLibraryW, Enumerations
  <2>4. ResolveRemoteExport(modules) \in WithTheCode \cup {NoModule}
    BY ResolvesToTheCode DEF RemoteTypes
  <2>5. QED
    BY <1>3, <2>1, <2>2, <2>3, <2>4 DEF Results
<1>9. CASE AllocatePath \/ WritePath
  <2>1. ASSUME inject.step \in {"allocate", "write"}, NEW step \in {"write", "start"}, Goto(step),
               NEW held \in {"blank", "path"}, step = "start" => held = "path",
               memory' = [memory EXCEPT ![inject.library] = held], UNCHANGED status
        PROVE  RemoteInv'
    BY <1>1, <1>4, <1>5, <2>1, InjectionGoesOn DEF InjectSteps, PathInv
  <2>2. QED
    BY <1>3, <1>9, <2>1 DEF AllocatePath, WritePath, Results
<1>10. QED
  BY <1>2, <1>7, <1>8, <1>9 DEF InjectingThread

\* The thread that loads the library is started at its code.
LEMMA StartKeepsRemote ==
  ASSUME RemoteInv, CreateRemoteThread
  PROVE  RemoteInv'
<1> USE DEF RemoteInv
<1>1. inject.step = "start" /\ inject.library \in Libraries /\ UNCHANGED <<exports, cutShort>> /\ cutShort \subseteq Libraries
  BY DEF CreateRemoteThread, RemoteTypes
<1>2. exports[inject.loadLibrary] = "code" /\ memory[inject.library] = "path" /\ status[inject.library] = "none"
      /\ (game = "running" /\ remote[inject.library] = "started" => inject.library \in cutShort)
  BY <1>1 DEF PathInv, WithTheCode, StatusInv, Current
<1>3. CASE Return("CreateThreadFailed") /\ UNCHANGED <<game, remote>>
  BY <1>1, <1>2, <1>3, ReturnKeepsRemote DEF Results
<1>4. CASE Goto("wait") /\ remote' = [remote EXCEPT ![inject.library] = "started"] /\ UNCHANGED <<game, memory, status>>
  <2>1. /\ inject'.step = "wait" /\ inject'.library = inject.library
        /\ inject' \in [step : InjectSteps, library : Libraries \cup {NoLibrary}, loadLibrary : Modules \cup {NoModule}]
    BY <1>4 DEF Goto, RemoteTypes, InjectSteps
  <2>2. RemoteTypes'
    BY <1>1, <1>4, <2>1 DEF RemoteTypes
  <2>3. \A library \in Libraries : ~Current(library) => remote'[library] = remote[library]
    BY <1>1, <1>4 DEF RemoteTypes, Current
  <2>4. PathInv'
    BY <1>1, <1>2, <1>4, <2>1, <2>3 DEF PathInv, Current
  <2>5. StatusInv' /\ SuccessIsTrue'
    BY <1>1, <1>2, <1>4, <2>1, <2>3 DEF StatusInv, Current, SuccessIsTrue
  <2>6. QED
    BY <2>2, <2>4, <2>5
<1>5. QED
  BY <1>2, <1>3, <1>4 DEF CreateRemoteThread

\* The wait ends when the thread does, or too soon.
LEMMA WaitKeepsRemote ==
  ASSUME RemoteInv, Wait
  PROVE  RemoteInv'
<1> USE DEF RemoteInv
<1>1. /\ inject.step = "wait" /\ inject.library \in Libraries /\ UNCHANGED <<game, exports, remote>>
      /\ cutShort \subseteq Libraries /\ memory[inject.library] = "path"
  BY DEF Wait, RemoteTypes, PathInv
<1>2. CASE Over(inject.library) /\ Goto("exit code") /\ UNCHANGED <<memory, status, cutShort>>
  <2>1. inject' = [step |-> "exit code", library |-> inject.library, loadLibrary |-> inject.loadLibrary]
    <3>1. inject = [step |-> inject.step, library |-> inject.library, loadLibrary |-> inject.loadLibrary]
      BY DEF RemoteTypes
    <3>2. QED
      BY <1>2, <3>1 DEF Goto
  <2>2. memory' = [memory EXCEPT ![inject.library] = "path"] /\ inject.loadLibrary \in Modules \cup {NoModule}
    BY <1>1, <1>2 DEF RemoteTypes
  <2>3. QED
    BY <1>1, <1>2, <2>1, <2>2, InjectionGoesOn DEF InjectSteps
<1>3. ASSUME Return("WaitFailed"),
             cutShort' = IF Over(inject.library) THEN cutShort ELSE cutShort \cup {inject.library}
      PROVE  RemoteInv'
  <2>1. /\ cutShort' \subseteq Libraries /\ cutShort \subseteq cutShort'
        /\ (game = "running" /\ remote[inject.library] = "started" => inject.library \in cutShort')
    BY <1>1, <1>3 DEF Over
  <2>2. QED
    BY <1>1, <1>3, <2>1, ReturnKeepsRemote DEF Results
<1>4. QED
  BY <1>2, <1>3 DEF Wait

\* What the thread's exit code says.
LEMMA ExitCodeKeepsRemote ==
  ASSUME RemoteInv, GetExitCodeThread
  PROVE  RemoteInv'
<1> USE DEF RemoteInv
<1>1. /\ inject.step = "exit code" /\ Over(inject.library) /\ UNCHANGED <<game, exports, remote, cutShort>>
      /\ cutShort \subseteq Libraries
  BY DEF GetExitCodeThread, RemoteTypes, PathInv
<1>2. ~(game = "running" /\ remote[inject.library] = "started")
  BY <1>1 DEF Over
<1>3. PICK result \in Results : Return(result) /\ (result = "Ok" /\ game = "running" => remote[inject.library] = "loaded")
  BY DEF GetExitCodeThread, Results
<1>4. QED
  BY <1>1, <1>2, <1>3, ReturnKeepsRemote

\* The game's own steps: a thread reads its path, it is over, the game ends.
LEMMA GameKeepsRemote ==
  ASSUME RemoteInv, (\E library \in Libraries : ReadPath(library) \/ LoadReturns(library)) \/ GameEnds
  PROVE  RemoteInv'
<1> USE DEF RemoteInv
<1>1. UNCHANGED <<exports, inject, memory, status, cutShort>>
  BY DEF ReadPath, LoadReturns, GameEnds
<1>2. \A other : Current(other)' <=> Current(other)
  BY <1>1 DEF Current
<1>3. ASSUME NEW library \in Libraries, game = "running", remote[library] \in {"started", "loading"}, UNCHANGED game,
             NEW step \in {"loading", "loaded", "failed"}, remote' = [remote EXCEPT ![library] = step]
      PROVE  RemoteInv'
  <2>1. remote'[library] = step /\ \A other \in Libraries : other # library => remote'[other] = remote[other]
    BY <1>3 DEF RemoteTypes
  <2>2. RemoteTypes'
    BY <1>1, <1>3 DEF RemoteTypes
  <2>3. inject.step = "exit code" => Over(inject.library)'
    <3>1. CASE inject.library = library /\ inject.step = "exit code"
      <4>1. remote[library] \in {"loaded", "failed"}
        BY <1>3, <3>1 DEF PathInv, Over
      <4>2. QED
        BY <1>3, <4>1
    <3>2. CASE inject.library # library /\ inject.step = "exit code"
      <4>1. inject.library \in Libraries /\ Over(inject.library)
        BY <3>2 DEF PathInv, RemoteTypes
      <4>2. remote'[inject.library] = remote[inject.library]
        BY <2>1, <3>2, <4>1
      <4>3. QED
        BY <1>1, <1>3, <4>1, <4>2 DEF Over
    <3>3. QED
      BY <3>1, <3>2
  <2>4. PathInv'
    BY <1>1, <1>2, <1>3, <2>1, <2>3 DEF PathInv, WithTheCode
  <2>5. StatusInv' /\ SuccessIsTrue'
    BY <1>1, <1>2, <1>3, <2>1 DEF StatusInv, SuccessIsTrue
  <2>6. QED
    BY <2>2, <2>4, <2>5
<1>4. ASSUME NEW library \in Libraries, game = "running", remote[library] = "started", memory[library] # "path", game' = "crashed",
             UNCHANGED remote
      PROVE  RemoteInv'
  <2>1. cutShort # {}
    BY <1>4 DEF PathInv, Current
  <2>2. RemoteTypes' /\ StatusInv' /\ SuccessIsTrue'
    BY <1>1, <1>2, <1>4 DEF RemoteTypes, StatusInv, SuccessIsTrue
  <2>3. PathInv'
    BY <1>1, <1>2, <1>4, <2>1 DEF PathInv, WithTheCode, Over
  <2>4. QED
    BY <2>2, <2>3
<1>5. CASE GameEnds
  <2>1. game' = "ended" /\ UNCHANGED remote
    BY <1>5 DEF GameEnds
  <2>2. RemoteTypes' /\ StatusInv' /\ SuccessIsTrue'
    BY <1>1, <1>2, <2>1 DEF RemoteTypes, StatusInv, SuccessIsTrue
  <2>3. PathInv'
    BY <1>1, <1>2, <2>1 DEF PathInv, WithTheCode, Over
  <2>4. QED
    BY <2>2, <2>3
<1>6. ASSUME NEW library \in Libraries, ReadPath(library) \/ LoadReturns(library)
      PROVE  RemoteInv'
  BY <1>3, <1>4, <1>6 DEF ReadPath, LoadReturns
<1>7. QED
  BY <1>5, <1>6

\* Every step of InjectLibrary and of the game, and of anything else.
LEMMA RemoteKeepsRemote ==
  ASSUME RemoteInv, RemoteNext \/ UNCHANGED remoteVars
  PROVE  RemoteInv'
<1>1. CASE UNCHANGED remoteVars
  BY <1>1 DEF remoteVars, RemoteInv, RemoteTypes, PathInv, StatusInv, SuccessIsTrue, Current, Over, WithTheCode
<1>2. QED
  BY <1>1, InjectingThreadKeepsRemote, StartKeepsRemote, WaitKeepsRemote, ExitCodeKeepsRemote, GameKeepsRemote DEF RemoteNext

-----------------------------------------------------------------------------
(* The whole                                                               *)

GamesInv == FixInv /\ HandInv /\ TrapInv /\ RemoteInv

\* At first no process has been started, nothing armed and nothing injected.
LEMMA InitGames ==
  ASSUME Init
  PROVE  GamesInv
  BY InitFix, InitHand, InitTraps, InitRemote DEF Init, GamesInv

\* What nobody touches stays as it is.
LEMMA SameGames ==
  ASSUME FixInv, HandInv, UNCHANGED gameVars
  PROVE  FixInv' /\ HandInv'
<1>1. ServerTypes' /\ HandshakeInv'
  BY DEF gameVars, fixVars, HandInv, ServerTypes, HandshakeInv, Seen
<1>2. QED
  BY <1>1, SameProcesses, ServerMoves DEF gameVars

\* Every step of every scenario keeps all that is said of the others.
LEMMA NextKeepsGames ==
  ASSUME GamesInv, [Next]_vars
  PROVE  GamesInv'
<1>1. CASE Processes
  <2>1. FixInv' /\ HandInv'
    BY <1>1, ProcessesKeepGames DEF GamesInv
  <2>2. UNCHANGED <<trapVars, remoteVars>>
    BY <1>1 DEF Processes
  <2>3. QED
    BY <2>1, <2>2, SameTraps, RemoteKeepsRemote DEF GamesInv
<1>2. CASE UNCHANGED gameVars /\ (TrapsNext \/ UNCHANGED trapVars) /\ (RemoteNext \/ UNCHANGED remoteVars)
  <2>1. FixInv' /\ HandInv'
    BY <1>2, SameGames DEF GamesInv
  <2>2. TrapInv' /\ RemoteInv'
    BY <1>2, TrapsKeepTraps, SameTraps, RemoteKeepsRemote DEF GamesInv
  <2>3. QED
    BY <2>1, <2>2 DEF GamesInv
<1>3. QED
  BY <1>1, <1>2 DEF Next, vars

\* It holds of every reachable state.
LEMMA GamesInvHolds == Spec => []GamesInv
<1>1. Init => GamesInv
  BY InitGames
<1>2. GamesInv /\ [Next]_vars => GamesInv'
  BY NextKeepsGames
<1>3. QED
  BY <1>1, <1>2, PTL DEF Spec

\* A game that no other was launched with is told its real id, or 480 once it uses peer-to-peer.
THEOREM RealIdsAreReported == Spec => []RealIdIsReported
<1>1. GamesInv => RealIdIsReported
  BY DEF GamesInv, FixInv, FixTypes, AloneInv, KnownTo, RealIdIsReported, Launched
<1>2. QED
  BY <1>1, GamesInvHolds, PTL

\* The online fix hides no Workshop error but that of a game of the scripts without rights.
THEOREM ErrorsAreKept == Spec => []OthersKeepTheirErrors
<1>1. GamesInv => OthersKeepTheirErrors
  BY DEF GamesInv, FixInv
<1>2. QED
  BY <1>1, GamesInvHolds, PTL

\* A snapshot of a process that is kept is that of the process whose key it has, however often
\* the pids are used again.
THEOREM SnapshotsAreRight == Spec => []CachedSnapshotsAreRight
<1>1. GamesInv => CachedSnapshotsAreRight
  BY DEF GamesInv, HandInv, SnapshotInv
<1>2. QED
  BY <1>1, GamesInvHolds, PTL

\* A library is loaded once per process, by a thread that finds its path there, and what is
\* reported as loaded is.
THEOREM LibrariesAreLoaded == Spec => []LibrariesLoad
<1>1. GamesInv => LibrariesLoad
  BY RemoteInvHolds DEF GamesInv, HandInv, InjectionInv, LibrariesLoad
<1>2. QED
  BY <1>1, GamesInvHolds, PTL

\* The breakpoints intercept what they should, whatever Steam's threads call, and while they
\* are being set no exception but the one the code risks is left unhandled.
THEOREM BreakpointsIntercept == Spec => []BreakpointsHold
<1>1. GamesInv => BreakpointsHold
  BY TrapInvHolds DEF GamesInv
<1>2. QED
  BY <1>1, GamesInvHolds, PTL
=============================================================================
