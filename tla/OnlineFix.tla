----------------------------- MODULE OnlineFix -----------------------------
(***************************************************************************)
(* Games that Steam starts under another id (-onlinefix: 480, Spacewar)    *)
(* and what their IPC calls are told (Hooks_Misc.cpp, Hooks_IPC*.cpp).     *)
(* Three globals hold what is known about the game of the moment; the      *)
(* thread that spawns games writes them, the thread of the IPC server reads *)
(* them.  The globals assume one game at a time; nothing enforces it.       *)
(***************************************************************************)
EXTENDS Naturals

CONSTANTS
  Pids,      \* process ids, which the system uses again
  Games,     \* app ids
  Listed,    \* the games of the scripts
  FixId,     \* kOnlineFixAppId
  NoId,
  Specs,     \* the methods an IPC specification may describe
  MaxBirths  \* bound: processes that are ever started

ASSUME OnlineFixAssumption ==
  /\ Listed \subseteq Games
  /\ {FixId, NoId} \cap Games = {} /\ FixId # NoId
  /\ MaxBirths \in Nat

VARIABLES
  realAppId,   \* g_OnlineFixRealAppId
  netSockets,  \* g_NetworkingSocketsActive
  suppress,    \* g_SuppressAppIdFlip
  spawning,    \* the process Steam is about to start
  processes,   \* the process that has a pid
  births,      \* how many have been started: a process's creation time
  handlers,    \* the methods with a handler
  ipc,         \* what the thread of the IPC server is at
  masked       \* history: whose errors, and which, were turned into successes

fixVars ==
  <<realAppId, netSockets, suppress, spawning, processes, births, handlers, masked>>

Nobody ==
  [born |-> 0, kind |-> "none", app |-> NoId, id |-> NoId, env |-> NoId, bound |-> FALSE,
   keep |-> FALSE, alone |-> FALSE, p2p |-> FALSE, told |-> NoId, named |-> NoId]
Idle == [step |-> "idle", pid |-> 0, time |-> 0, of |-> 0, env |-> NoId, app |-> NoId]

\* The handlers the project has; the specification of the Steam build may lack a method,
\* and there is none at all if it cannot be fetched or parsed.
OurMethods == {"GetAppID", "GetAPICallResult"}
Load == SUBSET Specs
Find(registry, method) == method \in registry
RegisterHandlers(registry) == {method \in OurMethods : Find(registry, method)}

OnlineFixInit ==
  /\ realAppId = NoId /\ netSockets = FALSE /\ suppress = FALSE
  /\ spawning = Nobody
  /\ processes = [pid \in Pids |-> Nobody]
  /\ births = 0
  /\ \E registry \in Load : handlers = RegisterHandlers(registry)
  /\ ipc = Idle
  /\ masked = {}

Alive(pid) == processes[pid].born # 0
Launched == {pid \in Pids : processes[pid].kind = "game"}
IsFix(process) == process.id = FixId

\* GetAppIDForCurrentPipeWrap: what Steam has bound the pipe to.
PipeAppId(pid) == IF processes[pid].bound THEN processes[pid].id ELSE NoId
ResolveAppId(pid) == IF realAppId # NoId THEN realAppId ELSE PipeAppId(pid)
ShouldReportOnlineFixAppId == ~suppress /\ realAppId # NoId /\ netSockets

-----------------------------------------------------------------------------
(* The thread that spawns games                                            *)

\* `fix` and `keep` are -onlinefix and -realappid of the command line.
KeepsSockets(fix) == netSockets
SocketsAfter(fix) == netSockets /\ ~fix
OnSpawnProcessHit(game, fix, keep) ==
  /\ spawning = Nobody /\ births < MaxBirths
  /\ realAppId' = IF fix THEN game ELSE NoId
  /\ suppress' = (fix /\ keep)
  /\ netSockets' = SocketsAfter(fix)
  /\ births' = births + 1
  /\ spawning' = [Nobody EXCEPT !.born = births + 1, !.kind = "game", !.app = game,
                                !.id = IF fix THEN FixId ELSE game, !.keep = fix /\ keep,
                                !.alone = (Launched = {})]
  /\ processes' = [pid \in Pids |-> [processes[pid] EXCEPT !.alone = FALSE]]
  /\ UNCHANGED <<handlers, masked>>

\* BuildSpawnEnvBlock: the overlay's id is the real one again.  The process gets a pid.
BuildSpawnEnvBlock(pid) ==
  /\ spawning # Nobody
  /\ ~Alive(pid)
  /\ processes' = [processes EXCEPT ![pid] =
       [spawning EXCEPT !.env = IF IsFix(spawning) /\ realAppId # NoId THEN realAppId
                                ELSE spawning.id]]
  /\ spawning' = Nobody
  /\ UNCHANGED <<realAppId, netSockets, suppress, births, handlers, masked>>

\* A process that Steam does not spawn connects too: one of its own, or the child of a
\* game's launcher, which is the game but exports no id.
Appear(pid, kind, app) ==
  /\ ~Alive(pid) /\ births < MaxBirths
  /\ births' = births + 1
  /\ processes' = [processes EXCEPT ![pid] =
       [Nobody EXCEPT !.born = births + 1, !.kind = kind, !.app = app, !.id = app]]
  /\ UNCHANGED <<realAppId, netSockets, suppress, spawning, handlers, masked>>

End(pid) ==
  /\ Alive(pid)
  /\ processes' = [processes EXCEPT ![pid] = Nobody]
  /\ UNCHANGED <<realAppId, netSockets, suppress, spawning, births, handlers, masked>>

\* steamclient binds a pipe to its id some time after the handshake.
Bind(pid) ==
  /\ Alive(pid) /\ processes[pid].id # NoId /\ ~processes[pid].bound
  /\ processes' = [processes EXCEPT ![pid].bound = TRUE]
  /\ UNCHANGED <<realAppId, netSockets, suppress, spawning, births, handlers, masked>>

-----------------------------------------------------------------------------
(* The thread of the IPC server                                            *)

Becomes(pid, process) == processes' = [processes EXCEPT ![pid] = process]
Answers(pid, id) == Becomes(pid, [processes[pid] EXCEPT !.told = id])

\* DetectNetworkingSockets: a game uses peer-to-peer.  What it was told before is history.
UseSockets(pid) ==
  /\ ipc = Idle /\ processes[pid].kind = "game" /\ processes[pid].bound
  /\ netSockets' = (netSockets \/ (realAppId # NoId /\ ~ShouldReportOnlineFixAppId))
  /\ Becomes(pid, [processes[pid] EXCEPT !.p2p = TRUE, !.told = NoId])
  /\ UNCHANGED <<realAppId, suppress, spawning, births, handlers, masked, ipc>>

\* ResolveDispatch: a handler runs for what looks like a game of the scripts.
Handled(pid, method) == method \in handlers /\ ResolveAppId(pid) \in Listed

\* Steam answers GetAppID with the id of the pipe; the handler's turn is after that.
GetAppID(pid) ==
  /\ ipc = Idle /\ processes[pid].bound
  /\ IF Handled(pid, "GetAppID")
     THEN /\ ipc' = [Idle EXCEPT !.step = "post", !.pid = pid, !.time = processes[pid].born]
          /\ UNCHANGED processes
     ELSE Answers(pid, PipeAppId(pid)) /\ UNCHANGED ipc
  /\ UNCHANGED <<realAppId, netSockets, suppress, spawning, births, handlers, masked>>

PostGetAppID ==
  LET pid == ipc.pid IN
  /\ ipc.step = "post"
  /\ ipc' = Idle
  /\ IF processes[pid].born # ipc.time THEN UNCHANGED processes
     ELSE Answers(pid, IF ShouldReportOnlineFixAppId \/ ResolveAppId(pid) = NoId
                       THEN PipeAppId(pid) ELSE ResolveAppId(pid))
  /\ UNCHANGED <<realAppId, netSockets, suppress, spawning, births, handlers, masked>>

\* OverrideAPICallResult asks for the pipe's own id, whatever game is active.
AskedId(pid) == ResolveAppId(pid)
OverriddenFor(pid) == PipeAppId(pid)
ShouldOverrideUgcResult(id, result) == id \in Listed /\ result = "denied"

\* A Workshop call of a process has failed, for want of rights or for another reason.
WorkshopFails(pid, result) ==
  /\ ipc = Idle /\ Alive(pid)
  /\ IF Handled(pid, "GetAPICallResult") /\ ShouldOverrideUgcResult(OverriddenFor(pid), result)
     THEN masked' = masked \cup {<<processes[pid].app, result>>}
     ELSE UNCHANGED masked
  /\ UNCHANGED <<realAppId, netSockets, suppress, spawning, processes, births, handlers, ipc>>

\* HandleSend: the announcement of a game under 480 carries the real game's name.
Announce ==
  /\ ipc = Idle
  /\ processes' = [pid \in Pids |->
       IF processes[pid].kind = "game" /\ IsFix(processes[pid])
       THEN [processes[pid] EXCEPT !.named = realAppId] ELSE processes[pid]]
  /\ UNCHANGED <<realAppId, netSockets, suppress, spawning, births, handlers, masked, ipc>>

Call(pid) ==
  UseSockets(pid) \/ GetAppID(pid)
  \/ (\E result \in {"denied", "timeout"} : WorkshopFails(pid, result))

-----------------------------------------------------------------------------
(* Properties                                                              *)

Expected(process) ==
  IF IsFix(process) /\ process.p2p /\ ~process.keep THEN FixId ELSE process.app

\* A game that no other was launched with is told its real id, until it uses
\* peer-to-peer, and 480 from then on unless it was started with -realappid; it is
\* announced under its own name.  What an earlier game left in the globals does not show.
RealIdIsReported ==
  \A pid \in Launched :
    LET process == processes[pid] IN
    process.alone =>
      /\ (process.told # NoId /\ process.app \in Listed /\ "GetAppID" \in handlers)
           => process.told = Expected(process)
      /\ process.named \in {NoId, process.app}

\* A Workshop error of a game that is not in the scripts, or of Steam itself, is not
\* hidden, even while a game of the scripts runs under 480; nor is an error of a game of
\* the scripts that has nothing to do with rights.
OthersKeepTheirErrors == masked \subseteq Listed \X {"denied"}
=============================================================================
