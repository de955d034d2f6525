------------------------------ MODULE Presence ------------------------------
(***************************************************************************)
(* The banner of the running game (Hooks_NetPacket_RichPresence,           *)
(* RichPresenceLogic, and the GamesPlayed handler of                       *)
(* Hooks_NetPacket_OnlineFix).  Steam's servers do not announce games the  *)
(* account does not own.  The send hook follows the games the client       *)
(* reports and manufactures the announcement from a copy of an earlier     *)
(* one; the RecvPkt hook gives it to Steam and patches those that arrive.  *)
(***************************************************************************)
EXTENDS NetPacket

CONSTANTS
  ListedGames,  \* games LuaConfig::HasDepot knows
  OwnedGames,   \* others; one started with -onlinefix is reported as one of these
  MaxReports    \* bound on launches, exits and refreshes

ASSUME PresenceAssumption == ListedGames \cap OwnedGames = {} /\ MaxReports \in Nat

NoGame == ""
AllGames == ListedGames \cup OwnedGames

VARIABLES
  running,       \* the games the client runs, the latest last
  report,        \* the GamesPlayed message in the send hook: its stage, and its last game
  tracked,       \* g_PlayingAppId
  localSteamId,  \* g_LocalSteamId is known
  haveSelf,      \* g_HaveSelfCached
  injectPkt,     \* the game of g_InjectPkt
  injectPending, \* g_InjectPending
  rpKvs,         \* per game, the game whose rich presence g_RPKvsByAppId holds
  crRunning,     \* the games CloudRedirect was told are running
  serverView,    \* the game Steam's servers announce
  pushes,        \* their announcements on the way
  changes        \* count of launches, exits and refreshes

presenceVars == <<running, report, tracked, localSteamId, haveSelf, injectPkt, injectPending, rpKvs,
                  crRunning, serverView, pushes, changes>>
trackVars == <<tracked, localSteamId, haveSelf, injectPkt, injectPending, rpKvs>>
serverVars == <<serverView, pushes>>

NoReport == [stage |-> "none", top |-> NoGame, old |-> NoGame]

PresenceInit ==
  /\ running = <<>>
  /\ report = NoReport
  /\ tracked = NoGame
  /\ localSteamId = FALSE
  /\ haveSelf = FALSE
  /\ injectPkt = NoGame
  /\ injectPending = FALSE
  /\ rpKvs = [g \in ListedGames |-> NoGame]
  /\ crRunning = {}
  /\ serverView = NoGame
  /\ pushes = <<>>
  /\ changes = 0

-----------------------------------------------------------------------------
(* The client and the servers                                              *)

\* A game starts or ends: the client reports the games that run.
Reports(games) ==
  /\ report = NoReport
  /\ changes < MaxReports
  /\ changes' = changes + 1
  /\ running' = games
  /\ report' = [stage |-> "track", top |-> IF games = <<>> THEN NoGame ELSE games[Len(games)],
                old |-> NoGame]
  /\ UNCHANGED <<packetVars, trackVars, crRunning, serverVars>>

Launch(g) == (\A i \in DOMAIN running : running[i] # g) /\ Reports(Append(running, g))
Exit(g) ==
  /\ \E i \in DOMAIN running : running[i] = g
  /\ Reports(SelectSeq(running, LAMBDA h : h # g))

\* The servers announce the game on top of a report if the account owns it, whenever
\* that changes, and now and then again.
Seen(top) == IF top \in OwnedGames THEN top ELSE NoGame
ServerSees(top) ==
  /\ serverView' = Seen(top)
  /\ pushes' = IF Seen(top) = serverView THEN pushes ELSE Append(pushes, Seen(top))

Refresh ==
  /\ changes < MaxReports
  /\ changes' = changes + 1
  /\ pushes' = Append(pushes, serverView)
  /\ UNCHANGED <<packetVars, running, report, trackVars, crRunning, serverView>>

-----------------------------------------------------------------------------
(* The send hook                                                           *)

\* BuildInject: needs a copy of an announcement.
Inject(g) ==
  IF haveSelf
  THEN injectPkt' = g /\ injectPending' = TRUE
  ELSE UNCHANGED <<injectPkt, injectPending>>

\* DecideTrackAction: a listed game on top is injected, an empty stack cleared, and
\* anything else left to the servers.
Tracks(top) == IF top \in ListedGames THEN top ELSE NoGame
NeverClears(old, top) == Tracks(top) # old /\ Tracks(top) # NoGame
Injects(old, top) == Tracks(top) # old /\ (Tracks(top) # NoGame \/ top = NoGame)

\* TrackSend under g_RPMutex.
TrackSend ==
  /\ report.stage = "track"
  /\ localSteamId' = TRUE
  /\ tracked' = Tracks(report.top)
  /\ IF Injects(tracked, report.top)
     THEN Inject(Tracks(report.top))
     ELSE UNCHANGED <<injectPkt, injectPending>>
  /\ report' = [report EXCEPT !.stage = "notify", !.old = tracked]
  /\ UNCHANGED <<packetVars, running, haveSelf, rpKvs, crRunning, serverVars, changes>>

\* After it, CloudRedirect is told, and the report goes out.
Notify ==
  /\ report.stage = "notify"
  /\ crRunning' = IF report.old = Tracks(report.top) THEN crRunning
                  ELSE (crRunning \ {report.old}) \cup ({Tracks(report.top)} \ {NoGame})
  /\ ServerSees(report.top)
  /\ report' = NoReport
  /\ UNCHANGED <<packetVars, running, trackVars, changes>>

\* TrackRPSend: what a running game uploads is stored for the tracked one.
TrackRPSend(g) ==
  /\ report = NoReport
  /\ \E i \in DOMAIN running : running[i] = g
  /\ localSteamId /\ tracked # NoGame
  /\ rpKvs' = [rpKvs EXCEPT ![tracked] = g]
  /\ Inject(tracked)
  /\ UNCHANGED <<packetVars, running, report, tracked, localSteamId, haveSelf, crRunning, serverVars,
                 changes>>

-----------------------------------------------------------------------------
(* The RecvPkt hook                                                        *)

\* TryInject: the packet is copied under the mutex and given to Steam outside it.
TryInject(t) ==
  /\ at[t] = "inject"
  /\ hand' = [hand EXCEPT ![t] = IF injectPending THEN Packet("persona", DroppedJob, injectPkt)
                                                  ELSE NoPacket]
  /\ injectPending' = FALSE
  /\ GoOn(t)
  /\ UNCHANGED <<layoutVars, packet, wire, clientVars, running, report, tracked, localSteamId,
                 haveSelf, injectPkt, rpKvs, crRunning, serverVars, changes>>

Injected(t) ==
  /\ at[t] = "injecting"
  /\ hand[t] = NoPacket
  /\ GoOn(t)
  /\ UNCHANGED <<layoutVars, packet, hand, wire, clientVars, presenceVars>>

\* HandleRecv: once the user's id is known, an announcement is kept as the template,
\* and patched while a game is tracked.
Patched(about) == IF tracked = NoGame THEN about ELSE tracked
HandleRecv(t) ==
  /\ at[t] = "dispatch"
  /\ packet[t].kind = "persona"
  /\ IF localSteamId
     THEN /\ haveSelf' = TRUE
          /\ packet' = [packet EXCEPT ![t].about = Patched(@)]
     ELSE UNCHANGED <<haveSelf, packet>>
  /\ GoOn(t)
  /\ UNCHANGED <<layoutVars, hand, wire, clientVars, running, report, tracked, localSteamId, injectPkt,
                 injectPending, rpKvs, crRunning, serverVars, changes>>

\* Announcements arrive in the order they were sent.
ArrivePush(t, ls) ==
  /\ pushes # <<>>
  /\ ArriveOther(t, Packet("persona", DroppedJob, Head(pushes)), ls)
  /\ pushes' = Tail(pushes)
  /\ UNCHANGED <<running, report, trackVars, crRunning, serverView, changes>>

SendStepPresence == TrackSend \/ Notify
PresenceStep(t) == TryInject(t) \/ Injected(t) \/ HandleRecv(t)
=============================================================================
