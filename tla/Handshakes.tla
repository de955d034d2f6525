----------------------------- MODULE Handshakes -----------------------------
(***************************************************************************)
(* What happens when a process connects to Steam's IPC server              *)
(* (PipeManager.cpp, ProcessInspector.cpp, Injection.cpp): it is looked up  *)
(* or inspected by its pid, attributed to a game, and the configured        *)
(* libraries are loaded into it.  The process can end at any step, and its  *)
(* pid can belong to another one at the next.                              *)
(***************************************************************************)
EXTENDS OnlineFix

CONSTANT Named  \* games with an addprocess() mapping for their executable

VARIABLES
  inspected,  \* g_processes: pid, creation time, and whose environment was read
  injected,   \* g_injected: pid and creation time
  attempts,   \* history: how often a library was loaded into a process, by creation time
  served,     \* history: processes that were found to be games of the scripts
  strayed     \* history: processes that got the pid of one whose handshake was under way

handVars == <<inspected, injected, attempts, served, strayed>>
gameVars == <<fixVars, ipc, handVars>>

HandshakesInit ==
  /\ OnlineFixInit
  /\ inspected = {} /\ injected = {} /\ served = {} /\ strayed = {}
  /\ attempts = [born \in 1..MaxBirths |-> 0]

\* GetCreationTime; of a process that is gone it is 0.
CreationTime(pid) == processes[pid].born

\* The block of a 32-bit process is found through another PEB than that of a 64-bit one;
\* a process that is starting or ending may have none that can be read.
QueryEnvironmentAddress(pid) == IF Alive(pid) THEN BOOLEAN ELSE {FALSE}
EnvironmentsOf(pid) ==
  {IF found THEN processes[pid].env ELSE NoId : found \in QueryEnvironmentAddress(pid)}

Goes(step) == ipc' = [ipc EXCEPT !.step = step]

\* HandleHandshake: a process opens a pipe.  It may have several.
OnHandshake(pid) ==
  /\ ipc = Idle /\ Alive(pid)
  /\ ipc' = [Idle EXCEPT !.step = "look up", !.pid = pid]
  /\ UNCHANGED <<fixVars, handVars>>

\* TryReuseCachedProcess
LookUp ==
  /\ ipc.step = "look up"
  /\ LET known == {e \in inspected : e.pid = ipc.pid /\ e.time = CreationTime(ipc.pid)}
     IN IF known = {} THEN Goes("inspect")
        ELSE \E e \in known : ipc' = [ipc EXCEPT !.step = "resolve", !.time = e.time,
                                                 !.of = e.of, !.env = e.env]
  /\ UNCHANGED <<fixVars, handVars>>

\* InspectProcess reads the creation time first.
Inspect ==
  /\ ipc.step = "inspect"
  /\ ipc' = [ipc EXCEPT !.step = "environment", !.time = CreationTime(ipc.pid)]
  /\ UNCHANGED <<fixVars, handVars>>

\* ReadSteamEnvironment reads that of whoever has the pid by now.
ReadEnvironment ==
  /\ ipc.step = "environment"
  /\ \E env \in EnvironmentsOf(ipc.pid) :
       ipc' = [ipc EXCEPT !.step = "remember", !.of = processes[ipc.pid].born, !.env = env]
  /\ UNCHANGED <<fixVars, handVars>>

\* The snapshot is kept under its process key; one that is not valid ends the handshake.
KeyNow(time) == CreationTime(ipc.pid)
KeyTime(time) == time
Remember ==
  /\ ipc.step = "remember"
  /\ inspected' = IF ipc.time = 0 THEN inspected
                  ELSE {e \in inspected : e.pid # ipc.pid \/ e.time # KeyTime(ipc.time)}
                       \cup {[pid |-> ipc.pid, time |-> KeyTime(ipc.time), of |-> ipc.of,
                              env |-> ipc.env]}
  /\ IF ipc.time = 0 THEN ipc' = Idle ELSE Goes("resolve")
  /\ UNCHANGED <<fixVars, injected, attempts, served, strayed>>

\* ResolveAppIdWithRetry: the environment, then the pipe for a while, then the name of
\* the executable.
ResolveAppIdWithRetry ==
  /\ ipc.step = "resolve"
  /\ \/ ipc.env # NoId /\ ipc' = [ipc EXCEPT !.step = "apply", !.app = ipc.env]
     \/ /\ ipc.env = NoId /\ ResolveAppId(ipc.pid) # NoId
        /\ ipc' = [ipc EXCEPT !.step = "apply", !.app = ResolveAppId(ipc.pid)]
     \/ /\ ipc.env = NoId  \* the pipe was asked ten times in vain
        /\ ipc' = [ipc EXCEPT !.step = "apply", !.app =
             IF ipc.of = processes[ipc.pid].born /\ processes[ipc.pid].app \in Named
             THEN processes[ipc.pid].app ELSE NoId]
  /\ UNCHANGED <<fixVars, handVars>>

\* Injection::Apply: a library is loaded into a game of the scripts, once per process.
\* What is loaded into is whoever has the pid.
ClaimInjection(key) == key \notin injected
Apply ==
  LET key == [pid |-> ipc.pid, time |-> ipc.time]
      target == processes[ipc.pid].born
  IN
  /\ ipc.step = "apply"
  /\ ipc' = Idle
  /\ IF ipc.app \in Listed
     THEN /\ injected' = injected \cup {key}
          /\ attempts' = IF ClaimInjection(key) /\ target # 0
                         THEN [attempts EXCEPT ![target] = @ + 1] ELSE attempts
          /\ IF target = ipc.time
             THEN served' = served \cup {target} /\ UNCHANGED strayed
             ELSE strayed' = strayed \cup {target} /\ UNCHANGED served
     ELSE UNCHANGED <<injected, served, attempts, strayed>>
  /\ UNCHANGED <<fixVars, inspected>>

Server ==
  LookUp \/ Inspect \/ ReadEnvironment \/ Remember \/ ResolveAppIdWithRetry \/ Apply
  \/ (PostGetAppID /\ UNCHANGED handVars)

Spawner ==
  /\ \/ \E game \in Games, fix, keep \in BOOLEAN :
            (keep => fix) /\ OnSpawnProcessHit(game, fix, keep)
     \/ \E pid \in Pids : BuildSpawnEnvBlock(pid)
  /\ UNCHANGED <<ipc, handVars>>

Others ==
  /\ \E pid \in Pids :
       \/ Appear(pid, "steam", NoId) \/ (\E game \in Games : Appear(pid, "child", game))
       \/ End(pid) \/ Bind(pid)
  /\ UNCHANGED <<ipc, handVars>>

Calls == (Announce \/ \E pid \in Pids : Call(pid)) /\ UNCHANGED handVars

-----------------------------------------------------------------------------
(* Properties                                                              *)

\* The snapshot a live process is looked up by was read from that process, however
\* often its pid changed hands before, also in the middle of an inspection.
CachedSnapshotsAreRight ==
  \A e \in inspected : e.time = processes[e.pid].born => e.of = e.time

\* A process that was found to be a game of the scripts has had the library loaded once,
\* however many pipes it opens, and also if an earlier process with its pid had been
\* served; unless the pid changed hands between a look-up and the loading.
LoadedOnce == \A born \in served \ strayed : attempts[born] = 1
=============================================================================
