------------------------------- MODULE Games -------------------------------
(***************************************************************************)
(* The start of a game as AmethystTool sees it: the breakpoint in          *)
(* CUser_SpawnProcess whose onHit is OnSpawnProcessHit (Traps), and what    *)
(* the processes then ask of Steam (OnlineFix, Handshakes), and the         *)
(* libraries that are loaded into them (RemoteLibrary).                     *)
(*                                                                         *)
(* A behaviour is of one scenario: interface calls, handshakes, the        *)
(* breakpoints, or the inside of the injections.  The first two share a     *)
(* thread and read the same globals; neither reads what only the other     *)
(* writes.  In them a spawn is one step, which is what TrapsStay promises  *)
(* of calls that do not cross, and so is an injection.                      *)
(***************************************************************************)
EXTENDS Handshakes, Traps, RemoteLibrary

VARIABLE scenario

vars == <<gameVars, trapVars, remoteVars, scenario>>

Init ==
  /\ HandshakesInit /\ TrapsInit /\ RemoteInit
  /\ scenario \in {"calls", "handshakes", "breakpoints", "libraries"}
  /\ scenario # "calls" => handlers = {}
  /\ scenario # "libraries" => exports = [module \in Modules |-> "code"]

Processes ==
  /\ \/ Server
     \/ Spawner /\ (scenario = "handshakes" => ~suppress')  \* only calls are told that
     \/ Others
     \/ scenario = "calls" /\ Calls
     \/ scenario = "handshakes" /\ \E pid \in Pids : OnHandshake(pid)
  /\ UNCHANGED <<trapVars, remoteVars>>

Next ==
  /\ \/ scenario \in {"calls", "handshakes"} /\ Processes
     \/ scenario = "breakpoints" /\ TrapsNext /\ UNCHANGED <<gameVars, remoteVars>>
     \/ scenario = "libraries" /\ RemoteNext /\ UNCHANGED <<gameVars, trapVars>>
  /\ UNCHANGED scenario

Spec == Init /\ [][Next]_vars

-----------------------------------------------------------------------------
(* Properties                                                              *)

\* Injection::Apply: each library is loaded once per process, by a thread that finds its
\* path, and what is reported as loaded is.
LibrariesLoad == LoadedOnce /\ PathOutlivesItsReader /\ SuccessIsTrue
=============================================================================
