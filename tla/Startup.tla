------------------------------ MODULE Startup ------------------------------
(***************************************************************************)
(* Steam is started, configured and ended, again and again: DllMain and     *)
(* InitThread of dllmain.cpp with the settings, the aliases, the updater    *)
(* and the host of cloud_redirect.dll, and the proxies that load it.        *)
(***************************************************************************)
EXTENDS Naturals, Aliases, SelfUpdate, CloudHost, Loader

CONSTANTS
  Client,    \* the process that stays; the others forward a link and end
  MaxEdits,  \* bound: edits in the scenario about settings
  MaxFaults  \* bound: edits, faults and what else happens to the files in the one about aliases

ASSUME StartupAssumption == Client \in Processes /\ {MaxEdits, MaxFaults} \subseteq Nat

VARIABLES
  scenario,  \* which part of the system a behaviour is about
  events     \* how much has happened

vars == <<settingsVars, aliasVars, updateVars, cloudVars, loaderVars, scenario, events>>

Scenarios == {"settings", "aliases", "update", "cloud", "loader"}
Active(p) == scenario = "aliases" \/ (scenario = "settings" /\ p = Client)

Init ==
  /\ scenario \in Scenarios
  /\ events = 0
  /\ SettingsInit(IF scenario = "aliases" THEN Legacy ELSE Absent)
  /\ \E first \in {Absent, Foreign} : AliasInit([f \in Files |-> first])
  /\ UpdateInit
  /\ CloudInit /\ LoaderInit
  /\ scenario # "cloud" => depots = {}
  /\ scenario # "loader" => ~available /\ provided = {}

Same(others) == UNCHANGED others /\ UNCHANGED <<cloudVars, loaderVars, scenario>>
Event ==
  /\ events < IF scenario = "aliases" THEN MaxFaults ELSE MaxEdits
  /\ events' = events + 1

-----------------------------------------------------------------------------
(* A process                                                               *)

\* DllMain starts InitThread, in steam.exe only and for one image per process.
Launch(p) ==
  /\ Active(p)
  /\ at[p] = "off"
  /\ Goes(p, "migrate")
  /\ Same(<<config, loadVars, watchVars, unheard, aliasVars, updateVars, events>>)

\* What a process kept in memory is gone.
Ends(p) ==
  /\ Goes(p, "off")
  /\ found' = [found EXCEPT ![p] = Default]
  /\ settings' = [settings EXCEPT ![p] = Fresh]
  /\ loadedOnce' = [loadedOnce EXCEPT ![p] = FALSE]
  /\ watched' = [watched EXCEPT ![p] = {}]
  /\ completed' = [completed EXCEPT ![p] = "none"]
  /\ buffered' = [buffered EXCEPT ![p] = "none"]
  /\ changed' = [changed EXCEPT ![p] = FALSE]
  /\ unheard' = [unheard EXCEPT ![p] = FALSE]
  /\ AliasEnds(p)
  /\ UNCHANGED config
  /\ Same(updateVars)

\* Steam is ended by the user, or is killed, in the middle of anything.
Waits == {"idle", "debounce", Deaf}
Exit(p) == at[p] \in Waits /\ Ends(p) /\ UNCHANGED events
Kill(p) == at[p] \notin Waits \cup {"off"} /\ Ends(p) /\ Event

\* The watch cannot be opened where the settings are not the question.
Runs(p) ==
  /\ \/ (Load(p) \/ Watch(p)) /\ Same(<<aliasVars, updateVars, events>>)
     \/ (Migrate(p) \/ EndCopy(p) \/ Apply(p)) /\ Same(<<updateVars, events>>)
  /\ (at[p] = "open" /\ scenario # "settings") => at'[p] = Deaf

-----------------------------------------------------------------------------
(* What happens to the files                                               *)

\* The user saves the file, saves half of it, or deletes it.
Edit ==
  /\ \A p \in Processes : at[p] # "copying"
  /\ \E content \in Contents \cup {Absent, Broken} : config # content /\ Changes(content)
  /\ UNCHANGED loadVars
  /\ Same(<<at, aliasVars, updateVars>>)

AliasEvent ==
  /\ \/ Updated \/ (\E f \in Files : ForeignAppears(f) \/ AliasDeleted(f))
  /\ Same(<<settingsVars, updateVars>>)

Happens ==
  \/ scenario \in {"settings", "aliases"} /\ Edit /\ Event
  \/ scenario = "aliases" /\ AliasEvent /\ Event
  \/ \E p \in Processes : WriteFails(p) /\ Same(updateVars) /\ Event
  \/ \E p \in Processes : Kill(p)

Passes ==
  \/ OthersChange /\ scenario = "settings" /\ Same(<<aliasVars, updateVars, events>>)
  \/ Age /\ Same(<<settingsVars, updateVars, events>>)
  \/ UpdateStep /\ scenario = "update" /\ Same(<<settingsVars, aliasVars, events>>)

Redirects ==
  /\ scenario = "cloud"
  /\ CloudStep
  /\ UNCHANGED <<settingsVars, aliasVars, updateVars, loaderVars, scenario, events>>

Loads ==
  /\ scenario = "loader"
  /\ LoaderStep
  /\ UNCHANGED <<settingsVars, aliasVars, updateVars, cloudVars, scenario, events>>

Next ==
  \/ \E p \in Processes : Launch(p) \/ Runs(p) \/ Exit(p)
  \/ Happens
  \/ Passes
  \/ Redirects
  \/ Loads

Spec == Init /\ [][Next]_vars

\* Threads run on, the orphans get old, and Steam is ended and started again and again.
FairSpec ==
  /\ Spec
  /\ \A p \in Processes : WF_vars(Runs(p)) /\ WF_vars(Launch(p)) /\ WF_vars(Exit(p))
  /\ WF_vars(Age /\ Same(<<settingsVars, updateVars, events>>))
=============================================================================
