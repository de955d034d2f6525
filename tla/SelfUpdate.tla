----------------------------- MODULE SelfUpdate -----------------------------
(***************************************************************************)
(* The updater of AppUpdater.cpp, in builds that have it: the DLL that runs *)
(* is moved aside and the new one written in its place, for the next start. *)
(***************************************************************************)
CONSTANTS
  Versions,  \* what the mirror may publish
  Missing,   \* no file
  Torn       \* a file whose writer is not done

ASSUME UpdateAssumption ==
  Versions # {} /\ {Missing, Torn} \cap Versions = {} /\ Missing # Torn

VARIABLES
  self,       \* AmethystTool.dll
  old,        \* AmethystTool.dll.old
  running,    \* the version Steam runs, or Missing
  published,  \* what latest.toml names
  update,     \* where the updater's thread is
  offered     \* the version it found newer

updateVars == <<self, old, running, published, update, offered>>

Complete(file) == file \in Versions

UpdateInit ==
  /\ self = CHOOSE v \in Versions : TRUE
  /\ old = Missing
  /\ running = Missing
  /\ published = self
  /\ update = "off"
  /\ offered = Missing

Then(step) == update' = step

\* Steam starts; the proxy loads the DLL if it can.
Start ==
  /\ update = "off"
  /\ Complete(self)
  /\ running' = self
  /\ Then("cleanup")
  /\ UNCHANGED <<self, old, published, offered>>

\* It ends, or is killed at any step.
Stop ==
  /\ update # "off"
  /\ running' = Missing
  /\ offered' = Missing
  /\ Then("off")
  /\ UNCHANGED <<self, old, published>>

Publish ==
  /\ published' \in Versions \ {published}
  /\ UNCHANGED <<self, old, running, update, offered>>

CleanupStagedBackup ==
  /\ update = "cleanup"
  /\ old' \in {Missing, old}
  /\ Then("check")
  /\ UNCHANGED <<self, running, published, offered>>

\* Any difference from the running version is news.  The mirrors may not answer.
Check ==
  /\ update = "check"
  /\ \/ offered' = published /\ Then(IF published = running THEN "done" ELSE "fetch")
     \/ Then("done") /\ UNCHANGED offered
  /\ UNCHANGED <<self, old, running, published>>

\* What arrives is the DLL whose hash was promised, or is rejected.
Fetch ==
  /\ update = "fetch"
  /\ Then("aside") \/ Then("done")
  /\ UNCHANGED <<self, old, running, published, offered>>

\* MoveFileEx replaces an older backup.
InPlace ==
  /\ update = "aside"
  /\ Then("write")
  /\ UNCHANGED <<self, old, running, published, offered>>
MoveAside ==
  /\ update = "aside"
  /\ \/ old' = self /\ self' = Missing /\ Then("write")
     \/ Then("done") /\ UNCHANGED <<self, old>>
  /\ UNCHANGED <<running, published, offered>>

OpenSelf ==
  /\ update = "write"
  /\ self' = Torn
  /\ Then("flush")
  /\ UNCHANGED <<old, running, published, offered>>

FlushSelf ==
  /\ update = "flush"
  /\ self' = offered
  /\ Then("done")
  /\ UNCHANGED <<old, running, published, offered>>

\* The file cannot be opened or written: the backup is moved back, if that can be done.
Restore ==
  /\ update \in {"write", "flush"}
  /\ \/ self' = old /\ old' = Missing
     \/ UNCHANGED <<self, old>>
  /\ Then("done")
  /\ UNCHANGED <<running, published, offered>>

Stage == MoveAside \/ OpenSelf \/ FlushSelf \/ Restore

UpdateStep == Start \/ Stop \/ Publish \/ CleanupStagedBackup \/ Check \/ Fetch \/ Stage

-----------------------------------------------------------------------------
(* Properties                                                              *)

\* Wherever Steam is killed, and however often, a complete DLL is left under the name
\* or next to it.
ACopySurvives == Complete(self) \/ Complete(old)
=============================================================================
