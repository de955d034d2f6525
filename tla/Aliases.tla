------------------------------ MODULE Aliases ------------------------------
(***************************************************************************)
(* The files AmethystTool writes under the upstream project's names so     *)
(* that external tools find it (CompatAliasLogic.cpp), and the one time it  *)
(* reads such a name: opensteamtool.toml, when there is no                 *)
(* amethysttool.toml yet (ConfigMigration.cpp).  Several processes of Steam *)
(* may do this at the same moment, and any of them may be killed.          *)
(***************************************************************************)
EXTENDS Settings

CONSTANTS
  Builds,  \* the builds of AmethystTool.dll
  Legacy,  \* what the opensteamtool.toml of an upstream install says
  Foreign, \* a file of the upstream project, or one that cannot be read
  Half     \* a file whose writer is not done

ASSUME AliasesAssumption ==
  /\ Builds # {} /\ Legacy \in Contents
  /\ {Foreign, Half, Absent} \cap (Contents \cup Builds) = {} /\ Broken \notin Builds
  /\ Half \notin {Foreign, Absent, Broken} /\ Foreign \notin {Absent, Broken}

Files == {"dll", "toml"}

VARIABLES
  dll,      \* AmethystTool.dll
  alias,    \* the files under the upstream names
  temp,     \* the temp file under a process's tag
  orphans,  \* temp files of processes that are gone: file and age
  doing,    \* the alias a process is at
  payload,  \* what it is about to write
  late,     \* history: a foreign file appeared after the process had looked
  copied    \* history: what MigrateLegacyConfig has read

applyVars == <<alias, temp, orphans, doing, payload, late>>
aliasVars == <<dll, copied, applyVars>>

AliasInit(first) ==
  /\ dll = CHOOSE build \in Builds : TRUE
  /\ alias = first
  /\ temp = [p \in Processes |-> [f \in Files |-> Absent]]
  /\ orphans = {}
  /\ doing = [p \in Processes |-> "dll"]
  /\ payload = [p \in Processes |-> Absent]
  /\ late = [p \in Processes |-> FALSE]
  /\ copied = Absent

-----------------------------------------------------------------------------
(* MigrateLegacyConfig: looks at both names, then copies.  Until the copy   *)
(* is done the new file is there and does not parse.                       *)

Migrate(p) ==
  /\ at[p] = "migrate"
  /\ IF config = Absent /\ alias["toml"] # Absent
     THEN Goes(p, "copying") /\ copied' = alias["toml"] /\ Changes(Broken)
     ELSE Goes(p, "look") /\ UNCHANGED <<copied, config, watchVars, unheard>>
  /\ UNCHANGED <<loadVars, dll, applyVars>>

\* The name may be foreign, or ours: an alias that says what the config said.
EndCopy(p) ==
  /\ at[p] = "copying"
  /\ Changes(IF copied = Foreign THEN Legacy ELSE copied)
  /\ Goes(p, "look")
  /\ UNCHANGED <<loadVars, aliasVars>>

-----------------------------------------------------------------------------
(* Apply                                                                   *)

\* With the feature off there is no I/O at all.  Otherwise the orphans that are old
\* enough go first, and so does a temp file that has been closed for as long.
Sweep(p) ==
  /\ at[p] = "alias"
  /\ IF WantsAliases[settings[p].rest]
     THEN /\ orphans' = {o \in orphans : o.age = "fresh"}
          /\ Goes(p, "inspect")
     ELSE Goes(p, "directories") /\ UNCHANGED orphans
  /\ UNCHANGED <<config, loadVars, watchVars, unheard, dll, copied, alias, temp, doing, payload, late>>

Source(f) == IF f = "dll" THEN dll ELSE config

Overwrites(f) ==
  IF Source(f) = Absent THEN "source missing"
  ELSE IF alias[f] = Absent THEN "create"
  ELSE IF alias[f] = Source(f) THEN "up to date" ELSE "refresh"
NeverRefreshes(f) ==
  IF Source(f) = Absent THEN "source missing"
  ELSE IF alias[f] = Absent THEN "create"
  ELSE IF alias[f] = Foreign THEN "foreign" ELSE "up to date"
Decide(f) ==
  IF Source(f) = Absent THEN "source missing"
  ELSE IF alias[f] = Absent THEN "create"
  ELSE IF alias[f] = Foreign THEN "foreign"
  ELSE IF alias[f] = Source(f) THEN "up to date" ELSE "refresh"

\* Each alias is independent: whatever becomes of the DLL, the TOML is next.
NextAlias(p) ==
  /\ IF doing[p] = "dll" THEN Goes(p, "inspect") ELSE Goes(p, "directories")
  /\ doing' = [doing EXCEPT ![p] = IF doing[p] = "dll" THEN "toml" ELSE "dll"]
  /\ payload' = [payload EXCEPT ![p] = Absent]
  /\ late' = [late EXCEPT ![p] = FALSE]

\* InspectDll, InspectToml: the bytes to write are those that were compared.
Inspect(p) ==
  /\ at[p] = "inspect"
  /\ IF Decide(doing[p]) \in {"create", "refresh"}
     THEN /\ payload' = [payload EXCEPT ![p] = Source(doing[p])]
          /\ Goes(p, "write")
          /\ UNCHANGED <<doing, late>>
     ELSE NextAlias(p)
  /\ UNCHANGED <<config, loadVars, watchVars, unheard, dll, copied, alias, temp, orphans>>

\* MakeTempTag: the process's own, and never used before.
OneTag(p) == CHOOSE q \in Processes : TRUE
Tag(p) == p

TempBecomes(p, value) == temp' = [temp EXCEPT ![Tag(p)][doing[p]] = value]

\* WriteBytesViaTemp: the file is opened, filled and closed.
OpenTemp(p) ==
  /\ at[p] = "write"
  /\ TempBecomes(p, Half)
  /\ Goes(p, "fill")
  /\ UNCHANGED <<config, loadVars, watchVars, unheard, dll, copied, alias, orphans, doing, payload, late>>

FillTemp(p) ==
  /\ at[p] = "fill"
  /\ TempBecomes(p, payload[p])
  /\ Goes(p, "rename")
  /\ UNCHANGED <<config, loadVars, watchVars, unheard, dll, copied, alias, orphans, doing, payload, late>>

\* CommitTemp replaces whatever has the name by now.
CommitTemp(p) ==
  LET own == temp[Tag(p)][doing[p]] IN
  /\ at[p] = "rename"
  /\ alias' = IF own = Absent THEN alias ELSE [alias EXCEPT ![doing[p]] = own]
  /\ TempBecomes(p, Absent)
  /\ NextAlias(p)
  /\ UNCHANGED <<config, loadVars, watchVars, unheard, dll, copied, orphans>>

\* A write or a rename fails: nothing half-written stays.
WriteFails(p) ==
  /\ at[p] \in {"write", "fill", "rename"}
  /\ TempBecomes(p, Absent)
  /\ NextAlias(p)
  /\ UNCHANGED <<config, loadVars, watchVars, unheard, dll, copied, alias, orphans>>

Apply(p) == Sweep(p) \/ Inspect(p) \/ OpenTemp(p) \/ FillTemp(p) \/ CommitTemp(p)

-----------------------------------------------------------------------------
(* The user and time (external)                                            *)

\* An upstream install puts its file under the name.
ForeignAppears(f) ==
  /\ alias' = [alias EXCEPT ![f] = Foreign]
  /\ late' = [p \in Processes |-> late[p] \/ (doing[p] = f /\ at[p] \in {"write", "fill", "rename"})]
  /\ UNCHANGED <<dll, copied, temp, orphans, doing, payload>>

\* "Safe to delete".
AliasDeleted(f) ==
  /\ alias[f] # Absent
  /\ alias' = [alias EXCEPT ![f] = Absent]
  /\ UNCHANGED <<dll, copied, temp, orphans, doing, payload, late>>

\* AmethystTool.dll is replaced by another build.
Updated ==
  /\ dll' \in Builds \ {dll}
  /\ UNCHANGED <<copied, applyVars>>

\* kStaleTempAge passes; a write takes milliseconds.
Age ==
  /\ \E o \in orphans : o.age = "fresh"
  /\ orphans' = {[file |-> o.file, age |-> "old"] : o \in orphans}
  /\ UNCHANGED <<dll, copied, alias, temp, doing, payload, late>>

\* What a process leaves behind when it ends.
Abandoned(p) == {[file |-> f, age |-> "fresh"] : f \in {g \in Files : temp[p][g] # Absent}}
AliasEnds(p) ==
  /\ orphans' = orphans \cup Abandoned(p)
  /\ temp' = [temp EXCEPT ![p] = [f \in Files |-> Absent]]
  /\ doing' = [doing EXCEPT ![p] = "dll"]
  /\ payload' = [payload EXCEPT ![p] = Absent]
  /\ late' = [late EXCEPT ![p] = FALSE]
  /\ UNCHANGED <<dll, copied, alias>>

-----------------------------------------------------------------------------
(* Properties                                                              *)

\* An external tool never finds a truncated alias: neither a kill in the middle of a
\* write nor two processes that write at once leaves one under the name.
AliasesAreWhole == \A f \in Files : alias[f] # Half

\* A file under an upstream name that is not ours is replaced only if it appeared
\* between the look at the name and the rename of the process that replaces it.
ForeignFilesStay ==
  [][\A f \in Files : alias[f] = Foreign =>
       \/ alias'[f] \in {Foreign, Absent}
       \/ \E p \in Processes : late[p] /\ doing[p] = f]_<<aliasVars, settingsVars>>

\* In the end the aliases say what the files they stand for say, unless a foreign file
\* has the name, and nothing is left of the writers that were killed.
AliasesFollow ==
  <>[]((config \in Contents /\ WantsAliases[config]) =>
         /\ \A f \in Files : alias[f] \in {Foreign, Source(f)}
         /\ orphans = {})
=============================================================================
