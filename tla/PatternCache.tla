---------------------------- MODULE PatternCache ----------------------------
(***************************************************************************)
(* The signature file of one Steam module, over many launches              *)
(* (PatternLoader, PatternRefreshLogic, RemoteToml).  A launch reads the    *)
(* cached file or asks the mirrors, and hooks what the file locates.  If a *)
(* required function was not located, a background thread may replace the  *)
(* file by a better one for the next launch, at most once a day.  Steam    *)
(* may be killed between any two steps.                                    *)
(*                                                                         *)
(* The other Steam module has its own file, hash and stamp, and shares     *)
(* nothing with this one but the worker, which treats them in turn.        *)
(***************************************************************************)
EXTENDS Naturals, FiniteSets

CONSTANTS
  Required, Optional, \* functions the hooks look up
  Mirrors,            \* 1..n, in the order of the chain
  Https,              \* the mirrors with an https:// address
  Catalog,            \* what the mirrors may come to serve: [Mirrors -> Files]
  UserFiles,          \* files a user may put into the cache, or delete there
  Revalidate,         \* [remote] revalidate
  MaxFaults,          \* bound on kills, locks and failures, for model checking
  MaxEdits            \* bound on edits by users and publishers, for model checking

Functions == Required \cup Optional

ASSUME FunctionsAssumption == Required \cap Optional = {} /\ Revalidate \in BOOLEAN
ASSUME MirrorsAssumption == Https \subseteq Mirrors /\ Mirrors \subseteq Nat
ASSUME BoundsAssumption == MaxFaults \in Nat /\ MaxEdits \in Nat

\* What an entry leads to: an address in the module's image (two of them, so that a
\* moved entry can be told), an address outside it, or no address.
Entries == {"none", "here", "there", "outside", "unmatched"}
Located(e) == e \in {"here", "there", "outside"}
InImage(e) == e \in {"here", "there"}

\* A file that does not parse has no entries.
Maps == [Functions -> Entries]
NoEntries == [f \in Functions |-> "none"]
Text(m) == [state |-> "text", map |-> m]
Absent == [state |-> "absent", map |-> NoEntries]
Empty == [state |-> "empty", map |-> NoEntries]
Files == {Absent, Empty} \cup {Text(m) : m \in Maps}

ASSUME CatalogAssumption == Catalog \subseteq [Mirrors -> Files] /\ UserFiles \subseteq Files

\* What is left of a file whose writing is cut short: some entries, one of them
\* perhaps without its address.
Cut(m) == {Empty} \cup {Text([f \in Functions |-> IF f \in broken THEN "unmatched"
                                                  ELSE IF f \in kept THEN m[f] ELSE "none"]) :
                          kept \in SUBSET Functions,
                          broken \in {{}} \cup {{f} : f \in Functions}}

VARIABLES
  cache,      \* <sha256>.toml
  temp,       \* is there a <sha256>.toml.<tid>.tmp
  stamp,      \* <sha256>.toml.checked: never written, or its age
  published,  \* what each mirror serves
  at,         \* where the init thread and the worker are
  map,        \* r.body, then g_moduleMaps
  source,     \* r.fromCache and r.cacheFallback
  missing,    \* g_requiredMisses
  remote,     \* the body the worker got
  faults, edits,
  worked,     \* history: what the last launch located in the cached file
  attempts    \* history: background requests since a day began

disk == <<cache, temp, stamp>>
process == <<at, map, source, missing, remote>>
world == <<published, faults, edits>>
history == <<worked, attempts>>
patternVars == <<disk, process, world, history>>

Threads == {"init", "worker"}
InitSteps == {"off", "read", "mirrors", "save", "fallback", "use", "refetch", "write", "rename",
              "install", "start", "up"}
RefreshSteps == {"none", "check", "stamp", "ask", "judge", "write", "rename", "done"}
Off == [t \in Threads |-> IF t = "init" THEN "off" ELSE "none"]
Goto(t, pc) == at' = [at EXCEPT ![t] = pc]
Fault == faults < MaxFaults /\ faults' = faults + 1
FaultIf(b) == IF b THEN Fault ELSE UNCHANGED faults

PatternInit ==
  /\ cache \in {Absent} \cup UserFiles
  /\ temp = FALSE
  /\ stamp = "never"
  /\ published \in Catalog
  /\ at = Off
  /\ map = NoEntries
  /\ source = "none"
  /\ missing = {}
  /\ remote = NoEntries
  /\ faults = 0
  /\ edits = 0
  /\ worked = NoEntries
  /\ attempts = 0

-----------------------------------------------------------------------------
(* Around Steam                                                            *)

\* A user drops a file or deletes one; a mirror publishes another.
UserWrites(file) ==
  /\ edits < MaxEdits
  /\ file # cache
  /\ cache' = file
  /\ worked' = NoEntries
  /\ edits' = edits + 1
  /\ UNCHANGED <<temp, stamp, process, published, faults, attempts>>

Publish(files) ==
  /\ edits < MaxEdits
  /\ files # published
  /\ published' = files
  /\ edits' = edits + 1
  /\ UNCHANGED <<disk, process, faults, history>>

\* kMinRevalidateInterval passes, though not between a stamp and the request it is
\* for; the clock is set back behind the stamp.
DayPasses ==
  /\ stamp \in {"recent", "future"}
  /\ at["worker"] # "ask"
  /\ stamp' = "old"
  /\ attempts' = 0
  /\ UNCHANGED <<cache, temp, process, world, worked>>

ClockBack ==
  /\ stamp = "recent"
  /\ at["worker"] # "ask"
  /\ Fault
  /\ stamp' = "future"
  /\ attempts' = 0
  /\ UNCHANGED <<cache, temp, process, published, edits, worked>>

Forget ==
  /\ at' = Off
  /\ map' = NoEntries
  /\ source' = "none"
  /\ missing' = {}
  /\ remote' = NoEntries

SteamExits ==
  /\ at["init"] = "up"
  /\ at["worker"] \in {"none", "done"}
  /\ Forget
  /\ UNCHANGED <<disk, world, history>>

\* A crash, or an exit while the worker is busy.  Fetch writes the file in place.
Kill ==
  /\ at["init"] # "off"
  /\ Fault
  /\ cache' \in {cache} \cup (IF at["init"] = "save" THEN Cut(map) ELSE {})
  /\ worked' = IF cache' = cache THEN worked ELSE NoEntries
  /\ Forget
  /\ UNCHANGED <<temp, stamp, published, edits, attempts>>

-----------------------------------------------------------------------------
(* RemoteToml                                                              *)

\* The first mirror that answers with a 200, and the first whose 200 has a body.
FirstOf(candidates) ==
  IF candidates = {}
  THEN Absent
  ELSE published[CHOOSE i \in candidates : \A j \in candidates : i <= j]
FirstHit(down) == FirstOf({i \in Mirrors \ down : published[i].state # "absent"})
FirstBody(down) == FirstOf({i \in Mirrors \ down : published[i].state = "text"})

Launch ==
  /\ at["init"] = "off"
  /\ Goto("init", "read")
  /\ UNCHANGED <<disk, map, source, missing, remote, world, history>>

\* Sha256Of fails: no file name, no source.
HashFails ==
  /\ at["init"] = "read"
  /\ Fault
  /\ Goto("init", "use")
  /\ UNCHANGED <<disk, map, source, missing, remote, published, edits, history>>

\* The cached file first; one that is locked at this moment counts as none.
ReadCache(locked) ==
  /\ at["init"] = "read"
  /\ locked => cache.state # "absent"
  /\ FaultIf(locked)
  /\ IF cache.state = "text" /\ ~locked
     THEN map' = cache.map /\ source' = "cache" /\ Goto("init", "use")
     ELSE Goto("init", "mirrors") /\ UNCHANGED <<map, source>>
  /\ UNCHANGED <<disk, missing, remote, published, edits, history>>

\* A 200 ends the walk, though its body be empty.
AskMirrors(down) ==
  /\ at["init"] = "mirrors"
  /\ FaultIf(down # {})
  /\ IF FirstHit(down).state = "text"
     THEN map' = FirstHit(down).map /\ source' = "remote" /\ Goto("init", "save")
     ELSE Goto("init", "fallback") /\ UNCHANGED <<map, source>>
  /\ UNCHANGED <<disk, missing, remote, published, edits, history>>

\* Written in place, and over a file that was only locked a moment ago.
Save(opens) ==
  /\ at["init"] = "save"
  /\ FaultIf(~opens)
  /\ cache' = IF opens THEN Text(map) ELSE cache
  /\ worked' = IF cache'.map = cache.map THEN worked ELSE NoEntries
  /\ Goto("init", "use")
  /\ UNCHANGED <<temp, stamp, map, source, missing, remote, published, edits, attempts>>

ReadFallback(locked) ==
  /\ at["init"] = "fallback"
  /\ FaultIf(locked)
  /\ IF cache.state = "text" /\ ~locked
     THEN map' = cache.map /\ source' = "fallback"
     ELSE UNCHANGED <<map, source>>
  /\ Goto("init", "use")
  /\ UNCHANGED <<disk, missing, remote, published, edits, history>>

\* ReplaceCacheFile: a temporary file beside the target, then a rename.
Replacement(t) == IF t = "init" THEN map ELSE remote
AfterReplace(t) == IF t = "init" THEN "install" ELSE "done"

WriteTemp(t) ==
  /\ at[t] = "write"
  /\ temp' = TRUE
  /\ Goto(t, "rename")
  /\ UNCHANGED <<cache, stamp, map, source, missing, remote, world, history>>

Rename(t) ==
  /\ at[t] = "rename"
  /\ cache' = Text(Replacement(t))
  /\ temp' = FALSE
  /\ Goto(t, AfterReplace(t))
  /\ UNCHANGED <<stamp, map, source, missing, remote, world, history>>

ReplaceFails(t) ==
  /\ at[t] \in {"write", "rename"}
  /\ Fault
  /\ temp' = FALSE
  /\ Goto(t, AfterReplace(t))
  /\ UNCHANGED <<cache, stamp, map, source, missing, remote, published, edits, history>>

-----------------------------------------------------------------------------
(* PatternLoader: the init thread                                          *)

\* Temporary files of an earlier launch are removed.  A cached file without entries
\* is fetched again; a module without entries is not hooked.
Use ==
  /\ at["init"] = "use"
  /\ temp' = FALSE
  /\ Goto("init", IF map # NoEntries THEN "install"
                  ELSE IF source = "cache" /\ Revalidate THEN "refetch"
                  ELSE "up")
  /\ UNCHANGED <<cache, stamp, map, source, missing, remote, world, history>>

Refetch(down) ==
  /\ at["init"] = "refetch"
  /\ FaultIf(down # {})
  /\ IF FirstBody(down).map # NoEntries
     THEN map' = FirstBody(down).map /\ source' = "remote" /\ Goto("init", "write")
     ELSE Goto("init", "up") /\ UNCHANGED <<map, source>>
  /\ UNCHANGED <<disk, missing, remote, published, edits, history>>

\* Every hook is looked up; a required function that is not found is remembered.
Misses == {f \in Required : ~Located(map[f])}
Install ==
  /\ at["init"] = "install"
  /\ missing' = Misses
  /\ worked' = IF cache = Text(map)
               THEN [f \in Functions |-> IF Located(map[f]) THEN map[f] ELSE "none"]
               ELSE NoEntries
  /\ Goto("init", "start")
  /\ UNCHANGED <<disk, map, source, remote, world, attempts>>

\* StartCacheRevalidation: a module without misses has no job.
Start ==
  /\ at["init"] = "start"
  /\ at' = [at EXCEPT !["init"] = "up", !["worker"] = IF missing = {} THEN "none" ELSE "check"]
  /\ UNCHANGED <<disk, map, source, missing, remote, world, history>>

-----------------------------------------------------------------------------
(* PatternLoader: the worker                                               *)

OnceEver == stamp = "never"
NotThrottled == stamp # "recent"
ShouldRevalidate == Revalidate /\ source = "cache" /\ missing # {} /\ NotThrottled

Check ==
  /\ at["worker"] = "check"
  /\ Goto("worker", IF ShouldRevalidate THEN "stamp" ELSE "done")
  /\ UNCHANGED <<disk, map, source, missing, remote, world, history>>

\* The attempt is recorded before it is made; if it cannot be, it is not made.
TouchStamp(persists) ==
  /\ at["worker"] = "stamp"
  /\ FaultIf(~persists)
  /\ stamp' \in IF persists THEN {"recent"} ELSE {stamp, "recent"}
  /\ Goto("worker", IF persists THEN "ask" ELSE "done")
  /\ UNCHANGED <<cache, temp, map, source, missing, remote, published, edits, history>>

\* Only mirrors with https:// are asked.
Ask(down) ==
  /\ at["worker"] = "ask"
  /\ FaultIf(down # {})
  /\ attempts' = attempts + 1
  /\ LET answer == FirstBody(down \cup (Mirrors \ Https))
     IN  IF answer.state = "text"
         THEN remote' = answer.map /\ Goto("worker", "judge")
         ELSE Goto("worker", "done") /\ UNCHANGED remote
  /\ UNCHANGED <<disk, map, source, missing, published, edits, worked>>

\* EntriesAreConsistent: what is not missing stays as it is, and what is new there
\* does not lead outside the image.
OnlyKnownKeys(old, new) == TRUE
EntriesAreConsistent(old, new) ==
  \A f \in Functions \ missing :
    IF old[f] # "none" THEN new[f] = old[f] ELSE new[f] # "outside"

\* Missing functions for which the new file has an entry, not the old one, that
\* does not lead into the image.
Unresolvable(old, new) ==
  {f \in missing : new[f] \notin {"none", old[f]} /\ ~InImage(new[f])}

ShouldReplaceCache(old, new) ==
  /\ Unresolvable(old, new) = {}
  /\ EntriesAreConsistent(old, new)
  /\ \A f \in Functions : old[f] # "none" => new[f] # "none"
  /\ new # old
  /\ \E f \in missing : InImage(new[f])

Judge ==
  /\ at["worker"] = "judge"
  /\ Goto("worker", IF ShouldReplaceCache(map, remote) THEN "write" ELSE "done")
  /\ UNCHANGED <<disk, map, source, missing, remote, world, history>>

-----------------------------------------------------------------------------
InitStep ==
  \/ Launch
  \/ HashFails
  \/ \E locked \in BOOLEAN : ReadCache(locked) \/ ReadFallback(locked)
  \/ \E down \in SUBSET Mirrors : AskMirrors(down) \/ Refetch(down)
  \/ \E opens \in BOOLEAN : Save(opens)
  \/ Use
  \/ Install
  \/ Start

RefreshStep ==
  \/ Check
  \/ \E persists \in BOOLEAN : TouchStamp(persists)
  \/ \E down \in SUBSET Mirrors : Ask(down)
  \/ Judge

ReplaceStep(t) == WriteTemp(t) \/ Rename(t) \/ ReplaceFails(t)

PatternNext ==
  \/ \E file \in UserFiles \cup {Absent} : UserWrites(file)
  \/ \E files \in Catalog : Publish(files)
  \/ DayPasses
  \/ ClockBack
  \/ SteamExits
  \/ Kill
  \/ InitStep
  \/ RefreshStep
  \/ \E t \in Threads : ReplaceStep(t)

PatternSpec == PatternInit /\ [][PatternNext]_patternVars

\* The threads run, Steam is started and ended again and again, and days pass.
PatternFairSpec ==
  /\ PatternSpec
  /\ WF_patternVars(InitStep)
  /\ WF_patternVars(RefreshStep)
  /\ \A t \in Threads : WF_patternVars(ReplaceStep(t))
  /\ WF_patternVars(SteamExits)
  /\ WF_patternVars(DayPasses)

-----------------------------------------------------------------------------
(* Properties                                                              *)

\* The type invariant: above all, only required functions are ever missing, and the
\* worker only runs on a file that was read from the cache as it is.
PatternTypeOK ==
  /\ cache \in Files
  /\ temp \in BOOLEAN
  /\ stamp \in {"never", "recent", "old", "future"}
  /\ published \in [Mirrors -> Files]
  /\ at \in [Threads -> InitSteps \cup RefreshSteps]
  /\ at["init"] \in InitSteps /\ at["worker"] \in RefreshSteps
  /\ map \in Maps /\ remote \in Maps /\ worked \in Maps
  /\ source \in {"none", "cache", "remote", "fallback"}
  /\ missing \subseteq Required
  /\ at["worker"] \in {"stamp", "ask", "judge", "write", "rename"} => source = "cache"
  /\ faults \in 0..MaxFaults /\ edits \in 0..MaxEdits /\ attempts \in Nat

\* "Working patterns are never modified by a refresh": what a launch located in the
\* cached file, the next launch that reads it locates in the same place, whatever
\* the mirrors served and wherever Steam was killed, unless a user changed the file
\* or a fetch wrote over one it could not open.
HooksStay ==
  at["init"] = "install" /\ source # "remote" =>
    \A f \in Functions : worked[f] # "none" => map[f] = worked[f]

\* "The cache is replaced only by a strictly better TOML": more functions are located
\* in the image than this launch located, and none leads out of it that did not.
Refreshed == at["worker"] = "rename" /\ at'["worker"] = "done" /\ cache' # cache
RefreshIsBetter ==
  [][Refreshed =>
       /\ {f \in Functions : InImage(cache'.map[f])} # {f \in Functions : InImage(map[f])}
       /\ \A f \in Functions :
            /\ InImage(map[f]) => InImage(cache'.map[f])
            /\ cache'.map[f] = "outside" => map[f] = "outside"]_patternVars

\* "At most once per 24h per file", over restarts, crashes and failed answers; a
\* clock that is set back starts a new day.
OneAttemptPerDay == attempts <= 1

\* A refresh moves no hook that works, installs nothing that is not better, and does not
\* ask the mirrors again on the same day.
RefreshesAreSafe ==
  []PatternTypeOK /\ []HooksStay /\ []OneAttemptPerDay /\ RefreshIsBetter

\* A refresh that would help: the first https mirror with a body serves what the
\* code accepts for the file as it is.
Unfixed(m) == {f \in Required : ~Located(m[f])}
Helps(old, new) ==
  /\ \A f \in Functions \ Unfixed(old) :
       IF old[f] # "none" THEN new[f] = old[f] ELSE new[f] # "outside"
  /\ \A f \in Unfixed(old) : InImage(new[f]) \/ new[f] = old[f]
  /\ \E f \in Unfixed(old) : InImage(new[f])
Repairable ==
  /\ Revalidate
  /\ cache.state = "text" /\ cache.map # NoEntries
  /\ Helps(cache.map, FirstBody(Mirrors \ Https).map)

\* "If a fixed file exists, it is swapped in": no file that a mirror could repair
\* stays as it is for ever.
RepairedInTheEnd == []<>(~Repairable)
=============================================================================
