--------------------------- MODULE ManifestCache ---------------------------
(***************************************************************************)
(* EnsureCached (ManifestCache, ManifestCacheLogic): a thread that needs a *)
(* manifest file downloads it from the archive into Steam's depotcache,    *)
(* unless it is there, was lately missing, or is being downloaded.         *)
(***************************************************************************)
EXTENDS Naturals, FiniteSets

CONSTANTS
  Manifests,  \* keys of manifest files
  Threads,    \* threads that call EnsureCached, told apart by their id
  MaxEvents   \* bound on failures, restarts, and what the outside changes

ASSUME CacheAssumption == MaxEvents \in Nat

VARIABLES
  disk,      \* the file of each manifest: none, half or whole
  temp,      \* the file beside it that a thread writes
  archive,   \* the manifests that the archive has
  inFlight,  \* g_inFlight
  negative,  \* g_negCache: none, fresh, or stale after kNegativeTtl
  pc,        \* per thread: where in EnsureCached it is
  want,      \* per thread: the manifest it needs
  events     \* count of failures, restarts and outside changes

fileVars == <<disk, temp>>
memoryVars == <<inFlight, negative>>
threadVars == <<pc, want>>
stillVars == <<fileVars, archive, memoryVars, threadVars>>
cacheVars == <<stillVars, events>>

NoManifest == <<>>

CacheInit ==
  /\ disk = [m \in Manifests |-> "none"]
  /\ temp = [mt \in Manifests \X Threads |-> "none"]
  /\ archive \in SUBSET Manifests
  /\ inFlight = {}
  /\ negative = [m \in Manifests |-> "none"]
  /\ pc = [t \in Threads |-> "idle"]
  /\ want = [t \in Threads |-> NoManifest]
  /\ events = 0

Event == events < MaxEvents /\ events' = events + 1

Goes(t, stage) == pc' = [pc EXCEPT ![t] = stage] /\ UNCHANGED want

\* A call.
Calls(t, m) ==
  /\ pc[t] = "idle"
  /\ pc' = [pc EXCEPT ![t] = "disk"]
  /\ want' = [want EXCEPT ![t] = m]

Returns(t) ==
  /\ pc' = [pc EXCEPT ![t] = "idle"]
  /\ want' = [want EXCEPT ![t] = NoManifest]

\* A file that exists is taken for the manifest, whatever is in it.
Exists(m) == disk[m] # "none"
CheckDisk(t) ==
  /\ pc[t] = "disk"
  /\ Goes(t, IF Exists(want[t]) THEN "returned" ELSE "negative")
  /\ UNCHANGED <<fileVars, archive, memoryVars, events>>

\* Under g_negMutex: a stale entry is dropped and the archive asked again.
NeverExpired(m) == FALSE
Expired(m) == negative[m] = "stale"
CheckNegative(t) ==
  LET m == want[t] IN
    /\ pc[t] = "negative"
    /\ negative' = [negative EXCEPT ![m] = IF Expired(m) THEN "none" ELSE @]
    /\ Goes(t, IF negative'[m] = "none" THEN "slot" ELSE "returned")
    /\ UNCHANGED <<fileVars, archive, inFlight, events>>

\* InFlightGuard: one that has not got the slot does not give it back.
GivesBackAnyway == "release"
WithoutSlot == "returned"
TakeSlot(t) ==
  /\ pc[t] = "slot"
  /\ inFlight' = inFlight \cup {want[t]}
  /\ Goes(t, IF want[t] \in inFlight THEN WithoutSlot ELSE "recheck")
  /\ UNCHANGED <<fileVars, archive, negative, events>>

Recheck(t) ==
  /\ pc[t] = "recheck"
  /\ Goes(t, IF Exists(want[t]) THEN "release" ELSE "fetch")
  /\ UNCHANGED <<fileVars, archive, memoryVars, events>>

\* The archive's answer: the manifest, a 404, or something else, which is not recorded.
FetchWhole(t) ==
  /\ pc[t] = "fetch"
  /\ want[t] \in archive
  /\ Goes(t, "open")
  /\ UNCHANGED <<fileVars, archive, memoryVars, events>>

FetchMissing(t) ==
  /\ pc[t] = "fetch"
  /\ want[t] \notin archive
  /\ negative' = [negative EXCEPT ![want[t]] = "fresh"]
  /\ Goes(t, "release")
  /\ UNCHANGED <<fileVars, archive, inFlight, events>>

FetchFails(t) ==
  /\ pc[t] = "fetch"
  /\ Event
  /\ Goes(t, "release")
  /\ UNCHANGED <<fileVars, archive, memoryVars>>

\* WriteAtomic: the file beside the manifest is truncated or made, filled, and renamed.
OpenTarget(t) ==
  /\ pc[t] = "open"
  /\ disk' = [disk EXCEPT ![want[t]] = "half"]
  /\ temp' = [temp EXCEPT ![<<want[t], t>>] = "half"]
  /\ Goes(t, "write")
  /\ UNCHANGED <<archive, memoryVars, events>>
OpenTemp(t) ==
  /\ pc[t] = "open"
  /\ temp' = [temp EXCEPT ![<<want[t], t>>] = "half"]
  /\ Goes(t, "write")
  /\ UNCHANGED <<disk, archive, memoryVars, events>>

WriteTemp(t) ==
  /\ pc[t] = "write"
  /\ temp' = [temp EXCEPT ![<<want[t], t>>] = "whole"]
  /\ Goes(t, "rename")
  /\ UNCHANGED <<disk, archive, memoryVars, events>>

Rename(t) ==
  /\ pc[t] = "rename"
  /\ disk' = [disk EXCEPT ![want[t]] = temp[<<want[t], t>>]]
  /\ temp' = [temp EXCEPT ![<<want[t], t>>] = "none"]
  /\ Goes(t, "release")
  /\ UNCHANGED <<archive, memoryVars, events>>

\* No file can be made, the disk is full, or somebody has the manifest open.
WriteFails(t) ==
  /\ pc[t] \in {"open", "write", "rename"}
  /\ temp' = IF pc[t] = "open" THEN temp ELSE [temp EXCEPT ![<<want[t], t>>] = "none"]
  /\ Event
  /\ Goes(t, "release")
  /\ UNCHANGED <<disk, archive, memoryVars>>

Release(t) ==
  /\ pc[t] = "release"
  /\ inFlight' = inFlight \ {want[t]}
  /\ Goes(t, "returned")
  /\ UNCHANGED <<fileVars, archive, negative, events>>

\* kNegativeTtl passes.
TtlPasses(m) ==
  /\ negative[m] = "fresh"
  /\ negative' = [negative EXCEPT ![m] = "stale"]
  /\ UNCHANGED <<fileVars, archive, inFlight, threadVars, events>>

\* The archive gets a manifest, later.
Archived(m) ==
  /\ m \notin archive
  /\ archive' = archive \cup {m}
  /\ UNCHANGED <<fileVars, memoryVars, threadVars, events>>

\* Steam ends, in whatever state: what is in memory is gone, files stay as they are.
Forgets ==
  /\ inFlight' = {}
  /\ negative' = [m \in Manifests |-> "none"]
  /\ pc' = [t \in Threads |-> "idle"]
  /\ want' = [t \in Threads |-> NoManifest]
  /\ UNCHANGED <<fileVars, archive>>

CacheStep(t) ==
  \/ CheckDisk(t) \/ CheckNegative(t) \/ TakeSlot(t) \/ Recheck(t)
  \/ FetchWhole(t) \/ FetchMissing(t) \/ FetchFails(t)
  \/ OpenTemp(t) \/ WriteTemp(t) \/ Rename(t) \/ WriteFails(t)
  \/ Release(t)
=============================================================================
