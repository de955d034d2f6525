---------------------------- MODULE DepotRegistry ----------------------------
(***************************************************************************)
(* What LuaConfig promises the code that keeps Steam's license in step     *)
(* with the configuration (Hooks_Package.cpp): a set of wanted depots, and *)
(* two queues that name every depot whose membership a reload changed.     *)
(* The queues are swapped out one at a time by TakePendingRemovals and     *)
(* TakePendingAdditions.  They are vectors in the code; their only reader, *)
(* PackageReconcileLogic::Reconcile, pours both into one unordered_set, so *)
(* neither order nor multiplicity is kept here.                            *)
(***************************************************************************)
CONSTANT Depots            \* depot and app ids

VARIABLES
  wanted,                  \* ids for which HasDepot(id, false) is true
  pendingRemovals,         \* ids queued by an unload
  pendingAdditions         \* ids queued by a parse

registryVars == <<wanted, pendingRemovals, pendingAdditions>>

RegistryTypeOK ==
  /\ wanted \subseteq Depots
  /\ pendingRemovals \subseteq Depots
  /\ pendingAdditions \subseteq Depots

RegistryInit ==
  /\ wanted = {}
  /\ pendingRemovals = {}
  /\ pendingAdditions = {}

(***************************************************************************)
(* One exclusive section of g_stateMutex (a commit or an unload): some ids *)
(* lose their last provider, some gain their first one, and both are       *)
(* queued in the same section.                                             *)
(***************************************************************************)
Reload(removed, added) ==
  /\ removed \subseteq wanted
  /\ wanted' = (wanted \ removed) \cup added
  /\ pendingRemovals' = pendingRemovals \cup removed
  /\ pendingAdditions' = pendingAdditions \cup added

(***************************************************************************)
(* addappid called by a running manifest callback, outside any file parse: *)
(* the id becomes wanted and nothing is queued for it.                     *)
(***************************************************************************)
AddUnqueued(d) ==
  /\ wanted' = wanted \cup {d}
  /\ UNCHANGED <<pendingRemovals, pendingAdditions>>

TakeRemovals ==
  /\ pendingRemovals' = {}
  /\ UNCHANGED <<wanted, pendingAdditions>>

TakeAdditions ==
  /\ pendingAdditions' = {}
  /\ UNCHANGED <<wanted, pendingRemovals>>

RegistryNext ==
  \/ \E removed \in SUBSET Depots, added \in SUBSET Depots : Reload(removed, added)
  \/ \E d \in Depots : AddUnqueued(d)
  \/ TakeRemovals
  \/ TakeAdditions

RegistrySpec == RegistryInit /\ [][RegistryNext]_registryVars
=============================================================================
