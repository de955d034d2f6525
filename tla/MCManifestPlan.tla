--------------------------- MODULE MCManifestPlan ---------------------------
(* A small instance of ManifestPlan.                                       *)
EXTENDS ManifestPlan

CONSTANTS d1, loader, w1

DepotManifests == Depots \X {"public", "pinned"}
=============================================================================
