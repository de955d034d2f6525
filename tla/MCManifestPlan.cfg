\* One depot with two manifests, the loader and one detached thread.
SPECIFICATION FairSpec
CONSTANTS
  d1 = d1
  loader = loader
  w1 = w1
  Manifests <- DepotManifests
  Threads = {loader, w1}
  Depots = {d1}
  Pins = {d1}
  Loader = loader
  MaxEvents = 2
INVARIANTS
  NoHalfManifest
  OneFetch
PROPERTIES
  CachedInTheEnd
  PlanIsKept
  PlanFollowsPins
CHECK_DEADLOCK FALSE
