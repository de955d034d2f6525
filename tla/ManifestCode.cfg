\* Two requests, two providers of which one is depot-aware, one load of settings or scripts.
SPECIFICATION CodeFairSpec
CONSTANTS
  Jobs = {j1, j2}
  Providers = {pAware, pPlain}
  DepotAware = {pAware}
  MaxTracked = 1
  MaxLoads = 1
INVARIANTS
  CodesAreRight
PROPERTIES
  NobodyIsHeldUp
\* Everything requested, answered and loaded: nothing is left to do.
CHECK_DEADLOCK FALSE
