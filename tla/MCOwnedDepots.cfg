\* Two threads, nested calls, three lists.
SPECIFICATION FairSpec
CONSTANTS
  p1 = p1
  p2 = p2
  d1 = d1
  d2 = d2
  d3 = d3
  t1 = t1
  t2 = t2
  Threads = {t1, t2}
  Packages = {p1, p2}
  DepotsOf <- Overlapping
  MaxDepth = 2
  MaxLists = 3
INVARIANTS
  DumpsAreRight
PROPERTIES
  NewestListPrevails
