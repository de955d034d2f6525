\* Two manifests, three requests, replies lost, late and repeated.
SPECIFICATION FairSpec
CONSTANTS
  Wanted = {w1, w2}
  MaxPerCycle = 1
  MaxPerSession = 2
  MaxJobs = 3
INVARIANTS
  AnswersAreRight
PROPERTIES
  StopEnds
\* A stopped donor does nothing more.
CHECK_DEADLOCK FALSE
