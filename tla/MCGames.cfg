\* Two pids for three processes, and two games: one of the scripts and one that is not.
\* Two threads of Steam call an intercepted and a captured function four times.
\* Two libraries are loaded into one game.
SPECIFICATION Spec
CONSTANTS
  Pids = {p1, p2}
  Games = {a, b}
  Listed = {a}
  Named = {a}
  FixId = FixId
  NoId = NoId
  Specs = {"GetAppID", "GetAPICallResult"}
  MaxBirths = 3
  spawn = spawn
  capture = capture
  Threads = {t1, t2}
  Sites = {spawn, capture}
  Persistent = {spawn}
  NoSite = NoSite
  MaxCalls = 4
  Libraries = {l1, l2}
  NoLibrary = NoLibrary
SYMMETRY Symmetry
INVARIANTS
  RealIdIsReported
  OthersKeepTheirErrors
  CachedSnapshotsAreRight
  LibrariesLoad
  BreakpointsHold
CHECK_DEADLOCK FALSE
