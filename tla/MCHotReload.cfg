\* A file in each of two directories, buffers of one event, failing I/O.
SPECIFICATION WatchFairSpec
CONSTANTS
  f1 = f1
  f2 = f2
  dDefault = dDefault
  dOther = dOther
  Files = {f1, f2}
  Dirs = {dDefault, dOther}
  DirOf <- OneEach
  DefaultDir = dDefault
  Trailing = {}
  Versions = {v1}
  Gone = Gone
  Truncated = Truncated
  Locked = Locked
  BufferSize = 1
  IOFails = TRUE
  MaxChanges = 4
PROPERTIES
  SavesAreApplied
  Converges
CHECK_DEADLOCK FALSE
