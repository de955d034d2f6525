\* Two files, two depots, one key, two pins, and at most MaxParses commits.
SPECIFICATION Spec
CONSTANTS
  Files = {f1, f2}
  Depots = {d1, d2}
  Keys = {k1}
  NoKey = NoKey
  Absent = Absent
  Gids = {g1, g2}
  NoGid = NoGid
  NoFile = NoFile
  MaxTime = 1
  MaxParses = 3
  Scripts <- MCScripts
SYMMETRY Symmetry
INVARIANTS
  TablesFollowFiles
PROPERTIES
  NoTruncatedReplacement
  ImplementsRegistry
