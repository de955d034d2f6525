\* Two ids, one of them native to package 0, three configuration changes.
SPECIFICATION FairSpec
CONSTANTS
  Depots = {d1, d2}
  Native = {d2}
  MaxReloads = 3
INVARIANTS
  LicenseIsRight
PROPERTIES
  VectorFollowsConfig
  ReloadsComplete
