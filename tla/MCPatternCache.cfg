\* Three functions, two mirrors, two edits, three faults.
SPECIFICATION PatternFairSpec
CONSTANTS
  r1 = r1
  r2 = r2
  o = o
  Required = {r1, r2}
  Optional = {o}
  Mirrors <- TwoMirrors
  Https <- FirstHttps
  Catalog <- Serving
  UserFiles <- Dropping
  Revalidate = TRUE
  MaxFaults = 3
  MaxEdits = 2
PROPERTIES
  RefreshesAreSafe
  RepairedInTheEnd
