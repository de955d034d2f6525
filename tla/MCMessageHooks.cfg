\* Two receivers where packets may overlap; queues of one.
SPECIFICATION FairSpec
CONSTANTS
  Receivers = {r1, r2}
  Network = r1
  Layouts = {stable, beta}
  Other = Other
  c1 = c1
  c2 = c2
  k1 = k1
  s1 = s1
  u1 = u1
  u2 = u2
  d1 = d1
  l1 = l1
  Jobs = {c1, c2, k1, s1, u1, u2, d1, l1}
  MaxAttempts = 3
  MaxFlukes = 1
  CloudJobs = {c1, c2}
  KeyJobs = {k1}
  MaxQueued = 1
  g1 = g1
  Games = {g1, g2}
  GameOf <- OneGame
  SchemaJobs = {s1}
  UserJobs = {u1, u2}
  StatsJobs = {d1}
  LegacyJobs = {l1}
  MaxHeld = 1
  ListedGames = {a}
  OwnedGames = {b}
  MaxReports = 4
  Bits <- TwoBits
  SchemaBits <- TwoSchemas
  Progress <- Unlocking
INVARIANTS
  PacketsAreRight
  NobodyElsesProgress
  
  PagesAreWhole
PROPERTIES
  
  BannerFollows
CHECK_DEADLOCK FALSE
