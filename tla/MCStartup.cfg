\* The client and one forwarder, two builds.
SPECIFICATION FairSpec
CONSTANTS
  a = a
  b = b
  Processes = {client, forwarder}
  Client = client
  Contents = {a, b}
  Default = Default
  LuaPaths <- Paths
  WantsAliases <- Wants
  Misnamed = {b}
  Builds = {v1, v2}
  Absent = Absent
  Broken = Broken
  Foreign = Foreign
  Half = Half
  Missing = Absent
  Torn = Half
  Legacy = a
  Versions = {v1, v2, v3}
  Depots = {d1, d2}
  Proxies = {"dwmapi", "xinput1_4"}
  Images = {"AmethystTool", "OpenSteamTool"}
  Callers = {t1, t2}
  Exports = {e1, e2}
  MaxEdits = 4
  MaxFaults = 2
INVARIANTS
  SettingsAreRight
  AliasesAreWhole
  ACopySurvives
  RedirectedSetFollows
  OneActiveImage
  CallsAreForwarded
PROPERTIES
  ForeignFilesStay
  AliasesFollow
CHECK_DEADLOCK FALSE
