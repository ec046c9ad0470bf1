CONSTANTS
  Plugins <- OnePlugin
  Paths <- OnePath
  Digests = {"d1"}
  TicksPerSecond = 1
  ZeroYieldLimit = 0
  ZeroYieldBase = 1
  ZeroYieldMax = 2
  PressureMin = 1
  PluginOrder <- OnePluginOrder
  Independent = {}
  Exempt = {}
  MountOrder <- OneMount
  Home = "root"
  Monitors <- DefaultMonitors
  InodesTotal <- NoInodes
  InodesDynamic <- NotDynamic
  TargetUsed <- DefaultTarget
  Cooldown = 2
  BypassLevel = 3
  InodeLimit = 2
  ByteLimit = 2
  ByteMax = 3
  EmergencyFree = 2
  MinimumFree = 0
  MinYield = 5
  Poll = 1
  Modes = {"daemon"}
  ForcedLevels = {4}
  FreeValues = {4, 12, 40}
  InodeValues = {50}
  Yields = {0, 5}
  LoadOutcomes = {"ok", "corrupt"}
  SaveOutcomes = {TRUE, FALSE}
  PluginsTakeTime = TRUE
  MaxClock = 4
SPECIFICATION Spec
INVARIANTS HoldBounded ByteBackoffEarned
PROPERTIES CadenceKept
