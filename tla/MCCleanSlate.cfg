CONSTANTS
  Plugins <- OnePlugin
  Paths <- TwoPaths
  Digests = {"d1"}
  TicksPerSecond = 1
  ZeroYieldLimit = 0
  ZeroYieldBase = 1
  ZeroYieldMax = 2
  PressureMin = 1
  PluginOrder <- OnePluginOrder
  Independent = {}
  Exempt = {}
  MountOrder <- TwoMounts
  Home = "root"
  Monitors <- DefaultMonitors
  InodesTotal <- NoInodes
  InodesDynamic <- NotDynamic
  TargetUsed <- DefaultTarget
  Cooldown = 2
  BypassLevel = 3
  InodeLimit = 2
  ByteLimit = 1
  ByteMax = 3
  EmergencyFree = 2
  MinimumFree = 0
  MinYield = 5
  Poll = 1
  Modes = {"daemon"}
  ForcedLevels = {4}
  FreeValues = {4, 40}
  InodeValues = {50}
  Yields = {0, 5}
  LoadOutcomes = {"ok"}
  SaveOutcomes = {TRUE}
  PluginsTakeTime = FALSE
  MaxClock = 3
SPECIFICATION Spec
INVARIANTS ByteBackoffEarned
