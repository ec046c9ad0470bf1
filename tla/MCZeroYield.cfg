CONSTANTS
  Plugins <- OnePlugin
  Paths <- OnePath
  Digests = {"d1"}
  TicksPerSecond = 2
  ZeroYieldLimit = 1
  ZeroYieldBase = 1
  ZeroYieldMax = 3
  PressureMin = 2
  PluginOrder <- OnePluginOrder
  Independent = {}
  Exempt = {}
  MountOrder <- OneMount
  Home = "root"
  Monitors <- DefaultMonitors
  InodesTotal <- NoInodes
  InodesDynamic <- NotDynamic
  TargetUsed <- DefaultTarget
  Cooldown = 0
  BypassLevel = 3
  InodeLimit = 2
  ByteLimit <- Disabled
  ByteMax = 3
  EmergencyFree = 2
  MinimumFree = 0
  MinYield = 5
  Poll = 2
  Modes = {"daemon"}
  ForcedLevels = {4}
  FreeValues = {12, 18}
  InodeValues = {50}
  Yields = {0, 5}
  LoadOutcomes = {"ok", "corrupt"}
  SaveOutcomes = {TRUE, FALSE}
  PluginsTakeTime = FALSE
  MaxClock = 6
SPECIFICATION Spec
INVARIANTS ZeroYieldEarned
PROPERTIES BarrenRunsSpaced
