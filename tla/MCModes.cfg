CONSTANTS
  Plugins <- WithNix
  Paths <- OnePath
  Digests = {"d1", "d2"}
  TicksPerSecond = 1
  ZeroYieldLimit = 1
  ZeroYieldBase = 2
  ZeroYieldMax = 2
  PressureMin = 2
  PluginOrder <- WithNixOrder
  Independent = {"nix"}
  Exempt = {}
  MountOrder <- OneMount
  Home = "root"
  Monitors <- DefaultMonitors
  InodesTotal <- FixedInodes
  InodesDynamic <- NotDynamic
  TargetUsed <- DefaultTarget
  Cooldown = 2
  BypassLevel = 3
  InodeLimit = 1
  ByteLimit = 1
  ByteMax = 3
  EmergencyFree = 2
  MinimumFree = 0
  MinYield = 5
  Poll = 1
  Modes = {"daemon", "level", "plugins", "dry"}
  ForcedLevels = {4}
  FreeValues = {12}
  InodeValues = {3, 50}
  Yields = {0}
  LoadOutcomes = {"ok"}
  SaveOutcomes = {TRUE}
  PluginsTakeTime = TRUE
  MaxClock = 2
SPECIFICATION Spec
INVARIANTS CycleInv HoldJustified
