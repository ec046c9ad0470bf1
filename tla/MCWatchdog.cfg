CONSTANTS
  Plugins = {"docker", "cache"}
  PluginOrder <- TwoPlugins
  Binaries = {"docker"}
  Slots = {1, 2}
  NoSlot = 0
SPECIFICATION FairSpec
INVARIANTS NoOverlap HungOnce
PROPERTIES CancelledWasLate CyclesEnd EligibleAgain ShutdownEnds CommandsEnd
