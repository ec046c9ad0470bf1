CONSTANTS
  Temps = {"t1", "t2"}
  NamesPerSecond = 1
  MaxSaves = 2
  MaxCrashes = 1
  MaxErrors = 3
  Global <- Defaults
  GlobalInode <- NoInodeSteps
  GlobalFloor = 0
  Settings = {0, 80, 92, 97}
  InodeSettings = {0, 92}
  Floors = {0, 10}
  Points = {70, 88, 96, 98}
  Configs <- Hosts
  Levels = {0, 4}
  DiskFull = FALSE
  Horizon = 2
  DeferralCap = 2
SPECIFICATION PartsSpec
INVARIANTS LitterBounded QuietBelowWarning
PROPERTIES Refines Recovers LevelFollowsUsage MinGapKept GCEventuallyRuns
