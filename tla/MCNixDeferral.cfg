CONSTANTS
  Configs <- OneHost
  Levels = {0, 4}
  DiskFull = TRUE
  Horizon = 2
  DeferralCap = 2
SPECIFICATION NixFairSpec
PROPERTIES GCEventuallyRuns
