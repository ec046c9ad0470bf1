CONSTANTS
  Setups <- AllSetups
  Faults = FALSE
  Intrusions = FALSE
  SilentDamage = {}
  MaxData = 1
  Containers = {"c1", "c2"}
  Volumes = {"v1", "v2"}
  Networks = {"n1"}
  Images = {"i1", "i2", "i3"}
  NeedsOf <- NeedsC
  Labelled = {"c2", "v2", "i3"}
  Tagged = {"i1", "i2"}
  Pinned = {"i1"}
  KeepConfigs <- SomeKeeps
SPECIFICATION PodmanSpec
INVARIANT CutShortComesBack
CHECK_DEADLOCK FALSE
