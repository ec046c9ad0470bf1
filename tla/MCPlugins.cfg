CONSTANTS
  Setups <- AllSetups
  Faults = TRUE
  Intrusions = TRUE
  SilentDamage = {"temp", "disk", "backup"}
  MaxData = 2
  Containers = {"c1", "c2"}
  Volumes = {"v1", "v2"}
  Networks = {"n1"}
  Images = {"i1", "i2", "i3"}
  NeedsOf <- NeedsC
  Labelled = {"c2", "v2", "i3"}
  Tagged = {"i1", "i2"}
  Pinned = {"i1"}
  KeepConfigs <- SomeKeeps
  RTrees = {"a1", "c1"}
  RRootOf <- TreeRoots
  CargoTargets = {"c1"}
  DeleteRules = {"tmp_agents", "cargo_targets"}
  RMaxAge = 1
  RInterval = 1
  InventoryMaxAge = 0
  MaxDirs = 1
  NGroups = 2
  AFiles = {"x"}
  Versions = {1, 2, 3}
  SizeOf <- TwoSizes
  GroupBudget = 1
  RetireAge = 1
  NRoots = 3
  NFamilies = 2
  EntriesOf <- ThreeSizes
  WorkspaceMaxRoots = 2
  ScanMaxEntries = 3
  TranscriptEntries = 1
  MaxLines = 3
  Codecs = {"zstd", "gzip"}
  Lanes = {"disposable", "session", "nix", "generated", "worktree", "artifact", "zig", "shm"}
  GitMayFail = TRUE
  MaxGeneration = 4
  Homes = {"a", "b", "c"}
  Keys = {"disk", "free", "wedged"}
  ErrorKeys = {"wedged"}
  Contents = {"a", "b"}
  Window = 2
  ErrorWindow = 1
  MaxKeys = 2
  MaxLogClock = 2
  MaxCopies = 1
SPECIFICATION PluginsSpec
INVARIANTS DataKept NoRollback TranscriptKept
PROPERTIES StoreKept RetentionSafe RetiredIsSized WalksFair PlanIsNoLease SteadyUseKept HomeHeld LogTruthful
CHECK_DEADLOCK FALSE
