CONSTANTS
  Paths = {"b1", "b2"}
  Sib = "sib"
  SibBase = "b1"
  SibUsers = {"b1"}
  Clients = {c1, c2}
  AgentPaths = {"b2"}
  NoLockFile = {"b2"}
  HeldPaths = {}
  GuardedPaths = {}
  Listed = {"b1", "b2"}
  BasesOnly = {}
  IdleAfter = 1
  PressureIdleAfter = 1
  BasesOnlyIdleAfter = 1
  KindIdle <- LongerB2
  KindPressure <- NoKinds
  RootStart = 2
  RootStop = 1
  WideStop = 1
  MaxBaseClock = 2
  MaxUsage = 2
  Devs = {"d1"}
  MinInterval = 1
  Interval = 4
  Duty = 50
  MaxWalkTime = 1
  MaxWalkClock = 9
  Bases = {"b1", "b2"}
  Partial = {}
  Pidless = {"b2"}
  Caches = {"cache"}
  Logs = {}
  Entries = {"entry"}
  ProtectedBases = {"b2"}
  DeniedItems = {}
  KeepRecent = 1
  Levels = {1, 3}
  OptionSets <- SomeOptions
  Hooks = {"old", "new"}
  Sessions = {"s1"}
  StartSlack = 1
  MaxClock = 3
  DirenvLinks = {"d1"}
  TempLinks = {}
  AgentLinks = {"s"}
  PinnedLinks = {}
  StaleAfter <- LinkThresholds
  MinLinkAge = 1
  MaxListAge = 1
  OldestAge = 2
SPECIFICATION ReapersSpec
INVARIANTS RunsInPlace BarrenWalksThinOut PlanSound SessionsKeepHooks
PROPERTIES NothingDeletedInUse AgentDataKept UsedIsKept RootsKept
SYMMETRY ClientSymmetry
CHECK_DEADLOCK FALSE
