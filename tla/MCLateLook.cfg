CONSTANTS
  RTrees = {"a1", "b1"}
  RRootOf <- TreeRoots
  CargoTargets = {}
  DeleteRules = {"tmp_agents", "cargo_targets"}
  RMaxAge = 1
  RInterval = 1
  InventoryMaxAge = 0
  MaxDirs = 1
SPECIFICATION RSpec
PROPERTY RecheckSeesUse
CHECK_DEADLOCK FALSE
