CONSTANTS
  Lanes = {"worktree"}
  GitMayFail = TRUE
SPECIFICATION DSpec
PROPERTY DirtyWorktreeKept
CHECK_DEADLOCK FALSE
