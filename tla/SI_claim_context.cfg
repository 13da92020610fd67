SPECIFICATION Spec
CONSTANTS
  MaxTask = 2
  MaxNew = 0
  MaxCancel = 0
  MaxBoot = 0
  MaxFail = 0
CHECK_DEADLOCK FALSE
PROPERTY ContextKept
