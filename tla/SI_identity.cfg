SPECIFICATION FairSpec
CONSTANTS
  MaxTask = 2
  MaxNew = 1
  MaxCancel = 1
  MaxBoot = 1
  MaxFail = 1
INVARIANT IdentityInv
INVARIANT ResumesLatest
INVARIANT NewForgets
PROPERTY ExecuteEnds
CHECK_DEADLOCK FALSE
