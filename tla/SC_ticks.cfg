SPECIFICATION FairSpec
CONSTANTS
  o = o
  e = e
  w = w
  c = c
  h = h
  Task = {w, c, h}
  Once = {w}
  Cron = {c}
  Huge = {h}
  East = {}
  West = {w}
  MaxRuns <- NoLimit
  MaxBroken = 2
  NoTask = NoTask
INVARIANT SchedulerInv
INVARIANT RunsBounded
INVARIANT ActiveHasNext
PROPERTY DeletedStays
PROPERTY DueServed
CHECK_DEADLOCK FALSE
