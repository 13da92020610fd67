SPECIFICATION FairSpec
CONSTANTS
  o = o
  e = e
  w = w
  c = c
  h = h
  Task = {e, c}
  Once = {e}
  Cron = {c}
  Huge = {}
  East = {e}
  West = {}
  MaxRuns <- NoLimit
  MaxBroken = 0
  NoTask = NoTask
PROPERTY ListsDue
CHECK_DEADLOCK FALSE
