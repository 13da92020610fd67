SPECIFICATION FairSpec
CONSTANTS
  u1 = u1
  s1 = s1
  s2 = s2
  x = x
  y = y
  User = {u1}
  Session = {s1, s2}
  Text = {x, y}
  Like <- MCLike
  Limits = {1, 2}
  Top = 2
  NoOne = NoOne
  MaxMade = 2
  MaxFail = 1
  MaxBoot = 1
INVARIANT MemoryInv
INVARIANT IndexesHold
PROPERTY KeepsFacts
PROPERTY ReachesDisk
CHECK_DEADLOCK FALSE
