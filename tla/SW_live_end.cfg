SPECIFICATION AnsweringSpec
CONSTANTS
  s1 = s1
  s2 = s2
  t1 = t1
  t2 = t2
  t3 = t3
  p1 = p1
  Session = {s1, s2}
  Task = {t1, t2}
  Second = {t2}
  Path = {p1}
  PathOf <- MCPathOf
  OwnerOf <- MCOwnerOf
  AcpSession = {s1}
  Capacity = 1
  MaxAsk = 1
  Fragile = {t1}
  Command = {"stop", "done", "reap"}
  NoTask = NoTask
  NoSession = NoSession
INVARIANT IInv
INVARIANT NoticeOnce
INVARIANT PendingMirrorsQueue
PROPERTY LockGranted
PROPERTY TaskEnds
CHECK_DEADLOCK FALSE
