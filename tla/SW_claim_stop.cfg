SPECIFICATION Spec
CONSTANTS
  s1 = s1
  s2 = s2
  t1 = t1
  t2 = t2
  t3 = t3
  p1 = p1
  Session = {s1}
  Task = {t1}
  Second = {}
  Path = {p1}
  PathOf <- MCPathOf
  OwnerOf <- MCOwnerOf
  AcpSession = {s1}
  Capacity = 1
  MaxAsk = 0
  Fragile = {}
  Command = {"stop"}
  NoTask = NoTask
  NoSession = NoSession
PROPERTY StopIsReported
CHECK_DEADLOCK FALSE
