SPECIFICATION FairSpec
CONSTANTS
  r1 = r1
  r2 = r2
  r3 = r3
  m = m
  Root = {r1, r2, r3, m}
  Meta = {m}
  Limit = 1
  MaxClosers = 2
  MaxRestarts = 1
  Fault = {}
INVARIANT SlotsInv
INVARIANT NoIdleSlot
INVARIANT OnePlace
INVARIANT RepliesRouted
PROPERTY ParkedServed
CHECK_DEADLOCK FALSE
