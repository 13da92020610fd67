SPECIFICATION Spec
CONSTANTS
  boss = boss
  ann = ann
  bob = bob
  User = {boss, ann, bob}
  Request = {r1, r2, r3}
  AdminLists <- MCAdminLists
INVARIANT OnePending
INVARIANT Delegated
INVARIANT GrantOnce
INVARIANT ApprovalTakesEffect
PROPERTY DecidedOnce
PROPERTY FollowsOrders
SYMMETRY Alike
CHECK_DEADLOCK FALSE
