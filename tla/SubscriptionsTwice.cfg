SPECIFICATION Spec
CONSTANTS
  s1 = s1
  s2 = s2
  basic = basic
  pro = pro
  r1 = r1
  r2 = r2
  Subs = {s1, s2}
  Paid = {basic, pro}
  Free = Free
  Requests = {r1, r2}
  Scopes <- Twice
  MaxEvents = 1
  MaxCrashes = 0
  NoSub = NoSub
INVARIANT HandledOnce
CHECK_DEADLOCK FALSE
