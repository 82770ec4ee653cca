SPECIFICATION Spec
CONSTANTS
  s1 = s1
  s2 = s2
  basic = basic
  pro = pro
  r1 = r1
  r2 = r2
  Subs = {s1, s2}
  Paid = {basic, pro}
  Free = Free
  Requests = {r1, r2}
  Scopes <- Deliveries
  MaxEvents = 5
  MaxCrashes = 1
  NoSub = NoSub
INVARIANT FollowsPaddle
PROPERTY EveryWebhookAcknowledged
CHECK_DEADLOCK FALSE
