SPECIFICATION Spec
CONSTANTS
  t1 = t1
  t2 = t2
  c1 = c1
  c2 = c2
  c3 = c3
  Tabs = {t1, t2}
  Calls = {c1, c2, c3}
  Slots <- UsedSlots
  MaxPairs = 5
  Scopes <- Browsers
  Logins = 2
INVARIANT TypeOK
INVARIANT OneRefreshServesTheQueue
INVARIANT RotationRevokesParent
PROPERTY StaysSignedIn
PROPERTY EveryCallSettles
CHECK_DEADLOCK FALSE
