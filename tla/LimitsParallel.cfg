SPECIFICATION Spec
CONSTANTS
  u1 = u1
  c1 = c1
  c2 = c2
  r1 = r1
  r2 = r2
  r3 = r3
  Users = {u1}
  Companies = {c1, c2}
  Requests = {r1, r2, r3}
  Plans <- LowPlans
  Scopes <- Parallel
  MaxLimit = 1
  MaxCount = 4
  NoUser = NoUser
  NoCompany = NoCompany
SYMMETRY Symmetry
INVARIANT OvershootBounded
INVARIANT UserOvershootBounded
CHECK_DEADLOCK FALSE
