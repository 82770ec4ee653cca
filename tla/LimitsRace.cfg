SPECIFICATION Spec
CONSTANTS
  u1 = u1
  c1 = c1
  c2 = c2
  r1 = r1
  r2 = r2
  r3 = r3
  Users = {u1}
  Companies = {c1, c2}
  Requests = {r1, r2}
  Plans <- OnePlan
  Scopes <- Race
  MaxLimit = 1
  MaxCount = 3
  NoUser = NoUser
  NoCompany = NoCompany
SYMMETRY Symmetry
INVARIANT WithinLimit
CHECK_DEADLOCK FALSE
