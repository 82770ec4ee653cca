SPECIFICATION Spec
CONSTANTS
  u1 = u1
  u2 = u2
  u3 = u3
  r1 = r1
  r2 = r2
  Users = {u1, u2}
  Founder = u1
  Requests = {r1, r2}
  Scopes <- Owners
  NoUser = NoUser
  NoMember = NoMember
  NoInvite = NoInvite
  Keep = Keep
SYMMETRY Symmetry
INVARIANT AlwaysAnOwner
CHECK_DEADLOCK FALSE
