SPECIFICATION Spec
CONSTANTS
  u1 = u1
  u2 = u2
  u3 = u3
  r1 = r1
  r2 = r2
  Users = {u1, u2, u3}
  Founder = u1
  Requests = {r1, r2}
  Scopes <- Mixed
  NoUser = NoUser
  NoMember = NoMember
  NoInvite = NoInvite
  Keep = Keep
SYMMETRY Symmetry
INVARIANT TypeOK
INVARIANT LastOwnerStays
INVARIANT SoleOwnerStays
INVARIANT InvitationsSettled
PROPERTY OwnerRoleKept
PROPERTY HierarchyKept
PROPERTY OnlyPatchChanges
CHECK_DEADLOCK FALSE
