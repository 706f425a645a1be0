SPECIFICATION Spec
CONSTANTS
  User = {u1, u2, u3}
  Org = {o1}
  InviteId = {i1, i2}
  GivenRole = {"owner", "admin"}
  MaxBusy = 2
  NoUser = NoUser
  NoOrg = NoOrg
  NoInvite = NoInvite
SYMMETRY Symmetry
CHECK_DEADLOCK FALSE
INVARIANTS OwnerRemains 
PROPERTIES LoginFollowsMembership OthersKeepTheirOrg
