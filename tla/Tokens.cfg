SPECIFICATION Spec
CONSTANTS
  Users = {u1}
  RoleNames = {anon, superadmin}
  RoleAnon = anon
  Patchers = {superadmin}
  Jtis = {j1, j2}
  Sessions = {s1, s2}
  AccessTTL = 1
  RefreshTTL = 2
  RequestTimeout = 1
  MaxTime = 6
  MaxTokens = 2
  NoUser = NoUser
  NoJti = NoJti
  NoRole = NoRole
SYMMETRY Symmetry
INVARIANTS TokensOfOneLogin RoleChangesLand SessionsEnd TokensInv
PROPERTIES HoldersHaveRole
