SPECIFICATION Spec
CONSTANTS
  Users = {ann, bob}
  Roots = {ann, bob}
  Sessions = {s1, s2}
  RoleNames <- MCRoleNames
  Priority <- MCPriority
  Patchers <- MCPatchers
  RoleUser = "user"
  RoleSuperAdmin = "superadmin"
  NoRole = NoRole
  NoSession = NoSession
INVARIANTS OnlyBootstrapElevates SuperAdminRemains RolesInv
PROPERTIES BootstrapTakes HierarchyUnlessRaced
