------------------------------- MODULE MCRoles -------------------------------
(* Roles for TLC: the ranks of permissions.config.yaml.                     *)
EXTENDS Roles, TLC

MCPriority == ("anon" :> 0) @@ ("user" :> 1) @@ ("admin" :> 2) @@ ("superadmin" :> 3)
MCRoleNames == DOMAIN MCPriority
\* The only role with credentials:role:patch.
MCPatchers == {"superadmin"}
=============================================================================
