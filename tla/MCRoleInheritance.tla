-------------------------- MODULE MCRoleInheritance --------------------------
(* RoleInheritance for TLC.                                                 *)
EXTENDS RoleInheritance, TLC

Symmetry == Permutations(Names)
=============================================================================
