----------------------------- MODULE MCAdminRoles -----------------------------
(***************************************************************************)
(* Instances of AdminRoles for TLC.                                        *)
(***************************************************************************)
EXTENDS AdminRolesProperties

CONSTANTS root, legacy, c1, c2

\* The registry with its permissions in three groups; "money" stands for the
\* financial ones.
RegistryRoles == {"super_admin", "viewer"}
RegistryPermissions == {"admin_roles.manage", "users.manage", "money"}
RegistryGrants ==
  [r \in RegistryRoles |-> IF r = "super_admin" THEN RegistryPermissions ELSE {}]

WithLegacy == {root, legacy}
WithLegacyRoles == [u \in WithLegacy |-> IF u = root THEN {"super_admin"} ELSE {}]

=============================================================================
