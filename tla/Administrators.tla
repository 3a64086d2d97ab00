---------------------------- MODULE Administrators ----------------------------
(***************************************************************************)
(* The accounts and the authority of administrators: users, user_admin_roles*)
(* and the registry of roles (packages/shared/src/admin-permissions.ts).   *)
(***************************************************************************)
EXTENDS Integers

CONSTANTS
  Users,          \* human accounts; system accounts are refused everywhere
  FeePrincipal,   \* the account of ADMIN_EMAIL, which owns the FEE wallets
  Roles,          \* the administrator roles of the registry
  SuperAdmin,     \* the role super_admin
  Permissions,    \* the permissions of the registry
  ManageRoles,    \* the permission admin_roles.manage
  Registry,       \* what a role grants by the deployed registry
  Grants          \* what it grants by the registry and the database together

ASSUME AuthorityAssumption ==
  /\ FeePrincipal \in Users
  /\ SuperAdmin \in Roles
  /\ Registry \in [Roles -> SUBSET Permissions]
  /\ Grants \in [Roles -> SUBSET Permissions]
  /\ \A r \in Roles : Grants[r] \subseteq Registry[r]

VARIABLES
  role,      \* users.role: ADMIN or USER
  status,    \* users.status: ACTIVE or FROZEN, which stands for BANNED too
  version,   \* users.auth_version: a session of another version is refused
  assigned   \* user_admin_roles of a user

accounts == <<role, status, version, assigned>>

Access(u) == UNION {Grants[r] : r \in assigned[u]}
Granted(rs) == UNION {Registry[r] : r \in rs}

ActiveAdmin(u) == role[u] = "ADMIN" /\ status[u] = "ACTIVE"
ActiveSuper(u) == ActiveAdmin(u) /\ SuperAdmin \in assigned[u]

\* The base role of an account that has the roles rs.
BaseRole(rs) == IF rs = {} THEN "USER" ELSE "ADMIN"

=============================================================================
