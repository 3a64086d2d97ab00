\* A super-admin and a legacy administrator without roles, who owns the FEE wallets,
\* with the enforcement flag, the bootstrap script and changes of a second factor.
SPECIFICATION FairSpec
CONSTANTS
  root = root
  legacy = legacy
  c1 = c1
  c2 = c2
  Users = {root, legacy}
  FeePrincipal = legacy
  Roles <- RegistryRoles
  SuperAdmin = "super_admin"
  Permissions <- RegistryPermissions
  ManageRoles = "admin_roles.manage"
  ManageUsers = "users.manage"
  Registry <- RegistryGrants
  Grants <- RegistryGrants
  InitialAdmins <- WithLegacy
  InitialRoles <- WithLegacyRoles
  RoleSets = {{}}
  Clients = {c1, c2}
  Enforcements = {TRUE, FALSE}
  Recoverable = {legacy}
  Enrolling = {legacy}
  MaxVersion = 2
  MaxProofs = 1
INVARIANTS
  SuperAdminSurvives
  ProofsAreCurrent
  FeePrincipalStays
  ChecksStayTrue
PROPERTIES
  ChangesAreAtomic
  RequestsAnswered
CHECK_DEADLOCK FALSE
