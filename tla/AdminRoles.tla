------------------------------ MODULE AdminRoles ------------------------------
(***************************************************************************)
(* Changing the roles and the status of administrators                     *)
(* (admin-roles/admin-roles.service.ts, updateUserStatus of                *)
(* admin/admin.service.ts, scripts/bootstrap-admin-roles.ts) with the      *)
(* reauthentication proofs and the session versions they rest on           *)
(* (auth/two-factor.service.ts).                                           *)
(*                                                                         *)
(* A request is admitted by the guard, which reads without locks; then its *)
(* transaction takes the advisory lock ADMIN_SECURITY_LOCK, checks, and    *)
(* writes.  Requests wait for one another at the lock; enabling or         *)
(* disabling a second factor, issuing a proof and the enforcement flag do  *)
(* not take it and interleave with every step.                             *)
(*                                                                         *)
(* Definitions with an underscore in their name are wrong variants that    *)
(* nothing uses; README.md says which property fails with each.            *)
(***************************************************************************)
EXTENDS Administrators

CONSTANTS
  ManageUsers,   \* the permission users.manage
  InitialRoles,  \* the roles administrators start with
  InitialAdmins, \* the administrators; one without a role is a legacy one
  RoleSets,      \* the sets of roles an actor may ask for
  Clients,       \* requests that may be in progress at a time
  Enforcements,  \* the values the flag may take
  Recoverable,   \* accounts the bootstrap script may be run for
  Enrolling,     \* accounts that may enable or disable a second factor
  MaxVersion,    \* bound on the changes of one account
  MaxProofs      \* bound on the proofs issued

ASSUME RequestsAssumption ==
  /\ InitialAdmins \subseteq Users
  /\ FeePrincipal \in InitialAdmins
  /\ InitialRoles \in [InitialAdmins -> SUBSET Roles]
  /\ \E u \in InitialAdmins : SuperAdmin \in InitialRoles[u]
  /\ RoleSets \subseteq SUBSET Roles
  /\ "NONE" \notin Clients
  /\ Enforcements \subseteq BOOLEAN
  /\ Enforcements # {}
  /\ Recoverable \subseteq Users
  /\ Enrolling \subseteq Users
  /\ MaxVersion \in Nat
  /\ MaxProofs \in Nat

VARIABLES
  enforced,  \* the flag enableAdminRolePermissions
  proofs,    \* auth_reauth_tokens for the purpose admin-roles
  issued,    \* how many of them there have been
  request,   \* the request each client has in progress
  lock       \* the holder of ADMIN_SECURITY_LOCK

session == <<enforced, proofs, issued>>
vars == <<accounts, session, request, lock>>

NoClient == "NONE"
Status == {"ACTIVE", "FROZEN"}

\* A proof names the one replacement it confirms; `version' is the version of
\* its user's session when it was issued.
ProofRec ==
  [serial : Nat, user : Users, target : Users, roles : SUBSET Roles,
   version : Nat, used : BOOLEAN]

NoRequest == [step |-> "NONE"]
RequestRec ==
  [step : {"ADMITTED", "LOCKED", "CHECKED"}, kind : {"PROVE", "ROLES", "STATUS"},
   actor : Users, version : Nat, target : Users,
   roles : SUBSET Roles, status : Status, serial : Nat]

\* capabilities(): an administrator without roles has everything but the
\* management of roles until the flag is set.
Effective(u) ==
  IF role[u] # "ADMIN" THEN {}
  ELSE IF enforced \/ assigned[u] # {} THEN Access(u)
  ELSE Permissions \ {ManageRoles}

\* assertAnotherSuper.
AnotherSuper(u) == \E v \in Users \ {u} : ActiveSuper(v)

RowHeld_TargetOnly(u) ==
  \E c \in Clients : request[c].step \in {"LOCKED", "CHECKED"} /\ u = request[c].target

\* The user rows a transaction holds: setRoles both, updateUserStatus the target's.
RowHeld(u) ==
  \E c \in Clients :
    LET r == request[c]
    IN  \/ r.step \in {"LOCKED", "CHECKED"} /\ r.kind = "ROLES" /\ u \in {r.actor, r.target}
        \/ r.step = "CHECKED" /\ r.kind = "STATUS" /\ u = r.target

-----------------------------------------------------------------------------
\* The guard: a session of the current version, of an ACTIVE administrator who
\* has the permission of the route.  Nothing is locked.

Admit(c, r) ==
  /\ request[c] = NoRequest
  /\ ActiveAdmin(r.actor)
  /\ r.version = version[r.actor]
  /\ \A u \in Users : version[u] < MaxVersion
  /\ request' = [request EXCEPT ![c] = r]
  /\ UNCHANGED <<accounts, session, lock>>

NewRequest(kind, a, t, rs, s, n) ==
  [step |-> "ADMITTED", kind |-> kind, actor |-> a, version |-> version[a], target |-> t,
   roles |-> rs, status |-> s, serial |-> n]

AdmitProve(c, a, t, rs) ==
  /\ ManageRoles \in Access(a)
  /\ issued < MaxProofs
  /\ Admit(c, NewRequest("PROVE", a, t, rs, "ACTIVE", 0))

\* The request presents a proof of its replacement, used or not; one that
\* presents another is refused in the end and changes nothing.
AdmitRoles(c, p) ==
  /\ ManageRoles \in Access(p.user)
  /\ Admit(c, NewRequest("ROLES", p.user, p.target, p.roles, "ACTIVE", p.serial))

AdmitStatus(c, a, t, s) ==
  /\ ManageUsers \in Effective(a)
  /\ Admit(c, NewRequest("STATUS", a, t, {}, s, 0))

-----------------------------------------------------------------------------
\* Transactions.  End commits or rolls back: the locks go with it.

End_KeepsLock(c) ==
  /\ request' = [request EXCEPT ![c] = NoRequest]
  /\ UNCHANGED lock

End(c) ==
  /\ request' = [request EXCEPT ![c] = NoRequest]
  /\ lock' = IF lock = c THEN NoClient ELSE lock

Step(c, s) == request' = [request EXCEPT ![c] = [request[c] EXCEPT !.step = s]]

\* reauthenticate: the user's row is locked and its version compared; an
\* earlier proof of the same purpose is replaced.
Prove(c) ==
  LET r == request[c]
  IN  /\ r.step = "ADMITTED" /\ r.kind = "PROVE"
      /\ ~RowHeld(r.actor)
      /\ IF version[r.actor] = r.version
           THEN /\ issued' = issued + 1
                /\ proofs' =
                     {p \in proofs : ~(p.user = r.actor /\ p.target = r.target /\ p.roles = r.roles)}
                     \cup {[serial |-> issued + 1, user |-> r.actor, target |-> r.target,
                            roles |-> r.roles, version |-> version[r.actor], used |-> FALSE]}
           ELSE UNCHANGED <<proofs, issued>>
      /\ UNCHANGED <<accounts, enforced>>
      /\ End(c)

LockFree_Always == TRUE
LockFree == lock = NoClient

\* pg_advisory_xact_lock; setRoles then locks the two users' rows.
Lock(c) ==
  /\ request[c].step = "ADMITTED"
  /\ request[c].kind \in {"ROLES", "STATUS"}
  /\ LockFree
  /\ lock' = c
  /\ Step(c, "LOCKED")
  /\ UNCHANGED <<accounts, session>>

\* assertFeePrincipalIdentity.
KeepsFeePrincipal_Ignored(r) == TRUE
KeepsFeePrincipal(r) == r.target = FeePrincipal => r.roles # {}

\* What setRoles checks, with everything but the flag held still.
MaySetRoles(r) ==
  /\ version[r.actor] = r.version
  /\ ActiveAdmin(r.actor)
  /\ ManageRoles \in Access(r.actor)
  /\ Granted(r.roles) \cup Access(r.target) \cup Effective(r.target) \subseteq Access(r.actor)
  /\ SuperAdmin \in assigned[r.target] \ r.roles /\ status[r.target] = "ACTIVE"
       => AnotherSuper(r.target)
  /\ r.actor = r.target => r.roles = assigned[r.target]
  /\ KeepsFeePrincipal(r)

\* What updateUserStatus checks.  The actor's row is not locked.
MayChangeStatus(r) ==
  /\ version[r.actor] = r.version
  /\ ActiveAdmin(r.actor)
  /\ ManageUsers \in Effective(r.actor)
  /\ role[r.target] = "ADMIN" =>
       /\ ManageRoles \in Access(r.actor)
       /\ Access(r.target) \cup Effective(r.target) \subseteq Effective(r.actor)
       /\ r.status # "ACTIVE" /\ SuperAdmin \in assigned[r.target] => AnotherSuper(r.target)
  /\ r.actor = r.target => r.status = "ACTIVE"
  /\ role[r.target] = "ADMIN" /\ status[r.target] = "ACTIVE" /\ r.status # "ACTIVE"
       => \E u \in Users \ {r.target} : ActiveAdmin(u)

May_GuardOnly(r) == r.kind = "ROLES" \/ MayChangeStatus(r)
May(r) == IF r.kind = "ROLES" THEN MaySetRoles(r) ELSE MayChangeStatus(r)

Check(c) ==
  /\ request[c].step = "LOCKED"
  /\ May(request[c])
  /\ Step(c, "CHECKED")
  /\ UNCHANGED <<accounts, session, lock>>

Refuse(c) ==
  /\ request[c].step = "LOCKED"
  /\ ~May(request[c])
  /\ End(c)
  /\ UNCHANGED <<accounts, session>>

-----------------------------------------------------------------------------
\* The writes.

ProofsWithout_Kept(ps, u) == ps
ProofsWithout(ps, u) == {p \in ps : p.user # u}

\* consumeReauth.
Confirms(p, r) ==
  /\ p.serial = r.serial
  /\ p.user = r.actor /\ p.target = r.target /\ p.roles = r.roles
  /\ ~p.used

RolesChange(r) == r.roles # assigned[r.target] \/ role[r.target] # BaseRole(r.roles)

WriteRoles(c) ==
  LET r == request[c]
      t == r.target
  IN  /\ r.step = "CHECKED" /\ r.kind = "ROLES"
      /\ \E p \in proofs :
           /\ Confirms(p, r)
           /\ LET left == (proofs \ {p}) \cup {[p EXCEPT !.used = TRUE]}
              IN  proofs' = IF RolesChange(r) THEN ProofsWithout(left, t) ELSE left
      /\ IF RolesChange(r)
           THEN /\ assigned' = [assigned EXCEPT ![t] = r.roles]
                /\ role' = [role EXCEPT ![t] = BaseRole(r.roles)]
                /\ version' = [version EXCEPT ![t] = version[t] + 1]
           ELSE UNCHANGED <<assigned, role, version>>
      /\ UNCHANGED <<status, enforced, issued>>
      /\ End(c)

\* The proof is used, replaced, expired or of another replacement.
RefuseProof(c) ==
  /\ request[c].step = "CHECKED" /\ request[c].kind = "ROLES"
  /\ \A p \in proofs : ~Confirms(p, request[c])
  /\ End(c)
  /\ UNCHANGED <<accounts, session>>

WriteStatus(c) ==
  LET r == request[c]
      t == r.target
  IN  /\ r.step = "CHECKED" /\ r.kind = "STATUS"
      /\ status' = [status EXCEPT ![t] = r.status]
      /\ IF role[t] = "ADMIN" /\ status[t] # r.status
           THEN /\ version' = [version EXCEPT ![t] = version[t] + 1]
                /\ proofs' = ProofsWithout(proofs, t)
           ELSE UNCHANGED <<version, proofs>>
      /\ UNCHANGED <<role, assigned, enforced, issued>>
      /\ End(c)

-----------------------------------------------------------------------------
\* What does not go through the guard.

\* bootstrap-admin-roles, with --recover: one transaction under the lock.
Bootstrap(u) ==
  /\ LockFree
  /\ ActiveAdmin(u)
  /\ SuperAdmin \notin assigned[u]
  /\ version[u] < MaxVersion
  /\ assigned' = [assigned EXCEPT ![u] = assigned[u] \cup {SuperAdmin}]
  /\ version' = [version EXCEPT ![u] = version[u] + 1]
  /\ proofs' = ProofsWithout(proofs, u)
  /\ UNCHANGED <<role, status, enforced, issued, request, lock>>

\* Enabling or disabling two-factor authentication, under the user's row only.
ChangeFactor(u) ==
  /\ ~RowHeld(u)
  /\ version[u] < MaxVersion
  /\ version' = [version EXCEPT ![u] = version[u] + 1]
  /\ proofs' = ProofsWithout(proofs, u)
  /\ UNCHANGED <<role, status, assigned, enforced, issued, request, lock>>

\* The connection is lost: the database rolls back and releases the locks.
Abandon(c) ==
  /\ request[c] # NoRequest
  /\ End(c)
  /\ UNCHANGED <<accounts, session>>

\* A proof is good for five minutes.
Expire(p) ==
  /\ proofs' = proofs \ {p}
  /\ UNCHANGED <<accounts, enforced, issued, request, lock>>

SetEnforcement(b) ==
  /\ enforced' = b
  /\ UNCHANGED <<accounts, proofs, issued, request, lock>>

-----------------------------------------------------------------------------

Init ==
  /\ role = [u \in Users |-> IF u \in InitialAdmins THEN "ADMIN" ELSE "USER"]
  /\ status = [u \in Users |-> "ACTIVE"]
  /\ version = [u \in Users |-> 0]
  /\ assigned = [u \in Users |-> IF u \in InitialAdmins THEN InitialRoles[u] ELSE {}]
  /\ enforced \in Enforcements
  /\ proofs = {}
  /\ issued = 0
  /\ request = [c \in Clients |-> NoRequest]
  /\ lock = NoClient

Admissions ==
  \E c \in Clients :
    \/ \E a, t \in Users, rs \in RoleSets : AdmitProve(c, a, t, rs)
    \/ \E p \in proofs : AdmitRoles(c, p)
    \/ \E a, t \in Users, s \in Status : AdmitStatus(c, a, t, s)

Handle(c) ==
  \/ Prove(c) \/ Lock(c) \/ Check(c) \/ Refuse(c)
  \/ WriteRoles(c) \/ RefuseProof(c) \/ WriteStatus(c)

Outside ==
  \/ \E u \in Recoverable : Bootstrap(u)
  \/ \E u \in Enrolling : ChangeFactor(u)
  \/ \E c \in Clients : Abandon(c)
  \/ \E p \in proofs : Expire(p)
  \/ \E b \in Enforcements : SetEnforcement(b)

Next == Admissions \/ (\E c \in Clients : Handle(c)) \/ Outside

Spec == Init /\ [][Next]_vars

\* A handler runs on while it can, and PostgreSQL grants a contended lock in
\* the order of the requests: one that can go on again and again does.
FairSpec == Spec /\ \A c \in Clients : SF_vars(Handle(c))

=============================================================================
