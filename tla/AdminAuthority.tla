---------------------------- MODULE AdminAuthority ----------------------------
(***************************************************************************)
(* What the administration of administrators promises: every change of     *)
(* roles or of an account's status takes effect in one step, at which the  *)
(* actor is an ACTIVE administrator who holds all the authority he gives or *)
(* takes, an active super-admin remains, and the account that changes      *)
(* loses its sessions.  AdminRoles implements it with transactions that    *)
(* check and write in separate steps.                                      *)
(***************************************************************************)
EXTENDS Administrators

Init ==
  /\ role \in [Users -> {"ADMIN", "USER"}]
  /\ status \in [Users -> {"ACTIVE", "FROZEN"}]
  /\ version = [u \in Users |-> 0]
  /\ assigned \in [Users -> SUBSET Roles]

\* a replaces the roles of t by rs.
Replace(a, t, rs) ==
  /\ a # t
  /\ ActiveAdmin(a)
  /\ ManageRoles \in Access(a)
  /\ Access(t) \cup Granted(rs) \subseteq Access(a)
  /\ ActiveSuper(t) /\ SuperAdmin \notin rs => \E u \in Users \ {t} : ActiveSuper(u)
  /\ t = FeePrincipal => rs # {}
  /\ assigned' = [assigned EXCEPT ![t] = rs]
  /\ role' = [role EXCEPT ![t] = BaseRole(rs)]
  /\ version' = [version EXCEPT ![t] = version[t] + 1]
  /\ UNCHANGED status

\* a freezes or reactivates an ordinary user, whose sessions stay.
ChangeUser(a, t, s) ==
  /\ a # t
  /\ ActiveAdmin(a)
  /\ role[t] = "USER"
  /\ status' = [status EXCEPT ![t] = s]
  /\ UNCHANGED <<role, version, assigned>>

\* a freezes or reactivates another administrator.
ChangeAdmin(a, t, s) ==
  /\ a # t
  /\ ActiveAdmin(a)
  /\ role[t] = "ADMIN"
  /\ ManageRoles \in Access(a)
  /\ Access(t) \subseteq Access(a)
  /\ ActiveSuper(t) /\ s # "ACTIVE" => \E u \in Users \ {t} : ActiveSuper(u)
  /\ status' = [status EXCEPT ![t] = s]
  /\ version' = [version EXCEPT ![t] = version[t] + 1]
  /\ UNCHANGED <<role, assigned>>

\* The operator of the database makes an active administrator super-admin.
Recover(t) ==
  /\ ActiveAdmin(t)
  /\ assigned' = [assigned EXCEPT ![t] = assigned[t] \cup {SuperAdmin}]
  /\ version' = [version EXCEPT ![t] = version[t] + 1]
  /\ UNCHANGED <<role, status>>

\* A user ends all his sessions by enabling or disabling a second factor.
EndSessions(u) ==
  /\ version' = [version EXCEPT ![u] = version[u] + 1]
  /\ UNCHANGED <<role, status, assigned>>

Next ==
  \/ \E a, t \in Users : \E rs \in SUBSET Roles : Replace(a, t, rs)
  \/ \E a, t \in Users : \E s \in {"ACTIVE", "FROZEN"} : ChangeUser(a, t, s) \/ ChangeAdmin(a, t, s)
  \/ \E u \in Users : Recover(u) \/ EndSessions(u)

Spec == Init /\ [][Next]_accounts

=============================================================================
