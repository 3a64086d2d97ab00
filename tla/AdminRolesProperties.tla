------------------------- MODULE AdminRolesProperties -------------------------
(***************************************************************************)
(* What the administration of administrators guarantees.                   *)
(***************************************************************************)
EXTENDS AdminRoles

\* The variables have their types, and the lock belongs to the one request
\* that is past it.
TypeOK ==
  /\ role \in [Users -> {"ADMIN", "USER"}]
  /\ status \in [Users -> Status]
  /\ version \in [Users -> Nat]
  /\ assigned \in [Users -> SUBSET Roles]
  /\ enforced \in BOOLEAN
  /\ proofs \subseteq ProofRec
  /\ issued \in Nat
  /\ request \in [Clients -> RequestRec \cup {NoRequest}]
  /\ lock \in Clients \cup {NoClient}
  /\ \A c \in Clients : request[c].step \in {"LOCKED", "CHECKED"} => lock = c

\* However role changes, suspensions and recoveries interleave, an ACTIVE
\* super-admin remains (assertAnotherSuper).
SuperAdminSurvives == \E u \in Users : ActiveSuper(u)

\* The account that owns the FEE wallets stays an administrator: without it
\* every fill of the order book fails (FeesService resolves ADMIN_EMAIL with
\* role ADMIN).
FeePrincipalStays == role[FeePrincipal] = "ADMIN"

\* A proof that can still be used was issued to the session its user has now:
\* whatever raised the version since then took the proof with it.
ProofsAreCurrent ==
  \A p \in proofs : ~p.used => p.version = version[p.user]

\* What a request that was checked is still entitled to, whatever the flag.
Entitled(r) ==
  /\ ActiveAdmin(r.actor)
  /\ r.kind = "ROLES" =>
       /\ version[r.actor] = r.version
       /\ ManageRoles \in Access(r.actor)
       /\ Granted(r.roles) \cup Access(r.target) \subseteq Access(r.actor)
       /\ ActiveSuper(r.target) /\ SuperAdmin \notin r.roles => AnotherSuper(r.target)
       /\ r.actor = r.target => r.roles = assigned[r.target]
       /\ r.target = FeePrincipal => r.roles # {}
  /\ r.kind = "STATUS" =>
       /\ r.actor = r.target => r.status = "ACTIVE"
       /\ role[r.target] = "ADMIN" =>
            /\ ManageRoles \in Access(r.actor)
            /\ Access(r.target) \subseteq Access(r.actor)
            /\ ActiveSuper(r.target) /\ r.status # "ACTIVE" => AnotherSuper(r.target)

\* A request that has passed its checks is still entitled to what it will
\* write: nobody changes its actor, its target or the other super-admins
\* before it does.
ChecksStayTrue ==
  \A c \in Clients : request[c].step = "CHECKED" => Entitled(request[c])

\* Every change takes effect in one step with all of its conditions.
Authority == INSTANCE AdminAuthority WITH
  role <- role, status <- status, version <- version, assigned <- assigned
ChangesAreAtomic == Authority!Spec

\* Every request is answered.
RequestsAnswered ==
  \A c \in Clients : request[c] # NoRequest ~> request[c] = NoRequest

=============================================================================
