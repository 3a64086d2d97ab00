--------------------------- MODULE AdminRolesProofs ---------------------------
(***************************************************************************)
(* Proofs about AdminRoles: the lock discipline makes the checks of a      *)
(* transaction hold until it writes, so that every transaction is an       *)
(* atomic change of AdminAuthority, which keeps a super-admin.             *)
(***************************************************************************)
EXTENDS AdminRolesProperties, TLAPS

USE AuthorityAssumption, RequestsAssumption

LEMMA InitTypeOK == Init => TypeOK
  BY DEF Init, TypeOK, Status, NoRequest, RequestRec, NoClient

\* A request that a client may send has the type of requests.
LEMMA NewRequestType ==
  ASSUME TypeOK, NEW a \in Users, NEW t \in Users,
         NEW k \in {"PROVE", "ROLES", "STATUS"}, NEW rs \in SUBSET Roles,
         NEW s \in Status, NEW n \in Nat
  PROVE  NewRequest(k, a, t, rs, s, n) \in RequestRec /\ NewRequest(k, a, t, rs, s, n).step = "ADMITTED"
  BY DEF TypeOK, RequestRec, NewRequest

\* Admitting a request keeps the types: it holds no lock yet.
LEMMA AdmitTypeOK ==
  ASSUME TypeOK, NEW c \in Clients, NEW r \in RequestRec, r.step = "ADMITTED", Admit(c, r)
  PROVE  TypeOK'
  BY DEF Admit, TypeOK, accounts, session

LEMMA AdmissionsTypeOK == TypeOK /\ Admissions => TypeOK'
<1> SUFFICES ASSUME TypeOK, NEW c \in Clients,
                    \/ \E a, t \in Users, rs \in RoleSets : AdmitProve(c, a, t, rs)
                    \/ \E p \in proofs : AdmitRoles(c, p)
                    \/ \E a, t \in Users, s \in Status : AdmitStatus(c, a, t, s)
             PROVE  TypeOK'
  BY DEF Admissions
<1>1. ASSUME NEW a \in Users, NEW t \in Users, NEW rs \in RoleSets, AdmitProve(c, a, t, rs)
      PROVE  TypeOK'
  <2> DEFINE r == NewRequest("PROVE", a, t, rs, "ACTIVE", 0)
  <2>0. rs \in SUBSET Roles /\ "ACTIVE" \in Status /\ "PROVE" \in {"PROVE", "ROLES", "STATUS"} /\ 0 \in Nat
    BY DEF Status
  <2>1. r \in RequestRec /\ r.step = "ADMITTED"
    BY <2>0, NewRequestType
  <2>2. Admit(c, r)
    BY <1>1 DEF AdmitProve
  <2> QED
    BY <2>1, <2>2, AdmitTypeOK
<1>2. ASSUME NEW p \in proofs, AdmitRoles(c, p)
      PROVE  TypeOK'
  <2> DEFINE r == NewRequest("ROLES", p.user, p.target, p.roles, "ACTIVE", p.serial)
  <2>0. "ACTIVE" \in Status /\ "ROLES" \in {"PROVE", "ROLES", "STATUS"}
    BY DEF Status
  <2>1. p.user \in Users /\ p.target \in Users /\ p.roles \in SUBSET Roles /\ p.serial \in Nat
    BY DEF TypeOK, ProofRec
  <2>2. r \in RequestRec /\ r.step = "ADMITTED"
    BY <2>0, <2>1, NewRequestType
  <2>3. Admit(c, r)
    BY <1>2 DEF AdmitRoles
  <2> QED
    BY <2>2, <2>3, AdmitTypeOK
<1>3. ASSUME NEW a \in Users, NEW t \in Users, NEW s \in Status, AdmitStatus(c, a, t, s)
      PROVE  TypeOK'
  <2> DEFINE r == NewRequest("STATUS", a, t, {}, s, 0)
  <2>0. {} \in SUBSET Roles /\ "STATUS" \in {"PROVE", "ROLES", "STATUS"} /\ 0 \in Nat
    OBVIOUS
  <2>1. r \in RequestRec /\ r.step = "ADMITTED"
    BY <2>0, NewRequestType
  <2>2. Admit(c, r)
    BY <1>3 DEF AdmitStatus
  <2> QED
    BY <2>1, <2>2, AdmitTypeOK
<1> QED
  BY <1>1, <1>2, <1>3

\* Ending a request releases the lock if it was its own.
LEMMA EndTypes ==
  ASSUME TypeOK, NEW c \in Clients, End(c)
  PROVE  /\ request' \in [Clients -> RequestRec \cup {NoRequest}]
         /\ lock' \in Clients \cup {NoClient}
         /\ \A d \in Clients : request'[d].step \in {"LOCKED", "CHECKED"} => lock' = d
  BY DEF TypeOK, End, NoRequest

LEMMA HandleTypeOK ==
  ASSUME TypeOK, NEW c \in Clients, Handle(c)
  PROVE  TypeOK'
<1> DEFINE r == request[c]
<1>0. r.step # "NONE" => r \in RequestRec
  BY DEF TypeOK, NoRequest
<1>1. CASE Prove(c)
  <2>1. r \in RequestRec
    BY <1>0, <1>1 DEF Prove
  <2>2. /\ r.actor \in Users /\ r.target \in Users /\ r.roles \in SUBSET Roles
        /\ version[r.actor] \in Nat /\ issued + 1 \in Nat
    BY <2>1 DEF RequestRec, TypeOK
  <2>3. [serial |-> issued + 1, user |-> r.actor, target |-> r.target,
         roles |-> r.roles, version |-> version[r.actor], used |-> FALSE] \in ProofRec
    BY <2>2 DEF ProofRec
  <2>4. proofs' \subseteq ProofRec /\ issued' \in Nat
    BY <2>2, <2>3, <1>1 DEF Prove, TypeOK
  <2> QED
    BY <1>1, <2>4, EndTypes DEF Prove, TypeOK, accounts
<1>2. CASE Lock(c)
  <2>1. [r EXCEPT !.step = "LOCKED"] \in RequestRec
    BY <1>0, <1>2 DEF Lock, RequestRec
  <2> QED
    BY <1>2, <2>1 DEF Lock, LockFree, NoClient, Step, TypeOK, accounts, session
<1>3. CASE Check(c)
  <2>1. [r EXCEPT !.step = "CHECKED"] \in RequestRec
    BY <1>0, <1>3 DEF Check, RequestRec
  <2> QED
    BY <1>3, <2>1 DEF Check, Step, TypeOK, accounts, session
<1>4. CASE Refuse(c)
  BY <1>4, EndTypes DEF Refuse, TypeOK, accounts, session
<1>5. CASE WriteRoles(c)
  <2>1. r \in RequestRec
    BY <1>0, <1>5 DEF WriteRoles
  <2>2. /\ assigned' \in [Users -> SUBSET Roles]
        /\ role' \in [Users -> {"ADMIN", "USER"}]
        /\ version' \in [Users -> Nat]
    BY <2>1, <1>5 DEF WriteRoles, TypeOK, RequestRec, BaseRole
  <2>3. proofs' \subseteq ProofRec
    <3>1. PICK p \in proofs :
            LET left == (proofs \ {p}) \cup {[p EXCEPT !.used = TRUE]}
            IN  proofs' = IF RolesChange(r) THEN ProofsWithout(left, r.target) ELSE left
      BY <1>5 DEF WriteRoles
    <3>2. p \in ProofRec
      BY DEF TypeOK
    <3>3. [p EXCEPT !.used = TRUE] \in ProofRec
      BY <3>2 DEF ProofRec
    <3> QED
      BY <3>1, <3>3 DEF TypeOK, ProofsWithout
  <2> QED
    BY <1>5, <2>2, <2>3, EndTypes DEF WriteRoles, TypeOK
<1>6. CASE RefuseProof(c)
  BY <1>6, EndTypes DEF RefuseProof, TypeOK, accounts, session
<1>7. CASE WriteStatus(c)
  <2>1. r \in RequestRec
    BY <1>0, <1>7 DEF WriteStatus
  <2>2. status' \in [Users -> Status] /\ version' \in [Users -> Nat] /\ proofs' \subseteq ProofRec
    BY <2>1, <1>7 DEF WriteStatus, TypeOK, RequestRec, ProofsWithout
  <2> QED
    BY <1>7, <2>2, EndTypes DEF WriteStatus, TypeOK
<1> QED
  BY <1>1, <1>2, <1>3, <1>4, <1>5, <1>6, <1>7 DEF Handle

LEMMA OutsideTypeOK == TypeOK /\ Outside => TypeOK'
<1> SUFFICES ASSUME TypeOK, Outside PROVE TypeOK'
  OBVIOUS
<1>1. ASSUME NEW u \in Recoverable, Bootstrap(u) PROVE TypeOK'
  BY <1>1 DEF Bootstrap, TypeOK, ProofsWithout
<1>2. ASSUME NEW u \in Enrolling, ChangeFactor(u) PROVE TypeOK'
  BY <1>2 DEF ChangeFactor, TypeOK, ProofsWithout
<1>3. ASSUME NEW c \in Clients, Abandon(c) PROVE TypeOK'
  BY <1>3, EndTypes DEF Abandon, TypeOK, accounts, session
<1>4. ASSUME NEW p \in proofs, Expire(p) PROVE TypeOK'
  BY <1>4 DEF Expire, TypeOK, accounts
<1>5. ASSUME NEW b \in Enforcements, SetEnforcement(b) PROVE TypeOK'
  BY <1>5 DEF SetEnforcement, TypeOK, accounts
<1> QED
  BY <1>1, <1>2, <1>3, <1>4, <1>5 DEF Outside

\* Every variable keeps its type, and a request past the lock holds it
\* (pg_advisory_xact_lock in setRoles and updateUserStatus).
THEOREM AdminTypesHold == Spec => []TypeOK
<1>1. TypeOK /\ [Next]_vars => TypeOK'
  BY AdmissionsTypeOK, HandleTypeOK, OutsideTypeOK
     DEF Next, vars, accounts, session, TypeOK
<1> QED
  BY InitTypeOK, <1>1, PTL DEF Spec

-----------------------------------------------------------------------------
\* What keeps a checked request entitled: nothing it was checked against
\* changes, its own session apart when only the row of its target is locked.

LEMMA EntitledKept ==
  ASSUME NEW d \in Clients, Entitled(request[d]), UNCHANGED <<role, status, assigned>>,
         request'[d].actor = request[d].actor, request'[d].target = request[d].target,
         request'[d].kind = request[d].kind, request'[d].version = request[d].version,
         request'[d].roles = request[d].roles, request'[d].status = request[d].status,
         request[d].kind = "ROLES" => version'[request[d].actor] = version[request[d].actor]
  PROVE  Entitled(request[d])'
  BY DEF Entitled, ActiveAdmin, ActiveSuper, AnotherSuper, Access, Granted

\* Who has the permission to manage roles has a role, so that the flag does
\* not matter for what he has.
LEMMA ManagersHaveRoles ==
  ASSUME NEW u \in Users, ManageRoles \in Access(u)
  PROVE  assigned[u] # {}
  BY DEF Access

LEMMA CheckEntitles ==
  ASSUME TypeOK, NEW r \in RequestRec, May(r)
  PROVE  Entitled(r)
<1>0. r.actor \in Users /\ r.target \in Users /\ r.roles \in SUBSET Roles /\ r.status \in Status
  BY DEF RequestRec
<1>1. CASE r.kind = "ROLES"
  BY <1>1 DEF May, MaySetRoles, Entitled, KeepsFeePrincipal, ActiveSuper, ActiveAdmin
<1>2. CASE r.kind # "ROLES"
  <2>1. MayChangeStatus(r)
    BY <1>2 DEF May
  <2>2. ActiveAdmin(r.actor)
    BY <2>1 DEF MayChangeStatus
  <2>3. ASSUME role[r.target] = "ADMIN"
        PROVE  /\ ManageRoles \in Access(r.actor)
               /\ Access(r.target) \subseteq Access(r.actor)
               /\ ActiveSuper(r.target) /\ r.status # "ACTIVE" => AnotherSuper(r.target)
    <3>1. /\ ManageRoles \in Access(r.actor)
          /\ Access(r.target) \subseteq Effective(r.actor)
          /\ r.status # "ACTIVE" /\ SuperAdmin \in assigned[r.target] => AnotherSuper(r.target)
      BY <2>1, <2>3 DEF MayChangeStatus
    <3>2. Effective(r.actor) = Access(r.actor)
      BY <1>0, <2>2, <3>1, ManagersHaveRoles DEF Effective, ActiveAdmin
    <3> QED
      BY <3>1, <3>2 DEF ActiveSuper
  <2>4. r.actor = r.target => r.status = "ACTIVE"
    BY <2>1 DEF MayChangeStatus
  <2> QED
    BY <1>2, <2>2, <2>3, <2>4 DEF Entitled
<1> QED
  BY <1>1, <1>2

\* The requests that End leaves alone.
LEMMA OthersAfterEnd ==
  ASSUME TypeOK, NEW c \in Clients, End(c)
  PROVE  \A d \in Clients : request'[d].step = "CHECKED" => d # c /\ request'[d] = request[d]
  BY DEF TypeOK, End, NoRequest

\* A step that leaves the accounts alone and checks nothing.
LEMMA QuietStep ==
  ASSUME TypeOK, ChecksStayTrue, UNCHANGED accounts,
         \A d \in Clients : request'[d].step = "CHECKED" => request'[d] = request[d]
  PROVE  ChecksStayTrue'
<1> SUFFICES ASSUME NEW d \in Clients, request'[d].step = "CHECKED"
             PROVE  Entitled(request[d])'
  BY DEF ChecksStayTrue
<1>1. request'[d] = request[d] /\ Entitled(request[d])
  BY DEF ChecksStayTrue
<1> QED
  BY <1>1, EntitledKept DEF accounts

LEMMA AdmissionsKeepChecks == TypeOK /\ ChecksStayTrue /\ Admissions => ChecksStayTrue'
<1> SUFFICES ASSUME TypeOK, ChecksStayTrue, Admissions PROVE ChecksStayTrue'
  OBVIOUS
<1>1. PICK c \in Clients : \E r : r.step = "ADMITTED" /\ Admit(c, r)
  BY DEF Admissions, AdmitProve, AdmitRoles, AdmitStatus, NewRequest
<1>2. PICK r : r.step = "ADMITTED" /\ Admit(c, r)
  BY <1>1
<1>3. UNCHANGED accounts
  BY <1>2 DEF Admit, accounts
<1>4. \A d \in Clients : request'[d].step = "CHECKED" => request'[d] = request[d]
  BY <1>2 DEF Admit, TypeOK
<1> QED
  BY <1>3, <1>4, QuietStep

LEMMA HandleKeepsChecks ==
  ASSUME TypeOK, ChecksStayTrue, NEW c \in Clients, Handle(c)
  PROVE  ChecksStayTrue'
<1>1. ASSUME Prove(c) \/ Refuse(c) \/ RefuseProof(c) PROVE ChecksStayTrue'
  <2>1. UNCHANGED accounts /\ End(c)
    BY <1>1 DEF Prove, Refuse, RefuseProof
  <2> QED
    BY <2>1, OthersAfterEnd, QuietStep
<1>2. CASE Lock(c)
  <2>1. UNCHANGED accounts
    BY <1>2 DEF Lock
  <2>2. \A d \in Clients : request'[d].step = "CHECKED" => request'[d] = request[d]
    <3>1. request[c] \in RequestRec
      BY <1>2 DEF Lock, TypeOK, NoRequest
    <3>2. [request[c] EXCEPT !.step = "LOCKED"].step = "LOCKED"
      BY <3>1 DEF RequestRec
    <3> QED
      BY <1>2, <3>2 DEF Lock, Step, TypeOK
  <2> QED
    BY <2>1, <2>2, QuietStep
<1>3. CASE Check(c)
  <2>1. request[c] \in RequestRec /\ UNCHANGED accounts /\ Step(c, "CHECKED")
    BY <1>3 DEF Check, TypeOK, NoRequest
  <2>2. Entitled(request[c])
    BY <2>1, <1>3, CheckEntitles DEF Check
  <2>3. SUFFICES ASSUME NEW d \in Clients, request'[d].step = "CHECKED"
                 PROVE  Entitled(request[d])'
    BY DEF ChecksStayTrue
  <2>4. CASE d = c
    <3>1. request'[c] = [request[c] EXCEPT !.step = "CHECKED"]
      BY <2>1 DEF Step, TypeOK
    <3>2. /\ request'[c].actor = request[c].actor /\ request'[c].target = request[c].target
          /\ request'[c].kind = request[c].kind /\ request'[c].version = request[c].version
          /\ request'[c].roles = request[c].roles /\ request'[c].status = request[c].status
      BY <2>1, <3>1 DEF RequestRec
    <3> QED
      BY <2>1, <2>2, <2>4, <3>2, EntitledKept DEF accounts
  <2>5. CASE d # c
    <3>1. request'[d] = request[d]
      BY <2>1, <2>5 DEF Step, TypeOK
    <3> QED
      BY <2>1, <2>3, <3>1, EntitledKept DEF accounts, ChecksStayTrue
  <2> QED
    BY <2>4, <2>5
<1>4. ASSUME WriteRoles(c) \/ WriteStatus(c) PROVE ChecksStayTrue'
  <2>1. request[c].step = "CHECKED" /\ End(c)
    BY <1>4 DEF WriteRoles, WriteStatus
  <2>2. \A d \in Clients : request'[d].step # "CHECKED"
    BY <2>1, OthersAfterEnd DEF TypeOK
  <2> QED
    BY <2>2 DEF ChecksStayTrue
<1> QED
  BY <1>1, <1>2, <1>3, <1>4 DEF Handle

LEMMA OutsideKeepsChecks == TypeOK /\ ChecksStayTrue /\ Outside => ChecksStayTrue'
<1> SUFFICES ASSUME TypeOK, ChecksStayTrue, Outside PROVE ChecksStayTrue'
  OBVIOUS
<1>1. ASSUME NEW u \in Recoverable, Bootstrap(u) PROVE ChecksStayTrue'
  \* Nothing is checked while the lock is free.
  <2>1. \A d \in Clients : request'[d].step # "CHECKED"
    BY <1>1 DEF Bootstrap, LockFree, NoClient, TypeOK
  <2> QED
    BY <2>1 DEF ChecksStayTrue
<1>2. ASSUME NEW u \in Enrolling, ChangeFactor(u) PROVE ChecksStayTrue'
  <2>1. SUFFICES ASSUME NEW d \in Clients, request'[d].step = "CHECKED"
                 PROVE  Entitled(request[d])'
    BY DEF ChecksStayTrue
  <2>2. request'[d] = request[d] /\ UNCHANGED <<role, status, assigned>>
    BY <1>2 DEF ChangeFactor
  <2>3. request[d].kind = "ROLES" => version'[request[d].actor] = version[request[d].actor]
    <3>1. ~RowHeld(u) /\ version' = [version EXCEPT ![u] = version[u] + 1]
      BY <1>2 DEF ChangeFactor
    <3>2. request[d].kind = "ROLES" => u # request[d].actor
      BY <2>1, <2>2, <3>1 DEF RowHeld
    <3>3. request[d] \in RequestRec
      BY <2>1, <2>2 DEF TypeOK, NoRequest
    <3> QED
      BY <3>1, <3>2, <3>3 DEF TypeOK, RequestRec
  <2> QED
    BY <2>1, <2>2, <2>3, EntitledKept DEF ChecksStayTrue
<1>3. ASSUME NEW c \in Clients, Abandon(c) PROVE ChecksStayTrue'
  BY <1>3, OthersAfterEnd, QuietStep DEF Abandon
<1>4. ASSUME NEW p \in proofs, Expire(p) PROVE ChecksStayTrue'
  BY <1>4, QuietStep DEF Expire
<1>5. ASSUME NEW b \in Enforcements, SetEnforcement(b) PROVE ChecksStayTrue'
  BY <1>5, QuietStep DEF SetEnforcement
<1> QED
  BY <1>1, <1>2, <1>3, <1>4, <1>5 DEF Outside

\* A request that passed its checks stays entitled to its write: the advisory
\* lock keeps every other role and status change and the bootstrap out, the
\* row locks of setRoles keep its actor's session.
THEOREM ChecksHoldUntilWritten == Spec => []ChecksStayTrue
<1>1. Init => ChecksStayTrue
  BY DEF Init, ChecksStayTrue, NoRequest
<1>2. TypeOK /\ ChecksStayTrue /\ [Next]_vars => ChecksStayTrue'
  <2>1. TypeOK /\ ChecksStayTrue /\ UNCHANGED vars => ChecksStayTrue'
    BY QuietStep DEF vars
  <2> QED
    BY <2>1, AdmissionsKeepChecks, HandleKeepsChecks, OutsideKeepsChecks DEF Next
<1> QED
  BY <1>1, <1>2, AdminTypesHold, PTL DEF Spec

-----------------------------------------------------------------------------
\* The refinement: every step is one change of AdminAuthority or a stutter.

LEMMA WriteRolesRefines ==
  ASSUME TypeOK, ChecksStayTrue, NEW c \in Clients, WriteRoles(c)
  PROVE  Authority!Next \/ UNCHANGED accounts
<1> DEFINE r == request[c]
           a == r.actor
           t == r.target
           rs == r.roles
<1>1. /\ r.step = "CHECKED" /\ r.kind = "ROLES"
      /\ IF RolesChange(r)
           THEN /\ assigned' = [assigned EXCEPT ![t] = rs]
                /\ role' = [role EXCEPT ![t] = BaseRole(rs)]
                /\ version' = [version EXCEPT ![t] = version[t] + 1]
           ELSE UNCHANGED <<assigned, role, version>>
      /\ UNCHANGED status
  BY DEF WriteRoles
<1>2. a \in Users /\ t \in Users /\ rs \in SUBSET Roles
  BY <1>1 DEF TypeOK, RequestRec, NoRequest
<1>3. Entitled(r)
  BY <1>1 DEF ChecksStayTrue
<1>4. CASE RolesChange(r)
  <2>1. a # t
    <3>1. SUFFICES ASSUME a = t PROVE FALSE
      OBVIOUS
    <3>2. rs = assigned[t] /\ role[t] = "ADMIN" /\ assigned[t] # {}
      BY <1>1, <1>2, <1>3, <3>1, ManagersHaveRoles DEF Entitled, ActiveAdmin
    <3> QED
      BY <1>4, <3>2 DEF RolesChange, BaseRole
  <2>2. Authority!Replace(a, t, rs)
    BY <1>1, <1>2, <1>3, <1>4, <2>1
       DEF Authority!Replace, Entitled, ActiveAdmin, ActiveSuper, AnotherSuper, Access, Granted,
           BaseRole, Authority!ActiveAdmin, Authority!ActiveSuper, Authority!Access,
           Authority!Granted, Authority!BaseRole
  <2> QED
    BY <1>2, <2>2 DEF Authority!Next
<1>5. CASE ~RolesChange(r)
  BY <1>1, <1>5 DEF accounts
<1> QED
  BY <1>4, <1>5

LEMMA WriteStatusRefines ==
  ASSUME TypeOK, ChecksStayTrue, NEW c \in Clients, WriteStatus(c)
  PROVE  Authority!Next \/ UNCHANGED accounts
<1> DEFINE r == request[c]
           a == r.actor
           t == r.target
           s == r.status
<1>1. /\ r.step = "CHECKED" /\ r.kind = "STATUS"
      /\ status' = [status EXCEPT ![t] = s]
      /\ version' = IF role[t] = "ADMIN" /\ status[t] # s
                      THEN [version EXCEPT ![t] = version[t] + 1] ELSE version
      /\ UNCHANGED <<role, assigned>>
  BY DEF WriteStatus
<1>2. a \in Users /\ t \in Users /\ s \in {"ACTIVE", "FROZEN"}
  BY <1>1 DEF TypeOK, RequestRec, NoRequest, Status
<1>3. Entitled(r)
  BY <1>1 DEF ChecksStayTrue
<1>4. CASE status[t] = s
  BY <1>1, <1>2, <1>4 DEF accounts, TypeOK
<1>5. CASE status[t] # s
  <2>1. a # t
    BY <1>1, <1>2, <1>3, <1>5 DEF Entitled, ActiveAdmin
  <2>2. CASE role[t] = "ADMIN"
    <3>1. Authority!ChangeAdmin(a, t, s)
      BY <1>1, <1>2, <1>3, <1>5, <2>1, <2>2
         DEF Authority!ChangeAdmin, Entitled, ActiveAdmin, ActiveSuper, AnotherSuper, Access,
             Authority!ActiveAdmin, Authority!ActiveSuper, Authority!Access
    <3> QED
      BY <1>2, <3>1 DEF Authority!Next
  <2>3. CASE role[t] # "ADMIN"
    <3>1. Authority!ChangeUser(a, t, s)
      BY <1>1, <1>2, <1>3, <2>1, <2>3
         DEF Authority!ChangeUser, Entitled, ActiveAdmin, Authority!ActiveAdmin, TypeOK
    <3> QED
      BY <1>2, <3>1 DEF Authority!Next
  <2> QED
    BY <2>2, <2>3
<1> QED
  BY <1>4, <1>5

LEMMA StepRefines ==
  TypeOK /\ ChecksStayTrue /\ [Next]_vars => [Authority!Next]_(Authority!accounts)
<1> SUFFICES ASSUME TypeOK, ChecksStayTrue, [Next]_vars
             PROVE  Authority!Next \/ UNCHANGED accounts
  BY DEF Authority!accounts, accounts
<1>1. CASE Admissions
  BY <1>1 DEF Admissions, AdmitProve, AdmitRoles, AdmitStatus, Admit
<1>2. ASSUME NEW c \in Clients, Handle(c) PROVE Authority!Next \/ UNCHANGED accounts
  BY <1>2, WriteRolesRefines, WriteStatusRefines
     DEF Handle, Prove, Lock, Check, Refuse, RefuseProof
<1>3. ASSUME NEW u \in Recoverable, Bootstrap(u) PROVE Authority!Next
  <2>1. Authority!Recover(u)
    BY <1>3 DEF Bootstrap, Authority!Recover, ActiveAdmin, Authority!ActiveAdmin
  <2> QED
    BY <2>1 DEF Authority!Next
<1>4. ASSUME NEW u \in Enrolling, ChangeFactor(u) PROVE Authority!Next
  <2>1. Authority!EndSessions(u)
    BY <1>4 DEF ChangeFactor, Authority!EndSessions
  <2> QED
    BY <2>1 DEF Authority!Next
<1>5. CASE \/ \E c \in Clients : Abandon(c)
           \/ \E p \in proofs : Expire(p)
           \/ \E b \in Enforcements : SetEnforcement(b)
  BY <1>5 DEF Abandon, Expire, SetEnforcement
<1>6. CASE UNCHANGED vars
  BY <1>6 DEF vars
<1> QED
  BY <1>1, <1>2, <1>3, <1>4, <1>5, <1>6 DEF Next, Outside

\* The transactions of the admin-roles and admin services and the bootstrap
\* script implement atomic, authorised changes.
THEOREM TransactionsAreAtomic == Spec => ChangesAreAtomic
<1>1. Init => Authority!Init
  BY DEF Init, Authority!Init
<1> QED
  BY <1>1, StepRefines, AdminTypesHold, ChecksHoldUntilWritten, PTL
     DEF Spec, ChangesAreAtomic, Authority!Spec

-----------------------------------------------------------------------------
\* What the atomic changes preserve, the detailed steps preserve.

LEMMA ChangesKeepASuper ==
  ASSUME TypeOK, SuperAdminSurvives, Authority!Next
  PROVE  SuperAdminSurvives'
<1> USE DEF SuperAdminSurvives, ActiveSuper, ActiveAdmin, TypeOK
<1>1. ASSUME NEW a \in Users, NEW t \in Users, NEW rs \in SUBSET Roles, Authority!Replace(a, t, rs)
      PROVE  SuperAdminSurvives'
  <2>1. CASE ActiveSuper(t) /\ SuperAdmin \notin rs
    <3>1. PICK u \in Users \ {t} : ActiveSuper(u)
      BY <1>1, <2>1 DEF Authority!Replace, Authority!ActiveSuper, Authority!ActiveAdmin
    <3> QED
      BY <1>1, <3>1 DEF Authority!Replace
  <2>2. CASE ~(ActiveSuper(t) /\ SuperAdmin \notin rs)
    <3>1. PICK u \in Users : ActiveSuper(u)
      OBVIOUS
    <3>2. CASE u = t
      BY <1>1, <2>2, <3>1, <3>2 DEF Authority!Replace, Authority!BaseRole
    <3>3. CASE u # t
      BY <1>1, <3>1, <3>3 DEF Authority!Replace
    <3> QED
      BY <3>2, <3>3
  <2> QED
    BY <2>1, <2>2
<1>2. ASSUME NEW a \in Users, NEW t \in Users, NEW s \in {"ACTIVE", "FROZEN"},
             Authority!ChangeUser(a, t, s)
      PROVE  SuperAdminSurvives'
  BY <1>2 DEF Authority!ChangeUser
<1>3. ASSUME NEW a \in Users, NEW t \in Users, NEW s \in {"ACTIVE", "FROZEN"},
             Authority!ChangeAdmin(a, t, s)
      PROVE  SuperAdminSurvives'
  BY <1>3 DEF Authority!ChangeAdmin, Authority!ActiveSuper, Authority!ActiveAdmin
<1>4. ASSUME NEW u \in Users, Authority!Recover(u) \/ Authority!EndSessions(u)
      PROVE  SuperAdminSurvives'
  BY <1>4 DEF Authority!Recover, Authority!EndSessions
<1> QED
  BY <1>1, <1>2, <1>3, <1>4 DEF Authority!Next

LEMMA ChangesKeepTheFeePrincipal ==
  ASSUME TypeOK, FeePrincipalStays, Authority!Next
  PROVE  FeePrincipalStays'
  BY DEF TypeOK, FeePrincipalStays, Authority!Next, Authority!Replace, Authority!ChangeUser,
         Authority!ChangeAdmin, Authority!Recover, Authority!EndSessions, Authority!BaseRole

\* Once a super-admin exists, role changes, suspensions and recoveries leave an
\* active one (assertAnotherSuper).
THEOREM ASuperAdminSurvives == Spec => []SuperAdminSurvives
<1>1. Init => SuperAdminSurvives
  BY DEF Init, SuperAdminSurvives, ActiveSuper, ActiveAdmin
<1>2. TypeOK /\ ChecksStayTrue /\ SuperAdminSurvives /\ [Next]_vars => SuperAdminSurvives'
  <2>1. ASSUME SuperAdminSurvives, UNCHANGED Authority!accounts PROVE SuperAdminSurvives'
    BY <2>1 DEF SuperAdminSurvives, ActiveSuper, ActiveAdmin, Authority!accounts
  <2> QED
    BY <2>1, StepRefines, ChangesKeepASuper
<1> QED
  BY <1>1, <1>2, AdminTypesHold, ChecksHoldUntilWritten, PTL DEF Spec

\* The fee principal stays an administrator (assertFeePrincipalIdentity).
THEOREM TheFeePrincipalStays == Spec => []FeePrincipalStays
<1>1. Init => FeePrincipalStays
  BY DEF Init, FeePrincipalStays
<1>2. TypeOK /\ ChecksStayTrue /\ FeePrincipalStays /\ [Next]_vars => FeePrincipalStays'
  <2>1. ASSUME FeePrincipalStays, UNCHANGED Authority!accounts PROVE FeePrincipalStays'
    BY <2>1 DEF FeePrincipalStays, Authority!accounts
  <2> QED
    BY <2>1, StepRefines, ChangesKeepTheFeePrincipal
<1> QED
  BY <1>1, <1>2, AdminTypesHold, ChecksHoldUntilWritten, PTL DEF Spec

\* A proof that was not used belongs to its user's current session: whatever
\* raises auth_version deletes the proofs in the same transaction.
THEOREM ProofsStayCurrent == Spec => []ProofsAreCurrent
<1>1. Init => ProofsAreCurrent
  BY DEF Init, ProofsAreCurrent
<1>2. TypeOK /\ ProofsAreCurrent /\ [Next]_vars => ProofsAreCurrent'
  <2> SUFFICES ASSUME TypeOK, ProofsAreCurrent, [Next]_vars PROVE ProofsAreCurrent'
    OBVIOUS
  <2>0. \A p \in proofs : p \in ProofRec
    BY DEF TypeOK
  <2>1. ASSUME NEW c \in Clients, Prove(c) PROVE ProofsAreCurrent'
    BY <2>1 DEF Prove, accounts, ProofsAreCurrent
  <2>2. ASSUME NEW c \in Clients, WriteRoles(c) PROVE ProofsAreCurrent'
    <3> DEFINE t == request[c].target
    <3>1. PICK p \in proofs :
            LET left == (proofs \ {p}) \cup {[p EXCEPT !.used = TRUE]}
            IN  proofs' = IF RolesChange(request[c]) THEN ProofsWithout(left, t) ELSE left
      BY <2>2 DEF WriteRoles
    <3>2. [p EXCEPT !.used = TRUE].used
      BY <2>0 DEF ProofRec
    <3>3. \A q \in proofs' : ~q.used => q \in proofs /\ (RolesChange(request[c]) => q.user # t)
      BY <3>1, <3>2 DEF ProofsWithout
    <3>4. version' = IF RolesChange(request[c]) THEN [version EXCEPT ![t] = version[t] + 1]
                     ELSE version
      BY <2>2 DEF WriteRoles
    <3> QED
      BY <2>0, <3>3, <3>4 DEF ProofsAreCurrent, TypeOK, ProofRec
  <2>3. ASSUME NEW c \in Clients, WriteStatus(c) PROVE ProofsAreCurrent'
    BY <2>0, <2>3 DEF WriteStatus, ProofsWithout, ProofsAreCurrent, TypeOK, ProofRec
  <2>4. ASSUME NEW u \in Users, Bootstrap(u) \/ ChangeFactor(u) PROVE ProofsAreCurrent'
    BY <2>0, <2>4 DEF Bootstrap, ChangeFactor, ProofsWithout, ProofsAreCurrent, TypeOK, ProofRec
  <2>5. ASSUME UNCHANGED version, proofs' \subseteq proofs PROVE ProofsAreCurrent'
    BY <2>5 DEF ProofsAreCurrent
  <2>6. CASE Admissions
    BY <2>5, <2>6 DEF Admissions, AdmitProve, AdmitRoles, AdmitStatus, Admit, accounts, session
  <2>7. ASSUME NEW c \in Clients, Handle(c) PROVE ProofsAreCurrent'
    BY <2>1, <2>2, <2>3, <2>5, <2>7 DEF Handle, Lock, Check, Refuse, RefuseProof, accounts, session
  <2>8. CASE Outside
    <3>1. ASSUME \/ \E c \in Clients : Abandon(c)
                 \/ \E p \in proofs : Expire(p)
                 \/ \E b \in Enforcements : SetEnforcement(b)
          PROVE  ProofsAreCurrent'
      BY <2>5, <3>1 DEF Abandon, Expire, SetEnforcement, accounts, session
    <3> QED
      BY <2>4, <2>8, <3>1 DEF Outside
  <2>9. CASE UNCHANGED vars
    BY <2>5, <2>9 DEF vars, accounts, session
  <2> QED
    BY <2>6, <2>7, <2>8, <2>9 DEF Next
<1> QED
  BY <1>1, <1>2, AdminTypesHold, PTL DEF Spec

=============================================================================
