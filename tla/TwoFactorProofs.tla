--------------------------- MODULE TwoFactorProofs ---------------------------
(***************************************************************************)
(* What login and the second factor promise, for any accounts, times and   *)
(* numbers of codes: open challenges and proofs are of the current session *)
(* version, every session that is admitted to an account with a second     *)
(* factor proved the secret enrolled now, and no factor is spent twice.    *)
(***************************************************************************)
EXTENDS TwoFactorProperties, SequenceTheorems, TLAPS

-----------------------------------------------------------------------------
\* Rows of users

LEMMA AccountStep ==
  ASSUME TypeOK, NEW u \in Users, NEW r \in AccountRec, account' = [account EXCEPT ![u] = r]
  PROVE  /\ account' \in [Users -> AccountRec] /\ account'[u] = r
         /\ \A v \in Users : v # u => account'[v] = account[v]
BY DEF TypeOK

LEMMA AfterFactorRow ==
  ASSUME TypeOK, NEW u \in Users, NEW f \in Factors
  PROVE  LET r == AfterFactor(u, f)
         IN  /\ r \in AccountRec
             /\ r.status = account[u].status /\ r.on = account[u].on
             /\ r.secret = account[u].secret /\ r.pending = account[u].pending
             /\ r.version = account[u].version
             /\ r.last = IF f.kind = "TOTP" THEN f.n ELSE account[u].last
<1>1. account[u] \in AccountRec /\ f.n \in Int
  BY DEF TypeOK, Factors
<1>2. CASE f.kind = "TOTP"
  BY <1>1, <1>2 DEF AfterFactor, AccountRec
<1>3. CASE f.kind # "TOTP"
  BY <1>1, <1>3 DEF AfterFactor
<1> QED BY <1>2, <1>3

LEMMA EnabledRow ==
  ASSUME TypeOK, NEW u \in Users, NEW f \in Factors
  PROVE  LET r == Enabled(u, f)
         IN  /\ r \in AccountRec
             /\ r.on = TRUE /\ r.secret = account[u].pending /\ r.pending = None
             /\ r.last = f.n /\ r.version = account[u].version + 1
<1>1. account[u] \in AccountRec /\ f.n \in Int
  BY DEF TypeOK, Factors
<1>2. account[u].version + 1 \in Nat
  BY <1>1 DEF AccountRec
<1> QED BY <1>1, <1>2 DEF Enabled, AccountRec

LEMMA DisabledRow ==
  ASSUME TypeOK, NEW u \in Users
  PROVE  LET r == Disabled(u)
         IN  /\ r \in AccountRec
             /\ r.on = FALSE /\ r.secret = None /\ r.pending = None
             /\ r.version = account[u].version + 1
<1>1. account[u] \in AccountRec
  BY DEF TypeOK
<1>2. account[u].version + 1 \in Nat /\ -1 \in Int
  BY <1>1 DEF AccountRec
<1> QED BY <1>1, <1>2 DEF Disabled, AccountRec

LEMMA RevokedRow ==
  ASSUME TypeOK, NEW u \in Users, NEW st \in {"ACTIVE", "BANNED"}
  PROVE  LET r == Revoked(u, st)
         IN  /\ r \in AccountRec
             /\ r.on = account[u].on /\ r.secret = account[u].secret
             /\ r.pending = account[u].pending /\ r.last = account[u].last
             /\ r.version = IF u \in Admins THEN account[u].version + 1 ELSE account[u].version
<1> DEFINE version == IF u \in Admins THEN account[u].version + 1 ELSE account[u].version
<1>1. account[u] \in AccountRec
  BY DEF TypeOK
<1>2. version \in Nat
  BY <1>1 DEF AccountRec
<1>3. Revoked(u, st) = [account[u] EXCEPT !.status = st, !.version = version]
  BY <1>1 DEF Revoked, AccountRec
<1> HIDE DEF version
<1>4. LET r == Revoked(u, st)
      IN  /\ r \in AccountRec
          /\ r.on = account[u].on /\ r.secret = account[u].secret
          /\ r.pending = account[u].pending /\ r.last = account[u].last
          /\ r.version = version
  BY <1>1, <1>2, <1>3 DEF AccountRec
<1> QED BY <1>4 DEF version

\* setRoles only raises the version.
LEMMA RolesRow ==
  ASSUME TypeOK, NEW u \in Users, SetRoles(u)
  PROVE  \E r \in AccountRec :
           /\ account' = [account EXCEPT ![u] = r]
           /\ r.on = account[u].on /\ r.secret = account[u].secret
           /\ r.pending = account[u].pending /\ r.last = account[u].last
           /\ r.version = account[u].version + 1
<1> DEFINE version == account[u].version + 1
           r == [account[u] EXCEPT !.version = version]
<1>1. account[u] \in AccountRec /\ account \in [Users -> AccountRec]
  BY DEF TypeOK
<1>2. version \in Nat
  BY <1>1 DEF AccountRec
<1>3. account' = [account EXCEPT ![u] = r]
  BY <1>1 DEF SetRoles
<1> HIDE DEF version
<1>4. /\ r \in AccountRec
      /\ r.on = account[u].on /\ r.secret = account[u].secret
      /\ r.pending = account[u].pending /\ r.last = account[u].last /\ r.version = version
  BY <1>1, <1>2 DEF AccountRec
<1> HIDE DEF r
<1> QED BY <1>3, <1>4 DEF version

\* startSetup makes a secret and keeps it pending.
LEMMA SetupRow ==
  ASSUME TypeOK, NEW s \in sessions, NEW p \in proofs, Setup(s, p)
  PROVE  \E r \in AccountRec :
           /\ account' = [account EXCEPT ![s.user] = r]
           /\ r.on = account[s.user].on /\ r.secret = account[s.user].secret
           /\ r.pending = secrets + 1 /\ r.last = account[s.user].last
           /\ r.version = account[s.user].version
<1> DEFINE u == s.user
           until == now + SetupLife
           r == [account[u] EXCEPT !.pending = secrets + 1, !.until = until]
<1>1. u \in Users /\ account[u] \in AccountRec /\ account \in [Users -> AccountRec]
  BY DEF TypeOK, SessionRec
<1>2. until \in Nat
  BY TwoFactorAssumption DEF TypeOK
<1>3. secrets + 1 \in Secret
  BY TwoFactorAssumption DEF TypeOK, Setup, Secret
<1>4. account' = [account EXCEPT ![u] = r]
  BY <1>1 DEF Setup
<1>5. /\ r \in AccountRec
      /\ r.on = account[u].on /\ r.secret = account[u].secret
      /\ r.pending = secrets + 1 /\ r.last = account[u].last /\ r.version = account[u].version
  BY <1>1, <1>2, <1>3 DEF AccountRec
<1> HIDE DEF r
<1> QED BY <1>4, <1>5

\* A factor that is accepted is one of the account's own.
LEMMA AcceptedFactor ==
  ASSUME TypeOK, NEW u \in Users, NEW f \in Candidates(u), Accepts(u, f)
  PROVE  /\ f \in Factors
         /\ \/ /\ account[u].secret # None /\ account[u].secret \in Secret
               /\ f = Totp(account[u].secret, f.n)
               /\ f.kind = "TOTP" /\ f.key = account[u].secret /\ f.n > account[u].last
            \/ f.kind = "RECOVERY" /\ <<u, f>> \in codes
<1>1. account[u] \in AccountRec /\ codes \subseteq Users \X Factors /\ now \in Nat
  BY DEF TypeOK
<1>2. CASE f \in CodesOf(u)
  <2>1. <<u, f>> \in codes
    BY <1>1, <1>2 DEF CodesOf
  <2>2. f \in Factors
    BY <1>1, <2>1
  <2>3. CASE f.kind = "RECOVERY"
    BY <2>1, <2>2, <2>3
  <2>4. CASE f.kind # "RECOVERY"
    <3>1. account[u].secret # None /\ f.kind = "TOTP" /\ f.key = account[u].secret /\ f.n > account[u].last
      BY <2>4 DEF Accepts, InStep
    <3>2. f = Totp(f.key, f.n)
      BY <2>2, <3>1 DEF Factors, Totp
    <3> QED BY <1>1, <2>2, <3>1, <3>2 DEF AccountRec
  <2> QED BY <2>3, <2>4
<1>3. CASE f \notin CodesOf(u)
  <2>1. PICK p \in (now - 1)..(now + 1) : f = Totp(account[u].secret, p)
    BY <1>3 DEF Candidates
  <2>2. f.kind = "TOTP" /\ f.key = account[u].secret /\ f.n = p
    BY <2>1 DEF Totp
  <2>3. account[u].secret # None /\ f.n > account[u].last
    BY <2>2 DEF Accepts, InStep
  <2>4. account[u].secret \in Secret /\ account[u].secret \in Nat /\ p \in Int
    BY <1>1, <2>1, <2>3 DEF AccountRec, Secret
  <2>5. f \in Factors
    BY <2>1, <2>4 DEF Factors, Totp
  <2> QED BY <2>1, <2>2, <2>3, <2>4, <2>5
<1> QED BY <1>2, <1>3

-----------------------------------------------------------------------------
\* Types

LEMMA NewCodesType ==
  ASSUME TypeOK, NEW u \in Users, sets < MaxSets
  PROVE  {u} \X NewCodes \subseteq Users \X Factors /\ sets + 1 \in 0..MaxSets /\ sets + 1 \in Nat
<1>1. sets \in 0..MaxSets /\ MaxSets \in Nat /\ CodesPerSet \in Nat
  BY TwoFactorAssumption DEF TypeOK
<1>2. sets + 1 \in 0..MaxSets /\ sets + 1 \in Nat
  BY <1>1
<1>3. \A i \in 1..CodesPerSet : Recovery(sets + 1, i) \in Factors
  BY <1>1, <1>2 DEF Recovery, Factors
<1>4. NewCodes \subseteq Factors
  BY <1>3 DEF NewCodes
<1> QED BY <1>2, <1>4

LEMMA InitType == Init => TypeOK
<1> SUFFICES ASSUME Init PROVE TypeOK
  OBVIOUS
<1> DEFINE r == [status |-> "ACTIVE", on |-> FALSE, secret |-> None,
                 pending |-> None, until |-> 0, last |-> -1, version |-> 0]
<1>1. r \in AccountRec
  BY DEF AccountRec
<1>2. account = [u \in Users |-> r]
  BY DEF Init
<1> HIDE DEF r
<1>3. account \in [Users -> AccountRec]
  BY <1>1, <1>2
<1>4. now \in Nat /\ secrets \in 0..MaxSecrets /\ sets \in 0..MaxSets
  BY TwoFactorAssumption DEF Init
<1>5. codes = {} /\ challenges = {} /\ proofs = {} /\ sessions = {} /\ spent = <<>>
  BY DEF Init
<1>6. spent \in Seq(Factors)
  BY <1>5
<1> QED BY <1>3, <1>4, <1>5, <1>6 DEF TypeOK

LEMMA LoginsType == TypeOK /\ Logins => TypeOK'
<1> SUFFICES ASSUME TypeOK, Logins PROVE TypeOK'
  OBVIOUS
<1>1. /\ now \in Nat /\ ProofLife \in Nat /\ now + ProofLife \in Nat /\ MaxAttempts \in Nat
      /\ account \in [Users -> AccountRec] /\ challenges \subseteq ChallengeRec
      /\ sessions \subseteq SessionRec /\ codes \subseteq Users \X Factors /\ spent \in Seq(Factors)
  BY TwoFactorAssumption DEF TypeOK
<1>2. ASSUME NEW u \in Users, PasswordLogin(u) PROVE TypeOK'
  <2>1. account[u] \in AccountRec /\ account[u].version \in Nat
    BY <1>1 DEF AccountRec
  <2>2. [user |-> u, version |-> account[u].version, attempts |-> 0,
         until |-> now + ProofLife] \in ChallengeRec
    BY <1>1, <2>1 DEF ChallengeRec
  <2>3. Session(u, account[u].version, "password", None) \in SessionRec
    BY <2>1 DEF Session, SessionRec
  <2>4. challenges' \subseteq ChallengeRec /\ sessions' \subseteq SessionRec
    BY <1>1, <1>2, <2>2, <2>3 DEF PasswordLogin, WithoutChallenges
  <2> QED BY <1>2, <2>4 DEF PasswordLogin, TypeOK
<1>3. ASSUME NEW c \in challenges, FailLogin(c) PROVE TypeOK'
  <2>1. c \in ChallengeRec /\ c.attempts + 1 \in 0..MaxAttempts
    BY <1>1, <1>3 DEF FailLogin, Open, ChallengeRec
  <2>2. [c EXCEPT !.attempts = @ + 1] \in ChallengeRec
    BY <2>1 DEF ChallengeRec
  <2>3. challenges' \subseteq ChallengeRec
    BY <1>1, <1>3, <2>2 DEF FailLogin
  <2> QED BY <1>3, <2>3 DEF FailLogin, TypeOK
<1>4. ASSUME NEW c \in challenges, NEW f \in Candidates(c.user), CompleteLogin(c, f) PROVE TypeOK'
  <2>1. c.user \in Users
    BY <1>1 DEF ChallengeRec
  <2>2. f \in Factors
    BY <1>4, <2>1, AcceptedFactor DEF CompleteLogin
  <2>3. AfterFactor(c.user, f) \in AccountRec
    BY <2>1, <2>2, AfterFactorRow
  <2>4. account' \in [Users -> AccountRec]
    BY <1>4, <2>1, <2>3, AccountStep DEF CompleteLogin
  <2>5. account[c.user].version \in Nat /\ account[c.user].secret \in Nat \cup {None}
    BY <1>1, <2>1 DEF AccountRec, Secret
  <2>6. Session(c.user, account[c.user].version, "mfa", account[c.user].secret) \in SessionRec
    BY <2>1, <2>5 DEF Session, SessionRec
  <2>7. /\ challenges' \subseteq ChallengeRec /\ sessions' \subseteq SessionRec
        /\ codes' \subseteq Users \X Factors /\ spent' \in Seq(Factors)
    BY <1>1, <1>4, <2>2, <2>6, AppendProperties DEF CompleteLogin
  <2> QED BY <1>4, <2>4, <2>7 DEF CompleteLogin, TypeOK
<1> QED BY <1>2, <1>3, <1>4 DEF Logins

LEMMA ReissuedType ==
  ASSUME TypeOK, NEW s \in sessions, NEW purpose \in Purposes
  PROVE  Reissued(s, purpose) \subseteq ProofRec
<1>1. /\ s.user \in Users /\ account[s.user] \in AccountRec /\ proofs \subseteq ProofRec
      /\ now + ProofLife \in Nat
  BY TwoFactorAssumption DEF TypeOK, SessionRec
<1>2. account[s.user].version \in Nat
  BY <1>1 DEF AccountRec
<1>3. [user |-> s.user, purpose |-> purpose, version |-> account[s.user].version,
       until |-> now + ProofLife] \in ProofRec
  BY <1>1, <1>2 DEF ProofRec
<1> QED BY <1>1, <1>3 DEF Reissued

LEMMA ManagementType == TypeOK /\ Management => TypeOK'
<1> SUFFICES ASSUME TypeOK, Management PROVE TypeOK'
  OBVIOUS
<1>1. PICK s \in sessions :
        \/ \E purpose \in Purposes :
             \/ Reauthenticate(s, purpose)
             \/ \E f \in Candidates(s.user) : ReauthenticateWithFactor(s, purpose, f)
        \/ \E p \in proofs :
             \/ Setup(s, p)
             \/ \E i \in -1..1 : Enable(s, p, Totp(account[s.user].pending, now + i))
             \/ \E f \in Candidates(s.user) : Regenerate(s, p, f) \/ Disable(s, p, f)
  BY DEF Management
<1> DEFINE u == s.user
<1>2. /\ u \in Users /\ account[u] \in AccountRec /\ now \in Nat
      /\ challenges \subseteq ChallengeRec /\ proofs \subseteq ProofRec /\ sessions \subseteq SessionRec
      /\ codes \subseteq Users \X Factors /\ spent \in Seq(Factors)
  BY DEF TypeOK, SessionRec
<1>3. /\ account[u].version \in Nat /\ account[u].version + 1 \in Nat
      /\ account[u].secret \in Nat \cup {None} /\ account[u].pending \in Secret \cup {None}
  BY <1>2 DEF AccountRec, Secret
<1>4. ASSUME NEW purpose \in Purposes, Reauthenticate(s, purpose) PROVE TypeOK'
  <2>1. proofs' \subseteq ProofRec
    BY <1>4, ReissuedType DEF Reauthenticate
  <2> QED BY <1>4, <2>1 DEF Reauthenticate, TypeOK
<1>5. ASSUME NEW purpose \in Purposes, NEW f \in Candidates(u), ReauthenticateWithFactor(s, purpose, f)
      PROVE  TypeOK'
  <2>1. f \in Factors
    BY <1>2, <1>5, AcceptedFactor DEF ReauthenticateWithFactor
  <2>2. AfterFactor(u, f) \in AccountRec
    BY <1>2, <2>1, AfterFactorRow
  <2>3. account' \in [Users -> AccountRec]
    BY <1>2, <1>5, <2>2, AccountStep DEF ReauthenticateWithFactor
  <2>4. /\ proofs' \subseteq ProofRec /\ codes' \subseteq Users \X Factors /\ spent' \in Seq(Factors)
    BY <1>2, <1>5, <2>1, ReissuedType, AppendProperties DEF ReauthenticateWithFactor
  <2> QED BY <1>5, <2>3, <2>4 DEF ReauthenticateWithFactor, TypeOK
<1>6. ASSUME NEW p \in proofs, Setup(s, p) PROVE TypeOK'
  <2>1. account' \in [Users -> AccountRec]
    BY <1>2, <1>6, SetupRow, AccountStep
  <2>2. secrets' \in 0..MaxSecrets /\ proofs' \subseteq ProofRec
    BY <1>2, <1>6, TwoFactorAssumption DEF Setup, TypeOK
  <2> QED BY <1>6, <2>1, <2>2 DEF Setup, TypeOK
<1>7. ASSUME NEW p \in proofs, NEW i \in -1..1, Enable(s, p, Totp(account[u].pending, now + i))
      PROVE  TypeOK'
  <2> DEFINE f == Totp(account[u].pending, now + i)
  <2>1. account[u].pending \in Secret
    BY <1>3, <1>7 DEF Enable
  <2>2. f \in Factors
    BY <1>2, <2>1 DEF Totp, Factors, Secret
  <2> HIDE DEF f
  <2>3. Enable(s, p, f)
    BY <1>7 DEF f
  <2>4. account' \in [Users -> AccountRec]
    BY <1>2, <2>2, <2>3, EnabledRow, AccountStep DEF Enable
  <2>5. Session(u, account[u].version + 1, "mfa", account[u].pending) \in SessionRec
    BY <1>2, <1>3, <2>1 DEF Session, SessionRec, Secret
  <2>6. codes' \subseteq Users \X Factors /\ sets' \in 0..MaxSets
    BY <1>2, <2>3, NewCodesType DEF Enable, WithoutCodes
  <2>7. /\ challenges' \subseteq ChallengeRec /\ proofs' \subseteq ProofRec
        /\ sessions' \subseteq SessionRec /\ spent' \in Seq(Factors)
    BY <1>2, <2>2, <2>3, <2>5, AppendProperties DEF Enable, WithoutChallenges, WithoutProofs
  <2> QED BY <2>3, <2>4, <2>6, <2>7 DEF Enable, TypeOK
<1>8. ASSUME NEW p \in proofs, NEW f \in Candidates(u), Regenerate(s, p, f) PROVE TypeOK'
  <2>1. f \in Factors
    BY <1>2, <1>8, AcceptedFactor DEF Regenerate
  <2>2. AfterFactor(u, f) \in AccountRec
    BY <1>2, <2>1, AfterFactorRow
  <2>3. account' \in [Users -> AccountRec]
    BY <1>2, <1>8, <2>2, AccountStep DEF Regenerate
  <2>4. Session(u, account[u].version, "mfa", account[u].secret) \in SessionRec
    BY <1>2, <1>3 DEF Session, SessionRec
  <2>5. codes' \subseteq Users \X Factors /\ sets' \in 0..MaxSets
    BY <1>2, <1>8, NewCodesType DEF Regenerate, WithoutCodes
  <2>6. proofs' \subseteq ProofRec /\ sessions' \subseteq SessionRec /\ spent' \in Seq(Factors)
    BY <1>2, <1>8, <2>1, <2>4, AppendProperties DEF Regenerate
  <2> QED BY <1>8, <2>3, <2>5, <2>6 DEF Regenerate, TypeOK
<1>9. ASSUME NEW p \in proofs, NEW f \in Candidates(u), Disable(s, p, f) PROVE TypeOK'
  <2>1. f \in Factors
    BY <1>2, <1>9, AcceptedFactor DEF Disable
  <2>2. account' \in [Users -> AccountRec]
    BY <1>2, <1>9, DisabledRow, AccountStep DEF Disable
  <2>3. Session(u, account[u].version + 1, "mfa", account[u].secret) \in SessionRec
    BY <1>2, <1>3 DEF Session, SessionRec
  <2>4. /\ codes' \subseteq Users \X Factors
        /\ challenges' \subseteq ChallengeRec /\ proofs' \subseteq ProofRec
        /\ sessions' \subseteq SessionRec /\ spent' \in Seq(Factors)
    BY <1>2, <1>9, <2>1, <2>3, AppendProperties
       DEF Disable, WithoutCodes, WithoutChallenges, WithoutProofs
  <2> QED BY <1>9, <2>2, <2>4 DEF Disable, TypeOK
<1> QED BY <1>1, <1>4, <1>5, <1>6, <1>7, <1>8, <1>9

LEMMA SurroundingsType == TypeOK /\ (Surroundings \/ UNCHANGED vars) => TypeOK'
<1> SUFFICES ASSUME TypeOK, Surroundings \/ UNCHANGED vars PROVE TypeOK'
  OBVIOUS
<1>1. challenges \subseteq ChallengeRec /\ proofs \subseteq ProofRec
  BY DEF TypeOK
<1>2. ASSUME NEW u \in Users, SetRoles(u) PROVE TypeOK'
  <2>1. account' \in [Users -> AccountRec]
    BY <1>2, RolesRow, AccountStep
  <2> QED BY <1>1, <1>2, <2>1 DEF SetRoles, WithoutChallenges, WithoutProofs, TypeOK
<1>3. ASSUME NEW u \in Users, NEW st \in {"ACTIVE", "BANNED"}, SetStatus(u, st) PROVE TypeOK'
  <2>1. account' \in [Users -> AccountRec]
    BY <1>3, RevokedRow, AccountStep DEF SetStatus
  <2> QED BY <1>1, <1>3, <2>1 DEF SetStatus, WithoutChallenges, WithoutProofs, TypeOK
<1>4. ASSUME NEW p \in proofs, Cleanup(p) \/ \E s \in sessions : UseRoleProof(s, p) PROVE TypeOK'
  BY <1>1, <1>4 DEF Cleanup, UseRoleProof, TypeOK
<1>5. CASE Tick
  BY <1>5 DEF Tick, TypeOK
<1>6. CASE UNCHANGED vars
  BY <1>6 DEF vars, TypeOK
<1> QED BY <1>2, <1>3, <1>4, <1>5, <1>6 DEF Surroundings

LEMMA NextType == TypeOK /\ [Next]_vars => TypeOK'
BY LoginsType, ManagementType, SurroundingsType DEF Next

\* Whatever login and the second-factor handlers write has its type: counters,
\* versions and expiry times stay natural, and an account keeps one secret and
\* at most one pending secret.
THEOREM AccountTypesHold == Spec => []TypeOK
BY InitType, NextType, PTL DEF Spec

-----------------------------------------------------------------------------
\* Sessions, challenges and proofs of the current version

\* Sessions are of a version their account has or had; the second factor of one
\* of the version it has now was of the secret it has now.
SessionsKept ==
  /\ \A s \in sessions : s.version <= account[s.user].version
  /\ \A s \in sessions :
       s.version = account[s.user].version /\ account[s.user].on /\ s.amr = "mfa"
         => s.basis = account[s.user].secret
  /\ \A u \in Users : account[u].on => account[u].secret # None

VersionInv == TypeOK /\ SessionsKept /\ OpenProofsAreCurrent

\* A step that leaves the account rows alone.
LEMMA SameAccounts ==
  ASSUME VersionInv, TypeOK', account' = account, sessions' = sessions,
         \A c \in challenges' : c.version = account[c.user].version,
         \A p \in proofs' : p.version = account[p.user].version
  PROVE  VersionInv'
<1>1. SessionsKept'
  BY DEF VersionInv, SessionsKept
<1> QED BY <1>1 DEF VersionInv, OpenProofsAreCurrent

\* A step that keeps the version, the secret and the switch of the account of u
\* and signs at most a session that proved the secret.
LEMMA SameVersion ==
  ASSUME VersionInv, TypeOK', NEW u \in Users, NEW r \in AccountRec,
         account' = [account EXCEPT ![u] = r],
         r.version = account[u].version, r.on = account[u].on, r.secret = account[u].secret,
         sessions' \subseteq sessions \cup {Session(u, account[u].version, "mfa", account[u].secret)},
         challenges' \subseteq challenges,
         \A p \in proofs' : p.version = account[p.user].version
  PROVE  VersionInv'
<1>1. /\ \A v \in Users : /\ account'[v].version = account[v].version
                          /\ account'[v].on = account[v].on /\ account'[v].secret = account[v].secret
      /\ account[u].version \in Nat
  BY AccountStep DEF VersionInv, TypeOK, AccountRec
<1>2. \A s \in sessions' : s.user \in Users
  BY DEF TypeOK, SessionRec
<1>3. SessionsKept'
  BY <1>1, <1>2 DEF VersionInv, SessionsKept, Session
<1>4. OpenProofsAreCurrent'
  <2>1. (\A c \in challenges' : c.user \in Users) /\ (\A p \in proofs' : p.user \in Users)
    BY DEF TypeOK, ChallengeRec, ProofRec
  <2> QED BY <1>1, <2>1 DEF VersionInv, OpenProofsAreCurrent
<1> QED BY <1>3, <1>4 DEF VersionInv

\* A step that raises the version of the account of u, drops its challenges and
\* proofs and signs at most a session of the new version and secret.
LEMMA NextVersion ==
  ASSUME VersionInv, TypeOK', NEW u \in Users, NEW r \in AccountRec, NEW b,
         account' = [account EXCEPT ![u] = r],
         r.version = account[u].version + 1, r.on => r.secret # None /\ b = r.secret,
         sessions' \subseteq sessions \cup {Session(u, r.version, "mfa", b)},
         challenges' \subseteq WithoutChallenges(u), proofs' \subseteq WithoutProofs(u)
  PROVE  VersionInv'
<1>1. /\ account'[u] = r /\ \A v \in Users : v # u => account'[v] = account[v]
      /\ account[u].version \in Nat
  BY AccountStep DEF VersionInv, TypeOK, AccountRec
<1>2. \A s \in sessions' : s.user \in Users /\ s.version \in Nat
  BY DEF TypeOK, SessionRec
<1>3. ASSUME NEW s \in sessions'
      PROVE  /\ s.version <= account'[s.user].version
             /\ s.version = account'[s.user].version /\ account'[s.user].on /\ s.amr = "mfa"
                  => s.basis = account'[s.user].secret
  <2>1. CASE s = Session(u, r.version, "mfa", b)
    BY <1>1, <2>1 DEF Session
  <2>2. CASE s \in sessions
    BY <1>1, <1>2, <2>2 DEF VersionInv, SessionsKept
  <2> QED BY <2>1, <2>2
<1>4. SessionsKept'
  <2>1. \A v \in Users : account'[v].on => account'[v].secret # None
    BY <1>1 DEF VersionInv, SessionsKept
  <2> QED BY <1>3, <2>1 DEF SessionsKept
<1>5. OpenProofsAreCurrent'
  <2>1. (\A c \in challenges' : c.user \in Users) /\ (\A p \in proofs' : p.user \in Users)
    BY DEF TypeOK, ChallengeRec, ProofRec
  <2> QED BY <1>1, <2>1 DEF VersionInv, OpenProofsAreCurrent, WithoutChallenges, WithoutProofs
<1> QED BY <1>4, <1>5 DEF VersionInv

LEMMA InitVersion == Init => VersionInv
BY InitType DEF Init, VersionInv, SessionsKept, OpenProofsAreCurrent

LEMMA LoginsVersion == VersionInv /\ Logins /\ TypeOK' => VersionInv'
<1> SUFFICES ASSUME VersionInv, Logins, TypeOK' PROVE VersionInv'
  OBVIOUS
<1>1. TypeOK /\ OpenProofsAreCurrent /\ SessionsKept /\ challenges \subseteq ChallengeRec
      /\ sessions \subseteq SessionRec
  BY DEF VersionInv, TypeOK
<1>2. ASSUME NEW u \in Users, PasswordLogin(u) PROVE VersionInv'
  <2>1. CASE account[u].on
    <3>1. /\ account' = account /\ sessions' = sessions /\ proofs' = proofs
          /\ challenges' = WithoutChallenges(u) \cup
               {[user |-> u, version |-> account[u].version, attempts |-> 0, until |-> now + ProofLife]}
      BY <1>2, <2>1 DEF PasswordLogin
    <3>2. \A c \in challenges' : c.version = account[c.user].version
      BY <1>1, <3>1 DEF OpenProofsAreCurrent, WithoutChallenges
    <3>3. \A p \in proofs' : p.version = account[p.user].version
      BY <1>1, <3>1 DEF OpenProofsAreCurrent
    <3> QED BY <3>1, <3>2, <3>3, SameAccounts
  <2>2. CASE ~account[u].on
    <3>1. /\ account' = account /\ challenges' = challenges /\ proofs' = proofs
          /\ sessions' = sessions \cup {Session(u, account[u].version, "password", None)}
      BY <1>2, <2>2 DEF PasswordLogin
    <3>2. account[u].version \in Nat
      BY <1>1 DEF TypeOK, AccountRec
    <3>3. SessionsKept'
      BY <1>1, <3>1, <3>2 DEF SessionsKept, Session
    <3> QED BY <1>1, <3>1, <3>3 DEF VersionInv, OpenProofsAreCurrent
  <2> QED BY <2>1, <2>2
<1>3. ASSUME NEW c \in challenges, FailLogin(c) PROVE VersionInv'
  <2>1. /\ account' = account /\ sessions' = sessions /\ proofs' = proofs
        /\ challenges' = (challenges \ {c}) \cup {[c EXCEPT !.attempts = @ + 1]}
    BY <1>3 DEF FailLogin
  <2>2. LET d == [c EXCEPT !.attempts = @ + 1] IN d.version = c.version /\ d.user = c.user
    BY <1>1 DEF ChallengeRec
  <2>3. \A d \in challenges' : d.version = account[d.user].version
    BY <1>1, <2>1, <2>2 DEF OpenProofsAreCurrent
  <2>4. \A p \in proofs' : p.version = account[p.user].version
    BY <1>1, <2>1 DEF OpenProofsAreCurrent
  <2> QED BY <2>1, <2>3, <2>4, SameAccounts
<1>4. ASSUME NEW c \in challenges, NEW f \in Candidates(c.user), CompleteLogin(c, f)
      PROVE  VersionInv'
  <2> DEFINE u == c.user
             r == AfterFactor(u, f)
  <2>1. u \in Users
    BY <1>1 DEF ChallengeRec
  <2>2. f \in Factors
    BY <1>1, <1>4, <2>1, AcceptedFactor DEF CompleteLogin
  <2>3. /\ r \in AccountRec
        /\ r.version = account[u].version /\ r.on = account[u].on /\ r.secret = account[u].secret
    BY <1>1, <2>1, <2>2, AfterFactorRow
  <2>4. /\ account' = [account EXCEPT ![u] = r] /\ proofs' = proofs /\ challenges' \subseteq challenges
        /\ sessions' \subseteq sessions \cup {Session(u, account[u].version, "mfa", account[u].secret)}
    BY <1>4 DEF CompleteLogin
  <2>5. \A p \in proofs' : p.version = account[p.user].version
    BY <1>1, <2>4 DEF OpenProofsAreCurrent
  <2> HIDE DEF r, u
  <2> QED BY <2>1, <2>3, <2>4, <2>5, SameVersion
<1> QED BY <1>2, <1>3, <1>4 DEF Logins

LEMMA ManagementVersion == VersionInv /\ Management /\ TypeOK' => VersionInv'
<1> SUFFICES ASSUME VersionInv, Management, TypeOK' PROVE VersionInv'
  OBVIOUS
<1>1. TypeOK /\ OpenProofsAreCurrent /\ SessionsKept
  BY DEF VersionInv
<1>2. PICK s \in sessions :
        \/ \E purpose \in Purposes :
             \/ Reauthenticate(s, purpose)
             \/ \E f \in Candidates(s.user) : ReauthenticateWithFactor(s, purpose, f)
        \/ \E p \in proofs :
             \/ Setup(s, p)
             \/ \E i \in -1..1 : Enable(s, p, Totp(account[s.user].pending, now + i))
             \/ \E f \in Candidates(s.user) : Regenerate(s, p, f) \/ Disable(s, p, f)
  BY DEF Management
<1> DEFINE u == s.user
<1>3. u \in Users
  BY <1>1 DEF TypeOK, SessionRec
<1>4. \A purpose : \A p \in Reissued(s, purpose) : p.version = account[p.user].version
  BY <1>1 DEF Reissued, OpenProofsAreCurrent
<1>5. \A p \in proofs : p.version = account[p.user].version
  BY <1>1 DEF OpenProofsAreCurrent
<1> DEFINE r(f) == AfterFactor(u, f)
<1>6. ASSUME NEW f \in Candidates(u), Accepts(u, f)
      PROVE  /\ r(f) \in AccountRec
             /\ r(f).version = account[u].version /\ r(f).on = account[u].on
             /\ r(f).secret = account[u].secret
  BY <1>1, <1>3, <1>6, AcceptedFactor, AfterFactorRow
<1> HIDE DEF r
<1>7. ASSUME NEW purpose \in Purposes, Reauthenticate(s, purpose) PROVE VersionInv'
  <2>1. /\ account' = account /\ sessions' = sessions /\ challenges' = challenges
        /\ proofs' = Reissued(s, purpose)
    BY <1>7 DEF Reauthenticate
  <2>2. \A c \in challenges' : c.version = account[c.user].version
    BY <1>1, <2>1 DEF OpenProofsAreCurrent
  <2> QED BY <1>4, <2>1, <2>2, SameAccounts
<1>8. ASSUME NEW purpose \in Purposes, NEW f \in Candidates(u), ReauthenticateWithFactor(s, purpose, f)
      PROVE  VersionInv'
  <2>1. /\ Accepts(u, f) /\ account' = [account EXCEPT ![u] = r(f)]
        /\ sessions' = sessions /\ challenges' = challenges /\ proofs' = Reissued(s, purpose)
    BY <1>8 DEF ReauthenticateWithFactor, r
  <2> QED BY <1>3, <1>4, <1>6, <2>1, SameVersion
<1>9. ASSUME NEW p \in proofs, Setup(s, p) PROVE VersionInv'
  <2>1. sessions' = sessions /\ challenges' = challenges /\ proofs' \subseteq proofs
    BY <1>9 DEF Setup
  <2>2. PICK row \in AccountRec :
          /\ account' = [account EXCEPT ![u] = row]
          /\ row.on = account[u].on /\ row.secret = account[u].secret
          /\ row.version = account[u].version
    BY <1>1, <1>9, SetupRow
  <2> QED BY <1>3, <1>5, <2>1, <2>2, SameVersion
<1>10. ASSUME NEW p \in proofs, NEW i \in -1..1, Enable(s, p, Totp(account[u].pending, now + i))
       PROVE  VersionInv'
  <2> DEFINE f == Totp(account[u].pending, now + i)
             row == Enabled(u, f)
  <2>1. account[u].pending # None /\ account[u].pending \in Secret
    BY <1>1, <1>3, <1>10 DEF Enable, TypeOK, AccountRec
  <2>2. f \in Factors
    BY <1>1, <2>1 DEF Totp, Factors, Secret, TypeOK
  <2> HIDE DEF f
  <2>3. Enable(s, p, f)
    BY <1>10 DEF f
  <2>4. /\ row \in AccountRec /\ row.secret = account[u].pending
        /\ row.version = account[u].version + 1
    BY <1>1, <1>3, <2>2, EnabledRow
  <2>5. /\ account' = [account EXCEPT ![u] = row]
        /\ sessions' \subseteq sessions \cup
             {Session(u, account[u].version + 1, "mfa", account[u].pending)}
        /\ challenges' = WithoutChallenges(u) /\ proofs' = WithoutProofs(u)
    BY <2>3 DEF Enable
  <2> HIDE DEF row
  <2> QED BY <1>3, <2>1, <2>4, <2>5, NextVersion
<1>11. ASSUME NEW p \in proofs, NEW f \in Candidates(u), Regenerate(s, p, f) PROVE VersionInv'
  <2>1. /\ Accepts(u, f) /\ account' = [account EXCEPT ![u] = r(f)]
        /\ sessions' \subseteq sessions \cup {Session(u, account[u].version, "mfa", account[u].secret)}
        /\ challenges' = challenges /\ proofs' \subseteq proofs
    BY <1>11 DEF Regenerate, r
  <2> QED BY <1>3, <1>5, <1>6, <2>1, SameVersion
<1>12. ASSUME NEW p \in proofs, NEW f \in Candidates(u), Disable(s, p, f) PROVE VersionInv'
  <2> DEFINE row == Disabled(u)
  <2>1. row \in AccountRec /\ row.on = FALSE /\ row.version = account[u].version + 1
    BY <1>1, <1>3, DisabledRow
  <2>2. /\ account' = [account EXCEPT ![u] = row]
        /\ sessions' \subseteq sessions \cup
             {Session(u, account[u].version + 1, "mfa", account[u].secret)}
        /\ challenges' = WithoutChallenges(u) /\ proofs' = WithoutProofs(u)
    BY <1>12 DEF Disable
  <2> HIDE DEF row
  <2> QED BY <1>3, <2>1, <2>2, NextVersion
<1> QED BY <1>2, <1>7, <1>8, <1>9, <1>10, <1>11, <1>12

LEMMA SurroundingsVersion == VersionInv /\ Surroundings /\ TypeOK' => VersionInv'
<1> SUFFICES ASSUME VersionInv, Surroundings, TypeOK' PROVE VersionInv'
  OBVIOUS
<1>1. TypeOK /\ OpenProofsAreCurrent /\ account \in [Users -> AccountRec]
  BY DEF VersionInv, TypeOK
<1>2. \A p \in proofs : p.version = account[p.user].version
  BY <1>1 DEF OpenProofsAreCurrent
<1>3. ASSUME NEW u \in Users, SetRoles(u) PROVE VersionInv'
  <2>1. PICK r \in AccountRec :
          /\ account' = [account EXCEPT ![u] = r]
          /\ r.on = account[u].on /\ r.secret = account[u].secret
          /\ r.version = account[u].version + 1
    BY <1>1, <1>3, RolesRow
  <2>2. r.on => r.secret # None
    BY <2>1 DEF VersionInv, SessionsKept
  <2>3. sessions' = sessions /\ challenges' = WithoutChallenges(u) /\ proofs' = WithoutProofs(u)
    BY <1>3 DEF SetRoles
  <2> QED BY <2>1, <2>2, <2>3, NextVersion
<1>4. ASSUME NEW u \in Users, NEW st \in {"ACTIVE", "BANNED"}, SetStatus(u, st) PROVE VersionInv'
  <2> DEFINE r == Revoked(u, st)
  <2>1. /\ r \in AccountRec /\ r.on = account[u].on /\ r.secret = account[u].secret
        /\ r.version = IF u \in Admins THEN account[u].version + 1 ELSE account[u].version
    BY <1>1, RevokedRow
  <2>2. account' = [account EXCEPT ![u] = r] /\ sessions' = sessions
    BY <1>4 DEF SetStatus
  <2>3. r.on => r.secret # None
    BY <2>1 DEF VersionInv, SessionsKept
  <2> HIDE DEF r
  <2>4. CASE u \in Admins
    <3>1. challenges' = WithoutChallenges(u) /\ proofs' = WithoutProofs(u)
      BY <1>4, <2>4 DEF SetStatus
    <3> QED BY <2>1, <2>2, <2>3, <2>4, <3>1, NextVersion
  <2>5. CASE u \notin Admins
    <3>1. challenges' = challenges /\ proofs' = proofs
      BY <1>4, <2>5 DEF SetStatus
    <3> QED BY <1>2, <2>1, <2>2, <2>5, <3>1, SameVersion
  <2> QED BY <2>4, <2>5
<1>5. ASSUME NEW p \in proofs, Cleanup(p) \/ \E s \in sessions : UseRoleProof(s, p) PROVE VersionInv'
  <2>1. /\ account' = account /\ sessions' = sessions /\ challenges' = challenges
        /\ proofs' \subseteq proofs
    BY <1>5 DEF Cleanup, UseRoleProof
  <2> QED BY <1>1, <2>1, SameAccounts DEF OpenProofsAreCurrent
<1>6. CASE Tick
  <2>1. UNCHANGED <<account, sessions, challenges, proofs>>
    BY <1>6 DEF Tick
  <2> QED BY <1>1, <2>1, SameAccounts DEF OpenProofsAreCurrent
<1> QED BY <1>3, <1>4, <1>5, <1>6 DEF Surroundings

LEMMA NextVersions == VersionInv /\ [Next]_vars => VersionInv'
<1>1. VersionInv /\ UNCHANGED vars => VersionInv'
  BY DEF VersionInv, SessionsKept, OpenProofsAreCurrent, TypeOK, vars
<1>2. VersionInv => TypeOK
  BY DEF VersionInv
<1> QED BY <1>1, <1>2, NextType, LoginsVersion, ManagementVersion, SurroundingsVersion DEF Next

\* Every write that raises a session version, in enable, disable, a ban or a
\* change of roles, deletes the challenges and the proofs of the user with it.
THEOREM OpenProofsStayCurrent == Spec => []OpenProofsAreCurrent
<1>1. VersionInv => OpenProofsAreCurrent
  BY DEF VersionInv
<1> QED BY <1>1, InitVersion, NextVersions, PTL DEF Spec

\* The strategy admits a session of the current version only, and whatever
\* changes the secret raises the version: a session that is admitted to an
\* account with a second factor has proved the secret enrolled now.
THEOREM SecondFactorIsProved == Spec => []SecondFactorHolds
<1>1. ASSUME VersionInv PROVE SecondFactorHolds
  <2>1. \A s \in sessions : s.user \in Users
    BY <1>1 DEF VersionInv, TypeOK, SessionRec
  <2> QED BY <1>1, <2>1 DEF VersionInv, SessionsKept, SecondFactorHolds, Admits
<1> QED BY <1>1, InitVersion, NextVersions, PTL DEF Spec

-----------------------------------------------------------------------------
\* Factors are spent once

WasSpent(f) == \E i \in 1..Len(spent) : spent[i] = f

\* Secrets of two accounts, enrolled or pending, differ, and none is to come.
SecretsApart ==
  /\ \A u \in Users : account[u].secret # None => account[u].secret <= secrets
  /\ \A u \in Users : account[u].pending # None => account[u].pending <= secrets
  /\ \A u, v \in Users : account[u].pending # None => account[u].pending # account[v].secret
  /\ \A u, v \in Users : u # v =>
       /\ account[u].secret # None => account[u].secret # account[v].secret
       /\ account[u].pending # None => account[u].pending # account[v].pending

\* A period that was accepted of a secret is behind the account's counter, and
\* none of a pending secret was.
PeriodsBehind ==
  \A f \in Factors : WasSpent(f) /\ f.kind = "TOTP" =>
    /\ f.key <= secrets
    /\ \A u \in Users : /\ account[u].pending # f.key
                        /\ account[u].secret = f.key => f.n <= account[u].last

\* Recovery codes are of the sets made so far, of one account, and not spent
\* while they are in the table.
CodesUnspent ==
  /\ \A c \in codes : c[2].kind = "RECOVERY" /\ c[2].key <= sets /\ ~WasSpent(c[2])
  /\ \A c, d \in codes : c[2] = d[2] => c = d
  /\ \A f \in Factors : WasSpent(f) /\ f.kind = "RECOVERY" => f.key <= sets

SpentInv ==
  /\ TypeOK /\ SecretsApart /\ PeriodsBehind /\ CodesUnspent
  /\ \A i, j \in 1..Len(spent) : spent[i] = spent[j] => i = j

LEMMA SpendOne ==
  ASSUME TypeOK, NEW f \in Factors, ~WasSpent(f), spent' = Append(spent, f),
         \A i, j \in 1..Len(spent) : spent[i] = spent[j] => i = j
  PROVE  /\ \A i, j \in 1..Len(spent') : spent'[i] = spent'[j] => i = j
         /\ \A g : WasSpent(g)' <=> WasSpent(g) \/ g = f
<1>1. spent \in Seq(Factors)
  BY DEF TypeOK
<1>2. /\ Len(spent) \in Nat /\ Len(spent') = Len(spent) + 1
      /\ \A i \in 1..Len(spent) : spent'[i] = spent[i]
      /\ spent'[Len(spent) + 1] = f
  BY <1>1, LenProperties, AppendProperties
<1>3. \A i \in 1..Len(spent) : spent[i] # f
  BY DEF WasSpent
<1>4. \A i \in 1..Len(spent') : i \in 1..Len(spent) \/ i = Len(spent) + 1
  BY <1>2
<1>5. Len(spent) + 1 \in 1..Len(spent') /\ \A i \in 1..Len(spent) : i \in 1..Len(spent')
  BY <1>2
<1>6. ASSUME NEW i \in 1..Len(spent'), NEW j \in 1..Len(spent'), spent'[i] = spent'[j] PROVE i = j
  BY <1>2, <1>3, <1>4, <1>6
<1>7. ASSUME NEW g PROVE WasSpent(g)' <=> WasSpent(g) \/ g = f
  <2>1. WasSpent(g)' <=> \E i \in 1..Len(spent') : spent'[i] = g
    BY DEF WasSpent
  <2>2. WasSpent(g) <=> \E i \in 1..Len(spent) : spent[i] = g
    BY DEF WasSpent
  <2> QED BY <1>2, <1>4, <1>5, <2>1, <2>2
<1> QED BY <1>6, <1>7

\* A factor that is accepted was not spent before.
LEMMA AcceptedIsNew ==
  ASSUME SpentInv, NEW u \in Users, NEW f \in Candidates(u), Accepts(u, f)
  PROVE  ~WasSpent(f)
<1>1. TypeOK /\ account[u] \in AccountRec
  BY DEF SpentInv, TypeOK
<1>2. /\ f \in Factors
      /\ \/ account[u].secret # None /\ f.kind = "TOTP" /\ f.key = account[u].secret /\ f.n > account[u].last
         \/ f.kind = "RECOVERY" /\ <<u, f>> \in codes
  BY <1>1, AcceptedFactor
<1>3. CASE f.kind = "TOTP"
  <2>1. f.n \in Int /\ account[u].last \in Int /\ f.n > account[u].last /\ account[u].secret = f.key
    BY <1>1, <1>2, <1>3 DEF Factors, AccountRec
  <2> QED BY <1>2, <1>3, <2>1 DEF SpentInv, PeriodsBehind
<1>4. CASE f.kind = "RECOVERY"
  <2>1. <<u, f>> \in codes
    BY <1>2, <1>4
  <2>2. <<u, f>>[2] = f
    OBVIOUS
  <2> QED BY <2>1, <2>2 DEF SpentInv, CodesUnspent
<1> QED BY <1>2, <1>3, <1>4

\* A step that accepts factor f of account u: the counter passes the period, the
\* code leaves the table, and the secret stays or goes.
LEMMA SpendStep ==
  ASSUME SpentInv, TypeOK', NEW u \in Users, NEW f \in Candidates(u), Accepts(u, f),
         spent' = Append(spent, f), secrets' = secrets, sets' \in {sets, sets + 1},
         NEW r \in AccountRec, account' = [account EXCEPT ![u] = r],
         r.pending \in {account[u].pending, None},
         r.secret \in {account[u].secret, None},
         r.secret # None => r.last = IF f.kind = "TOTP" THEN f.n ELSE account[u].last,
         \/ sets' = sets /\ codes' = codes \ {<<u, f>>}
         \/ codes' = WithoutCodes(u)
         \/ sets' = sets + 1 /\ codes' = WithoutCodes(u) \cup ({u} \X NewCodes)
  PROVE  SpentInv'
<1>1. /\ TypeOK /\ SecretsApart /\ PeriodsBehind /\ CodesUnspent
      /\ \A i, j \in 1..Len(spent) : spent[i] = spent[j] => i = j
      /\ account \in [Users -> AccountRec] /\ secrets \in Nat /\ sets \in Nat
      /\ codes \subseteq Users \X Factors
  BY TwoFactorAssumption DEF SpentInv, TypeOK
<1>2. /\ f \in Factors
      /\ \/ /\ account[u].secret # None /\ account[u].secret \in Secret
            /\ f.kind = "TOTP" /\ f.key = account[u].secret /\ f.n > account[u].last
         \/ f.kind = "RECOVERY" /\ <<u, f>> \in codes
  BY <1>1, AcceptedFactor
<1>3. ~WasSpent(f)
  BY AcceptedIsNew
<1>4. /\ \A i, j \in 1..Len(spent') : spent'[i] = spent'[j] => i = j
      /\ \A g : WasSpent(g)' <=> WasSpent(g) \/ g = f
  BY <1>1, <1>2, <1>3, SpendOne
<1>5. account'[u] = r /\ \A v \in Users : v # u => account'[v] = account[v]
  BY <1>1, AccountStep
<1>6. SecretsApart'
  BY <1>1, <1>5 DEF SecretsApart
<1>7. f.kind = "TOTP" =>
        /\ f.key <= secrets
        /\ \A v \in Users : account[v].pending # f.key /\ (v # u => account[v].secret # f.key)
        /\ f.key # None
  BY <1>1, <1>2 DEF SecretsApart
<1>8. PeriodsBehind'
  <2> SUFFICES ASSUME NEW g \in Factors, WasSpent(g) \/ g = f, g.kind = "TOTP"
               PROVE  /\ g.key <= secrets
                      /\ \A v \in Users : /\ account'[v].pending # g.key
                                          /\ account'[v].secret = g.key => g.n <= account'[v].last
    BY <1>4 DEF PeriodsBehind
  <2>1. g.n \in Int /\ g.key # None
    BY TwoFactorAssumption DEF Factors
  <2>2. CASE g = f
    BY <1>5, <1>7, <2>1, <2>2
  <2>3. CASE WasSpent(g)
    <3>1. /\ g.key <= secrets
          /\ \A v \in Users : /\ account[v].pending # g.key
                              /\ account[v].secret = g.key => g.n <= account[v].last
      BY <1>1, <2>3 DEF PeriodsBehind
    <3>2. account'[u].pending # g.key
      BY <1>5, <2>1, <3>1
    <3>3. account'[u].secret = g.key => g.n <= account'[u].last
      <4>1. account[u].last \in Int /\ f.n \in Int
        BY <1>1, <1>2 DEF AccountRec, Factors
      <4>2. CASE r.secret = g.key
        <5>1. account[u].secret = g.key /\ r.last = IF f.kind = "TOTP" THEN f.n ELSE account[u].last
          BY <2>1, <4>2
        <5>2. g.n <= account[u].last
          BY <3>1, <5>1
        <5> QED BY <1>2, <1>5, <2>1, <4>1, <5>1, <5>2
      <4> QED BY <1>5, <4>2
    <3> QED BY <1>5, <3>1, <3>2, <3>3
  <2> QED BY <2>2, <2>3
<1>9. CodesUnspent'
  <2>1. \A c \in codes : /\ c[1] \in Users /\ c[2] \in Factors /\ c = <<c[1], c[2]>>
                         /\ c[2].kind = "RECOVERY" /\ c[2].key <= sets /\ ~WasSpent(c[2])
    BY <1>1 DEF CodesUnspent
  <2>2. \A g \in Factors : g.key \in Nat
    BY DEF Factors
  <2>3. \A c \in codes : c[2] = f => c = <<u, f>>
    <3> TAKE c \in codes
    <3>1. CASE f.kind = "TOTP"
      BY <2>1, <3>1
    <3>2. CASE <<u, f>> \in codes
      <4>1. <<u, f>>[2] = f
        OBVIOUS
      <4> QED BY <1>1, <3>2, <4>1 DEF CodesUnspent
    <3> QED BY <1>2, <3>1, <3>2
  <2>4. \A c \in codes' \cap codes : c[2] # f
    <3>1. \A c \in {u} \X NewCodes : c[2].key = sets + 1
      BY DEF NewCodes, Recovery
    <3>2. \A c \in codes : c \notin {u} \X NewCodes
      BY <1>1, <2>1, <2>2, <3>1
    <3>3. <<u, f>>[1] = u
      OBVIOUS
    <3>4. <<u, f>> \notin codes' \cap codes
      BY <3>2, <3>3 DEF WithoutCodes
    <3> QED BY <2>3, <3>4
  <2>5. ASSUME NEW c \in codes', c \notin codes
        PROVE  c[2].kind = "RECOVERY" /\ c[2].key = sets + 1 /\ sets' = sets + 1 /\ c[1] = u
    BY <2>5 DEF WithoutCodes, NewCodes, Recovery
  <2>6. \A g \in Factors : WasSpent(g)' /\ g.kind = "RECOVERY" => g.key <= sets
    <3> SUFFICES ASSUME NEW g \in Factors, WasSpent(g) \/ g = f, g.kind = "RECOVERY"
                 PROVE  g.key <= sets
      BY <1>4
    <3>1. CASE g = f
      <4>1. <<u, f>> \in codes /\ <<u, f>>[2] = f
        BY <1>2, <3>1
      <4> QED BY <2>1, <3>1, <4>1
    <3> QED BY <1>1, <3>1 DEF CodesUnspent
  <2>7. \A c \in codes' : c[2] \in Factors
    BY DEF TypeOK
  <2>8. ASSUME NEW c \in codes'
        PROVE  c[2].kind = "RECOVERY" /\ c[2].key <= sets' /\ ~WasSpent(c[2])'
    <3>1. CASE c \in codes
      <4>1. ~WasSpent(c[2]) /\ c[2] # f
        BY <2>1, <2>4, <3>1
      <4>2. c[2].key \in Nat
        BY <2>1, <2>2, <3>1
      <4> QED BY <1>1, <1>4, <2>1, <3>1, <4>1, <4>2
    <3>2. CASE c \notin codes
      <4>1. c[2].kind = "RECOVERY" /\ c[2].key = sets + 1 /\ sets' = sets + 1 /\ c[2] \in Factors
        BY <2>5, <2>7, <3>2
      <4> QED BY <1>1, <2>6, <4>1
    <3> QED BY <3>1, <3>2
  <2>9. ASSUME NEW c \in codes', NEW d \in codes', c[2] = d[2] PROVE c = d
    <3>1. CASE c \in codes /\ d \in codes
      BY <1>1, <2>9, <3>1 DEF CodesUnspent
    <3>2. CASE c \notin codes /\ d \notin codes
      <4>1. c[1] = u /\ d[1] = u
        BY <2>5, <3>2
      <4>2. c = <<c[1], c[2]>> /\ d = <<d[1], d[2]>>
        BY DEF TypeOK
      <4> QED BY <2>9, <4>1, <4>2
    <3>3. CASE c \in codes /\ d \notin codes
      BY <1>1, <2>1, <2>2, <2>5, <2>9, <3>3
    <3>4. CASE c \notin codes /\ d \in codes
      BY <1>1, <2>1, <2>2, <2>5, <2>9, <3>4
    <3> QED BY <3>1, <3>2, <3>3, <3>4
  <2>10. \A g \in Factors : WasSpent(g)' /\ g.kind = "RECOVERY" => g.key <= sets'
    <3> TAKE g \in Factors
    <3>1. g.key \in Nat
      BY <2>2
    <3> QED BY <1>1, <2>6, <3>1
  <2> QED BY <2>8, <2>9, <2>10 DEF CodesUnspent
<1> QED BY <1>4, <1>6, <1>8, <1>9 DEF SpentInv

\* A step that accepts no factor and leaves the codes, the secrets and the
\* counters alone.
LEMMA QuietSpent ==
  ASSUME SpentInv, TypeOK', UNCHANGED <<codes, secrets, sets, spent>>,
         \A v \in Users : /\ account'[v].secret = account[v].secret
                          /\ account'[v].pending = account[v].pending
                          /\ account'[v].last = account[v].last
  PROVE  SpentInv'
<1>1. /\ SecretsApart /\ PeriodsBehind /\ CodesUnspent
      /\ \A i, j \in 1..Len(spent) : spent[i] = spent[j] => i = j
  BY DEF SpentInv
<1>2. \A g : WasSpent(g)' <=> WasSpent(g)
  BY DEF WasSpent
<1>3. SecretsApart'
  BY <1>1 DEF SecretsApart
<1>4. PeriodsBehind'
  BY <1>1, <1>2 DEF PeriodsBehind
<1>5. CodesUnspent'
  BY <1>1, <1>2 DEF CodesUnspent
<1> QED BY <1>1, <1>3, <1>4, <1>5 DEF SpentInv

LEMMA QuietRow ==
  ASSUME SpentInv, TypeOK', UNCHANGED <<codes, secrets, sets, spent>>,
         NEW u \in Users, NEW r \in AccountRec, account' = [account EXCEPT ![u] = r],
         r.secret = account[u].secret, r.pending = account[u].pending, r.last = account[u].last
  PROVE  SpentInv'
<1>1. account'[u] = r /\ \A v \in Users : v # u => account'[v] = account[v]
  BY AccountStep DEF SpentInv
<1> QED BY <1>1, QuietSpent

\* The secret a setup makes is new: nothing was accepted of it, no account has it.
LEMMA SetupSpent ==
  ASSUME SpentInv, TypeOK', NEW s \in sessions, NEW p \in proofs, Setup(s, p)
  PROVE  SpentInv'
<1> DEFINE u == s.user
<1>1. /\ TypeOK /\ SecretsApart /\ PeriodsBehind /\ CodesUnspent
      /\ \A i, j \in 1..Len(spent) : spent[i] = spent[j] => i = j
      /\ account \in [Users -> AccountRec] /\ u \in Users /\ secrets \in Nat
  BY TwoFactorAssumption DEF SpentInv, TypeOK, SessionRec
<1>2. PICK r \in AccountRec :
        /\ account' = [account EXCEPT ![u] = r]
        /\ r.secret = account[u].secret /\ r.pending = secrets + 1 /\ r.last = account[u].last
  BY <1>1, SetupRow
<1>3. account'[u] = r /\ \A v \in Users : v # u => account'[v] = account[v]
  BY <1>1, <1>2, AccountStep
<1>4. secrets' = secrets + 1 /\ UNCHANGED <<codes, sets, spent>>
  BY DEF Setup
<1>5. \A g : WasSpent(g)' <=> WasSpent(g)
  BY <1>4 DEF WasSpent
<1>6. /\ secrets + 1 # None /\ secrets + 1 \in Nat
      /\ \A v \in Users : /\ account[v].secret # None => account[v].secret \in Nat
                          /\ account[v].pending # None => account[v].pending \in Nat
  BY <1>1, TwoFactorAssumption DEF AccountRec, Secret
<1>7. \A v \in Users : account[v].secret # secrets + 1 /\ account[v].pending # secrets + 1
  BY <1>1, <1>6 DEF SecretsApart
<1>8. SecretsApart'
  BY <1>1, <1>2, <1>3, <1>4, <1>6, <1>7 DEF SecretsApart
<1>9. PeriodsBehind'
  <2> SUFFICES ASSUME NEW g \in Factors, WasSpent(g), g.kind = "TOTP"
               PROVE  /\ g.key <= secrets + 1
                      /\ \A v \in Users : /\ account'[v].pending # g.key
                                          /\ account'[v].secret = g.key => g.n <= account'[v].last
    BY <1>4, <1>5 DEF PeriodsBehind
  <2>1. g.key \in Nat
    BY DEF Factors
  <2>2. /\ g.key <= secrets
        /\ \A v \in Users : /\ account[v].pending # g.key
                            /\ account[v].secret = g.key => g.n <= account[v].last
    BY <1>1 DEF PeriodsBehind
  <2> QED BY <1>1, <1>2, <1>3, <2>1, <2>2
<1>10. CodesUnspent'
  BY <1>1, <1>4, <1>5 DEF CodesUnspent
<1> QED BY <1>1, <1>4, <1>8, <1>9, <1>10 DEF SpentInv

\* Enabling accepts the first period of the pending secret and makes new codes.
LEMMA EnableSpent ==
  ASSUME SpentInv, TypeOK', NEW s \in sessions, NEW p \in proofs, NEW n \in Int,
         Enable(s, p, Totp(account[s.user].pending, n))
  PROVE  SpentInv'
<1> DEFINE u == s.user
           f == Totp(account[u].pending, n)
           r == Enabled(u, f)
<1>1. /\ TypeOK /\ SecretsApart /\ PeriodsBehind /\ CodesUnspent
      /\ \A i, j \in 1..Len(spent) : spent[i] = spent[j] => i = j
      /\ account \in [Users -> AccountRec] /\ u \in Users /\ secrets \in Nat /\ sets \in Nat
      /\ codes \subseteq Users \X Factors
  BY TwoFactorAssumption DEF SpentInv, TypeOK, SessionRec
<1>2. account[u].pending # None /\ account[u].pending \in Secret
  BY <1>1 DEF Enable, AccountRec
<1>3. /\ f \in Factors /\ f.kind = "TOTP" /\ f.key = account[u].pending /\ f.n = n
  BY <1>2 DEF Totp, Factors, Secret
<1> HIDE DEF f
<1>4. /\ account' = [account EXCEPT ![u] = r] /\ spent' = Append(spent, f)
      /\ secrets' = secrets /\ sets' = sets + 1
      /\ codes' = WithoutCodes(u) \cup ({u} \X NewCodes)
  BY DEF Enable, f
<1>5. /\ r \in AccountRec
      /\ r.secret = account[u].pending /\ r.pending = None /\ r.last = n
  BY <1>1, <1>3, EnabledRow
<1> HIDE DEF r
<1>6. account'[u] = r /\ \A v \in Users : v # u => account'[v] = account[v]
  BY <1>1, <1>4, <1>5, AccountStep
<1>7. ~WasSpent(f)
  BY <1>1, <1>3 DEF PeriodsBehind
<1>8. /\ \A i, j \in 1..Len(spent') : spent'[i] = spent'[j] => i = j
      /\ \A g : WasSpent(g)' <=> WasSpent(g) \/ g = f
  BY <1>1, <1>3, <1>4, <1>7, SpendOne
<1>9. SecretsApart'
  BY <1>1, <1>2, <1>4, <1>5, <1>6 DEF SecretsApart
<1>10. PeriodsBehind'
  <2> SUFFICES ASSUME NEW g \in Factors, WasSpent(g) \/ g = f, g.kind = "TOTP"
               PROVE  /\ g.key <= secrets
                      /\ \A v \in Users : /\ account'[v].pending # g.key
                                          /\ account'[v].secret = g.key => g.n <= account'[v].last
    BY <1>4, <1>8 DEF PeriodsBehind
  <2>1. g.key \in Nat /\ g.key # None /\ g.n \in Int
    BY TwoFactorAssumption DEF Factors
  <2>2. CASE WasSpent(g)
    <3>1. /\ g.key <= secrets
          /\ \A v \in Users : /\ account[v].pending # g.key
                              /\ account[v].secret = g.key => g.n <= account[v].last
      BY <1>1, <2>2 DEF PeriodsBehind
    <3> QED BY <1>1, <1>5, <1>6, <2>1, <3>1
  <2>3. CASE g = f
    <3>1. g.key = account[u].pending /\ g.n = n
      BY <1>3, <2>3
    <3>2. g.key <= secrets
      BY <1>1, <1>2, <3>1 DEF SecretsApart
    <3>3. \A v \in Users : v # u => account[v].pending # g.key /\ account[v].secret # g.key
      BY <1>1, <1>2, <3>1 DEF SecretsApart
    <3> QED BY <1>5, <1>6, <2>1, <3>1, <3>2, <3>3
  <2> QED BY <2>2, <2>3
<1>11. CodesUnspent'
  <2>1. \A g \in Factors : WasSpent(g)' /\ g.kind = "RECOVERY" => g.key <= sets
    BY <1>1, <1>3, <1>8 DEF CodesUnspent
  <2>2. \A g \in Factors : g.key \in Nat
    BY DEF Factors
  <2>3. \A c \in codes' : c \in Users \X Factors /\ c = <<c[1], c[2]>> /\ c[2] \in Factors
    BY DEF TypeOK
  <2>4. \A c \in {u} \X NewCodes : c[1] = u /\ c[2].kind = "RECOVERY" /\ c[2].key = sets + 1
    BY DEF NewCodes, Recovery
  <2>5. \A c \in codes' : c \in codes \/ c \in {u} \X NewCodes
    BY <1>4 DEF WithoutCodes
  <2>6. \A c \in codes : c[2].kind = "RECOVERY" /\ c[2].key <= sets /\ ~WasSpent(c[2]) /\ c[2] # f
    BY <1>1, <1>3 DEF CodesUnspent
  <2>7. ASSUME NEW c \in codes'
        PROVE  c[2].kind = "RECOVERY" /\ c[2].key <= sets' /\ ~WasSpent(c[2])'
    <3>1. c[2].key \in Nat /\ c[2] \in Factors
      BY <2>2, <2>3
    <3>2. CASE c \in codes
      BY <1>1, <1>4, <1>8, <2>6, <3>1, <3>2
    <3>3. CASE c \in {u} \X NewCodes
      BY <1>1, <1>4, <2>1, <2>4, <3>1, <3>3
    <3> QED BY <2>5, <3>2, <3>3
  <2>8. ASSUME NEW c \in codes', NEW d \in codes', c[2] = d[2] PROVE c = d
    <3>1. c[2].key \in Nat /\ c = <<c[1], c[2]>> /\ d = <<d[1], d[2]>>
      BY <2>2, <2>3
    <3>2. CASE c \in codes /\ d \in codes
      BY <1>1, <2>8, <3>2 DEF CodesUnspent
    <3>3. CASE c \in {u} \X NewCodes /\ d \in {u} \X NewCodes
      BY <2>4, <2>8, <3>1, <3>3
    <3>4. CASE ~(c \in codes /\ d \in codes) /\ ~(c \in {u} \X NewCodes /\ d \in {u} \X NewCodes)
      BY <1>1, <2>4, <2>5, <2>6, <2>8, <3>1, <3>4
    <3> QED BY <3>2, <3>3, <3>4
  <2>9. \A g \in Factors : WasSpent(g)' /\ g.kind = "RECOVERY" => g.key <= sets'
    BY <1>1, <1>4, <2>1, <2>2
  <2> QED BY <2>7, <2>8, <2>9 DEF CodesUnspent
<1> QED BY <1>8, <1>9, <1>10, <1>11 DEF SpentInv

LEMMA InitSpent == Init => SpentInv
<1> SUFFICES ASSUME Init PROVE SpentInv
  OBVIOUS
<1>1. TypeOK
  BY InitType
<1>2. /\ spent = <<>> /\ codes = {}
      /\ \A u \in Users : account[u].secret = None /\ account[u].pending = None
  BY DEF Init
<1>3. \A f : ~WasSpent(f)
  BY <1>2 DEF WasSpent
<1> QED BY <1>1, <1>2, <1>3 DEF SpentInv, SecretsApart, PeriodsBehind, CodesUnspent

LEMMA NextSpent == SpentInv /\ [Next]_vars => SpentInv'
<1> SUFFICES ASSUME SpentInv, [Next]_vars PROVE SpentInv'
  OBVIOUS
<1>1. TypeOK /\ TypeOK'
  BY NextType DEF SpentInv
<1>2. /\ \A s \in sessions : s.user \in Users
      /\ \A c \in challenges : c.user \in Users
      /\ \A u \in Users : account[u] \in AccountRec
      /\ now \in Nat
  BY <1>1 DEF TypeOK, SessionRec, ChallengeRec
<1>3. ASSUME NEW u \in Users, NEW f \in Candidates(u), Accepts(u, f)
      PROVE  LET r == AfterFactor(u, f)
             IN  /\ r \in AccountRec /\ r.secret = account[u].secret
                 /\ r.pending = account[u].pending
                 /\ r.last = IF f.kind = "TOTP" THEN f.n ELSE account[u].last
  <2>1. f \in Factors
    BY <1>1, <1>3, AcceptedFactor
  <2> QED BY <1>1, <2>1, AfterFactorRow
<1>4. ASSUME NEW c \in challenges, NEW f \in Candidates(c.user), CompleteLogin(c, f) PROVE SpentInv'
  <2> DEFINE u == c.user
             r == AfterFactor(u, f)
  <2>1. u \in Users /\ Accepts(u, f)
    BY <1>2, <1>4 DEF CompleteLogin
  <2>2. /\ r \in AccountRec /\ r.secret = account[u].secret /\ r.pending = account[u].pending
        /\ r.last = IF f.kind = "TOTP" THEN f.n ELSE account[u].last
    BY <1>3, <2>1
  <2>3. /\ account' = [account EXCEPT ![u] = r] /\ spent' = Append(spent, f)
        /\ secrets' = secrets /\ sets' = sets /\ codes' = codes \ {<<u, f>>}
    BY <1>4 DEF CompleteLogin
  <2> HIDE DEF r, u
  <2>4. f \in Candidates(u)
    BY DEF u
  <2> QED BY <1>1, <2>1, <2>2, <2>3, <2>4, SpendStep
<1>5. ASSUME NEW s \in sessions, NEW purpose \in Purposes, NEW f \in Candidates(s.user),
             ReauthenticateWithFactor(s, purpose, f)
      PROVE  SpentInv'
  <2> DEFINE u == s.user
             r == AfterFactor(u, f)
  <2>1. u \in Users /\ Accepts(u, f)
    BY <1>2, <1>5 DEF ReauthenticateWithFactor
  <2>2. /\ r \in AccountRec /\ r.secret = account[u].secret /\ r.pending = account[u].pending
        /\ r.last = IF f.kind = "TOTP" THEN f.n ELSE account[u].last
    BY <1>3, <2>1
  <2>3. /\ account' = [account EXCEPT ![u] = r] /\ spent' = Append(spent, f)
        /\ secrets' = secrets /\ sets' = sets /\ codes' = codes \ {<<u, f>>}
    BY <1>5 DEF ReauthenticateWithFactor
  <2> HIDE DEF r, u
  <2>4. f \in Candidates(u)
    BY DEF u
  <2> QED BY <1>1, <2>1, <2>2, <2>3, <2>4, SpendStep
<1>6. ASSUME NEW s \in sessions, NEW p \in proofs, NEW f \in Candidates(s.user), Regenerate(s, p, f)
      PROVE  SpentInv'
  <2> DEFINE u == s.user
             r == AfterFactor(u, f)
  <2>1. u \in Users /\ Accepts(u, f)
    BY <1>2, <1>6 DEF Regenerate
  <2>2. /\ r \in AccountRec /\ r.secret = account[u].secret /\ r.pending = account[u].pending
        /\ r.last = IF f.kind = "TOTP" THEN f.n ELSE account[u].last
    BY <1>3, <2>1
  <2>3. /\ account' = [account EXCEPT ![u] = r] /\ spent' = Append(spent, f)
        /\ secrets' = secrets /\ sets' = sets + 1
        /\ codes' = WithoutCodes(u) \cup ({u} \X NewCodes)
    BY <1>6 DEF Regenerate
  <2> HIDE DEF r, u
  <2>4. f \in Candidates(u)
    BY DEF u
  <2> QED BY <1>1, <2>1, <2>2, <2>3, <2>4, SpendStep
<1>7. ASSUME NEW s \in sessions, NEW p \in proofs, NEW f \in Candidates(s.user), Disable(s, p, f)
      PROVE  SpentInv'
  <2> DEFINE u == s.user
             r == Disabled(u)
  <2>1. u \in Users /\ Accepts(u, f)
    BY <1>2, <1>7 DEF Disable
  <2>2. r \in AccountRec /\ r.secret = None /\ r.pending = None
    BY <1>1, <2>1, DisabledRow
  <2>3. /\ account' = [account EXCEPT ![u] = r] /\ spent' = Append(spent, f)
        /\ secrets' = secrets /\ sets' = sets /\ codes' = WithoutCodes(u)
    BY <1>7 DEF Disable
  <2> HIDE DEF r, u
  <2>4. f \in Candidates(u)
    BY DEF u
  <2> QED BY <1>1, <2>1, <2>2, <2>3, <2>4, SpendStep
<1>8. ASSUME NEW s \in sessions, NEW p \in proofs, NEW i \in -1..1,
             Enable(s, p, Totp(account[s.user].pending, now + i))
      PROVE  SpentInv'
  <2>1. now + i \in Int
    BY <1>2
  <2> QED BY <1>1, <1>8, <2>1, EnableSpent
<1>9. ASSUME NEW u \in Users, SetRoles(u) PROVE SpentInv'
  <2>1. UNCHANGED <<codes, secrets, sets, spent>>
    BY <1>9 DEF SetRoles
  <2> QED BY <1>1, <1>9, <2>1, RolesRow, QuietRow
<1>10. ASSUME NEW u \in Users, NEW st \in {"ACTIVE", "BANNED"}, SetStatus(u, st) PROVE SpentInv'
  <2> DEFINE r == Revoked(u, st)
  <2>1. UNCHANGED <<codes, secrets, sets, spent>> /\ account' = [account EXCEPT ![u] = r]
    BY <1>10 DEF SetStatus
  <2>2. /\ r \in AccountRec /\ r.secret = account[u].secret
        /\ r.pending = account[u].pending /\ r.last = account[u].last
    BY <1>1, RevokedRow
  <2> HIDE DEF r
  <2> QED BY <1>1, <2>1, <2>2, QuietRow
<1>11. ASSUME UNCHANGED <<account, codes, secrets, sets, spent>> PROVE SpentInv'
  BY <1>1, <1>11, QuietSpent
<1>12. CASE Logins
  BY <1>4, <1>11, <1>12 DEF Logins, PasswordLogin, FailLogin
<1>13. CASE Management
  BY <1>1, <1>5, <1>6, <1>7, <1>8, <1>11, <1>13, SetupSpent DEF Management, Reauthenticate
<1>14. CASE Surroundings
  BY <1>9, <1>10, <1>11, <1>14 DEF Surroundings, Cleanup, UseRoleProof, Tick
<1>15. CASE UNCHANGED vars
  BY <1>11, <1>15 DEF vars
<1> QED BY <1>12, <1>13, <1>14, <1>15 DEF Next

\* verifyTotp asks for a period after the last one accepted and consumeFactor
\* stores it or deletes the code, under the lock of the user's row: no period of
\* a secret and no recovery code is accepted twice, and no new secret or set of
\* codes repeats one.
THEOREM FactorsAreSpentOnce == Spec => []FactorsSpentOnce
<1>1. ASSUME SpentInv PROVE FactorsSpentOnce
  <2>1. spent \in Seq(Factors)
    BY <1>1 DEF SpentInv, TypeOK
  <2>2. DOMAIN spent = 1..Len(spent)
    BY <2>1, LenProperties
  <2> QED BY <1>1, <2>2 DEF SpentInv, FactorsSpentOnce
<1> QED BY <1>1, InitSpent, NextSpent, PTL DEF Spec

=============================================================================
