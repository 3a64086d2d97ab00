------------------------------ MODULE TwoFactor ------------------------------
(***************************************************************************)
(* Password login, the second factor and fresh password proofs             *)
(* (apps/api/src/auth). Every handler works under the lock of the user's   *)
(* row in one transaction, so it is one step; the session it was admitted  *)
(* with was checked earlier, so the step may be of any session ever signed.*)
(*                                                                         *)
(* A used token or code is a row no later statement selects: it is removed.*)
(* Time counts TOTP periods. Passwords are right: a wrong one is refused   *)
(* before anything is written. The rate limits, the feature flag enable2FA *)
(* and a missing encryption key only refuse: refusing is not a step.       *)
(***************************************************************************)
EXTENDS Integers, Sequences, FiniteSets

CONSTANTS
  Users,        \* human accounts
  Admins,       \* those with the base role ADMIN
  None,         \* no secret, no pending secret
  CodesPerSet,  \* recovery codes made at once: 10 in the code
  MaxAttempts,  \* codes tried against one challenge: 5 in the code
  ProofLife,    \* life of a challenge and of a proof: 10 periods in the code
  SetupLife,    \* life of a pending secret: 20 periods in the code
  Purposes,     \* what a proof may be for
  MaxTime, MaxVersion, MaxSecrets, MaxSets, MaxProofs,  \* bounds of the model
  MaxSessions   \* bound: a password login begins with fewer sessions

ASSUME TwoFactorAssumption ==
  /\ Admins \subseteq Users
  /\ CodesPerSet \in Nat /\ MaxAttempts \in Nat /\ ProofLife \in Nat /\ SetupLife \in Nat
  /\ MaxTime \in Nat /\ MaxVersion \in Nat /\ MaxSecrets \in Nat /\ MaxSets \in Nat
  /\ None \notin Nat
  /\ Purposes \subseteq {"2fa-setup", "2fa-enable", "2fa-disable",
                         "2fa-recovery-regenerate", "admin-roles"}

VARIABLES
  now,         \* Date.now() in TOTP periods
  account,     \* the authentication columns of users
  codes,       \* two_factor_recovery_codes not used yet
  challenges,  \* two_factor_login_challenges not used yet
  proofs,      \* auth_reauth_tokens not used yet
  sessions,    \* every token signed so far
  secrets,     \* number of TOTP secrets made so far
  sets,        \* number of sets of recovery codes made so far
  spent        \* history: the factors accepted so far, in order

vars == <<now, account, codes, challenges, proofs, sessions, secrets, sets, spent>>

Secret == 1..MaxSecrets
AccountRec == [status : {"ACTIVE", "BANNED"}, on : BOOLEAN, secret : Secret \cup {None},
               pending : Secret \cup {None}, until : Nat, last : Int, version : Nat]
ChallengeRec == [user : Users, version : Nat, attempts : 0..MaxAttempts, until : Nat]
ProofRec == [user : Users, purpose : Purposes, version : Nat, until : Nat]
\* A TOTP code is its secret and period; a recovery code its set and number.
Totp(s, p) == [kind |-> "TOTP", key |-> s, n |-> p]
Recovery(s, i) == [kind |-> "RECOVERY", key |-> s, n |-> i]
Factors == [kind : {"TOTP", "RECOVERY"}, key : Nat, n : Int]
\* The basis of a session is the secret its second factor proved, if any.
Session(u, v, m, b) == [user |-> u, version |-> v, amr |-> m, basis |-> b]
SessionRec == [user : Users, version : Nat, amr : {"password", "mfa"}, basis : Nat \cup {None}]

NewCodes == {Recovery(sets + 1, i) : i \in 1..CodesPerSet}
CodesOf(u) == {c[2] : c \in {d \in codes : d[1] = u}}
WithoutCodes(u) == {c \in codes : c[1] # u}
WithoutChallenges(u) == {c \in challenges : c.user # u}
WithoutProofs_Kept(u) == proofs
WithoutProofs(u) == {p \in proofs : p.user # u}

\* The guard admits a session (jwt.strategy).
Admits(s) ==
  /\ s.version = account[s.user].version
  /\ account[s.user].on => s.amr = "mfa"
  /\ account[s.user].status # "BANNED"

\* lockedUser: the row is locked and the session checked once more.
Locked(s) == account[s.user].status # "BANNED" /\ account[s.user].version = s.version

\* consumeReauth accepts the proof p.
Fresh(p, s, purpose) == p.user = s.user /\ p.purpose = purpose /\ p.until > now

\* verifyTotp: a period at most one away, after the last one accepted.
InStep(f, secret) == f.kind = "TOTP" /\ f.key = secret /\ f.n \in (now - 1)..(now + 1)
Accepts(u, f) ==
  \/ account[u].secret # None /\ InStep(f, account[u].secret) /\ f.n > account[u].last
  \/ f.kind = "RECOVERY" /\ <<u, f>> \in codes
Candidates(u) == {Totp(account[u].secret, p) : p \in (now - 1)..(now + 1)} \cup CodesOf(u)
AfterFactor_KeepsCounter(u, f) == account[u]

\* consumeFactor: the counter moves to the period accepted, the code is used.
AfterFactor(u, f) == IF f.kind = "TOTP" THEN [account[u] EXCEPT !.last = f.n] ELSE account[u]

-----------------------------------------------------------------------------
PasswordLogin(u) ==
  /\ Cardinality(sessions) < MaxSessions
  /\ account[u].status # "BANNED"
  /\ IF account[u].on
     THEN /\ challenges' = WithoutChallenges(u) \cup
               {[user |-> u, version |-> account[u].version, attempts |-> 0,
                 until |-> now + ProofLife]}
          /\ UNCHANGED sessions
     ELSE /\ sessions' = sessions \cup {Session(u, account[u].version, "password", None)}
          /\ UNCHANGED challenges
  /\ UNCHANGED <<now, account, codes, proofs, secrets, sets, spent>>

\* What a challenge still admits when a code comes with it.
Open(c) == /\ account[c.user].status # "BANNED"
           /\ c.attempts < MaxAttempts
           /\ c.until > now
           /\ c.version = account[c.user].version
           /\ account[c.user].on

CompleteLogin(c, f) ==
  /\ Open(c) /\ Accepts(c.user, f)
  /\ challenges' = challenges \ {c}
  /\ account' = [account EXCEPT ![c.user] = AfterFactor(c.user, f)]
  /\ codes' = codes \ {<<c.user, f>>}
  /\ spent' = Append(spent, f)
  /\ sessions' = sessions \cup
       {Session(c.user, account[c.user].version, "mfa", account[c.user].secret)}
  /\ UNCHANGED <<now, proofs, secrets, sets>>

\* A wrong code is counted: the transaction commits and the request fails.
FailLogin(c) ==
  /\ Open(c)
  /\ challenges' = (challenges \ {c}) \cup {[c EXCEPT !.attempts = @ + 1]}
  /\ UNCHANGED <<now, account, codes, proofs, sessions, secrets, sets, spent>>

\* Of role proofs only the factor is asked too, when one is enrolled.
NeedsFactor(u, purpose) == purpose = "admin-roles" /\ account[u].on
Reissued(s, purpose) ==
  {p \in proofs : p.user # s.user \/ p.purpose # purpose} \cup
    {[user |-> s.user, purpose |-> purpose, version |-> account[s.user].version,
      until |-> now + ProofLife]}

Reauthenticate(s, purpose) ==
  /\ Locked(s)
  /\ ~NeedsFactor(s.user, purpose)
  /\ proofs' = Reissued(s, purpose) /\ Cardinality(proofs') <= MaxProofs
  /\ UNCHANGED <<now, account, codes, challenges, sessions, secrets, sets, spent>>

ReauthenticateWithFactor(s, purpose, f) ==
  /\ Locked(s)
  /\ NeedsFactor(s.user, purpose) /\ Accepts(s.user, f)
  /\ proofs' = Reissued(s, purpose) /\ Cardinality(proofs') <= MaxProofs
  /\ account' = [account EXCEPT ![s.user] = AfterFactor(s.user, f)]
  /\ codes' = codes \ {<<s.user, f>>}
  /\ spent' = Append(spent, f)
  /\ UNCHANGED <<now, challenges, sessions, secrets, sets>>

Setup(s, p) ==
  /\ secrets < MaxSecrets
  /\ Locked(s) /\ Fresh(p, s, "2fa-setup") /\ ~account[s.user].on
  /\ proofs' = proofs \ {p}
  /\ secrets' = secrets + 1
  /\ account' = [account EXCEPT ![s.user].pending = secrets + 1,
                                ![s.user].until = now + SetupLife]
  /\ UNCHANGED <<now, codes, challenges, sessions, sets, spent>>

Enabled_SameVersion(u, f) ==
  [account[u] EXCEPT !.on = TRUE, !.secret = account[u].pending, !.pending = None,
                     !.until = 0, !.last = f.n]

Enabled(u, f) ==
  [account[u] EXCEPT !.on = TRUE, !.secret = account[u].pending, !.pending = None,
                     !.until = 0, !.last = f.n, !.version = account[u].version + 1]

Enable(s, p, f) ==
  /\ sets < MaxSets /\ account[s.user].version < MaxVersion
  /\ Locked(s) /\ Fresh(p, s, "2fa-enable")
  /\ ~account[s.user].on /\ account[s.user].pending # None /\ account[s.user].until > now
  /\ InStep(f, account[s.user].pending)
  /\ account' = [account EXCEPT ![s.user] = Enabled(s.user, f)]
  /\ codes' = WithoutCodes(s.user) \cup ({s.user} \X NewCodes)
  /\ sets' = sets + 1
  /\ challenges' = WithoutChallenges(s.user)
  /\ proofs' = WithoutProofs(s.user)
  /\ spent' = Append(spent, f)
  /\ sessions' = sessions \cup
       {Session(s.user, account[s.user].version + 1, "mfa", account[s.user].pending)}
  /\ UNCHANGED <<now, secrets>>

Regenerate(s, p, f) ==
  /\ sets < MaxSets
  /\ Locked(s) /\ Fresh(p, s, "2fa-recovery-regenerate")
  /\ account[s.user].on /\ Accepts(s.user, f)
  /\ account' = [account EXCEPT ![s.user] = AfterFactor(s.user, f)]
  /\ codes' = WithoutCodes(s.user) \cup ({s.user} \X NewCodes)
  /\ sets' = sets + 1
  /\ proofs' = proofs \ {p}
  /\ spent' = Append(spent, f)
  /\ sessions' = sessions \cup
       {Session(s.user, account[s.user].version, "mfa", account[s.user].secret)}
  /\ UNCHANGED <<now, challenges, secrets>>

Disabled(u) ==
  [account[u] EXCEPT !.on = FALSE, !.secret = None, !.pending = None, !.until = 0,
                     !.last = -1, !.version = account[u].version + 1]

Disable(s, p, f) ==
  /\ account[s.user].version < MaxVersion
  /\ Locked(s) /\ Fresh(p, s, "2fa-disable")
  /\ account[s.user].on /\ Accepts(s.user, f)
  /\ account' = [account EXCEPT ![s.user] = Disabled(s.user)]
  /\ codes' = WithoutCodes(s.user)
  /\ challenges' = WithoutChallenges(s.user)
  /\ proofs' = WithoutProofs(s.user)
  /\ spent' = Append(spent, f)
  /\ sessions' = sessions \cup
       {Session(s.user, account[s.user].version + 1, "mfa", account[s.user].secret)}
  /\ UNCHANGED <<now, secrets, sets>>

-----------------------------------------------------------------------------
\* A ban, or its end. An administrator's sessions and proofs go with it.
Revoked(u, st) ==
  [account[u] EXCEPT !.status = st,
                     !.version = IF u \in Admins THEN account[u].version + 1 ELSE @]

SetStatus(u, st) ==
  /\ account[u].status # st
  /\ account[u].version < MaxVersion
  /\ account' = [account EXCEPT ![u] = Revoked(u, st)]
  /\ challenges' = IF u \in Admins THEN WithoutChallenges(u) ELSE challenges
  /\ proofs' = IF u \in Admins THEN WithoutProofs(u) ELSE proofs
  /\ UNCHANGED <<now, codes, sessions, secrets, sets, spent>>

SetRoles(u) ==
  /\ account[u].version < MaxVersion
  /\ account' = [account EXCEPT ![u].version = @ + 1]
  /\ challenges' = WithoutChallenges(u)
  /\ proofs' = WithoutProofs(u)
  /\ UNCHANGED <<now, codes, sessions, secrets, sets, spent>>

Tick ==
  /\ now < MaxTime
  /\ now' = now + 1
  /\ UNCHANGED <<account, codes, challenges, proofs, sessions, secrets, sets, spent>>

\* The hourly cleanup takes proofs that expired a day ago.
Cleanup(p) ==
  /\ p.until < now
  /\ proofs' = proofs \ {p}
  /\ UNCHANGED <<now, account, codes, challenges, sessions, secrets, sets, spent>>

\* setRoles consumes a proof its actor has made (AdminRoles).
UseRoleProof(s, p) ==
  /\ Locked(s) /\ Fresh(p, s, "admin-roles")
  /\ proofs' = proofs \ {p}
  /\ UNCHANGED <<now, account, codes, challenges, sessions, secrets, sets, spent>>

-----------------------------------------------------------------------------
Init ==
  /\ now = 1
  /\ account = [u \in Users |-> [status |-> "ACTIVE", on |-> FALSE, secret |-> None,
       pending |-> None, until |-> 0, last |-> -1, version |-> 0]]
  /\ codes = {} /\ challenges = {} /\ proofs = {} /\ sessions = {}
  /\ secrets = 0 /\ sets = 0 /\ spent = <<>>

Logins ==
  \/ \E u \in Users : PasswordLogin(u)
  \/ \E c \in challenges : FailLogin(c) \/ \E f \in Candidates(c.user) : CompleteLogin(c, f)

Management ==
  \E s \in sessions :
    \/ \E purpose \in Purposes :
         \/ Reauthenticate(s, purpose)
         \/ \E f \in Candidates(s.user) : ReauthenticateWithFactor(s, purpose, f)
    \/ \E p \in proofs :
         \/ Setup(s, p)
         \/ \E i \in -1..1 : Enable(s, p, Totp(account[s.user].pending, now + i))
         \/ \E f \in Candidates(s.user) : Regenerate(s, p, f) \/ Disable(s, p, f)

Surroundings ==
  \/ \E u \in Users : SetRoles(u) \/ \E st \in {"ACTIVE", "BANNED"} : SetStatus(u, st)
  \/ \E p \in proofs : Cleanup(p) \/ \E s \in sessions : UseRoleProof(s, p)
  \/ Tick

Next == Logins \/ Management \/ Surroundings

Spec == Init /\ [][Next]_vars
=============================================================================
