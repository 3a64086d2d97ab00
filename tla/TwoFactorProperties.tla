------------------------- MODULE TwoFactorProperties -------------------------
(***************************************************************************)
(* What login and the second factor promise (docs/API_CONTRACTS.md 62-115).*)
(***************************************************************************)
EXTENDS TwoFactor

\* Every variable has its type.
TypeOK ==
  /\ now \in Nat /\ secrets \in 0..MaxSecrets /\ sets \in 0..MaxSets
  /\ account \in [Users -> AccountRec]
  /\ challenges \subseteq ChallengeRec /\ proofs \subseteq ProofRec
  /\ sessions \subseteq SessionRec
  /\ codes \subseteq Users \X Factors /\ spent \in Seq(Factors)

\* While an account has a second factor, every session the guard admits was
\* signed for a factor of the secret that is enrolled now: no password session,
\* and none of an earlier enrolment, survives enable, disable or a late answer.
SecondFactorHolds ==
  \A s \in sessions :
    Admits(s) /\ account[s.user].on => s.basis # None /\ s.basis = account[s.user].secret

\* No TOTP period of a secret and no recovery code is ever accepted twice, be it
\* for a login, a role proof or a change of the second factor.
FactorsSpentOnce == \A i, j \in DOMAIN spent : spent[i] = spent[j] => i = j

\* A challenge and a password proof that are still in the tables were made under
\* the session version the account has now: whatever raises the version, here,
\* in a ban or in a change of roles, takes the open ones with it.
OpenProofsAreCurrent ==
  /\ \A c \in challenges : c.version = account[c.user].version
  /\ \A p \in proofs : p.version = account[p.user].version
=============================================================================
