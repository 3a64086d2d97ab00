-------------------------- MODULE EmailVerification --------------------------
(***************************************************************************)
(* Verification of an email address (email-verification.service.ts). The   *)
(* transaction of a request locks only the tokens it replaces, not the     *)
(* user, so requests of one user overlap; a confirmation checks its token  *)
(* before it opens the transaction that marks the user.                    *)
(*                                                                         *)
(* Times are the number of the call that read the clock: a call reads it   *)
(* once, when it starts. Tokens are numbered in the order they are stored. *)
(***************************************************************************)
EXTENDS Integers, FiniteSets

CONSTANTS
  Users,     \* human accounts; their addresses never change
  Calls,     \* the requests that may overlap
  MaxTokens, \* bound: tokens stored
  MaxClock   \* bound: calls started

VARIABLES
  clock,     \* number of calls started
  verified,  \* users.email_verified_at, 0 for NULL
  tokens,    \* email_verification_tokens
  mailed,    \* tokens whose mail was sent
  call       \* where a request is, and what it has read

email == <<clock, verified, tokens, mailed, call>>

TokenRec == [id : 1..MaxTokens, user : Users, state : {"PENDING", "USED", "EXPIRED"}]
Idle == [step |-> "IDLE"]
CallRec ==
  {Idle}
    \cup [step : {"REPLACE"}, user : Users]
    \cup [step : {"STORE"}, user : Users, seen : SUBSET (1..MaxTokens)]
    \cup [step : {"MAIL"}, user : Users, token : 1..MaxTokens]
    \cup [step : {"CONFIRM"}, user : Users, at : 1..MaxClock, known : 0..MaxClock]

PendingOf(u) == {t \in tokens : t.user = u /\ t.state = "PENDING"}
Used(t) == [t EXCEPT !.state = "USED"]
\* UPDATE ... SET used_at: the tokens ts that are still unused.
Replace(ts) ==
  {IF t \in ts /\ t.state # "USED" THEN Used(t) ELSE t : t \in tokens}
\* Expiry is no column: an expired token that is unused can be replaced too.
Unused(u) == {t \in tokens : t.user = u /\ t.state # "USED"}
Goes(c, r) == call' = [call EXCEPT ![c] = r]

-----------------------------------------------------------------------------
\* requestVerification reads the user without a lock.
Request(c, u) ==
  /\ call[c] = Idle /\ clock < MaxClock
  /\ verified[u] = 0
  /\ clock' = clock + 1
  /\ Goes(c, [step |-> "REPLACE", user |-> u])
  /\ UNCHANGED <<verified, tokens, mailed>>

\* The UPDATE sees the tokens committed before it began.
Invalidate(c) ==
  /\ call[c].step = "REPLACE"
  /\ Goes(c, [step |-> "STORE", user |-> call[c].user,
              seen |-> {t.id : t \in Unused(call[c].user)}])
  /\ UNCHANGED <<clock, verified, tokens, mailed>>

\* The new token and the replaced ones are committed together.
Store(c) ==
  LET id == Cardinality(tokens) + 1 IN
  /\ call[c].step = "STORE" /\ id <= MaxTokens
  /\ tokens' = Replace({t \in tokens : t.id \in call[c].seen}) \cup
       {[id |-> id, user |-> call[c].user, state |-> "PENDING"]}
  /\ Goes(c, [step |-> "MAIL", user |-> call[c].user, token |-> id])
  /\ UNCHANGED <<clock, verified, mailed>>

\* The mail is sent after the commit, and may fail: the token stays stored.
Mail(c) ==
  /\ call[c].step = "MAIL"
  /\ mailed' \in {mailed, mailed \cup {call[c].token}}
  /\ Goes(c, Idle)
  /\ UNCHANGED <<clock, verified, tokens>>

\* confirmVerification checks its token outside the transaction.
Confirm(c, t) ==
  /\ call[c] = Idle /\ clock < MaxClock
  /\ t.id \in mailed /\ t.state = "PENDING"
  /\ clock' = clock + 1
  /\ Goes(c, [step |-> "CONFIRM", user |-> t.user, at |-> clock + 1, known |-> verified[t.user]])
  /\ UNCHANGED <<verified, tokens, mailed>>

VerifiedAt_AsRead(c) == IF call[c].known # 0 THEN call[c].known ELSE call[c].at

\* Under the lock of the user an earlier verification is kept.
VerifiedAt(c) == IF verified[call[c].user] # 0 THEN verified[call[c].user] ELSE call[c].at

Verify(c) ==
  /\ call[c].step = "CONFIRM"
  /\ verified' = [verified EXCEPT ![call[c].user] = VerifiedAt(c)]
  /\ tokens' = Replace(Unused(call[c].user))
  /\ Goes(c, Idle)
  /\ UNCHANGED <<clock, mailed>>

Expire(t) ==
  /\ t.state = "PENDING"
  /\ tokens' = (tokens \ {t}) \cup {[t EXCEPT !.state = "EXPIRED"]}
  /\ UNCHANGED <<clock, verified, mailed, call>>

-----------------------------------------------------------------------------
Init ==
  /\ clock = 0 /\ tokens = {} /\ mailed = {}
  /\ verified = [u \in Users |-> 0]
  /\ call = [c \in Calls |-> Idle]

Next ==
  \/ \E c \in Calls :
       \/ Invalidate(c) \/ Store(c) \/ Mail(c) \/ Verify(c)
       \/ \E u \in Users : Request(c, u)
       \/ \E t \in tokens : Confirm(c, t)
  \/ \E t \in tokens : Expire(t)

Spec == Init /\ [][Next]_email

-----------------------------------------------------------------------------
\* The time of a verification never changes again, whatever confirmations of
\* the same user overlap.
FirstVerificationStays ==
  [][\A u \in Users : verified[u] # 0 => verified'[u] = verified[u]]_email
=============================================================================
