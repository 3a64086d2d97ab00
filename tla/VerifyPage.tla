------------------------------ MODULE VerifyPage ------------------------------
(***************************************************************************)
(* A verification link opened in a browser: the page that confirms its     *)
(* token (apps/web/app/verify-email/verify-email-client.tsx) under the     *)
(* provider of the session (apps/web/providers/auth-provider.tsx). The     *)
(* effect of the page depends on loadMe, which the provider makes anew at  *)
(* every render of its own.                                                *)
(***************************************************************************)
EXTENDS Naturals

VARIABLES
  stored,     \* an access token is stored
  token,      \* the provider's token is set
  user,       \* the provider's user is set
  me,         \* loadMeWithToken: "NONE", "SENT" or "DONE"
  restored,   \* the mount effect of the provider ran
  mounted,    \* the page's effect ran once
  listening,  \* `active' of the run of the effect that sent the token
  confirm,    \* the request: "NONE", "SENT" or "DONE"
  verified,   \* the server consumed the token and verified the address
  status      \* what the page says

pageVars == <<stored, token, user, me, restored, mounted, listening, confirm, verified, status>>

Init ==
  /\ stored \in BOOLEAN
  /\ token = FALSE /\ user = FALSE /\ me = "NONE" /\ restored = FALSE
  /\ mounted = FALSE /\ listening = FALSE /\ confirm = "NONE" /\ verified = FALSE
  /\ status = "loading"

\* A render of the provider gives the page another loadMe: the clean-up of the
\* effect stops the run that listens, and attemptedTokenRef keeps the next run
\* from sending the token again.
Rendered == listening' = FALSE

\* The mount effect of the provider: a stored token is taken and asked about;
\* without one, loading ends.
Restore ==
  /\ ~restored /\ restored' = TRUE
  /\ IF stored THEN token' = TRUE /\ me' = "SENT" ELSE UNCHANGED <<token, me>>
  /\ Rendered
  /\ UNCHANGED <<stored, user, mounted, confirm, verified, status>>

\* loadMeWithToken has its answer: the user is set, or the session dropped.
MeAnswered ==
  /\ me = "SENT" /\ me' = "DONE"
  /\ \/ user' = TRUE /\ UNCHANGED <<stored, token>>
     \/ user' = FALSE /\ stored' = FALSE /\ token' = FALSE
  /\ Rendered
  /\ UNCHANGED <<restored, mounted, confirm, verified, status>>

\* The page's effect runs for the first time: before the provider's, as a child,
\* or after it, when its boundary is hydrated later.
Mount ==
  /\ ~mounted /\ mounted' = TRUE
  /\ listening' = TRUE /\ confirm' = "SENT"
  /\ UNCHANGED <<stored, token, user, me, restored, verified, status>>

\* The answer of the confirmation, if the run that sent it still listens; it may be
\* lost after the server verified. For a user with a session it loads him again.
Confirmed ==
  /\ confirm = "SENT" /\ confirm' = "DONE"
  /\ verified' \in BOOLEAN
  /\ IF listening
     THEN /\ status' \in {"error"} \union IF verified' THEN {"success"} ELSE {}
          /\ IF status' = "success" /\ user /\ token
             THEN me' = "SENT" /\ Rendered
             ELSE UNCHANGED <<me, listening>>
     ELSE UNCHANGED <<status, me, listening>>
  /\ UNCHANGED <<stored, token, user, restored, mounted>>

Next == Restore \/ MeAnswered \/ Mount \/ Confirmed

\* Effects run, and a request is answered or given up after ten seconds.
FairSpec ==
  /\ Init /\ [][Next]_pageVars
  /\ WF_pageVars(Restore) /\ WF_pageVars(MeAnswered)
  /\ WF_pageVars(Mount) /\ WF_pageVars(Confirmed)

-----------------------------------------------------------------------------
\* "User confirms through `/api/auth/email-verification/confirm` or
\* `/verify-email?token=...`" (docs/EVENT_FLOW.md:116): a page opened by the link
\* ends up telling whether the address is verified.
LinkIsAnswered == <>(status # "loading")

=============================================================================
