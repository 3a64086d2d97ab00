---------------------------- MODULE AuthRateLimit ----------------------------
(***************************************************************************)
(* The counter of one key of auth_rate_limits (auth-rate-limit.service.ts).*)
(* A call computes its window from the clock of the process and counts     *)
(* itself in one statement, which may reach the database after the window  *)
(* has ended.                                                              *)
(***************************************************************************)
EXTENDS Integers

CONSTANTS
  Calls,     \* the calls that may overlap
  Limit,     \* attempts a window admits
  MaxWindow, \* bound: number of the last window
  MaxLate    \* bound: calls counted after their window has ended

VARIABLES
  window,   \* the window the clock is in
  row,      \* the stored window and its attempts; window 0 when there is no row
  counting, \* the window a call has computed, 0 when it has not
  admitted, \* history: calls admitted under a window
  late      \* history: calls counted after their window had ended

limits == <<window, row, counting, admitted, late>>

Windows == 1..MaxWindow

Begin(c) ==
  /\ counting[c] = 0
  /\ counting' = [counting EXCEPT ![c] = window]
  /\ UNCHANGED <<window, row, admitted, late>>

Counted_FromZero(w) ==
  [window |-> w, attempts |-> IF row.window # w THEN 0 ELSE row.attempts + 1]

\* The count goes on only when the stored window is the call's own. Beyond the
\* limit it makes no difference how many were refused.
Counted(w) ==
  [window |-> w,
   attempts |-> IF row.window # w THEN 1
                ELSE IF row.attempts <= Limit THEN row.attempts + 1 ELSE row.attempts]

Count(c) ==
  LET w == counting[c] IN
  /\ w # 0
  /\ late' = IF w < window THEN late + 1 ELSE late
  /\ late' <= MaxLate
  /\ row' = Counted(w)
  /\ admitted' = IF row'.attempts <= Limit THEN [admitted EXCEPT ![w] = @ + 1] ELSE admitted
  /\ counting' = [counting EXCEPT ![c] = 0]
  /\ UNCHANGED window

\* The window ends. Calls that have computed it are still on their way.
NextWindow ==
  /\ window < MaxWindow
  /\ window' = window + 1
  /\ UNCHANGED <<row, counting, admitted, late>>

\* cleanupExpired drops the row of a window a day old: of no window now.
Cleanup ==
  /\ row.window # 0 /\ row.window < window
  /\ \A c \in Calls : counting[c] # row.window
  /\ row' = [window |-> 0, attempts |-> 0]
  /\ UNCHANGED <<window, counting, admitted, late>>

Init ==
  /\ window = 1
  /\ row = [window |-> 0, attempts |-> 0]
  /\ counting = [c \in Calls |-> 0]
  /\ admitted = [w \in Windows |-> 0]
  /\ late = 0

Next == NextWindow \/ Cleanup \/ \E c \in Calls : Begin(c) \/ Count(c)

Spec == Init /\ [][Next]_limits

\* A window admits no more calls than its limit, except that each call counted
\* after its window has ended makes the row forget a count, and lets it begin
\* anew.
AdmittedPerWindow == \A w \in Windows : admitted[w] <= Limit * (1 + late)
=============================================================================
