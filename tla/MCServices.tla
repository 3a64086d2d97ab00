------------------------------ MODULE MCServices ------------------------------
(***************************************************************************)
(* The services around trading, for TLC. They share no table the models    *)
(* keep, so a behaviour moves one of them, chosen at the start, and the    *)
(* others rest: the states add up and do not multiply.                     *)
(***************************************************************************)
EXTENDS TwoFactorProperties, Services, TLC

CONSTANTS
  swc, swx,
  MaxDepth, MaxItems, InputDepth              \* SecurityEvents

VARIABLES
  part,                                       \* the service that moves
  given, logged                               \* SecurityEvents

OneBase == [m \in Markets |-> <<swx, swc>>]
Log == INSTANCE SecurityEvents

log == <<given, logged>>
services == <<part, vars, mail, limit, tables, prints, trail, log, page>>

Parts == {"FACTOR", "MAIL", "LIMIT", "TABLES", "CHART", "TRAIL", "LOG", "FORM", "VIEW"}

MCInit ==
  /\ part \in Parts
  /\ Init /\ Mails!Init /\ Limits!Init /\ Tables!Init /\ Market!Init /\ Trail!Init /\ Log!Init
  /\ Form!Init /\ View!Init

\* Every part but p rests.
Only(p) ==
  /\ part = p /\ UNCHANGED part
  /\ p # "FACTOR" => UNCHANGED vars
  /\ p # "MAIL" => UNCHANGED mail
  /\ p # "LIMIT" => UNCHANGED limit
  /\ p # "TABLES" => UNCHANGED tables
  /\ p # "CHART" => UNCHANGED prints
  /\ p # "TRAIL" => UNCHANGED trail
  /\ p # "LOG" => UNCHANGED log
  /\ p = "FORM" => UNCHANGED viewOnly
  /\ p = "VIEW" => UNCHANGED formOnly
  /\ p \notin {"FORM", "VIEW"} => UNCHANGED page

MCNext ==
  \/ Only("FACTOR") /\ Next
  \/ Only("MAIL") /\ Mails!Next
  \/ Only("LIMIT") /\ Limits!Next
  \/ Only("TABLES") /\ Tables!Next
  \/ Only("CHART") /\ Market!Next
  \/ Only("TRAIL") /\ Trail!Next
  \/ Only("LOG") /\ Log!Next
  \/ Only("FORM") /\ Form!Next
  \/ Only("VIEW") /\ View!Next

MCSpec == MCInit /\ [][MCNext]_services

\* Two placements are told apart by nothing.
PlacementsAlike == Permutations(Placements)

-----------------------------------------------------------------------------
\* The property of the part that only runs here, looked at while it moves: the others
\* leave its state as it begins.

\* No secret reaches the log of security events (SecurityEvents).
SecretsStayOut == part = "LOG" => Log!SecretsStayOut

=============================================================================
