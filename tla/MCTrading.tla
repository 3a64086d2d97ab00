------------------------------ MODULE MCTrading ------------------------------
(***************************************************************************)
(* Instances of Trading for TLC: the users, assets and markets of the      *)
(* configurations and the functions over them.                             *)
(***************************************************************************)
EXTENDS Preview, TLC

CONSTANTS u1, u2, u3, swc, swl, swd, lunaMarket, dogeMarket

TwoUsers == <<u1, u2>>
ThreeUsers == <<u1, u2, u3>>

\* Where both users have the same funds and no account is frozen nothing tells
\* them apart: Roster only fixes the order of a sum.
UsersAlike == Permutations({u1, u2})

\* Where both markets count alike too, they may be swapped with their base assets.
SwapMarkets ==
  lunaMarket :> dogeMarket @@ dogeMarket :> lunaMarket @@ swl :> swd @@ swd :> swl
UsersAndMarketsAlike ==
  Permutations({u1, u2, u3}) \cup {p @@ SwapMarkets : p \in Permutations({u1, u2, u3})}

\* SWL/SWC and SWD/SWC: both markets spend SWC.
BaseAsset == [m \in Markets |-> IF m = lunaMarket THEN swl ELSE swd]
QuoteAsset == [m \in Markets |-> swc]

\* Every total is a whole number of quote units.
ExactScale == [m \in Markets |-> [quote |-> 1, unit |-> 1]]

\* One price digit more than the quote asset has: totals may have a remainder.
TenthScale == [m \in Markets |-> [quote |-> 1, unit |-> 10]]

NoMinimum == [m \in Markets |-> [amount |-> 0, notional |-> 0]]
SomeMinimum == [m \in Markets |-> [amount |-> 10, notional |-> 2]]

\* Enough for every order a run places, and less than that in PoorFunds.
RichFunds == [u \in Users |-> [a \in Assets |-> 200]]
PoorFunds == [u \in Users |-> [a \in Assets |-> IF a = swc THEN 60 ELSE 30]]

=============================================================================
