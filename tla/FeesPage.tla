------------------------------- MODULE FeesPage -------------------------------
(***************************************************************************)
(* The page that changes the fee rates of a market (apps/web/app/admin/fees*)
(* /page.tsx) and the rates the server keeps. The page starts on the       *)
(* default market and loads its settings before it knows the markets; the  *)
(* answer of a load is shown and fills the form, whichever market is       *)
(* selected by then. A rate stands for the buyer's and the seller's.       *)
(***************************************************************************)
EXTENDS Naturals, FiniteSets

CONSTANTS
  Listed,       \* markets of the exchange
  DefaultOne,   \* DEFAULT_MARKET_SYMBOL, listed or not
  Rates,        \* rates the server accepts
  FirstRate,    \* what the form holds before anything is loaded
  NoMarket, Unread,
  MaxAsked      \* bound on the loads under way at once

VARIABLES
  rates,        \* the server: the rates of each market
  known,        \* the list of markets was loaded
  chosen,       \* selectedMarketSymbol
  field,        \* the rates in the form
  settings,     \* the market the settings shown are of
  isLoading,
  asked,        \* loads of settings under way: market, and its rates once read
  action,       \* pendingAction: the market and the rates of the dialog
  saving        \* the action sent to the server

feeVars == <<rates, known, chosen, field, settings, isLoading, asked, action, saving>>

\* loadSettings, up to the request.
Load(m) ==
  /\ asked' = asked \union {[market |-> m, rate |-> Unread]}
  /\ isLoading' = TRUE

Init ==
  /\ rates \in [Listed -> Rates]
  /\ known = FALSE /\ chosen = DefaultOne /\ field = FirstRate /\ settings = NoMarket
  /\ asked = {[market |-> DefaultOne, rate |-> Unread]} /\ isLoading = TRUE
  /\ action = NoMarket /\ saving = NoMarket

\* loadMarkets: a market that is not listed gives way to one that is, and the
\* effect loads its settings.
Known ==
  /\ ~known /\ known' = TRUE
  /\ IF chosen \in Listed
     THEN UNCHANGED <<chosen, asked, isLoading>>
     ELSE \E m \in Listed : chosen' = m /\ Load(m)
  /\ UNCHANGED <<rates, field, settings, action, saving>>

\* The selector; the effect loads the settings of the market.
Choose ==
  /\ known /\ Cardinality(asked) < MaxAsked
  /\ \E m \in Listed \ {chosen} : chosen' = m /\ Load(m)
  /\ UNCHANGED <<rates, known, field, settings, action, saving>>

\* The server reads the rates of a market that is asked for.
Read ==
  /\ \E a \in asked :
       /\ a.rate = Unread /\ a.market \in Listed
       /\ asked' = (asked \ {a}) \union {[a EXCEPT !.rate = rates[a.market]]}
  /\ UNCHANGED <<rates, known, chosen, field, settings, isLoading, action, saving>>

\* loadSettings has its answer.
Loaded ==
  /\ \E a \in asked :
       /\ a.rate # Unread
       /\ asked' = asked \ {a}
       /\ settings' = a.market /\ field' = a.rate
  /\ isLoading' = FALSE
  /\ UNCHANGED <<rates, known, chosen, action, saving>>

LoadFails ==
  /\ \E a \in asked : asked' = asked \ {a}
  /\ isLoading' = FALSE
  /\ UNCHANGED <<rates, known, chosen, field, settings, action, saving>>

Edit ==
  /\ \E r \in Rates : field' = r
  /\ UNCHANGED <<rates, known, chosen, settings, isLoading, asked, action, saving>>

\* handleSubmit: the dialog opens on the selected market and the form.
Submit ==
  /\ ~isLoading /\ saving = NoMarket
  /\ action' = [market |-> chosen, rate |-> field]
  /\ UNCHANGED <<rates, known, chosen, field, settings, isLoading, asked, saving>>

\* The dialog needs an action and settings to be shown.
DialogOpen == action # NoMarket /\ settings # NoMarket

Leave ==
  /\ DialogOpen /\ saving = NoMarket
  /\ action' = NoMarket
  /\ UNCHANGED <<rates, known, chosen, field, settings, isLoading, asked, saving>>

\* submitFeeUpdate, up to the request.
Save ==
  /\ DialogOpen /\ saving = NoMarket
  /\ saving' = action
  /\ UNCHANGED <<rates, known, chosen, field, settings, isLoading, asked, action>>

Saved ==
  /\ saving # NoMarket /\ saving.market \in Listed
  /\ rates' = [rates EXCEPT ![saving.market] = saving.rate]
  /\ settings' = saving.market /\ field' = saving.rate
  /\ action' = NoMarket /\ saving' = NoMarket
  /\ UNCHANGED <<known, chosen, isLoading, asked>>

\* The request fails, or its answer is lost after the server saved: the dialog stays.
SaveFails ==
  /\ saving # NoMarket
  /\ \/ UNCHANGED rates
     \/ saving.market \in Listed /\ rates' = [rates EXCEPT ![saving.market] = saving.rate]
  /\ saving' = NoMarket
  /\ UNCHANGED <<known, chosen, field, settings, isLoading, asked, action>>

Next ==
  \/ Known \/ Choose \/ Read \/ Loaded \/ LoadFails \/ Edit
  \/ Submit \/ Leave \/ Save \/ Saved \/ SaveFails

Spec == Init /\ [][Next]_feeVars

-----------------------------------------------------------------------------
\* The dialog that asks to "Save fees for" a market gives the "Current buyer fee"
\* and the "Current seller fee" of that market, as buildFeeConfirmation labels them.
DialogShowsItsMarket == DialogOpen => settings = action.market

=============================================================================
