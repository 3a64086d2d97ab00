------------------------------ MODULE TradeForm ------------------------------
(***************************************************************************)
(* The order form of the trade page (apps/web/app/trade/page.tsx): the     *)
(* estimate that follows the fields, the review, the dialog that shows its *)
(* answer, and the order the dialog sends. Answers come in any order.      *)
(*                                                                         *)
(* The dialog covers the page without taking the focus, so the fields still*)
(* change, and Enter still submits, while it is open. Left out: the market *)
(* status, which only disables more, and the wording.                      *)
(***************************************************************************)
EXTENDS Naturals, FiniteSets, Sequences

CONSTANTS
  Symbols,      \* markets the selector offers
  Sides,
  Inputs,       \* what a field holds once it is filled
  NoInput, NoneYet,
  FirstSymbol,  \* DEFAULT_MARKET_SYMBOL
  MaxReviews,   \* bound on the reviews asked for
  MaxEstimates  \* bound on the estimates under way at once

Kinds == {"LIMIT", "MARKET"}

VARIABLES
  symbol,       \* selectedMarketSymbol
  form,         \* orderType, side, price with amount, marketInput
  estimate,     \* marketPreview or previewError, and what it was asked for
  estimating,   \* isPreviewLoading
  timer,        \* the 250 ms timer of the estimate is set
  asking,       \* estimates under way; at most one is still wanted
  reviews,      \* the bodies sent for review, by their order
  waiting,      \* reviews without an answer
  pending,      \* the review the dialog shows
  submitting,   \* isSubmitting
  sent,         \* the review whose order is under way
  orders        \* for each review, the orders the server took (history)

formVars == <<symbol, form, estimate, estimating, timer, asking, reviews, waiting,
              pending, submitting, sent, orders>>
dialog == <<reviews, waiting, pending, submitting, sent, orders>>

FormRec == [kind : Kinds, side : Sides, limit : Inputs \union {NoInput},
            spend : Inputs \union {NoInput}]
\* What a request carries: of the fields, those of its kind.
Body(f, s) ==
  [market |-> s, kind |-> f.kind, side |-> f.side,
   input |-> IF f.kind = "LIMIT" THEN f.limit ELSE f.spend]

\* The estimate effect has nothing to estimate.
Bare(f) == f.kind # "MARKET" \/ f.spend = NoInput
Wanted == {a \in asking : a.active}
Ignored_Kept == asking
Ignored == {[a EXCEPT !.active = FALSE] : a \in asking}

Init ==
  /\ symbol = FirstSymbol
  /\ form = [kind |-> "LIMIT", side |-> CHOOSE s \in Sides : TRUE,
             limit |-> NoInput, spend |-> NoInput]
  /\ estimate = NoneYet /\ estimating = FALSE /\ timer = FALSE /\ asking = {}
  /\ reviews = <<>> /\ waiting = {} /\ orders = <<>>
  /\ pending = 0 /\ submitting = FALSE /\ sent = 0

\* The effect on kind, side, input and market: the clean-up of the former run
\* stops its timer and ignores its answer; the new run clears or sets the timer.
\* `shown' is the estimate the handler left.
Changed(f, s, shown) ==
  LET deps(g, t) == <<g.kind, g.side, g.spend, t>> IN
  /\ form' = f /\ symbol' = s
  /\ IF deps(f, s) = deps(form, symbol)
     THEN estimate' = shown /\ UNCHANGED <<estimating, timer, asking>>
     ELSE /\ asking' = Ignored
          /\ timer' = ~Bare(f)
          /\ estimate' = IF Bare(f) THEN NoneYet ELSE shown
          /\ estimating' = IF Bare(f) THEN FALSE ELSE estimating

\* The tabs, the fields, the quick fills, and a price picked from the book.
Edited ==
  {[form EXCEPT !.kind = k] : k \in Kinds} \union {[form EXCEPT !.side = s] : s \in Sides}
    \union {[form EXCEPT !.kind = "LIMIT", !.limit = x] : x \in Inputs \union {NoInput}}
    \union {[form EXCEPT !.spend = x] :
              x \in IF form.kind = "MARKET" THEN Inputs \union {NoInput} ELSE {form.spend}}
Edit ==
  /\ \E f \in Edited \ {form} : Changed(f, symbol, estimate)
  /\ UNCHANGED dialog

\* handleMarketChange, from the selector or when the market is not listed.
ChangeMarket ==
  /\ \E s \in Symbols :
       Changed([form EXCEPT !.limit = NoInput, !.spend = NoInput], s, NoneYet)
  /\ pending' = 0
  /\ UNCHANGED <<reviews, waiting, submitting, sent, orders>>

\* loadMarketPreview begins when the timer fires.
Ask ==
  /\ timer
  /\ Cardinality(asking) < MaxEstimates
  /\ timer' = FALSE /\ estimating' = TRUE
  /\ asking' = asking \union {[body |-> Body(form, symbol), active |-> TRUE]}
  /\ UNCHANGED <<symbol, form, estimate, dialog>>

\* Its answer counts only while its effect is the last one.
Estimated ==
  /\ \E a \in asking, result \in {"LIQUID", "NONE", "ERROR"} :
       /\ asking' = asking \ {a}
       /\ IF a.active
          THEN estimate' = [body |-> a.body, result |-> result] /\ estimating' = FALSE
          ELSE UNCHANGED <<estimate, estimating>>
  /\ UNCHANGED <<symbol, form, timer, dialog>>

\* The submit button is enabled.
MaySubmit ==
  /\ ~submitting
  /\ form.kind = "MARKET" =>
       /\ ~estimating /\ form.spend # NoInput
       /\ estimate # NoneYet => estimate.result = "LIQUID"
  /\ form.kind = "LIMIT" => form.limit # NoInput

\* handleSubmit, up to the request.
Review ==
  /\ MaySubmit
  /\ Len(reviews) < MaxReviews
  /\ reviews' = Append(reviews, Body(form, symbol))
  /\ orders' = Append(orders, 0)
  /\ waiting' = waiting \union {Len(reviews) + 1}
  /\ UNCHANGED <<symbol, form, estimate, estimating, timer, asking, pending,
                 submitting, sent>>

\* Its answer opens the dialog over whatever the page shows by then; with no
\* liquidity, or on failure, it does not.
Reviewed ==
  /\ \E r \in waiting, opens \in BOOLEAN :
       /\ waiting' = waiting \ {r}
       /\ pending' = IF opens THEN r ELSE pending
  /\ UNCHANGED <<symbol, form, estimate, estimating, timer, asking, reviews,
                 submitting, sent, orders>>

\* The dialog is left by Cancel, Escape or a click beside it.
Leave ==
  /\ pending # 0 /\ ~submitting
  /\ pending' = 0
  /\ UNCHANGED <<symbol, form, estimate, estimating, timer, asking, reviews, waiting,
                 submitting, sent, orders>>

\* confirmOrder, up to the request.
Confirm ==
  /\ pending # 0 /\ ~submitting
  /\ submitting' = TRUE /\ sent' = pending
  /\ UNCHANGED <<symbol, form, estimate, estimating, timer, asking, reviews, waiting,
                 pending, orders>>

Taken(r) == [orders EXCEPT ![r] = @ + 1]

\* The order was placed: the fields of its kind are cleared, whatever they hold,
\* and the dialog closes, whatever it shows. The reload is awaited (sent is kept
\* at 0, submitting holds).
Placed ==
  /\ sent # 0
  /\ orders' = Taken(sent)
  /\ IF reviews[sent].kind = "MARKET"
     THEN Changed([form EXCEPT !.spend = NoInput], symbol, NoneYet)
     ELSE Changed([form EXCEPT !.limit = NoInput], symbol, estimate)
  /\ pending' = 0 /\ sent' = 0
  /\ UNCHANGED <<reviews, waiting, submitting>>

Reloaded ==
  /\ submitting /\ sent = 0
  /\ submitting' = FALSE
  /\ UNCHANGED <<symbol, form, estimate, estimating, timer, asking, reviews, waiting,
                 pending, sent, orders>>

\* What the dialog shows after a failure.
AfterFailure_StaysOpen == sent
AfterFailure == 0

\* The request failed, or was given up after ten seconds though the server went on.
Failed ==
  /\ sent # 0
  /\ orders' \in {orders, Taken(sent)}
  /\ pending' = AfterFailure /\ sent' = 0 /\ submitting' = FALSE
  /\ UNCHANGED <<symbol, form, estimate, estimating, timer, asking, reviews, waiting>>

Next ==
  \/ Edit \/ ChangeMarket \/ Ask \/ Estimated
  \/ Review \/ Reviewed \/ Leave \/ Confirm \/ Placed \/ Reloaded \/ Failed

Spec == Init /\ [][Next]_formVars

-----------------------------------------------------------------------------
\* A review leads to one order at most, though its dialog is confirmed again
\* after a failure that hid an order, or is reopened by a late answer.
OneOrderPerReview == \A r \in DOMAIN orders : orders[r] <= 1

\* Once no estimate is due or wanted, the page does not wait for one, and shows
\* one for its fields and market or none: a late answer never stays.
EstimateSettles ==
  timer \/ Wanted # {} \/
  /\ ~estimating
  /\ estimate # NoneYet => (~Bare(form) /\ estimate.body = Body(form, symbol))

=============================================================================
