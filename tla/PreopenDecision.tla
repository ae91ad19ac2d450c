-------------------------- MODULE PreopenDecision --------------------------
(***************************************************************************)
(* One preopen run, from the candidates the selector picked to the orders  *)
(* it sends, repeated day after day.                                       *)
(*                                                                         *)
(* The risk workflow plans for events and the market regime, sizes every   *)
(* candidate and approves or rejects it; the agent decides, guardrails     *)
(* correct it; the execution workflow trades one decision after another    *)
(* and last of all the hedge the risk manager asked for.  An option that   *)
(* does not trade gives way to the next expression of its plan, which has  *)
(* to be approved again.  All of it is one transaction.                    *)
(*                                                                         *)
(* A weight is counted in fortieths of a percent of equity.  What other    *)
(* modules detail is a choice here: the agent's answer, the quality of the *)
(* data, and what becomes of an option order.                              *)
(***************************************************************************)
EXTENDS Naturals, Sequences

CONSTANTS
    Tickers,    \* the tickers a run may scan
    Tech,       \* those whose snapshot names a technology or chip sector
    Profiles,   \* the candidates the selector may pick for a ticker
    Answers,    \* the answers of the agent: a decision and an instrument
    Regimes     \* market regimes

Instruments == {"stock", "option", "watch"}
StockActions == {"enter_long", "enter_short", "reduce", "exit"}
OptionActions == {"open_option_strategy", "close_option_strategy",
                  "roll_option_strategy", "adjust_option_strategy"}
Plans == {<<"stock">>, <<"option">>, <<"stock", "option">>, <<"option", "stock">>}

\* lifecycle and score (in tenths) of the strategy that matched, the mode of the
\* request that pinned the ticker, whether an own event is five days away or less,
\* whether the average true range is twice the target volatility, and the
\* expressions of the strategy, the selected one first.
Candidates == [lifecycle : {"candidate", "shadow", "experimental", "active"},
               score     : 1 .. 10,
               request   : {"none", "review_only", "paper_trade_eligible"},
               near      : BOOLEAN,
               volatile  : BOOLEAN,
               plan      : Plans]

ASSUME PreopenAssumption ==
    /\ Tech \subseteq Tickers
    /\ Profiles \subseteq Candidates
    /\ Answers \subseteq [action : StockActions \cup OptionActions \cup {"hold", "no_trade"},
                          instrument : Instruments]
    /\ Regimes \subseteq {"balanced", "stale", "risk_off", "unavailable"}

VARIABLES
    at,         \* the step the run is at
    scan,       \* the candidate of each ticker
    regime,     \* the macro snapshot
    intent,     \* the PortfolioRiskIntent: tickers not to open, the hedge
    risk,       \* the risk decision on each ticker
    decision,   \* the trading decision on each ticker
    todo,       \* the decisions not executed yet
    orders,     \* the orders the run posted
    overlays    \* open hedge overlays of each underlier, as saved

vars == <<at, scan, regime, intent, risk, decision, todo, orders, overlays>>

Underliers == {"SPY", "QQQ"}
NoCandidate == [lifecycle |-> "none", score |-> 0, request |-> "none",
                near |-> FALSE, volatile |-> FALSE, plan |-> <<>>]
NoHedge == [action |-> "none", underlier |-> "none"]
NoIntent == [blocked |-> {}, hedge |-> NoHedge]
NoRisk == [status |-> "rejected", weight |-> 0]
NoDecision == [action |-> "no_trade", instrument |-> "watch"]

Scanned == {t \in Tickers : scan[t] # NoCandidate}

NewRun ==
    /\ scan     = [t \in Tickers |-> NoCandidate]
    /\ regime   = "balanced"
    /\ intent   = NoIntent
    /\ risk     = [t \in Tickers |-> NoRisk]
    /\ decision = [t \in Tickers |-> NoDecision]
    /\ todo     = {}
    /\ orders   = {}

Init ==
    /\ at = "idle"
    /\ NewRun
    /\ overlays = [u \in Underliers |-> 0]

-----------------------------------------------------------------------------
(* The scan.                                                               *)

\* A new day: the selector picks at most one candidate of each ticker.
Scan(found, weather) ==
    /\ at = "idle"
    /\ \E t \in Tickers : found[t] # NoCandidate
    /\ at'     = "plan"
    /\ scan'   = found
    /\ regime' = weather
    /\ intent' = NoIntent
    /\ risk'     = [t \in Tickers |-> NoRisk]
    /\ decision' = [t \in Tickers |-> NoDecision]
    /\ todo'   = {t \in Tickers : found[t] # NoCandidate}
    /\ orders' = {}
    /\ UNCHANGED overlays

-----------------------------------------------------------------------------
(* The planner.                                                            *)

\* Mutant: only stock trades are blocked.
BlockedStockOnly == {t \in Scanned : scan[t].near /\ scan[t].plan[1] = "stock"}

\* Own events forbid to open a tactical trade, in stock or option.
BlockedByEvent == {t \in Scanned : scan[t].near}

\* Positions carry no sector, so only candidates speak for the underlier.
BroadUnderlier == IF Scanned \cap Tech # {} THEN "QQQ" ELSE "SPY"

\* Mutant: the planner does not look for an open overlay.
AlwaysOpens(u) == "open_hedge"

\* An open overlay is adjusted, never doubled.
OverlayAction(u) == IF overlays[u] > 0 THEN "adjust_hedge" ELSE "open_hedge"

\* The first overlay in the order of its ticker.
FirstOverlay == IF overlays["QQQ"] > 0 THEN "QQQ" ELSE "SPY"

HedgeOf(weather) ==
    IF weather \in {"risk_off", "unavailable"}
    THEN [action |-> OverlayAction(BroadUnderlier), underlier |-> BroadUnderlier]
    ELSE IF \E u \in Underliers : overlays[u] > 0
    THEN [action |-> "close_hedge", underlier |-> FirstOverlay]
    ELSE NoHedge

Plan ==
    /\ at = "plan"
    /\ at' = "risk"
    /\ intent' = [blocked |-> BlockedByEvent, hedge |-> HedgeOf(regime)]
    /\ UNCHANGED <<scan, regime, risk, decision, todo, orders, overlays>>

-----------------------------------------------------------------------------
(* Sizing and approval.                                                    *)

Least(a, b) == IF a < b THEN a ELSE b

StrategyBudget == 400       \* 10 % of equity
ExperimentalCap == 80       \* 2 %, or a quarter of the budget if that is less
LiquidityCap == 100         \* 2.5 %
SingleNameCap == 320        \* 8 %

\* In quarters.  An unavailable market has a multiplier of zero, which `or 1.0`
\* turns into one.
Multiplier(weather) ==
    CASE weather = "risk_off" -> 2
      [] weather = "stale"    -> 3
      [] OTHER                -> 4

\* The target is a twentieth of the score, the score is the confidence too.
SizedWeight(c, weather) ==
    LET base == Least(20 * c.score,
                      (StrategyBudget * c.score * c.score * Multiplier(weather)) \div 400)
        held == IF c.lifecycle = "experimental" THEN Least(base, ExperimentalCap) ELSE base
        calm == IF c.volatile THEN held \div 2 ELSE held
    IN  Least(Least(calm, LiquidityCap), SingleNameCap)

\* flawed: missing or stale signals, no estimate of the margin, no metadata of
\* the option, or an assignment the portfolio cannot take.  The sector cap binds
\* nothing, for no position has a sector and a single name is below the cap.
Approve(flawed) ==
    /\ at = "risk"
    /\ flawed \subseteq Scanned
    /\ at' = "decide"
    /\ risk' = [t \in Tickers |->
                   IF t \in Scanned \ (intent.blocked \cup flawed)
                   THEN [status |-> "approved", weight |-> SizedWeight(scan[t], regime)]
                   ELSE NoRisk]
    /\ UNCHANGED <<scan, regime, intent, decision, todo, orders, overlays>>

Approved == {t \in Scanned : risk[t].status = "approved"}

-----------------------------------------------------------------------------
(* The agent and its guardrails.                                           *)

Harmless == {"hold", "exit", "reduce", "no_trade"}

\* Whatever the guardrails change, the instrument stays the agent's.
Guarded(t, a) ==
    IF \/ a.action = "enter_short" /\ a.instrument = "stock"
       \/ risk[t].status = "rejected" /\ a.action \notin Harmless
       \/ scan[t].request = "review_only" /\ a.action \notin Harmless
       \/ scan[t].lifecycle = "candidate" /\ a.action # "hold"
    THEN [a EXCEPT !.action = "no_trade"] ELSE a

\* A candidate without a signal snapshot is not shown to the agent: no trade, or
\* hold, in the instrument of its selected expression.
Blind(t) == [action |-> "no_trade", instrument |-> scan[t].plan[1]]

Decide(answer, unseen) ==
    /\ at = "decide"
    /\ at' = "execute"
    /\ decision' = [t \in Tickers |->
                       IF t \notin Scanned THEN NoDecision
                       ELSE IF t \in unseen THEN Blind(t)
                       ELSE Guarded(t, answer[t])]
    /\ UNCHANGED <<scan, regime, intent, risk, todo, orders, overlays>>

-----------------------------------------------------------------------------
(* Execution.                                                              *)

Authorized(t) ==
    /\ scan[t].request # "review_only"
    /\ scan[t].lifecycle \in {"experimental", "active"}
    /\ decision[t].action \notin {"hold", "no_trade"}

Order(t, instrument) ==
    [ticker |-> t, instrument |-> instrument, action |-> decision[t].action,
     weight |-> risk[t].weight]

\* Mutant: the execution does not look at the risk decision.
AnyRisk(t) == TRUE

\* Only an approved risk decision is executed.
RiskAllows(t) == risk[t].status = "approved"

\* _execute_stock_decision: a pinned ticker needs no authorization, and the
\* broker object turns away the order of a request for review.
TradesStock(t) ==
    /\ decision[t].instrument = "stock"
    /\ decision[t].action \in StockActions
    /\ Authorized(t) \/ scan[t].request # "none"
    /\ RiskAllows(t)
    /\ scan[t].request # "review_only"

ExecuteStock(t) ==
    /\ at = "execute"
    /\ t \in todo
    /\ decision[t].instrument # "option"
    /\ todo' = todo \ {t}
    /\ orders' = IF TradesStock(t) THEN orders \cup {Order(t, "stock")} ELSE orders
    /\ UNCHANGED <<at, scan, regime, intent, risk, decision, overlays>>

\* The decision carries an option strategy for the expression at this position of
\* the plan.
HasPayload(t, n) ==
    /\ scan[t].plan[n] = "option"
    /\ decision[t].action \in OptionActions

\* _handle_option_decision, up to the order: nothing asks whether the decision is
\* authorized.
TradesOption(t) == HasPayload(t, 1) /\ RiskAllows(t)

\* The next expression of the plan: a stock to enter, or an option whose payload
\* was built with the decision.
HasFallback(t) == Len(scan[t].plan) = 2 /\ (scan[t].plan[2] = "stock" \/ HasPayload(t, 2))

\* No payload, an expression the strategy layer or the broker refuses, nothing to
\* close, or no fill within the poll: the next expression is tried.  Its approval
\* asks the risk manager about a candidate that lacks the fields the manager
\* reads, which raises: the run ends, and its transaction is rolled back.
OptionGivesWay(t) ==
    /\ decision[t].instrument = "option"
    /\ at' = IF HasFallback(t) THEN "failed" ELSE at

ExecuteOption(t, posted, filled) ==
    /\ at = "execute"
    /\ t \in todo
    /\ posted => TradesOption(t)
    /\ filled => posted
    /\ todo' = todo \ {t}
    /\ orders' = IF posted THEN orders \cup {Order(t, "option")} ELSE orders
    /\ \/ filled /\ decision[t].instrument = "option" /\ UNCHANGED at
       \/ ~filled /\ OptionGivesWay(t)
    /\ UNCHANGED <<scan, regime, intent, risk, decision, overlays>>

\* An approved candidate carries the hedge; without one there is none.
Hedged == intent.hedge # NoHedge /\ Approved # {}

OverlaysAfter(hedge) ==
    CASE hedge.action = "open_hedge"  -> [overlays EXCEPT ![hedge.underlier] = @ + 1]
      [] hedge.action = "close_hedge" -> [overlays EXCEPT ![hedge.underlier] = @ - 1]
      [] OTHER                        -> overlays

\* _execute_generated_hedges, when every decision is through, and the commit.
Finish(filled) ==
    /\ at = "execute"
    /\ todo = {}
    /\ filled => Hedged
    /\ at' = "idle"
    /\ overlays' = IF filled THEN OverlaysAfter(intent.hedge) ELSE overlays
    /\ UNCHANGED <<scan, regime, intent, risk, decision, todo, orders>>

\* The failed run is recorded; the next one is that of another day.
Recover ==
    /\ at = "failed"
    /\ at' = "idle"
    /\ UNCHANGED <<scan, regime, intent, risk, decision, todo, orders, overlays>>

\* A hedge runs five days; the sync that finds it gone closes its row.
Expire(u) ==
    /\ at = "idle"
    /\ overlays[u] > 0
    /\ overlays' = [overlays EXCEPT ![u] = @ - 1]
    /\ UNCHANGED <<at, scan, regime, intent, risk, decision, todo, orders>>

-----------------------------------------------------------------------------

Next ==
    \/ \E found \in [Tickers -> Profiles \cup {NoCandidate}], weather \in Regimes : Scan(found, weather)
    \/ Plan
    \/ \E flawed \in SUBSET Scanned : Approve(flawed)
    \/ \E answer \in [Tickers -> Answers], unseen \in SUBSET Scanned : Decide(answer, unseen)
    \/ \E t \in Tickers : ExecuteStock(t)
    \/ \E t \in Tickers, posted, filled \in BOOLEAN : ExecuteOption(t, posted, filled)
    \/ \E filled \in BOOLEAN : Finish(filled)
    \/ Recover
    \/ \E u \in Underliers : Expire(u)

Spec == Init /\ [][Next]_vars

-----------------------------------------------------------------------------
(* Properties.                                                             *)

Decisions == [action : StockActions \cup OptionActions \cup {"hold", "no_trade"},
              instrument : Instruments]

\* Types of the variables.  Overlays are counted: more than one is conceivable.
TypeOK ==
    /\ at \in {"idle", "plan", "risk", "decide", "execute", "failed"}
    /\ scan \in [Tickers -> Profiles \cup {NoCandidate}]
    /\ regime \in {"balanced", "stale", "risk_off", "unavailable"}
    /\ intent \in [blocked : SUBSET Tickers,
                   hedge : [action : {"none", "open_hedge", "adjust_hedge", "close_hedge"},
                            underlier : Underliers \cup {"none"}]]
    /\ risk \in [Tickers -> [status : {"approved", "rejected"}, weight : Nat]]
    /\ decision \in [Tickers -> Decisions]
    /\ todo \subseteq Scanned
    /\ orders \subseteq [ticker : Tickers, instrument : {"stock", "option"},
                         action : StockActions \cup OptionActions, weight : Nat]
    /\ overlays \in [Underliers -> Nat]

\* "Hard reject: no order is created": whatever the agent answers, and in
\* whatever instrument, a ticker the risk manager rejected has no order, not even
\* one that sells.
HardRejectMakesNoOrder ==
    \A o \in orders : risk[o.ticker].status = "approved"

Opening == {"enter_long", "enter_short", "open_option_strategy", "roll_option_strategy"}

\* No run opens a position in a ticker with an event of its own five days away or
\* less, through stock or option, pinned or not.
NoOpeningIntoEvent ==
    \A o \in orders : o.action \in Opening => ~scan[o.ticker].near

\* An experimental strategy never trades more than two percent of equity,
\* whatever the regime, the score and the instrument the agent prefers.
ExperimentalStaysSmall ==
    \A o \in orders :
        scan[o.ticker].lifecycle = "experimental" => o.weight <= ExperimentalCap

\* Over the days, an underlier never carries two hedge overlays: the one that is
\* open is adjusted or closed, by whichever run comes next.
OneOverlayPerUnderlier ==
    \A u \in Underliers : overlays[u] <= 1

\* "If the preferred expression is rejected later by OptionsStrategyLayer or
\* RiskManager, the system should retry the next expression bucket": a refused
\* option leads to another attempt and never ends the run.
RefusalIsRetried == at # "failed"
=============================================================================
