------------------------ MODULE PreopenDecisionProofs ------------------------
(***************************************************************************)
(* For every set of tickers, profiles, answers and regimes: the types, that *)
(* a rejected ticker has no order and a ticker with an event ahead none that *)
(* opens, the cap of experimental strategies, and one overlay per underlier. *)
(***************************************************************************)
EXTENDS PreopenDecision, TLAPS

USE PreopenAssumption DEF PreopenAssumption, Underliers, NoCandidate, NoHedge, NoIntent,
        NoRisk, NoDecision

\* The weight of an order for a candidate is a natural number, and for an
\* experimental one at most the cap.
LEMMA WeightBounds ==
    ASSUME NEW c \in Candidates, NEW weather \in {"balanced", "stale", "risk_off", "unavailable"}
    PROVE  /\ SizedWeight(c, weather) \in Nat
           /\ c.lifecycle = "experimental" => SizedWeight(c, weather) <= ExperimentalCap
<1> DEFINE gross == StrategyBudget * c.score * c.score * Multiplier(weather)
           base == Least(20 * c.score, gross \div 400)
           held == IF c.lifecycle = "experimental" THEN Least(base, ExperimentalCap) ELSE base
           calm == IF c.volatile THEN held \div 2 ELSE held
<1>1. c.score \in 1 .. 10
    BY DEF Candidates
<1>2. Multiplier(weather) \in Nat
    BY DEF Multiplier
<1>3. StrategyBudget * c.score \in Nat /\ 20 * c.score \in Nat
    BY <1>1 DEF StrategyBudget
<1>4. \A i, j \in Nat : i * j \in Nat
    OBVIOUS
<1>5. gross \in Nat
  <2>1. StrategyBudget * c.score * c.score \in Nat
      BY <1>1, <1>3, <1>4
  <2> QED BY <1>2, <1>4, <2>1
<1> HIDE DEF gross
<1>6. gross \div 400 \in Nat
    BY <1>5
<1>7. base \in Nat
    BY <1>3, <1>6 DEF Least
<1> HIDE DEF base
<1>8. held \in Nat /\ (c.lifecycle = "experimental" => held <= 80)
    BY <1>7 DEF Least, ExperimentalCap
<1> HIDE DEF held
<1>9. calm \in Nat /\ calm <= held
    BY <1>8
<1>10. SizedWeight(c, weather) = Least(Least(calm, LiquidityCap), SingleNameCap)
    BY DEF SizedWeight, calm, held, base, gross
<1> HIDE DEF calm
<1> QED BY <1>8, <1>9, <1>10 DEF Least, LiquidityCap, SingleNameCap, ExperimentalCap

\* What the run has decided about risk fits the candidates it has scanned.
RiskFits ==
    \A t \in Tickers : risk[t].status = "approved" =>
        /\ t \in Scanned
        /\ ~scan[t].near
        /\ scan[t].lifecycle = "experimental" => risk[t].weight <= ExperimentalCap

\* Between planning and approval the intent blocks every ticker with an event.
IntentFits == at = "risk" => intent.blocked = BlockedByEvent

\* Orders are posted after approval, for approved tickers.
OrdersFit ==
    /\ at \in {"plan", "risk"} => orders = {}
    /\ \A o \in orders : o.ticker \in Tickers /\ risk[o.ticker].status = "approved"
                         /\ o.weight = risk[o.ticker].weight

\* A hedge that is to be opened finds no overlay, one to be closed finds one.
HedgeFits ==
    at \in {"risk", "decide", "execute"} =>
        /\ intent.hedge.action = "open_hedge" => overlays[intent.hedge.underlier] = 0
        /\ intent.hedge.action = "close_hedge" => overlays[intent.hedge.underlier] > 0
        /\ intent.hedge.action # "none" => intent.hedge.underlier \in Underliers

IInv == TypeOK /\ RiskFits /\ IntentFits /\ OrdersFit /\ HedgeFits /\ OneOverlayPerUnderlier

\* The first day begins without orders and overlays.
LEMMA InitInv == Init => IInv
  BY DEF Init, NewRun, IInv, TypeOK, RiskFits, IntentFits, OrdersFit, HedgeFits,
         OneOverlayPerUnderlier, Decisions, Instruments, Scanned

\* The planner's hedge names an underlier, and fits its overlay.
LEMMA HedgePlanned ==
    ASSUME TypeOK, NEW weather
    PROVE  LET h == HedgeOf(weather) IN
             /\ h \in [action : {"none", "open_hedge", "adjust_hedge", "close_hedge"},
                       underlier : Underliers \cup {"none"}]
             /\ h.action = "open_hedge" => overlays[h.underlier] = 0
             /\ h.action = "close_hedge" => overlays[h.underlier] > 0
             /\ h.action # "none" => h.underlier \in Underliers
<1> DEFINE h == HedgeOf(weather)
<1>1. overlays \in [Underliers -> Nat] /\ BroadUnderlier \in Underliers
    BY DEF TypeOK, BroadUnderlier
<1>2. CASE weather \in {"risk_off", "unavailable"}
    BY <1>1, <1>2 DEF HedgeOf, OverlayAction
<1>3. CASE weather \notin {"risk_off", "unavailable"} /\ \E u \in Underliers : overlays[u] > 0
    BY <1>1, <1>3 DEF HedgeOf, FirstOverlay
<1>4. CASE weather \notin {"risk_off", "unavailable"} /\ ~\E u \in Underliers : overlays[u] > 0
    BY <1>4 DEF HedgeOf
<1> QED BY <1>2, <1>3, <1>4

\* A guarded answer and a blind one are decisions.
LEMMA DecisionTypes ==
    ASSUME TypeOK, NEW t \in Tickers
    PROVE  /\ \A a \in Answers : Guarded(t, a) \in Decisions
           /\ t \in Scanned => Blind(t) \in Decisions
<1>1. ASSUME NEW a \in Answers PROVE Guarded(t, a) \in Decisions
    BY DEF Guarded, Decisions
<1>2. ASSUME t \in Scanned PROVE Blind(t) \in Decisions
  <2>1. scan[t] \in Candidates
      BY <1>2 DEF TypeOK, Scanned
  <2>2. scan[t].plan \in Plans
      BY <2>1 DEF Candidates
  <2>3. scan[t].plan[1] \in Instruments
      BY <2>2 DEF Plans, Instruments
  <2> QED BY <2>3 DEF Blind, Decisions
<1> QED BY <1>1, <1>2

\* An order for an approved ticker is typed and fits.
LEMMA OrderFits ==
    ASSUME IInv, NEW t \in Tickers, RiskAllows(t), NEW i \in {"stock", "option"},
           decision[t].action \in StockActions \cup OptionActions
    PROVE  /\ Order(t, i) \in [ticker : Tickers, instrument : {"stock", "option"},
                               action : StockActions \cup OptionActions, weight : Nat]
           /\ Order(t, i).ticker = t
           /\ risk[t].status = "approved" /\ Order(t, i).weight = risk[t].weight
<1>1. risk[t] \in [status : {"approved", "rejected"}, weight : Nat]
    BY DEF IInv, TypeOK
<1> QED BY <1>1 DEF Order, RiskAllows

\* Every step preserves the invariant.
LEMMA NextInv == IInv /\ [Next]_vars => IInv'
<1> SUFFICES ASSUME IInv, [Next]_vars PROVE IInv'
    OBVIOUS
<1> USE DEF IInv
<1>1. ASSUME NEW found \in [Tickers -> Profiles \cup {NoCandidate}], NEW weather \in Regimes,
             Scan(found, weather)
      PROVE  IInv'
    BY <1>1 DEF Scan, TypeOK, RiskFits, IntentFits, OrdersFit, HedgeFits,
                OneOverlayPerUnderlier, Decisions, Instruments, Scanned
<1>2. CASE Plan
  <2>1. intent' = [blocked |-> BlockedByEvent, hedge |-> HedgeOf(regime)]
      BY <1>2 DEF Plan
  <2>2. BlockedByEvent \subseteq Tickers /\ BlockedByEvent' = BlockedByEvent /\ Scanned' = Scanned
      BY <1>2 DEF Plan, BlockedByEvent, Scanned
  <2>3. TypeOK'
      BY <1>2, <2>1, <2>2, HedgePlanned DEF Plan, TypeOK
  <2>4. HedgeFits'
      BY <1>2, <2>1, HedgePlanned DEF Plan, HedgeFits
  <2> QED BY <1>2, <2>1, <2>2, <2>3, <2>4 DEF Plan, RiskFits, IntentFits, OrdersFit,
             OneOverlayPerUnderlier
<1>3. ASSUME NEW flawed \in SUBSET Scanned, Approve(flawed) PROVE IInv'
  <2> DEFINE passed == Scanned \ (intent.blocked \cup flawed)
  <2>1. /\ UNCHANGED <<scan, regime, intent, decision, todo, orders, overlays>>
        /\ at = "risk" /\ at' = "decide" /\ orders = {} /\ Scanned' = Scanned
      BY <1>3 DEF Approve, OrdersFit, Scanned
  <2>2. risk' = [t \in Tickers |-> IF t \in passed
                    THEN [status |-> "approved", weight |-> SizedWeight(scan[t], regime)]
                    ELSE NoRisk]
      BY <1>3 DEF Approve
  <2>3. ASSUME NEW t \in passed
        PROVE  /\ SizedWeight(scan[t], regime) \in Nat
               /\ ~scan[t].near
               /\ scan[t].lifecycle = "experimental" => SizedWeight(scan[t], regime) <= ExperimentalCap
    <3>1. t \in Scanned /\ scan[t] \in Candidates
        BY DEF TypeOK, Scanned
    <3>2. ~scan[t].near
        BY <2>1, <3>1 DEF IntentFits, BlockedByEvent
    <3> QED BY <3>1, <3>2, WeightBounds DEF TypeOK
  <2> HIDE DEF passed
  <2>4. risk' \in [Tickers -> [status : {"approved", "rejected"}, weight : Nat]]
      BY <2>2, <2>3
  <2>5. TypeOK'
      BY <2>1, <2>4 DEF TypeOK
  <2>6. RiskFits'
    <3> SUFFICES ASSUME NEW t \in Tickers, risk'[t].status = "approved"
                 PROVE  /\ t \in Scanned' /\ ~scan'[t].near
                        /\ scan'[t].lifecycle = "experimental"
                              => risk'[t].weight <= ExperimentalCap
        BY DEF RiskFits
    <3>1. t \in passed
        BY <2>2
    <3>2. t \in Scanned
        BY <3>1 DEF passed
    <3>3. risk'[t].weight = SizedWeight(scan[t], regime)
        BY <2>2, <3>1
    <3> QED BY <2>1, <2>3, <3>1, <3>2, <3>3
  <2> QED BY <2>1, <2>5, <2>6 DEF IntentFits, OrdersFit, HedgeFits, OneOverlayPerUnderlier
<1>4. ASSUME NEW answer \in [Tickers -> Answers], NEW unseen \in SUBSET Scanned,
             Decide(answer, unseen)
      PROVE  IInv'
  <2>1. decision' \in [Tickers -> Decisions]
    <3>1. NoDecision \in Decisions
        BY DEF Decisions, Instruments
    <3>2. \A t \in Tickers : decision'[t] \in Decisions
        BY <1>4, <3>1, DecisionTypes DEF Decide
    <3> QED BY <1>4, <3>2 DEF Decide
  <2>2. /\ UNCHANGED <<scan, regime, intent, risk, todo, orders, overlays>>
        /\ at = "decide" /\ at' = "execute"
      BY <1>4 DEF Decide
  <2> QED BY <2>1, <2>2 DEF TypeOK, RiskFits, IntentFits, OrdersFit, HedgeFits,
             OneOverlayPerUnderlier, Scanned
<1>5. ASSUME NEW t \in Tickers, ExecuteStock(t) PROVE IInv'
  <2>1. /\ UNCHANGED <<at, scan, regime, intent, risk, decision, overlays>>
        /\ at = "execute" /\ todo' = todo \ {t}
      BY <1>5 DEF ExecuteStock
  <2>2. CASE orders' = orders
      BY <2>1, <2>2 DEF TypeOK, RiskFits, IntentFits, OrdersFit, HedgeFits,
         OneOverlayPerUnderlier, Scanned
  <2>3. CASE TradesStock(t) /\ orders' = orders \cup {Order(t, "stock")}
    <3>1. RiskAllows(t) /\ decision[t].action \in StockActions \cup OptionActions
        BY <2>3 DEF TradesStock
    <3>2. TypeOK' /\ OrdersFit'
        BY <2>1, <2>3, <3>1, OrderFits DEF TypeOK, OrdersFit, Scanned
    <3> QED BY <2>1, <3>2 DEF RiskFits, IntentFits, HedgeFits, OneOverlayPerUnderlier, Scanned
  <2> QED BY <1>5, <2>2, <2>3 DEF ExecuteStock
<1>6. ASSUME NEW t \in Tickers, NEW posted \in BOOLEAN, NEW filled \in BOOLEAN,
             ExecuteOption(t, posted, filled)
      PROVE  IInv'
  <2>1. /\ UNCHANGED <<scan, regime, intent, risk, decision, overlays>>
        /\ at = "execute" /\ at' \in {"execute", "failed"} /\ todo' = todo \ {t}
      BY <1>6 DEF ExecuteOption, OptionGivesWay
  <2>2. CASE orders' = orders
      BY <2>1, <2>2 DEF TypeOK, RiskFits, IntentFits, OrdersFit, HedgeFits,
         OneOverlayPerUnderlier, Scanned
  <2>3. CASE TradesOption(t) /\ orders' = orders \cup {Order(t, "option")}
    <3>1. RiskAllows(t) /\ decision[t].action \in StockActions \cup OptionActions
        BY <2>3 DEF TradesOption, HasPayload
    <3>2. TypeOK' /\ OrdersFit'
        BY <2>1, <2>3, <3>1, OrderFits DEF TypeOK, OrdersFit, Scanned
    <3> QED BY <2>1, <3>2 DEF RiskFits, IntentFits, HedgeFits, OneOverlayPerUnderlier, Scanned
  <2> QED BY <1>6, <2>2, <2>3 DEF ExecuteOption
<1>7. ASSUME NEW filled \in BOOLEAN, Finish(filled) PROVE IInv'
  <2>1. /\ UNCHANGED <<scan, regime, intent, risk, decision, todo, orders>>
        /\ at = "execute" /\ at' = "idle"
        /\ overlays' = IF filled THEN OverlaysAfter(intent.hedge) ELSE overlays
      BY <1>7 DEF Finish
  <2>2. overlays' \in [Underliers -> Nat] /\ \A u \in Underliers : overlays'[u] <= 1
    <3> DEFINE u == intent.hedge.underlier
    <3>1. overlays \in [Underliers -> Nat]
        BY DEF TypeOK
    <3>2. CASE intent.hedge.action = "open_hedge"
        BY <2>1, <3>1, <3>2 DEF OverlaysAfter, HedgeFits, OneOverlayPerUnderlier
    <3>3. CASE intent.hedge.action = "close_hedge"
        BY <2>1, <3>1, <3>3 DEF OverlaysAfter, HedgeFits, OneOverlayPerUnderlier
    <3>4. CASE intent.hedge.action \notin {"open_hedge", "close_hedge"}
        BY <2>1, <3>1, <3>4 DEF OverlaysAfter, OneOverlayPerUnderlier
    <3> QED BY <3>2, <3>3, <3>4
  <2> QED BY <2>1, <2>2 DEF TypeOK, RiskFits, IntentFits, OrdersFit, HedgeFits,
             OneOverlayPerUnderlier, Scanned
<1>8. CASE Recover
    BY <1>8 DEF Recover, TypeOK, RiskFits, IntentFits, OrdersFit, HedgeFits,
                OneOverlayPerUnderlier, Scanned
<1>9. ASSUME NEW u \in Underliers, Expire(u) PROVE IInv'
    BY <1>9 DEF Expire, TypeOK, RiskFits, IntentFits, OrdersFit, HedgeFits,
                OneOverlayPerUnderlier, Scanned
<1>10. CASE UNCHANGED vars
    BY <1>10 DEF vars, TypeOK, RiskFits, IntentFits, OrdersFit, HedgeFits,
                 OneOverlayPerUnderlier, Scanned, BlockedByEvent
<1> QED BY <1>1, <1>2, <1>3, <1>4, <1>5, <1>6, <1>7, <1>8, <1>9, <1>10 DEF Next

\* IInv holds in every state of every behaviour.
LEMMA InvHolds == Spec => []IInv
  BY InitInv, NextInv, PTL DEF Spec

\* Every variable keeps its type, and an overlay is only closed if it is open.
THEOREM TypeCorrect == Spec => []TypeOK
<1>1. IInv => TypeOK
    BY DEF IInv
<1> QED BY InvHolds, <1>1, PTL

\* A ticker the risk manager rejected has no order, whatever the agent answers.
THEOREM HardRejectHolds == Spec => []HardRejectMakesNoOrder
<1>1. IInv => HardRejectMakesNoOrder
    BY DEF IInv, OrdersFit, HardRejectMakesNoOrder
<1> QED BY InvHolds, <1>1, PTL

\* No order opens a position in a ticker with an event of its own ahead: the
\* planner's intent reaches the order through the risk decision alone.
THEOREM NoOpeningHolds == Spec => []NoOpeningIntoEvent
<1>1. IInv => NoOpeningIntoEvent
    BY DEF IInv, OrdersFit, RiskFits, NoOpeningIntoEvent
<1> QED BY InvHolds, <1>1, PTL

\* An experimental strategy never trades more than its cap.
THEOREM ExperimentalHolds == Spec => []ExperimentalStaysSmall
<1>1. IInv => ExperimentalStaysSmall
    BY DEF IInv, OrdersFit, RiskFits, ExperimentalStaysSmall
<1> QED BY InvHolds, <1>1, PTL

\* No underlier ever carries two hedge overlays.
THEOREM OneOverlayHolds == Spec => []OneOverlayPerUnderlier
<1>1. IInv => OneOverlayPerUnderlier
    BY DEF IInv
<1> QED BY InvHolds, <1>1, PTL
=============================================================================
