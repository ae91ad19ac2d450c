--------------------------- MODULE IntradayRefresh ---------------------------
(***************************************************************************)
(* The hourly intraday refresh of stock positions (trading/phases/intraday)*)
(* with paper execution switched on.                                       *)
(*                                                                         *)
(* A run is one transaction: it refreshes the stories of the tickers in    *)
(* scope, loads what the morning decided, syncs the portfolio, turns the   *)
(* stories of the latest batch into alerts that no alert of today already  *)
(* carries, asks the agent about each ticker that has a price, lets the    *)
(* guardrails and the look-ahead planner overrule it, and sends orders.    *)
(* A run that raises is rolled back; the orders it sent stay at the broker *)
(* and so do the fills it recorded.                                        *)
(*                                                                         *)
(* Time is the number of runs started: rows are stamped with it, and the   *)
(* trade day is the runs after dayStart.  A story is an item of one ticker *)
(* and one kind: "near", a binary event of the company now; "far", one     *)
(* whose date is more than five days away; "plain", anything else.  One    *)
(* strategy per ticker, whole positions, no options and no hedges.         *)
(***************************************************************************)
EXTENDS Naturals, FiniteSets

CONSTANTS
    Tickers,        \* tickers the desk may trade
    Stories,        \* the stories that may be published, [ticker, kind]
    Answers,        \* actions the agent may propose
    MaxRuns         \* bound on the runs started

ASSUME IntradayAssumption ==
    /\ Stories \subseteq [ticker : Tickers, kind : {"near", "far", "plain"}]
    /\ Answers \subseteq {"hold", "open_new", "reduce", "exit"}
    /\ MaxRuns \in Nat

VARIABLES
    clock,      \* runs started so far
    dayStart,   \* the clock when the trade day began
    stored,     \* available_for_decision_at of each story's row, 0 without a row
    alerts,     \* created_at of each story's alert, 0 without one
    rows,       \* the trade identity of each open position row
    decided,    \* the identity of today's authorised decision on each ticker
    pin,        \* the mode of the active manual request of each ticker
    held,       \* tickers the broker holds
    orders,     \* what became of each of today's client order ids
    unrecorded, \* tickers whose order filled after the run that sent it
    run,        \* the run in progress
    tells,      \* history: the committed runs that told the agent a story, with
                \* the stamp the story had
    unpriced    \* history: stories a committed run alerted on without a price

db == <<stored, alerts, rows>>
desk == <<decided, pin>>
broker == <<held, orders, unrecorded>>
history == <<tells, unpriced>>
vars == <<clock, dayStart, db, desk, broker, run, history>>

Clock == 0 .. MaxRuns
Tactical == "tactical_stock_trade"
Identities == {Tactical, "core_holding"}
Modes == {"none", "review_only", "paper_trade_eligible"}
Actions == {"enter_long", "reduce", "exit"}
Keys == Tickers \X Actions
NoRows == [t \in Tickers |-> "none"]
NoContext == [identity |-> Tactical, allow |-> FALSE, mode |-> "none"]

NoRun == [at |-> "idle", stored |-> [s \in Stories |-> 0], alerts |-> [s \in Stories |-> 0],
          rows |-> NoRows, scope |-> {}, ctx |-> [t \in Tickers |-> NoContext],
          held |-> {}, priced |-> {}, todo |-> {}, told |-> {}, forced |-> {}]

Init ==
    /\ clock = 0 /\ dayStart = 0
    /\ stored = [s \in Stories |-> 0]
    /\ alerts = [s \in Stories |-> 0]
    /\ rows = NoRows
    /\ decided = NoRows
    /\ pin = [t \in Tickers |-> "none"]
    /\ held = {}
    /\ orders = [k \in Keys |-> "none"]
    /\ unrecorded = {}
    /\ run = NoRun
    /\ tells = [s \in Stories |-> {}]
    /\ unpriced = {}

-----------------------------------------------------------------------------
(* What happens outside the run.                                           *)

\* Before the first refresh of the day the preopen run decides to buy t.  The
\* order fills while that run polls it, and its sync writes the position with the
\* identity of the decision, or it is left open.
Morning(t, identity, filled) ==
    /\ run.at = "idle" /\ clock = dayStart /\ decided[t] = "none" /\ t \notin held
    /\ orders[<<t, "enter_long">>] = "none"
    /\ decided' = [decided EXCEPT ![t] = identity]
    /\ orders' = [orders EXCEPT ![<<t, "enter_long">>] = IF filled THEN "filled" ELSE "open"]
    /\ held' = IF filled THEN held \cup {t} ELSE held
    /\ rows' = IF filled THEN [rows EXCEPT ![t] = identity] ELSE rows
    /\ UNCHANGED <<clock, dayStart, stored, alerts, pin, unrecorded, run, history>>

\* An operator pins t or dismisses the pin.  A run reads the pins once, when it
\* begins, so that a change later in it is one after it.
ChangePin(t, mode) ==
    /\ run.at = "idle" /\ pin[t] # mode
    /\ pin' = [pin EXCEPT ![t] = mode]
    /\ UNCHANGED <<clock, dayStart, db, decided, broker, run, history>>

\* The broker fills an open order when no run polls it.
LateFill(k) ==
    /\ orders[k] = "open"
    /\ orders' = [orders EXCEPT ![k] = "filled"]
    /\ held' = IF k[2] = "enter_long" THEN held \cup {k[1]} ELSE held \ {k[1]}
    /\ unrecorded' = unrecorded \cup {k[1]}
    /\ UNCHANGED <<clock, dayStart, db, desk, run, history>>

\* The trade day ends: day orders that are still open expire.
NewDay ==
    /\ run.at = "idle" /\ clock > dayStart /\ clock < MaxRuns
    /\ dayStart' = clock
    /\ decided' = NoRows
    /\ orders' = [k \in Keys |-> "none"]
    /\ UNCHANGED <<clock, db, pin, held, unrecorded, run, history>>

-----------------------------------------------------------------------------
(* The run.                                                                *)

OrderedToday == {t \in Tickers : \E a \in Actions : orders[<<t, a>>] # "none"}
Scope ==
    {t \in Tickers : rows[t] # "none" \/ pin[t] # "none" \/ decided[t] # "none"} \cup OrderedToday

\* load_intraday_request_contexts: the rows of the last sync, not the broker's.
Context(t) ==
    [identity |-> IF rows[t] # "none" THEN rows[t]
                  ELSE IF decided[t] # "none" THEN decided[t] ELSE Tactical,
     allow |-> pin[t] = "paper_trade_eligible" \/ decided[t] # "none",
     mode |-> pin[t]]

\* The scope, the refresh of its sources (an outage stores nothing) and the
\* contexts.
Begin(news) ==
    /\ run.at = "idle" /\ clock < MaxRuns /\ Scope # {}
    /\ news \subseteq {s \in Stories : s.ticker \in Scope}
    /\ clock' = clock + 1
    /\ run' = [NoRun EXCEPT !.at = "begun",
                 !.stored = [s \in Stories |-> IF s \in news THEN clock + 1 ELSE stored[s]],
                 !.alerts = alerts, !.scope = Scope,
                 !.ctx = [t \in Tickers |-> Context(t)]]
    /\ UNCHANGED <<dayStart, db, desk, broker, history>>

\* A position keeps the identity of its row; a fill that this sync finds late is
\* tactical whatever was decided, and so is a position without a row.
SyncedIdentity(t) ==
    IF t \in unrecorded \/ rows[t] = "none" THEN Tactical ELSE rows[t]

\* portfolio_sync.run.  The execution of a late fill is committed on its own.
Sync ==
    /\ run.at = "begun"
    /\ run' = [run EXCEPT !.at = "synced", !.held = held,
                 !.rows = [t \in Tickers |-> IF t \in held THEN SyncedIdentity(t) ELSE "none"]]
    /\ unrecorded' = {}
    /\ UNCHANGED <<clock, dayStart, db, desk, held, orders, history>>

\* latest_available_by_family: the records of the newest moment alone.
Batch(t) ==
    LET own == {s \in Stories : s.ticker = t /\ run.stored[s] > 0}
    IN  {s \in own : \A r \in own : run.stored[r] <= run.stored[s]}

\* Mutant: only the alerts of this very run count.
AlertedThisRun(s) == run.alerts[s] = clock

\* load_existing_news_alert_dedupe_keys: alerts created in the window of today.
Known(s) == run.alerts[s] > dayStart
Fresh(t) == {s \in Batch(t) : ~Known(s)}

\* Mutant: an event counts only in the run that alerts it.
FreshEvent(s) == s.kind = "near" /\ s \in Fresh(s.ticker)

\* The date of an event is read from the alert, but an item of the batch that
\* looks like an event of the company becomes an earnings event of today.
OwnEvent(s) == s.kind \in {"near", "far"}
EventAhead(t) == \E s \in Batch(t) : OwnEvent(s)

\* _apply_guardrails.
Guarded(t, action) ==
    IF \/ run.ctx[t].mode = "review_only"
       \/ action = "open_new" /\ (~run.ctx[t].allow \/ t \in run.held)
       \/ action \in {"reduce", "exit"} /\ t \notin run.held
    THEN "hold" ELSE action

\* The planner's actions on t; _matching_planner_position_action wants the
\* identity of the context.
Pending(t) == t \notin run.held /\ run.ctx[t].allow
BlocksOpen(t) == EventAhead(t) /\ Pending(t) /\ run.ctx[t].identity = Tactical

\* Mutant: the identity of the context is not compared.
ForcesSynced(t) == EventAhead(t) /\ t \in run.held /\ run.rows[t] # "core_holding"

\* An event ahead reduces a held tactical position.
ForcesReduce(t) ==
    EventAhead(t) /\ t \in run.held /\ run.rows[t] # "core_holding" /\ run.ctx[t].identity = run.rows[t]

\* _apply_portfolio_risk_intent has the last word.
Final(t, action) ==
    IF BlocksOpen(t) THEN "hold" ELSE IF ForcesReduce(t) THEN "reduce" ELSE Guarded(t, action)

\* An answer that does not parse twice over becomes hold.
AgentAnswers == [Tickers -> Answers \cup {"hold"}]
Executable(action) == action # "hold"
Order(t, action) == <<t, IF action = "open_new" THEN "enter_long" ELSE action>>

\* The alerts are saved with the stamp of their story, then each ticker with a price is put to the agent, with
\* the planner's intent, and the orders are queued.  A ticker with no baseline
\* snapshot is left out of all of it.
Decide(covered, priced, answer) ==
    /\ run.at = "synced"
    /\ covered \subseteq run.scope /\ priced \subseteq covered
    /\ run' = [run EXCEPT !.at = "sending", !.priced = priced,
                 !.alerts = [s \in Stories |-> IF s.ticker \in covered /\ s \in Fresh(s.ticker)
                                               THEN run.stored[s] ELSE @[s]],
                 !.told = UNION {Fresh(t) : t \in priced},
                 !.forced = {t \in priced : ForcesReduce(t)},
                 !.todo = {Order(t, Final(t, answer[t])) :
                              t \in {u \in priced : Executable(Final(u, answer[u]))}}]
    /\ UNCHANGED <<clock, dayStart, db, desk, broker, history>>

Sellable(t) == t \in held /\ \A a \in {"reduce", "exit"} : orders[<<t, a>>] # "open"
Accepts(k) == orders[k] = "none" /\ (k[2] # "enter_long" => Sellable(k[1]))
LocallyRejected(k) == run.ctx[k[1]].mode = "review_only"

\* An order the broker takes.  A fill it reports while it is polled is recorded at
\* once and the position synced; otherwise the order is stored as open.
Send(k, filled) ==
    /\ run.at = "sending" /\ k \in run.todo /\ ~LocallyRejected(k) /\ Accepts(k)
    /\ orders' = [orders EXCEPT ![k] = IF filled THEN "filled" ELSE "open"]
    /\ held' = IF ~filled THEN held
               ELSE IF k[2] = "enter_long" THEN held \cup {k[1]} ELSE held \ {k[1]}
    /\ run' = [run EXCEPT !.todo = @ \ {k},
                 !.rows[k[1]] = IF ~filled THEN @
                                ELSE IF k[2] = "enter_long" THEN run.ctx[k[1]].identity ELSE "none"]
    /\ UNCHANGED <<clock, dayStart, db, desk, unrecorded, history>>

\* A review-only ticker is rejected before the broker sees it.  Refreshing that
\* order raises unless an order of the same id went out earlier in the day.
Reject(k) ==
    /\ run.at = "sending" /\ k \in run.todo /\ LocallyRejected(k) /\ orders[k] # "none"
    /\ run' = [run EXCEPT !.todo = @ \ {k}]
    /\ UNCHANGED <<clock, dayStart, db, desk, broker, history>>

\* save_intraday_runtime_run and the commit.
Commit ==
    /\ run.at = "sending" /\ run.todo = {}
    /\ stored' = run.stored /\ alerts' = run.alerts /\ rows' = run.rows
    /\ tells' = [s \in Stories |-> IF s \in run.told THEN tells[s] \cup {<<clock, run.stored[s]>>}
                                   ELSE tells[s]]
    /\ unpriced' = unpriced \cup {s \in Stories : run.alerts[s] # alerts[s] /\ s \notin run.told}
    /\ run' = NoRun
    /\ UNCHANGED <<clock, dayStart, desk, broker>>

\* Mutant: the alerts of the run are committed on their own.
AlertsSurvive == run.alerts
\* What a rollback leaves of the alerts.
AlertsAfterRollback == alerts

\* Anything in the run raises: a provider, the agent, the broker, a refused or an
\* unknown client order id.
Fail ==
    /\ run.at # "idle"
    /\ alerts' = AlertsAfterRollback
    /\ run' = NoRun
    /\ UNCHANGED <<clock, dayStart, stored, rows, desk, broker, history>>

Next ==
    \/ \E t \in Tickers, identity \in Identities, filled \in BOOLEAN : Morning(t, identity, filled)
    \/ \E t \in Tickers, mode \in Modes : ChangePin(t, mode)
    \/ \E k \in Keys : LateFill(k)
    \/ NewDay
    \/ \E news \in SUBSET Stories : Begin(news)
    \/ Sync
    \/ \E covered, priced \in SUBSET Tickers, answer \in AgentAnswers :
          Decide(covered, priced, answer)
    \/ \E k \in Keys, filled \in BOOLEAN : Send(k, filled)
    \/ \E k \in Keys : Reject(k)
    \/ Commit
    \/ Fail

Spec == Init /\ [][Next]_vars

-----------------------------------------------------------------------------
(* What the refresh promises.                                              *)

NearEvent(s) == s.kind = "near"

\* Every variable has its type, and the planner compares real identities.
TypeOK ==
    /\ clock \in Clock /\ dayStart \in 0 .. clock
    /\ stored \in [Stories -> Clock] /\ alerts \in [Stories -> Clock]
    /\ rows \in [Tickers -> Identities \cup {"none"}]
    /\ decided \in [Tickers -> Identities \cup {"none"}] /\ pin \in [Tickers -> Modes]
    /\ held \subseteq Tickers /\ unrecorded \subseteq Tickers
    /\ orders \in [Keys -> {"none", "open", "filled"}]
    /\ run.at \in {"idle", "begun", "synced", "sending"}
    /\ \A t \in Tickers : run.ctx[t].identity \in Identities
    /\ run.todo \subseteq Keys /\ run.told \subseteq Stories
    /\ tells \in [Stories -> SUBSET (Clock \X Clock)] /\ unpriced \subseteq Stories

\* A story whose alert is stored, so that later runs of the day are silent about
\* it, was put to the agent by a run that committed, unless its ticker had no
\* price: a rollback takes the alert back with the agent's answer.
StoriesReachAgent ==
    \A s \in Stories : alerts[s] # 0 => tells[s] # {} \/ s \in unpriced

\* No two committed runs of a day tell the agent a story that was already in a
\* batch of that day, however often the provider repeats it
\* (load_existing_news_alert_dedupe_keys).
FreshStoryOnce ==
    \A s \in Stories : \A p, q \in tells[s] :
        p[2] > dayStart => ~(q[1] > p[1])

\* The dedupe keys are there so that a repeated headline does not trigger a second
\* rebalance on the same day.
HeadlineOnce ==
    \A s \in Stories : \A p, q \in tells[s] : p[1] > dayStart => ~(q[1] > p[1])

\* A run that is about to commit has sent a sale of each tactical position with a
\* binary event at hand, whatever the agent answered, if the ticker has a price
\* and no review-only pin.
ForcedReductionSells ==
    run.at = "sending" /\ run.todo = {} =>
        \A t \in run.priced \cap run.held :
            /\ rows[t] = Tactical
            /\ run.ctx[t].mode # "review_only"
            /\ \E s \in Batch(t) : NearEvent(s)
            => orders[<<t, "reduce">>] # "none"

\* The run opens no position into a binary event of its latest batch, unless the
\* ticker is a core holding.
NoOpenIntoEvent ==
    [][\A t \in Tickers :
          /\ run.at = "sending" /\ run.ctx[t].identity = Tactical
          /\ orders[<<t, "enter_long">>] = "none"
          /\ orders'[<<t, "enter_long">>] # "none"
          => ~\E s \in Batch(t) : NearEvent(s)]_vars

\* The planner never forces a sale of what the last committed sync calls a core
\* holding, not even in the run whose own sync renames it over a late fill.
CoreRowIsKept == \A t \in run.forced : rows[t] # "core_holding"

\* An event that is more than five days away forces no sale.
FarEventForcesNothing == \A t \in run.forced : \E s \in Batch(t) : NearEvent(s)
=============================================================================
