# Verification of equity_research_agent

`equity_research_agent` researches equities, scores candidates and trades them
on paper through Alpaca. This directory holds TLA+ modules of its core, TLC
configurations that check them on small instances, and proofs for every
instance. Paths below are relative to the repository.

## The system

Scheduled jobs (`src/scheduler`) start *phases* in threads of one process:
preopen, manual review, intraday refresh, outcome evaluation, reflection,
strategy evolution, daily bars, research, SEC ingestion. One job id never runs
twice at once (`max_instances = 1`), different jobs do overlap. A phase opens
one database session, works, and commits or rolls back at the end
(`db/connection.py`, `phases/preopen/__init__.py`).

| Component | State it keeps | Operations | What makes it correct | Module |
|---|---|---|---|---|
| Stock broker adapter `brokers/paper_stock.py` | orders by idempotency key, executions, in memory of one run | submit, poll, refresh, read account and positions | one broker order per key, no fill reported before it happened | StockExecution |
| Portfolio sync `portfolio/sync.py` | none of its own; writes orders, executions, positions, snapshots | reconcile open orders, read, validate, persist | late fills recorded once, snapshots settled | StockExecution |
| Paper execution `execution/paper_execution.py` | result lists of one run | submit a decision, checkpoint evidence, save, sync again, fall back to another expression | what the broker did is on record whatever happens to the run | StockExecution, OptionExecution |
| Execution repository `repositories/mixins/execution.py` | `paper_orders`, `paper_executions`, `paper_positions`, snapshots, option rows | save, checkpoint in an isolated session, load open orders and fills | rows never contradict the broker or each other | StockExecution, FillLedger, OptionExecution |
| P&L replay `portfolio/pnl.py` | none | replay fills, validate against positions | quantities and costs agree with the broker | StockExecution (quantities) |
| Option execution `execution/paper_execution_options.py`, `brokers/paper_option.py` | option orders, executions, position rows, all in the run's transaction | walk a decision's plan of expressions, submit, poll once, materialize the position, mirror the broker's contracts | every contract in exactly one open row | OptionExecution |
| Preopen phase `phases/preopen`, with planner, risk manager, agent and guardrails | records of one run | plan, size, approve, decide, execute, hedge | whatever the agent answers, no order against risk | PreopenDecision |
| Manual requests `phases/manual_review` | requests by ticker | create, dismiss, cancel, evaluate | at most one active request per ticker, modes respected | ManualRequests |
| Intraday `phases/intraday` | sources, alerts, position rows | refresh, deduplicate, sync, decide, send | no story lost or told twice, events handled | IntradayRefresh |
| Daily bars `workflows/market_daily_bars.py`, universe snapshots | bars, ingestion runs, snapshots | evening batch, morning reads | point in time reads, holes heal | DailyBars |
| Source ingestion `signals/source_ingestion.py` with `data_sources/provider_resilience.py` | one policy per endpoint: budget, failures, circuit, cache | one refresh per run | one family cannot starve another, budgets hold | SourceIngestion, ProviderPolicy |
| Outcomes `outcomes`, `phases/outcomes` | evaluations per candidate and checkpoint | mature due checkpoints, commit per date | each checkpoint evaluated once, none forgotten | OutcomeEvaluation |
| Reflection, learning, evolution | factors, proposals, strategy definitions | reflect, propose, gate, promote | no promotion without evidence, no step skipped | StrategyLearning |
| Strategies, ranking, signals, macro, events | records of one run | scoring and classification | numeric, mostly pure | their outcomes are choices |
| Research batch, web, agents, providers, collectors, tools | none beyond rows | present, call, parse | outside these modules | - |

What is hard here, and what `PROJECT.json` lists line by line as hazards:

* **The broker cannot be rolled back.** A run posts an order and may then fail,
  crash or be rolled back. The code answers with *checkpoints*: order and fill
  evidence written in a session of its own and committed at once
  (`persist_irreversible_stock_fill`).
* **Fills arrive late**, during a run, between runs, in parts, or never. Every
  sync first *reconciles*: it asks the broker for each open order.
* **Two sessions of one thread.** The checkpoint session and the run's session
  write the same row; a lock the run holds makes its own checkpoint wait.
* **Phases overlap** and reconcile the same orders; operators pin and dismiss
  requests under them; a backfill runs beside the outcome job; the evening
  batch may run into the next morning.
* **What a run reads early it uses late**: the mode of a request, the identity
  of a position, the evidence of a proposal, positions against fills up to a
  time taken earlier.
* **Parts fail**: one ticker's provider, one source date, one proposal, one
  expression of a plan. The rest should go on, and the report should say so.
* **Language models answer anything** in the schema. What follows must not
  depend on their good will.
* **An option order is read once and never again**; later syncs see only the
  contracts it left at the broker.

## Modules

| Module | Models |
|---|---|
| `StockExecution` | the stock path, from the first sync of a phase to its commit, with broker, database, transactions and runs |
| `FillLedger` | what the execution rows promise, an abstract ledger. `StockExecution` implements it (`KeepsLedger`, and with its fairness `ImplementsLedger`) |
| `OptionExecution` | the option path, from a decision's plan of expressions to the position rows, with its own view of broker, database and run |
| `PreopenDecision` | one preopen run after another: planner, sizing, risk, agent, guardrails, execution and hedge |
| `ManualRequests` | the rows of manual requests, the operators' sessions and the long transaction of a run that acts on them |
| `IntradayRefresh` | intraday runs over several days: stories, alerts, sync, planner, orders, rollback |
| `ProviderPolicy` | one step of `ProviderResiliencePolicy.execute`, as operators on a policy record |
| `SourceIngestion` | one refresh: jobs, calls, caches, errors, telemetry. Uses `ProviderPolicy` |
| `DailyBars` | universe snapshots of the mornings, bars batch of the evenings, what decisions read |
| `OutcomeEvaluation` | candidates, fills, the outcome job and the backfill over a calendar |
| `StrategyLearning` | reflections and their factors, proposals, evidence gate, promotion |
| `MC*` | instances for TLC |
| `StockExecutionProofs`, `OptionExecutionProofs`, `PreopenDecisionProofs`, `ManualRequestsProofs`, `OutcomeEvaluationProofs`, `StrategyLearningProofs`, `SourceIngestionProofs`, `IntradayRefreshProofs` | theorems, with proofs checked by TLAPS |

The components meet in the database, and the modules meet where one takes as a
choice what another details. A plan of expressions may end in stock:
`OptionExecution` has that as one step (`FallBackToStock`), `StockExecution` has
the syncs that precede it (`ReapproveFallback`). `PreopenDecision` and
`IntradayRefresh` send orders in one step, which `StockExecution` and
`OptionExecution` take apart. `ManualRequests` details the mode that
`PreopenDecision` takes as given. `SourceIngestion` reads the bars that
`DailyBars` stores. `StrategyLearning` cites the rows that `OutcomeEvaluation`
writes. `FillLedger` is the one abstract specification that is refined.

### How StockExecution corresponds to the code

| Model | Code |
|---|---|
| `Orders` | idempotency keys (`_idempotency_key`: trade date, ticker, strategy, action), which are also the client order ids |
| `market`, `account`, `fillSeq`, `posted` | the broker's orders, positions, and the orders of its timestamps (`filled_at`, `submitted_at`) |
| `dbOrder`, `dbExec`, `snap` | committed `paper_orders` (status, and whether the decision links are set), `paper_executions`, latest snapshot |
| `pend`, `pendSnap` | what a run's open transaction wrote; a pending order row is a row lock |
| `mem`, `saved` | `_orders_by_key` of the run's broker object, and the executions it knows under their own id |
| `pc`, `cur`, `todo`, `left`, `sync` | where the run is, the order in hand, the orders left to reconcile, the decisions left, the sync under way |
| `FirstSync`, `Refreshes`, `ReconcileOrder`, `RejectAmbiguous`, `RecordLateFill`, `SaveReconciled` | `BrokerPortfolioSyncWorkflow.run` and `_reconcile_late_stock_order_fills`; the ambiguous case is `one_or_none` raising on two rows |
| `FetchPositions`, `AcceptSync`, `RejectSync` | reads, `enrich_snapshot_with_stock_pnl`, writes |
| `SubmitCached`, `SubmitNew`, `SubmitDuplicate`, `RejectLocally` | the outcomes of `submit_order` |
| `Poll`, `RefreshSubmitted` | `_poll_until_terminal`, `_refresh_stock_order` |
| `CheckpointOrder`, `CheckpointFill`, `AlreadyStored`, `SaveSubmitted`, `SaveFillAndSync` | the tail of `_execute_stock_decision` |
| `ReapproveFallback`, and the step "refused" of `AcceptSync` | `_reapprove_stock_fallback` and `_reapprove_option_fallback`: a sync that persists nothing, then the risk manager, which raises in the deployed wiring (see the finding below), so that the run is rolled back |
| `Commit`, `Rollback`, `HttpError`, `Crash` | the end of a phase |

Every step between two broker or database interactions of a run is one action,
so that runs interleave wherever another session or the broker can be seen.

### How OptionExecution corresponds to the code

| Model | Code |
|---|---|
| `Decisions`, `Plan` | trading decisions and hedges, each with the expressions `_execute_expression_plan` walks, preferred first |
| `Orders` | option expressions by idempotency key; `Action`, `Legs`, `Units` are the order's action, contracts and quantity, `Book` what `_matching_open_option_position` compares |
| `market`, `closing`, `held`, `stock` | the broker's option orders, what they close, its contracts, its orders for stock |
| `db`, `tx` | committed option orders, executions and position rows; the same as the open transaction sees them. A row is the set of contracts (leg refs) of an open position, kept under the id of its order, or, for a contract the sync adopted, under `uuid5` of the contract |
| `rest`, `agenda` | what is left of a plan, the decisions left |
| `own` | `_orders_by_key` of the run's option broker |
| `existing` | the open position an order was built from |
| `Sync` | the option half of `save_broker_position_snapshots`: close rows without a held contract, adopt contracts no open row refers to |
| `Skip` | an expression that is not executable, is rejected, or whose reapproval fails |
| `SubmitCached`, `SubmitNew`, `SubmitRefused`, `SubmitUnknown`, `Poll` | the outcomes of the option broker's `submit_order` |
| `Store`, `Materialized` | the order, execution and position rows saved after it |
| `FallBackToStock` | the stock bucket of the plan |
| `Commit`, `Rollback`, `Fail` | the end of a phase |

### How the other modules correspond to the code

| Model | Code |
|---|---|
| **PreopenDecision** `Scan` | the selector's pick per ticker, with macro snapshot |
| `Plan`, `BlockedByEvent`, `HedgeOf` | `risk/planner.py`, `risk/lookahead_risk.py` |
| `Approve`, `SizedWeight` | `phases/preopen/risk.py`, `risk/sizing.py`, `RiskManager.evaluate` |
| `Decide`, `Guarded`, `Blind` | `decision/pipeline.py`, the agent's answer being any |
| `ExecuteStock`, `ExecuteOption`, `OptionGivesWay`, `Finish` | `PaperExecutionWorkflow` in the wiring of `phases/preopen/dependencies.py` |
| **ManualRequests** `Pin`, `Save`, `Close` | `create` up to its query, its flush, `dismiss` and `cancel` |
| `Start`, `Evaluate`, `Match`, `Decide`, `Submit`, `Commit`, `Fail` | the run: `load_active`, `record_evaluation`, matching, `_apply_guardrails`, `_execute_stock_decision`, end of its transaction |
| `Locked` | rows the open transaction has written |
| **IntradayRefresh** `Begin` | scope, source refresh and contexts |
| `Sync`, `SyncedIdentity` | `portfolio_sync.run` and the identity a stock row gets |
| `Decide`, `Fresh`, `Guarded`, `BlocksOpen`, `ForcesReduce` | `phases/intraday/rebalance.py`, `news_alerts.py`, the repository mixin |
| `Send`, `Reject`, `Commit`, `Fail` | execution and the end of the transaction |
| **SourceIngestion** `Agenda`, `CallsOf` | the order of work of `SourceIngestionService` for a wiring |
| `CacheHit`, `Refuse`, `Dial`, `Return`, `Retry`, `Fail` | one `execute` of a policy around a provider call |
| **DailyBars** `Preopen`, `ManualReview` | the universe scans and the reads of bars |
| `StartBatch`, `FinishBatch`, `FailBatch`, `New`, `Covered` | `MarketDailyBarsWorkflow` and `save_market_daily_bars` |
| **OutcomeEvaluation** `DueOf`, `End`, `Raises` | due checkpoints, finalisation, calendar errors |
| `StartJob`, `Load`, `Save`, `SaveFails`, `Finish`, `Crash`, `Backfill` | `phases/outcomes` per source date, `scripts/run_outcome_backfill.py` |
| **StrategyLearning** `Reflect`, `FactorStatus`, `RiskMultiplier` | `phases/reflection`, `learning/apply.py` |
| `Begin`, `Propose`, `Reject`, `Promote`, `Fail` | `StrategyEvolutionPipeline` in one transaction |
| `Passes`, `Promoted`, `Duplicate` | `evidence.py`, promotion, `find_duplicate_strategy` |

### What is abstracted

In `StockExecution`:

* Time is the position in `fillSeq`; decision time, `executed_at` and `as_of`
  are such positions.
* Prices, fees, fractions and average costs: only quantities are replayed.
* "canceled" stands for canceled, expired and rejected by the broker.
* Polling is one read at some moment after the POST: which of its up to ten
  reads sees the terminal status makes no difference.
* The SELECT and UPDATE of one save are one step.
* Executions per order saturate at two, standing for several.
* Stock position rows are not modelled. The lifecycle boundary is taken to be
  before all fills.
* A local rejection is modelled for keys the broker does not know, and a sell
  the broker refuses is not decided.
* A filled order has its quantity and average price, as Alpaca reports them.
  Without either the adapter would report the order filled and make no
  execution (`brokers/paper_stock.py:300`).
* A reapproval is that of the preopen and manual review wiring. The intraday
  wiring has no risk manager: its reapproval returns at once without a sync, and
  what follows is `SubmitNew` or nothing.

In `OptionExecution`:

* One run at a time; overlap is the subject of `StockExecution`.
* An option order fills whole or not at all, with one quantity for all legs.
  A close of fewer units than held closes the row; the next sync adopts the
  rest of the contracts.
* The expressions of a plan have keys of their own.
* Polling is again one read. The syncs of a reapproval persist nothing and
  change no option state, so they are left out.
* Audit rows (attempts, option decisions, legs, risk snapshots) are left out,
  and so is the adapter's local rejection reason, which no order of the
  strategy layer (supported action, quantity at least one) reaches.
* A fallback is reapproved by a risk manager that answers, as the tests wire
  it. In the deployed wiring it raises: see the finding below, which
  `PreopenDecision` models.

In the others: scores, greeks, returns and severities are members of small
sets, computed outside; weights are in fortieths of a percent
(`PreopenDecision`), alphas in hundredths (`StrategyLearning`). A run is atomic
between the points where another session, the broker or a failure can be seen.
`IntradayRefresh` has whole positions, one strategy per ticker, no options and
no hedges. `OutcomeEvaluation` has whole positions. `DailyBars` lets the bars
of a symbol and session be returned or not. `SourceIngestion` leaves out
backoff, and takes the rate of calls to be no limit of its own. Of the stories
of a ticker it has the one the condenser thinks most of: one that is kept in any
case, general news that name the company and not the ticker, noise, or one that
makes the condenser raise (a malformed URL does). What else the code computes
from an answer is taken not to raise. `ManualRequests` takes the two reads of
active requests at the start of a run (`phases/manual_review/__init__.py:51`,
`signals/pipeline.py:71`) as one. `OutcomeEvaluation` has one price for both
lookups of a checkpoint's endpoint (`outcomes/pipeline.py:222, 339`), so a load
gives both rows of a checkpoint or neither. `StrategyLearning` has one outcome
of a strategy and day: the gate's test that the dates are distinct
(`strategy_evolution/evidence.py:100`) follows from the count there and is not
checked.

### Environment

In the execution modules `Environment` names what the surroundings may do, so
that each run states what its properties assume: `market_open` (orders fill
while a run is active), `http_errors`, `crashes`, `partial_cancels`,
`early_sells` (the broker accepts a sell against the filled part of an
unfinished buy), `reapprovals` (a decision falls back to another expression, and
is refused), `repeats` (a run
decides a key already posted), `local_rejections`. For options: `rejections`
(strategy layer or risk turns an expression down), `call_errors` (a call to the
broker raises, before or after the POST took effect), `failures` (anything else
raises, or the process dies), `expiries` (contracts expire or are assigned),
`repeats` (a later run executes a decision of the day again). The proofs hold
for every subset, except where a theorem names the switches it excludes. In the
other modules every fault is always possible.

## Runs

| Run | Instance | Shows |
|---|---|---|
| `sequential` | 1 run at a time, 3 orders, 2 decisions a run, every fault but local rejections | types; no phantom, double or stranded fill; decision links are kept; the rows are a ledger of fills; an undisturbed sync passes validation |
| `closed_liveness` | 1 run, 3 orders, `reapprovals`, no faults, fairness | runs end, late fills are recorded, the ledger is implemented; snapshots catch up once no fallback is refused any more |
| `concurrent` | 3 runs at once, 1 order, 2 decisions a run, `market_open`, `local_rejections`, `partial_cancels`, `reapprovals` | accepted orders are tracked; a stale save over a terminal status reopens the order and does nothing worse; a run waits for its own lock for a late fill of an order it saved as open, and in no other case |
| `options` | plan *call, spread, stock* and two hedges with one key, 3 contracts, every fault but `repeats`, fairness | one execution per decision in a run; no contract in a strategy's row and in an adopted row; a sync leaves rows and contracts in step; committed rows keep catching up |
| `preopen` | 2 tickers, 6 kinds of candidates, 4 answers, 4 regimes, any number of days | a rejected ticker has no order, none is opened into an event, hedges do not pile up |
| `refusal` | the same | the finding below |
| `requests` | 2 tickers (an active and a shadow strategy), 2 operators, 2 rows, 1 run | one active request per ticker, closed requests stay closed, the evaluation's lock keeps a review-only request review-only |
| `intraday` | 1 ticker, an event and another story, 3 runs over up to 3 days | stories are told once on a day and none is lost, an event sells a tactical position, core holdings are left alone |
| `ingestion` | 2 tickers, 5 families, budget 5, 1 retry, circuit at 2 failures, the wirings of `MCUnwired` | budgets hold, families are isolated but for the company name that fundamentals give to the news, stored bars suffice |
| `bars` | 1 listed, 1 pinned and 1 support ticker, a holiday, a window of 3 days, 5 half days | quiet reads are stable, a full answer heals, only a review narrows |
| `outcomes` | 2 candidates, 1 ticker, 4 days with a holiday, offsets 1 and 2 | one row per checkpoint, none forgotten, an honest report |
| `learning` | a seed, a strategy under test and a new id, 4 evenings, 3 outcomes, 2 reflections, 1 proposal | trading is earned, the audit explains it, one step a run, learning never gives back risk budget |

The bounds. *Execution*: a buy of two shares, so that it can fill in parts; for one
run at a time also a buy of one and a sell of two: two orders are enough for one to
be reconciled while the other is executed, three for the reconcile order to
matter. Overlapping runs race on the row of one order: two make every race of two
sessions, the third meets what two others left (`RejectAmbiguous`), and with two
decisions a run syncs again after its order. They are interchangeable, which the
symmetry of that run uses. Runs repeat without limit. *Options*: a plan of three buckets is the least in which the walk goes
on after an expression that is itself a fallback; the call fills two contracts
and the exit closes one, so that a position is closed in parts; the two hedges
meet a cached key. *Requests*: two sessions and two rows make every race of the
unique index; one run makes every race of a run with them. *Intraday*: three
runs are the least for "told, silent, told again" within and across a day.
*Ingestion*: a budget of five is less than two tickers' calls for bars with
retries and the circuit may open before it is spent, so each limit is met first
somewhere; the second ticker is the one that pays for the first. Social feed and
option chain are jobs without a source here, and no other job reads what they
leave; with a source they are covered by the theorems, which hold for every
wiring.
*Bars*: five half days give two evenings, with the second batch running into a
third morning, and the window reaches over the holiday to a bar of an older
provider. *Outcomes*: four days are the least for a decision, a holiday between
it and its checkpoints, an interim and a final row, and a second candidate that
exits the first one's position. *Learning*: evidence needs outcomes of three
days, so a strategy made on the first evening can trade on the fourth, and the
strategy under test can be promoted from outcomes of others' days.

Deadlock is checked where nothing is bounded and the system never has to stop:
`closed_liveness`, `options`, `preopen`. In `sequential` and `concurrent` a run
can wait for itself for ever (see below); the others stop at a bound on
days, runs or rows, or end with their one refresh.

### Where code and documents disagree

`refusal` checks a documented promise and finds it broken; the quotation is in
`PROJECT.json`. When an option gives way to the next expression of its plan,
the reapproval calls `RiskManager.evaluate` with a candidate that lacks two
fields the manager reads (`execution/paper_execution_options.py:667, 792`,
`risk/manager.py:492`): `AttributeError`. The run is rolled back, decisions and
hedge still to come are not executed, and an order that was posted without a
fill has no row. A mere `no_trade` in the option instrument is enough.

The models hold more formulas of this kind. They are stated beside the
properties, TLC finds them violated, and no run of the project asks them:

| Formula | What the text says | What the code does |
|---|---|---|
| `OptionExecution!SingleExposure` | one decision, one executed expression (`plan/implementation/2026-06-07-strategy-expression-selection-refactor-design.md`) | an option order that has not filled within the poll stays live at the broker while the next expression is executed |
| `StockExecution!NoSelfWait`, market open | the checkpoint commits whatever the run does | a run saves an unfilled order (its session now holds the row lock), later finds it filled and checkpoints it: the isolated session waits for the run's own lock. `SelfWaitIsLateFill` says that there is no other such wait |
| `StockExecution!SubmittedOrderTracked`, with `http_errors` | submitted orders are on record | a GET after the POST fails and the order has no row |
| `StockExecution!TerminalStatusFinal`, two runs, market open | a terminal status is the end of an order (`brokers/paper_stock.py` polls until there is one) | a run saves the open status it read before another run's checkpoint; the order is stored as open until the next sync reconciles it (`StaleSaveReopens` holds) |
| `StockExecution!AtMostOneExecution`, two runs | executions are saved once | two overlapping syncs record one fill twice; from then on the replay disagrees with the broker |
| `StockExecution!MismatchMeansDisagreement` | `quantity_mismatch` is a disagreement | a fill after `decision_time` and before the first sync raises it |
| `StockExecution!NoStrandedShares` | a canceled order moved nothing | the shares of a partly filled, then canceled order never become an execution |
| `OutcomeEvaluation!FinalizedAtClose` | a trade's final row ends at its close (`plan/design/2026-08-11-strategy-learning-loop-recovery.md:244`) | lineage is by candidate: an exit ordered by another candidate or by a rebalance is not seen |
| `StrategyLearning!ActiveNeedsPaperFills` | active status rests on paper fills (`plan/design/07_replay_reflection_learning.md:15`) | the gate reads outcomes, filled or not (`strategy_evolution/pipeline.py:407`) |
| `ManualRequests!ReviewOnlyNeverOrders` | a review-only request never creates an order (`plan/design/09_ui_error_testing_delivery.md:129`) | dismissed after it was loaded and before it was evaluated, it has no mode, and the ticker trades |
| `ManualRequests!ShadowNeverOrders` | a shadow strategy never creates orders (`plan/design/03_strategy_architecture.md:313`) | a pinned ticker needs no authorization (`execution/paper_execution.py:497`) |
| `IntradayRefresh!HeadlineOnce` | a repeated headline triggers no second rebalance that day (`plan/design/09_ui_error_testing_delivery.md:134`) | known alerts are those created today, and an alert is created when its story was stored: while no refresh stores anything newer, yesterday's batch is told again by every run |
| `IntradayRefresh!FarEventForcesNothing` | a future earnings alert is no immediate event (`plan/implementation/pr_57_intraday_event_window_reduce_rationale.md:5`) | every story whose type names an event of the company becomes an event of today (`phases/intraday/helpers.py:405`) |
| none; `DailyBars!OnlyAReviewNarrows` says the narrowing has no other cause | the evening batch fetches the research universe (`plan/design/trading_data_batch_architecture_design.md:157, 723`) | a manual review stores its scoped universe as a snapshot like any other; it is the latest of the day, so the batch fetches pinned, watchlist and support tickers only, and the rest go stale while the morning calls them fresh (`signals/snapshots.py:79`) |

Smaller ones, visible in single actions:

* `StockExecution!SubmitDuplicate`: a later run that decides a key again is
  refused by the broker, `raise_for_status` raises and the run fails, although
  `plan/module_contracts.md:91` calls orders idempotent.
* `StockExecution!RejectLocally`, `IntradayRefresh!Reject`: an order the local
  guardrails reject is refreshed at a broker that never saw it, and the 404
  ends the run.
* `OptionExecution!Store`: a repeated key is stored under a new order id and
  the unique `client_order_id` ends the run. With another expression the key is
  another one, so a repeat on the same day can execute a decision twice, although
  `plan/design/09_ui_error_testing_delivery.md:138` wants orders idempotent per
  date, ticker, strategy and decision type.
* `OptionExecution!SubmitUnknown`: a call that fails after the POST stores a
  live option order as rejected.
* A late option fill loses its strategy: the order row keeps its status, and the
  next sync adopts the contract as a position of its own.
* `PreopenDecision!Multiplier`: an unavailable market has a risk multiplier of
  zero, which `or 1.0` turns into one (`phases/preopen/risk.py:74`).

`NoDoubleCover` is stated for orders that share no contract. Where two do, a
late fill is adopted, then the other order materializes the same contract in its
own row, and both rows stay open.

### Stated and in no run

`TypeOK` of `OptionExecution`, `ManualRequests`, `PreopenDecision`,
and `OutcomeEvaluation`, `DailyBars!BarsTypeOK`, `UnaskedOrdersAreEarned`,
`NoOpenIntoEvent`, `ExperimentalStaysSmall`, `TelemetryAccounts`,
`OpenCircuitIsSilent` and `RowsStay` are theorems (see below), and so is
`TerminalStatusFinal` for runs that do not overlap. `TypeOK` of the
other modules, `OptionExecution!RunEnds` and `StockExecution!LateFillRecorded`
(which `ImplementsLedger` implies) hold in the instances above and document the
models.

## Fairness

`closed_liveness` assumes weak fairness of starting a run (cron triggers go
on), weak fairness of each run's own steps (a thread is scheduled; an HTTP call
returns, by its timeout), and strong fairness of each order's completion or
cancellation (day orders end by the close). It is strong because, with the
market closed during runs, orders settle only between runs, so the step is
enabled again and again but not continuously. No fairness is assumed of
submissions, fallbacks, errors or crashes. A run that falls back is refused and
commits no snapshot, and the scheduler may start such runs for ever;
`SnapshotCatchesUp` therefore says "once no run is refused any more". What
refused runs have left behind must not stop the later ones. `ImplementsLedger`
needs no such premise: a reconcile's checkpoints outlive the refused run.

`options` assumes only weak fairness of `Start` and of `RunStep`, the steps of
the run under way. Nothing is assumed of the broker: an order may stay live for
ever, which the bounded poll is there for. `MirrorCatchesUp` therefore says
"once runs stop failing": a run that dies each time before it commits never
catches up, and what earlier failed runs filled and rolled back must not stop a
later one.

The other modules state safety only. Their progress is that of one sequential
loop each, and no code path of theirs waits for another.

## Proofs

Every safety property of the runs that pass is a theorem, for every value of the
constants, from the named assumption on the constants of its module and from
what the theorem itself assumes. Each component has its inductive invariant
`IInv`, with a lemma per action, or group of actions, and further invariants on
top of it.

### StockExecution

From `ConstantAssumption` alone, for every set of runs and orders, every bound
and every environment: `TypeCorrect`, `NoPhantomFillHolds` and
`NoStrandedFillHolds`. `NoStrandedFill` is not inductive by itself: a run may
hold a filled status in memory and write it later, in its own transaction,
which is committed later still. So `IInv` follows the status along that way:
`MemoryTrue` (what a run remembers of a terminal order is what the broker
says), `FillKnown` (at each step of a run it is known whether the order in hand
is filled and whether its fill is recorded), `PendSettled` and `RowsSettled` (a
pending or committed row reads "filled" only once the fill is recorded, and a
terminal row says what the broker says), `SavedIsStored`, and `FillsListed`
(needed for `FillTime`). The broker's steps preserve `IInv` because terminal
orders never change.

The other promises need no further look at single actions: `RunEffect` and
`BrokerEffect` say in a few cases what any step does to rows, memory and locks
(`StepEffect` proves it once), and each invariant is shown against those cases.
`Books` is common to them: rows, memory and what is left to reconcile are of
orders that the broker has accepted.

| Theorem | Assumes | Because | Argument |
|---|---|---|---|
| `SubmittedOrderTrackedHolds` | no `crashes`, no `http_errors` | between the POST and the checkpoint nothing but the process knows the order | a posted order is stored or in hand; a run leaves no order in hand behind |
| `StaleSaveReopensHolds` | nothing | | what a run has in memory or has written of an order is open, or is the broker's last word (`IInv`), and the broker's last word does not change (`BrokerFinal`) |
| `SelfWaitIsLateFillHolds` | no `repeats` | a repeated decision comes back to an order the run has saved | `HandsOpen`: the order a run has just sent is not among the rows its session has written, and what it still has to reconcile is not written as terminal |
| `NoSelfWaitHolds` | neither `market_open` nor `repeats` | an order saved as open may fill before the next sync | from the former and `RowsCurrent`: what any run remembers or has written of an order is the broker's last word |
| `AtMostOneExecutionHolds` | `MaxActive = 1` | the lookup and the insert of two syncs interleave | `Once`: an order with an execution is stored as filled, and the active run is not about to record it again |
| `LinkNeverLostHolds` | `MaxActive = 1` | a sync overwrites links it did not see | `LinksKnown`: what the active run remembers, loaded or has written of a linked row is linked |
| `SerialStatusFinalHolds` | `MaxActive = 1` | without overlap the market may be open | `FinalKnown`: what the active run has read or written of a row stored as terminal is that status |
| `KeepsLedgerHolds` | `MaxActive = 1` | as for `AtMostOneExecution` | every step is a step of `FillLedger` or changes none of its three sets |
| `QuietSyncPassesHolds` | `MaxActive = 1` | two executions of one fill make the replay disagree for ever | below |

The assumptions are those of the runs that check these properties
(`sequential`, `concurrent`), but for `NoSelfWait`, which no run checks: in
`closed_liveness` a run that waited for itself would break `RunEnds`. Outside them
the code breaks each promise: see the table above, or drop the assumption from
a configuration and let TLC show it. `MaxActive = 1` becomes `OneActive`, which
says that two active runs are one.

`QuietSyncPasses` relates two sums: the broker's positions and the replay of
the execution rows, which is a fold over the sequence of fills. `BrokerFits`
says that the account is the sum of what each order has filled; `SyncFits`, that
as long as nothing has filled since the `as_of` of a sync, every fill the sync
can see is recorded or still ahead in its reconcile loop, so at the validation
every filled order has exactly its one execution. Both sides are then sums of
the same function over the same set (`NetIsTotal`); `Total` is a sum by any
order of the elements, and `SummingAgree` shows that the order makes no difference.

### The other modules

`OptionExecutionProofs` proves, from `OptionConstants`:

* `TypeCorrect`: `Spec => []TypeOK`;
* `SyncMirrorsHolds`: `Spec => SyncMirrors`. It needs that an adopted row
  refers to its own contract only (`AdoptedRefs`, of the run's and of the
  committed rows), so that no row closed by a sync is the one that covered a
  contract the same sync declined to adopt;
* `NoDoubleCoverHolds`: `Spec => []NoDoubleCover`. `CoverInv` is the
  strengthening. A contract is held, or adopted, only after an order that opens
  it has filled (`HeldWereFilled`, `AdoptedWereFilled`); a run posts an order
  only while the broker does not know it and materializes it before its next
  sync, so the contracts of the order it polls are not adopted yet
  (`PolledNotAdopted`). `CoveredOnce` of both sets of rows follows, for
  the committed ones because a rollback returns to them;
* `OneExecutionPerRunHolds`, assuming `PlansApart`: decisions that share an
  option order have no other. The key of an order names trade date, ticker,
  strategy, type and action (`brokers/paper_option.py:414`), and a run decides a
  ticker once, so that only hedges share keys, each a single order. `OneEach`
  says that of a decision on the agenda, or whose plan is in hand, nothing has
  been executed in this run, unless it has that one order only.

`PreopenDecisionProofs`: `HardRejectHolds`, `NoOpeningHolds`,
`ExperimentalHolds`, `OneOverlayHolds`, `TypeCorrect`. The planner's intent
reaches an order through the risk decision only: `IntentFits` and `RiskFits` say
what an intent and an approval imply of the candidate, `OrdersFit` carries it to
the order on every path through the plan of expressions. `HedgeFits` says that a
hedge still to be executed is an opening of an underlier without an overlay, or
changes one that is open; one overlay per underlier follows. `WeightBounds` is
the arithmetic of the sizing.

`ManualRequestsProofs`: `OneActiveHolds`, `ClosedStaysClosedHolds`,
`EvaluationHolds`, `UnaskedHolds`, `TypeCorrect`. What a session saw when it
began is worth nothing; what holds is the row lock. `WrittenStayActive` says
that a row the run has written is active unless it was closed before the run's
write, `EvaluatedFirst` that every pinned request has its evaluation before any
decision is made, so that an order behind a review-only request needs a request
that was closed early.

`OutcomeEvaluationProofs`: `OneOutcomeHolds`, `RowsStayHolds`, `TypeCorrect`,
`NothingForgottenHolds`, `ReportIsHonestHolds`. A row's identity includes its
end, and each run computes the end anew from the fills known by then. `OneFill`
says that at most one fill carries a candidate's decision, so no complete close
is ever found and the end is always the checkpoint (`EndIsHorizon`, `RowsFit`).
That is also why `FinalizedAtClose` fails: the stability of the rows and their
blindness to exits have one cause. `TypeCorrect` needs a fact about calendars:
with finitely many holidays there are enough sessions after any day
(`EnoughSessions`), so every checkpoint is a session after its decision.
What is due is what waits: a checkpoint that is reached and has no row
(`DueIsWaiting`); a decision of today adds nothing to it. `JobInv` follows a job
through the source dates: each is ahead, or has failed, or all that still waits
there was counted as pending.

`StrategyLearningProofs`: `EarnedTradingHolds`, `OneStepHolds`, `AuditHolds`,
`LearningOnlyTightensHolds`. A run works on copies and commits them at its end.
`RunFits` says what the copies keep: they extend the committed definitions, what
they add has no outcomes yet and cannot be promoted in the same run
(`NoneWithoutOutcomes`), and their transitions explain them (`Explain`). The
audit also needs that a strategy has as many transitions as stages, which is a
bijection of finite sets (`AsManySteps`). The risk multiplier is a fold over the
active factors of a set; since all of them tighten it is a function of their
number, and that function falls.

`SourceIngestionProofs`: `BudgetHolds`, `TelemetryHolds`, `OpenCircuitHolds`,
`FamilyIsolationHolds`, `StoredBarsSufficeHolds`, and the theorems about
`DailyBars`, whose table it reads. Budget and circuit are looked at
once, before the first attempt of a call. `CallAllowed` says that both still
hold at each attempt: a retry asks again, and only a last failure opens the
circuit. The agenda is a concatenation of sequences, of which the proofs need
the elements only (`SourceIngestion!Tickers` is in `Seq(Range(Tickers))`, as any
sequence is). `Accounts` says that every job of the agenda is ahead, at work, or
ended with a record, with nothing or with an error; `ErrorsExcused`, that an
error has an endpoint of the job's own family to blame, or a story the condenser
raised on, and `OpenBroken`, that an open circuit is excuse enough for the rest
of the refresh. What is lost to the fundamentals is exact, because the news are
the last job of their ticker (`NewsOver`, which rests on the order of the agenda):
a story that was dropped for want of a company name cannot be the ticker's by a
name that came later (`NewsTold`). `Sufficient` says
that a technical job with stored bars and prices ends with its record.

`DailyBars`, in the same module: `QuietReplayHolds` (a phase that read while no
batch was under way did so in the morning, and what is stored later bears the
stamp of a later evening), `FullAnswerHolds`, `OnlyAReviewHolds` and
`BarsTypeCorrect`, from `BarConstants`. The module extends both specifications.

`IntradayRefreshProofs`: `StoriesReachAgentHolds`, `FreshStoryOnceHolds`,
`CoreRowHolds`, `ForcedReductionHolds`, `NoOpenIntoEventHolds`. A story that was
told has an alert with at least its stamp, and stamps only grow (`StampsFit`,
`TellsFit`), so it is known for the rest of the day of its stamp. While a run
works the committed rows stand still, and the identity it decides with is that
of the row (`RowIdentity`, `SyncKeeps`), which keeps core holdings out of its
forced sales; a forced sale is waiting or sent (`ForcedOnTheirWay`).

Induction over data would need the library's induction theorems, which take an
operator and cannot be used here. Where a fold or a recursive function has to
be unfolded (`FlattenSeq`, the sums, the multiplier), the proofs take a least
counterexample instead: a set of natural numbers that is not empty has a
smallest element (`Least`, from `WellFoundedInduction`), and the number before
it gives the contradiction.

A step that adds a key to a function is written as a function constructor
(`OutcomeEvaluation!Decide`, `StrategyLearning!With`): the provers do not unfold
`@@`.

### Only model-checked

* All liveness: `RunEnds`, `SnapshotCatchesUp`, `MirrorCatchesUp`, and of
  `ImplementsLedger` the ledger's fairness, which is `LateFillRecorded`. TLAPS
  has no rules for fairness and `ENABLED` that would reach it. What
  `ImplementsLedger` says of single steps is `KeepsLedger`, which is proved.
* The counterexample of `refusal`, and the formulas of the table above that
  fail: a trace refutes them, not a proof.

## What is left

In the order in which they would add most:

1. Proofs with weaker hypotheses: `AtMostOneExecution` for overlapping runs that
   reconcile different orders; what is left of `QuietSyncPasses` when an order
   is filled in part.
2. Stock position rows under two overlapping syncs
   (`repositories/mixins/execution.py:239`): nothing forbids two open rows of
   one ticker. It takes a second writer in `IntradayRefresh`'s rows.
3. Average costs of the P&L replay as a recursive function, against a reference
   that sums the fills.
4. Partial fills of option orders and overlapping option runs.
5. Misfires of the scheduler (`coalesce`, `misfire_grace_time`): which start of
   a job is dropped when the process was busy or down.

## Not modelled, and why

The map covers about a seventh of the repository's implementation. The rest is,
by size:

* the web application (`src/web`), providers, collectors and tools: they present
  or parse, and keep no state of their own. Writes of the web application are
  `ManualRequests`' sessions;
* research and its agents (`src/agents`, `src/research`): language-model calls
  per ticker, each independent of the others. The models take any answer of the
  schema;
* numeric code over floats: signal features, strategy scores, option greeks and
  leg selection, exposures and attribution. TLC has no floats, and each is a
  function of one record. What they decide appears as a choice over all
  outcomes (`Scan`, `Plan`, `Regimes`), which is more than the code can
  produce, and what follows is modelled in full;
* ranking, which no production phase calls; the in-memory repository and the
  smoke fixtures, which are test doubles;
* data classes, DTOs, payload builders and migrations, which have no control.

Within the modelled components, what is left out is said in *What is
abstracted* and in the notes of the components in `PROJECT.json`.

## Running

    tlc -workers 2 -config MCSequential.cfg MCStockExecution.tla
    tlapm StockExecutionProofs.tla

and likewise for each row of the table of runs (`PROJECT.json` names module and
configuration) and for each `*Proofs` module. The longest run is a matter of
minutes, the proofs together of some ten.
