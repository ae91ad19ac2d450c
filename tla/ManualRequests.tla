--------------------------- MODULE ManualRequests ---------------------------
(***************************************************************************)
(* The requests by which an operator pins a ticker for review              *)
(* (trading/phases/manual_review), and the phases that act on them.        *)
(*                                                                         *)
(* Operators create and dismiss requests in short transactions of their    *)
(* own; PostgreSQL refuses a second active row of a ticker.  Meanwhile one *)
(* preopen or manual review run works in one long transaction: it loads    *)
(* the active requests, refreshes the sources, writes an evaluation to     *)
(* each request, decides on each ticker and sends orders.  It asks for the *)
(* mode of a request again whenever it needs it, and a request that is no  *)
(* longer active has none.  Rows of one ticker stand in order of Ids.      *)
(* "closed" stands for dismissed and canceled alike.  The agent's answer,  *)
(* the risk manager's and the strategies that match are choices.           *)
(***************************************************************************)
EXTENDS Naturals

CONSTANTS
    Tickers,        \* the tickers a request may pin
    Answers,        \* decisions the agent may take
    Operators,      \* browser sessions of the dashboard
    Lifecycle,      \* the lifecycle status of the strategy that matches a ticker
    MaxRequests,    \* bound on the rows ever created
    MaxRuns         \* bound on the runs started

ASSUME RequestsAssumption ==
    /\ Answers \subseteq {"enter_long", "reduce", "exit", "hold", "no_trade"}
    /\ Lifecycle \in [Tickers -> {"candidate", "shadow", "experimental", "active"}]
    /\ MaxRequests \in Nat
    /\ MaxRuns \in Nat

VARIABLES
    rows,       \* the committed rows of manual_ticker_requests
    desk,       \* what each operator's session has read
    run,        \* the phase that is running, if any
    runs,       \* how many have started
    orders      \* the orders the broker accepted

vars == <<rows, desk, run, runs, orders>>

Ids == 1 .. MaxRequests
Modes == {"review_only", "paper_trade_eligible"}
Results == {"none", "snapshot", "matched", "blocked_by_risk"}
NoRequest == 0
NoDecision == [action |-> "none", authorized |-> FALSE, risk |-> "rejected"]

NoDraft == [ticker |-> "none", mode |-> "none", seen |-> {}]

NoRun == [phase |-> "none", at |-> "idle", pinned |-> [t \in Tickers |-> NoRequest],
          results |-> [i \in Ids |-> "none"], stale |-> {},
          matched |-> {}, decided |-> [t \in Tickers |-> NoDecision], sent |-> {}]

Row(t, m) == [ticker |-> t, mode |-> m, status |-> "active", result |-> "none"]

Init ==
    /\ rows = <<>>
    /\ desk = [o \in Operators |-> NoDraft]
    /\ run = NoRun
    /\ runs = 0
    /\ orders = {}

Created == DOMAIN rows
Active == {i \in Created : rows[i].status = "active"}
ActiveOf(t) == {i \in Active : rows[i].ticker = t}

\* The run's transaction wrote to these rows: their locks last until it ends.
LockedRows == {i \in Ids : run.results[i] # "none"}

\* Mutant: the run's rows are not locked.
NoLocks == {}

Locked == LockedRows

-----------------------------------------------------------------------------
(* The operators.                                                          *)

\* create, up to the query of the active rows.
Pin(o, t, m) ==
    /\ desk[o] = NoDraft
    /\ desk' = [desk EXCEPT ![o] = [ticker |-> t, mode |-> m, seen |-> ActiveOf(t)]]
    /\ UNCHANGED <<rows, run, runs, orders>>

CanceledRows(ids) ==
    [i \in Created |-> IF i \in ids THEN [rows[i] EXCEPT !.status = "closed"] ELSE rows[i]]

\* The unique index on the active row of a ticker, after this session canceled
\* the rows it saw.
ViolatesIndex(draft) == ActiveOf(draft.ticker) \ draft.seen # {}

\* Mutant: there is no such index.
IgnoresIndex(draft) == FALSE

Refused(draft) == ViolatesIndex(draft)

\* The flush and commit of create: cancel what was seen, insert the new row, or
\* be refused by the index and roll back.
Save(o) ==
    LET draft == desk[o]
    IN  \E i \in Ids \ Created :
        /\ \A j \in Ids : j < i => j \in Created
        /\ draft # NoDraft
        /\ draft.seen \cap Locked = {}
        /\ rows' = IF Refused(draft) THEN rows
                   ELSE [j \in Created \cup {i} |->
                            IF j = i THEN Row(draft.ticker, draft.mode)
                            ELSE CanceledRows(draft.seen)[j]]
        /\ desk' = [desk EXCEPT ![o] = NoDraft]
        /\ UNCHANGED <<run, runs, orders>>

\* dismiss and cancel: neither looks at the status the row has.
Close(i) ==
    /\ i \in Created \ Locked
    /\ rows' = [rows EXCEPT ![i].status = "closed"]
    /\ UNCHANGED <<desk, run, runs, orders>>

-----------------------------------------------------------------------------
(* The run.                                                                *)

\* load_active, when the signal snapshots are about to be built; a manual review
\* of no request ends at once.
Start(phase) ==
    /\ run.at = "idle"
    /\ runs < MaxRuns
    /\ phase = "manual_review" => Active # {}
    /\ run' = [NoRun EXCEPT !.phase = phase, !.at = "evaluating",
                            !.pinned = [t \in Tickers |->
                                IF ActiveOf(t) = {} THEN NoRequest
                                ELSE CHOOSE i \in ActiveOf(t) : TRUE]]
    /\ runs' = runs + 1
    /\ UNCHANGED <<rows, desk, orders>>

Pinned == {t \in Tickers : run.pinned[t] # NoRequest}
\* A preopen run also scans tickers nobody pinned.
Scope == IF run.phase = "preopen" THEN Tickers ELSE Pinned

\* record_evaluation, once the sources of the ticker have been refreshed: it
\* finds the row whatever its status is by now.
Evaluate(t) ==
    LET i == run.pinned[t]
    IN  /\ run.at = "evaluating"
        /\ t \in Pinned
        /\ run.results[i] = "none"
        /\ run' = [run EXCEPT !.results[i] = "snapshot",
                              !.stale = IF rows[i].status = "active" THEN @ ELSE @ \cup {i}]
        /\ UNCHANGED <<rows, desk, runs, orders>>

\* The strategies match some tickers; those of a request note it.
Match(found) ==
    /\ run.at = "evaluating"
    /\ \A t \in Pinned : run.results[run.pinned[t]] # "none"
    /\ found \subseteq Scope
    /\ run' = [run EXCEPT !.at = "deciding", !.matched = found,
                          !.results = [i \in Ids |->
                              IF \E t \in found : run.pinned[t] = i THEN "matched" ELSE @[i]]]
    /\ UNCHANGED <<rows, desk, runs, orders>>

\* _manual_request_mode: only an active request has a mode.
ModeNow(i) == IF i \in Active THEN rows[i].mode ELSE "none"

\* _apply_guardrails of the decision pipeline.
Guarded(t, action, risk) ==
    LET passive == {"hold", "exit", "reduce", "no_trade"}
    IN  IF \/ risk = "rejected" /\ action \notin passive
           \/ ModeNow(run.pinned[t]) = "review_only" /\ action \notin passive
           \/ Lifecycle[t] = "candidate" /\ action \notin {"hold", "no_trade"}
        THEN "no_trade" ELSE action

\* paper_trade_authorized of a decision.
PaperTradeAuthorized(t, action) ==
    /\ run.pinned[t] = NoRequest \/ ModeNow(run.pinned[t]) = "paper_trade_eligible"
    /\ Lifecycle[t] \in {"active", "experimental"}
    /\ action \notin {"no_trade", "hold"}

Decide(t, answer, risk) ==
    LET i == run.pinned[t]
        action == Guarded(t, answer, risk)
    IN  /\ run.at = "deciding"
        /\ t \in run.matched
        /\ run.decided[t] = NoDecision
        /\ run' = [run EXCEPT
               !.decided[t] = [action |-> action, risk |-> risk,
                               authorized |-> PaperTradeAuthorized(t, action)],
               !.results = [j \in Ids |-> IF j = i /\ risk = "rejected"
                                          THEN "blocked_by_risk" ELSE @[j]]]
        /\ UNCHANGED <<rows, desk, runs, orders>>

\* _execute_stock_decision up to the broker: a decision that is not authorized
\* is skipped only when no request stands behind it.
Executable(t) ==
    LET d == run.decided[t]
    IN  /\ d.action \in {"enter_long", "reduce", "exit"}
        /\ d.authorized \/ run.pinned[t] # NoRequest
        /\ d.risk \in {"approved", "reduced"}

\* The broker refuses an order of a request that is review-only now.
Submit(t) ==
    /\ run.at = "deciding"
    /\ \A u \in run.matched : run.decided[u] # NoDecision
    /\ t \in run.matched \ run.sent
    /\ run' = [run EXCEPT !.sent = @ \cup {t}]
    /\ orders' = IF Executable(t) /\ ModeNow(run.pinned[t]) # "review_only"
                 THEN orders \cup {[ticker |-> t, action |-> run.decided[t].action,
                                    request |-> run.pinned[t],
                                    closedEarly |-> run.pinned[t] \in run.stale]}
                 ELSE orders
    /\ UNCHANGED <<rows, desk, runs>>

\* The transaction commits: the evaluation columns of the rows, nothing else.
Evaluated == [i \in Created |-> [rows[i] EXCEPT !.result =
                 IF run.results[i] # "none" THEN run.results[i] ELSE @]]

\* Mutant: the run writes back the whole rows it loaded.
WholeRows == [i \in Created |-> IF run.results[i] # "none"
                 THEN Row(rows[i].ticker, rows[i].mode) ELSE rows[i]]

RowsAfterRun == Evaluated

Commit ==
    /\ run.at = "deciding"
    /\ run.sent = run.matched
    /\ rows' = RowsAfterRun
    /\ run' = NoRun
    /\ UNCHANGED <<desk, runs, orders>>

\* Anything raises: the evaluations are undone, the orders are not.
Fail ==
    /\ run.at # "idle"
    /\ run' = NoRun
    /\ UNCHANGED <<rows, desk, runs, orders>>

Next ==
    \/ \E o \in Operators : Save(o) \/ \E t \in Tickers, m \in Modes : Pin(o, t, m)
    \/ \E i \in Created : Close(i)
    \/ \E phase \in {"preopen", "manual_review"} : Start(phase)
    \/ \E found \in SUBSET Tickers : Match(found)
    \/ \E t \in Tickers, answer \in Answers, risk \in {"approved", "rejected"} :
           Decide(t, answer, risk)
    \/ \E t \in Tickers : Evaluate(t) \/ Submit(t)
    \/ Commit
    \/ Fail

Spec == Init /\ [][Next]_vars

-----------------------------------------------------------------------------
(* Properties.                                                             *)

\* The state is well typed, and a session is idle or holds a whole draft.
TypeOK ==
    /\ Created \subseteq Ids
    /\ \A i \in Created : rows[i] \in [ticker : Tickers, mode : Modes,
           status : {"active", "closed"}, result : Results]
    /\ \A o \in Operators : desk[o] = NoDraft
           \/ desk[o] \in [ticker : Tickers, mode : Modes, seen : SUBSET Created]
    /\ run.at \in {"idle", "evaluating", "deciding"}
    /\ run.pinned \in [Tickers -> Created \cup {NoRequest}]
    /\ run.results \in [Ids -> Results]
    /\ run.stale \cup LockedRows \subseteq Created
    /\ run.sent \subseteq run.matched /\ run.matched \subseteq Tickers
    /\ \A o \in orders : o.request \in Created \cup {NoRequest}

\* A ticker has at most one active request, however the sessions of operators
\* that pin it at once interleave (plan/design/2026-06-15-manual-review-
\* execution-audit-contract.md:151; the unique index of migration 023).
OneActivePerTicker ==
    \A i, j \in Active : rows[i].ticker = rows[j].ticker => i = j

\* A request that was dismissed or canceled is never active again: not by a run
\* that loaded it before and writes its evaluation after, nor by a session that
\* cancels what it saw as active.
ClosedStaysClosed ==
    [][\A i \in Created : rows[i].status # "active" => rows'[i].status # "active"]_vars

\* The agent may answer what it likes: an order nobody asked for comes from an
\* active or experimental strategy.
UnaskedOrdersAreEarned ==
    \A o \in orders : o.request = NoRequest =>
                          Lifecycle[o.ticker] \in {"active", "experimental"}

\* Three readings of the mode, at different times, guard a review-only request:
\* when the decision is made, when it is authorized, and at the broker.  Once
\* the run has written its evaluation the request cannot be closed under it, so
\* an order stands behind a review-only request only if it was closed before.
EvaluationHoldsReviewOnly ==
    \A o \in orders : o.request # NoRequest /\ rows[o.request].mode = "review_only"
                          => o.closedEarly

\* What the design says: a review_only request never creates a paper order
\* (plan/design/09_ui_error_testing_delivery.md:129).
ReviewOnlyNeverOrders ==
    \A o \in orders : o.request # NoRequest => rows[o.request].mode # "review_only"

\* What the design says: a shadow strategy cannot create paper orders
\* (plan/design/03_strategy_architecture.md:313).
ShadowNeverOrders == \A o \in orders : Lifecycle[o.ticker] # "shadow"
=============================================================================
