------------------------- MODULE ManualRequestsProofs -------------------------
(***************************************************************************)
(* For every set of tickers, sessions and answers and every bound: one     *)
(* active request per ticker, no return of a closed one, and what the      *)
(* evaluation's row lock is worth to a review-only request.                *)
(***************************************************************************)
EXTENDS ManualRequests, TLAPS

USE RequestsAssumption DEF RequestsAssumption, Ids, Modes, Results, NoRequest

Decisions == [action : Answers \cup {"none", "no_trade"}, authorized : BOOLEAN,
              risk : {"approved", "rejected"}]

Runs == [phase : {"none", "preopen", "manual_review"}, at : {"idle", "evaluating", "deciding"},
         pinned : [Tickers -> Ids \cup {NoRequest}], results : [Ids -> Results],
         stale : SUBSET Ids, matched : SUBSET Tickers, decided : [Tickers -> Decisions],
         sent : SUBSET Tickers]

\* Once the strategies have matched, every pinned request has its evaluation.
EvaluatedFirst ==
    run.at = "deciding" => \A t \in Pinned : run.results[run.pinned[t]] # "none"

\* Orders are sent last.
SentLast == run.at # "deciding" => run.sent = {}

\* A row the run has written to is still active, unless it was closed before.
WrittenStayActive == \A i \in LockedRows : i \in Active \cup run.stale

\* An authorized decision is one of a strategy that may trade.
AuthorizedEarned ==
    \A t \in Tickers : run.decided[t].authorized => Lifecycle[t] \in {"active", "experimental"}

IInv ==
    /\ TypeOK
    /\ run \in Runs
    /\ OneActivePerTicker
    /\ EvaluatedFirst
    /\ SentLast
    /\ WrittenStayActive
    /\ AuthorizedEarned
    /\ EvaluationHoldsReviewOnly
    /\ UnaskedOrdersAreEarned

\* A run that has not started holds nothing.
LEMMA IdleRun ==
    /\ NoRun \in Runs /\ NoRun.at = "idle" /\ NoRun.stale = {} /\ NoRun.sent = {}
    /\ NoRun.matched = {}
    /\ \A t \in Tickers : NoRun.pinned[t] = NoRequest /\ ~NoRun.decided[t].authorized
    /\ \A i \in Ids : NoRun.results[i] = "none"
  BY DEF NoRun, Runs, NoDecision, Decisions

\* IInv holds before the first session and the first run.
LEMMA InitInv == Init => IInv
<1> SUFFICES ASSUME Init PROVE IInv
    OBVIOUS
<1>1. Created = {} /\ run = NoRun /\ orders = {} /\ desk = [o \in Operators |-> NoDraft]
    BY DEF Init, Created
<1>2. LockedRows = {} /\ run.pinned \in [Tickers -> Created \cup {NoRequest}]
    BY <1>1, IdleRun DEF LockedRows, Runs
<1>3. TypeOK
    BY <1>1, <1>2, IdleRun DEF TypeOK, Runs
<1> QED BY <1>1, <1>2, <1>3, IdleRun DEF IInv, OneActivePerTicker, EvaluatedFirst, WrittenStayActive,
           AuthorizedEarned, SentLast, EvaluationHoldsReviewOnly, UnaskedOrdersAreEarned,
           Active, Pinned, LockedRows

-----------------------------------------------------------------------------
(* The rows.                                                               *)

\* Rows are created and closed, their ticker and mode stay, and a closed row
\* is not opened again.
Ages ==
    /\ Created \subseteq Created'
    /\ \A i \in Created : /\ rows'[i].ticker = rows[i].ticker
                          /\ rows'[i].mode = rows[i].mode
                          /\ rows[i].status # "active" => rows'[i].status # "active"

RowType == [ticker : Tickers, mode : Modes, status : {"active", "closed"}, result : Results]

RowsTyped == Created \subseteq Ids /\ \A i \in Created : rows[i] \in RowType

Closed(r) == [r EXCEPT !.status = "closed"]
Noted(r, result) == [r EXCEPT !.result = result]

\* Closing a row, and noting an evaluation in it.
LEMMA RowUpdates ==
    ASSUME NEW r \in RowType, NEW result \in Results
    PROVE  /\ Closed(r) \in RowType /\ Closed(r).ticker = r.ticker
           /\ Closed(r).mode = r.mode /\ Closed(r).status = "closed"
           /\ Noted(r, result) \in RowType /\ Noted(r, result).ticker = r.ticker
           /\ Noted(r, result).mode = r.mode /\ Noted(r, result).status = r.status
  BY DEF RowType, Closed, Noted

\* What TypeOK says of the rows alone.
LEMMA Typed == ASSUME TypeOK PROVE RowsTyped
  BY DEF TypeOK, RowsTyped, RowType

\* A session's flush, refused or not.
LEMMA SaveRows ==
    ASSUME TypeOK, OneActivePerTicker, NEW o \in Operators, Save(o)
    PROVE  /\ Ages /\ RowsTyped' /\ OneActivePerTicker'
           /\ \A j \in LockedRows : j \in Active => j \in Active'
<1> DEFINE draft == desk[o]
<1>1. PICK i \in Ids \ Created :
         /\ draft # NoDraft /\ draft.seen \cap LockedRows = {}
         /\ rows' = IF Refused(draft) THEN rows
                    ELSE [j \in Created \cup {i} |->
                             IF j = i THEN Row(draft.ticker, draft.mode)
                             ELSE CanceledRows(draft.seen)[j]]
    BY DEF Save, Locked
<1>2. draft \in [ticker : Tickers, mode : Modes, seen : SUBSET Created]
    BY <1>1 DEF TypeOK
<1>3. CASE Refused(draft)
  <2>1. rows' = rows
      BY <1>1, <1>3
  <2> QED BY <2>1, Typed DEF Ages, RowsTyped, Created, OneActivePerTicker, Active
<1>4. CASE ~Refused(draft)
  <2> DEFINE new == Row(draft.ticker, draft.mode)
  <2>1. /\ Created' = Created \cup {i} /\ rows'[i] = new
        /\ \A j \in Created : rows'[j] = IF j \in draft.seen
                THEN Closed(rows[j]) ELSE rows[j]
      BY <1>1, <1>4 DEF Created, CanceledRows, Closed
  <2>2. new \in RowType /\ new.ticker = draft.ticker
      BY <1>2 DEF Row, RowType
  <2> HIDE DEF new
  <2>3. \A j \in Created : /\ rows'[j] \in RowType
                           /\ rows'[j].ticker = rows[j].ticker /\ rows'[j].mode = rows[j].mode
                           /\ rows'[j].status = IF j \in draft.seen THEN "closed"
                                                ELSE rows[j].status
      BY <2>1, RowUpdates, Typed DEF RowsTyped
  <2>4. RowsTyped' /\ Ages
      BY <2>1, <2>2, <2>3, Typed DEF RowsTyped, Ages
  <2>5. \A j \in Created : rows[j].ticker = draft.ticker /\ j \in Active => j \in draft.seen
      BY <1>4 DEF Refused, ViolatesIndex, ActiveOf
  <2>6. \A j \in Active' : j = i \/ (j \in Active /\ j \notin draft.seen
                                      /\ rows'[j].ticker = rows[j].ticker)
      BY <2>1, <2>3 DEF Active
  <2>7. OneActivePerTicker'
      BY <2>1, <2>2, <2>5, <2>6 DEF OneActivePerTicker, Active
  <2>8. \A j \in LockedRows : j \in Active => j \in Active'
      BY <1>1, <2>1, <2>3 DEF Active
  <2> QED BY <2>4, <2>7, <2>8
<1> QED BY <1>3, <1>4

\* dismiss and cancel.
LEMMA CloseRows ==
    ASSUME TypeOK, OneActivePerTicker, NEW i \in Created, Close(i)
    PROVE  /\ Ages /\ RowsTyped' /\ OneActivePerTicker'
           /\ \A j \in LockedRows : j \in Active => j \in Active'
<1>1. /\ i \notin LockedRows /\ Created' = Created
      /\ \A j \in Created : rows'[j] = IF j = i THEN Closed(rows[j]) ELSE rows[j]
    BY DEF Close, Locked, Created, Closed
<1>2. \A j \in Created : /\ rows'[j] \in RowType
                         /\ rows'[j].ticker = rows[j].ticker /\ rows'[j].mode = rows[j].mode
                         /\ rows'[j].status = IF j = i THEN "closed" ELSE rows[j].status
    BY <1>1, RowUpdates, Typed DEF RowsTyped
<1>3. RowsTyped' /\ Ages
    BY <1>1, <1>2, Typed DEF RowsTyped, Ages
<1>4. \A j \in Created : j # i => (j \in Active' <=> j \in Active)
    BY <1>1, <1>2 DEF Active
<1>5. i \notin Active'
    BY <1>1, <1>2 DEF Active
<1> QED BY <1>1, <1>2, <1>3, <1>4, <1>5 DEF Active, OneActivePerTicker, Ages

\* The commit of a run.
LEMMA CommitRows ==
    ASSUME TypeOK, run \in Runs, OneActivePerTicker, Commit
    PROVE  Ages /\ RowsTyped' /\ OneActivePerTicker'
<1>1. Created' = Created
    BY DEF Commit, RowsAfterRun, Evaluated, Created
<1>2. \A j \in Created : run.results[j] \in Results
    BY DEF Runs, TypeOK
<1>3. ASSUME NEW j \in Created
      PROVE  rows'[j] = Noted(rows[j], run.results[j]) \/ rows'[j] = Noted(rows[j], rows[j].result)
    BY DEF Commit, RowsAfterRun, Evaluated, Noted
<1>4. \A j \in Created : /\ rows'[j] \in RowType
                         /\ rows'[j].ticker = rows[j].ticker /\ rows'[j].mode = rows[j].mode
                         /\ rows'[j].status = rows[j].status
  <2>1. \A j \in Created : rows[j] \in RowType /\ rows[j].result \in Results
      BY Typed DEF RowsTyped, RowType
  <2> QED BY <1>2, <1>3, <2>1, RowUpdates
<1> QED BY <1>1, <1>4, Typed DEF RowsTyped, Ages, OneActivePerTicker, Active

\* Rows that only age keep what is said of orders, of drafts and of the run.
LEMMA Aging ==
    ASSUME IInv, Ages, RowsTyped', UNCHANGED <<run, orders>>,
           \A j \in LockedRows : j \in Active => j \in Active',
           \A o \in Operators : desk'[o] \in {NoDraft, desk[o]}
    PROVE  /\ TypeOK' /\ EvaluatedFirst' /\ SentLast' /\ WrittenStayActive' /\ run' \in Runs
           /\ AuthorizedEarned' /\ EvaluationHoldsReviewOnly' /\ UnaskedOrdersAreEarned'
<1>1. TypeOK'
  <2>1. \A o \in Operators : desk'[o] = NoDraft
           \/ desk'[o] \in [ticker : Tickers, mode : Modes, seen : SUBSET Created']
      BY DEF IInv, TypeOK, Ages
  <2>2. run.pinned \in [Tickers -> Created' \cup {NoRequest}]
      BY DEF IInv, TypeOK, Ages
  <2> QED BY <2>1, <2>2 DEF IInv, TypeOK, RowsTyped, RowType, Ages, LockedRows
<1>2. WrittenStayActive'
    BY DEF IInv, WrittenStayActive, LockedRows
<1>3. EvaluationHoldsReviewOnly'
    BY DEF IInv, TypeOK, EvaluationHoldsReviewOnly, Ages
<1> QED BY <1>1, <1>2, <1>3 DEF IInv, EvaluatedFirst, SentLast, Pinned, AuthorizedEarned,
           UnaskedOrdersAreEarned

-----------------------------------------------------------------------------
(* The run.                                                                *)

\* A step of the run that leaves rows, desk and orders alone.
LEMMA RunOnly ==
    ASSUME IInv, UNCHANGED <<rows, desk, orders>>, run' \in Runs,
           run'.pinned \in [Tickers -> Created \cup {NoRequest}],
           LockedRows' \subseteq Created, run'.stale \subseteq Created,
           run'.sent \subseteq run'.matched
    PROVE  /\ TypeOK' /\ OneActivePerTicker' /\ EvaluationHoldsReviewOnly'
           /\ UnaskedOrdersAreEarned' /\ Active' = Active
<1>1. Created' = Created /\ Active' = Active
    BY DEF Created, Active
<1> QED BY <1>1 DEF IInv, TypeOK, Runs, OneActivePerTicker, EvaluationHoldsReviewOnly,
           UnaskedOrdersAreEarned

\* The rows of a run that writes no others than before.
LEMMA SameRows ==
    ASSUME IInv, NEW results \in [Ids -> Results],
           \A i \in Ids : results[i] # "none" => run.results[i] # "none",
           \A i \in Ids : run.results[i] # "none" => results[i] # "none"
    PROVE  {i \in Ids : results[i] # "none"} = LockedRows
  BY DEF LockedRows

\* A run starts and loads the active requests (load_manual_requests).
LEMMA StartInv == ASSUME IInv, NEW phase \in {"preopen", "manual_review"}, Start(phase)
                  PROVE  IInv'
<1> DEFINE pins == [t \in Tickers |-> IF ActiveOf(t) = {} THEN NoRequest
                                      ELSE CHOOSE i \in ActiveOf(t) : TRUE]
<1>1. pins \in [Tickers -> Created \cup {NoRequest}]
  <2>1. ASSUME NEW t \in Tickers, ActiveOf(t) # {} PROVE (CHOOSE i \in ActiveOf(t) : TRUE) \in Created
    <3>1. \E i \in ActiveOf(t) : TRUE
        BY <2>1
    <3>2. (CHOOSE i \in ActiveOf(t) : TRUE) \in ActiveOf(t)
        BY <3>1
    <3> QED BY <3>2 DEF ActiveOf, Active
  <2> QED BY <2>1
<1> HIDE DEF pins
<1>2. /\ UNCHANGED <<rows, desk, orders>>
      /\ run' = [NoRun EXCEPT !.phase = phase, !.at = "evaluating", !.pinned = pins]
    BY DEF Start, pins
<1>3. /\ run' \in Runs /\ run'.pinned = pins /\ run'.at = "evaluating"
      /\ run'.results = NoRun.results /\ run'.stale = {} /\ run'.sent = {}
      /\ run'.matched = {} /\ run'.decided = NoRun.decided
  <2>1. pins \in [Tickers -> Ids \cup {NoRequest}]
      BY <1>1 DEF IInv, TypeOK
  <2> QED BY <1>2, <2>1, IdleRun DEF Runs
<1>4. LockedRows' = {}
    BY <1>3, IdleRun DEF LockedRows
<1> QED BY <1>1, <1>2, <1>3, <1>4, IdleRun, RunOnly DEF IInv, EvaluatedFirst, WrittenStayActive,
           AuthorizedEarned, SentLast

\* A run writes its evaluation of a ticker (record_evaluation).
LEMMA EvaluateInv == ASSUME IInv, NEW t \in Tickers, Evaluate(t) PROVE IInv'
<1> DEFINE i == run.pinned[t]
<1>1. /\ UNCHANGED <<rows, desk, orders>> /\ run.at = "evaluating" /\ i # NoRequest
      /\ run' = [run EXCEPT !.results[i] = "snapshot",
                            !.stale = IF rows[i].status = "active" THEN @ ELSE @ \cup {i}]
    BY DEF Evaluate, Pinned
<1>2. i \in Created /\ i \in Ids
    BY <1>1 DEF IInv, TypeOK
<1>3. /\ run' \in Runs /\ run'.at = run.at /\ run'.pinned = run.pinned /\ run'.sent = run.sent
      /\ run'.matched = run.matched /\ run'.decided = run.decided
      /\ run'.results = [run.results EXCEPT ![i] = "snapshot"]
      /\ run'.stale = IF rows[i].status = "active" THEN run.stale ELSE run.stale \cup {i}
    BY <1>1, <1>2 DEF IInv, Runs
<1>4. LockedRows' = LockedRows \cup {i}
    BY <1>2, <1>3 DEF LockedRows, IInv, Runs
<1>5. run'.stale \subseteq Created /\ LockedRows' \subseteq Created
    BY <1>2, <1>3, <1>4 DEF IInv, TypeOK
<1>6. WrittenStayActive'
  <2>1. Active' = Active
      BY <1>1 DEF Active, Created
  <2>2. i \in Active \cup run'.stale
      BY <1>2, <1>3 DEF Active
  <2>3. run.stale \subseteq run'.stale
      BY <1>3
  <2> QED BY <1>4, <2>1, <2>2, <2>3 DEF IInv, WrittenStayActive
<1>7. EvaluatedFirst' /\ AuthorizedEarned' /\ SentLast'
    BY <1>1, <1>3 DEF EvaluatedFirst, AuthorizedEarned, SentLast, IInv
<1>8. run'.pinned \in [Tickers -> Created \cup {NoRequest}] /\ run'.sent \subseteq run'.matched
    BY <1>3 DEF IInv, TypeOK
<1> QED BY <1>1, <1>3, <1>5, <1>6, <1>7, <1>8, RunOnly DEF IInv

\* Matching leaves the candidates the run goes on with.
LEMMA MatchInv == ASSUME IInv, NEW found \in SUBSET Tickers, Match(found) PROVE IInv'
<1> DEFINE results == [i \in Ids |-> IF \E t \in found : run.pinned[t] = i THEN "matched"
                                     ELSE run.results[i]]
<1>1. /\ UNCHANGED <<rows, desk, orders>> /\ run.at = "evaluating"
      /\ \A t \in Pinned : run.results[run.pinned[t]] # "none"
      /\ run' = [run EXCEPT !.at = "deciding", !.matched = found, !.results = results]
    BY DEF Match
<1>2. \A i \in Ids : run.results[i] \in Results
    BY DEF IInv, Runs
<1>3. results \in [Ids -> Results]
    BY <1>2
<1>4. \A i \in Ids : results[i] # "none" <=> run.results[i] # "none"
    BY <1>1 DEF Pinned
<1> HIDE DEF results
<1>5. /\ run' \in Runs /\ run'.at = "deciding" /\ run'.pinned = run.pinned
      /\ run'.sent = run.sent /\ run'.matched = found /\ run'.decided = run.decided
      /\ run'.results = results /\ run'.stale = run.stale
    BY <1>1, <1>3 DEF IInv, Runs
<1>6. LockedRows' = LockedRows
    BY <1>3, <1>4, <1>5, SameRows DEF LockedRows
<1>7. Active' = Active /\ Pinned' = Pinned
    BY <1>1, <1>5 DEF Active, Created, Pinned
<1>8. EvaluatedFirst'
  <2>1. \A t \in Pinned : run.pinned[t] \in Ids
      BY DEF Pinned, IInv, Runs
  <2> QED BY <1>1, <1>4, <1>5, <1>7, <2>1 DEF EvaluatedFirst
<1>9. WrittenStayActive' /\ AuthorizedEarned'
    BY <1>5, <1>6, <1>7 DEF IInv, WrittenStayActive, AuthorizedEarned
<1> QED BY <1>1, <1>5, <1>6, <1>8, <1>9, RunOnly DEF IInv, TypeOK, SentLast

\* What the pipeline lets through is an answer or no trade, and authorized only
\* for a strategy that may trade.
LEMMA DecideInv ==
    ASSUME IInv, NEW t \in Tickers, NEW answer \in Answers, NEW risk \in {"approved", "rejected"},
           Decide(t, answer, risk)
    PROVE  IInv'
<1> DEFINE i == run.pinned[t]
           action == Guarded(t, answer, risk)
           d == [action |-> action, risk |-> risk, authorized |-> PaperTradeAuthorized(t, action)]
           results == [j \in Ids |-> IF j = i /\ risk = "rejected" THEN "blocked_by_risk"
                                     ELSE run.results[j]]
<1>1. /\ UNCHANGED <<rows, desk, orders>> /\ run.at = "deciding" /\ t \in run.matched
      /\ run' = [run EXCEPT !.decided[t] = d, !.results = results]
    BY DEF Decide
<1>2. PaperTradeAuthorized(t, action) \in BOOLEAN
      /\ (PaperTradeAuthorized(t, action) => Lifecycle[t] \in {"active", "experimental"})
    BY DEF PaperTradeAuthorized
<1>3. action \in Answers \cup {"no_trade"}
    BY DEF Guarded
<1>4. d \in Decisions
    BY <1>2, <1>3 DEF Decisions
<1>5. d.authorized => Lifecycle[t] \in {"active", "experimental"}
    BY <1>2
<1>6. results \in [Ids -> Results]
    BY DEF IInv, Runs
<1>7. \A j \in Ids : results[j] # "none" <=> run.results[j] # "none"
  <2>1. i \in Ids => run.results[i] # "none"
      BY <1>1 DEF IInv, EvaluatedFirst, Pinned
  <2> QED BY <2>1
<1> HIDE DEF results, d, i
<1>8. /\ run' \in Runs /\ run'.at = run.at /\ run'.pinned = run.pinned
      /\ run'.sent = run.sent /\ run'.matched = run.matched
      /\ run'.decided = [run.decided EXCEPT ![t] = d]
      /\ run'.results = results /\ run'.stale = run.stale
    BY <1>1, <1>4, <1>6 DEF IInv, Runs
<1>9. LockedRows' = LockedRows
    BY <1>6, <1>7, <1>8, SameRows DEF LockedRows
<1>10. Active' = Active /\ Pinned' = Pinned
    BY <1>1, <1>8 DEF Active, Created, Pinned
<1>11. EvaluatedFirst'
  <2>1. \A u \in Pinned : run.pinned[u] \in Ids
      BY DEF Pinned, IInv, Runs
  <2> QED BY <1>1, <1>7, <1>8, <1>10, <2>1 DEF IInv, EvaluatedFirst
<1>12. WrittenStayActive' /\ SentLast'
    BY <1>8, <1>9, <1>10 DEF IInv, WrittenStayActive, SentLast
<1>13. AuthorizedEarned'
    BY <1>5, <1>8 DEF IInv, AuthorizedEarned, Runs
<1> QED BY <1>1, <1>8, <1>9, <1>11, <1>12, <1>13, RunOnly DEF IInv, TypeOK

\* An order of a review-only request means that the request was closed before
\* its evaluation.
LEMMA SubmitInv == ASSUME IInv, NEW t \in Tickers, Submit(t) PROVE IInv'
<1> DEFINE i == run.pinned[t]
           o == [ticker |-> t, action |-> run.decided[t].action, request |-> i,
                 closedEarly |-> i \in run.stale]
<1>1. /\ UNCHANGED <<rows, desk>> /\ run.at = "deciding" /\ t \in run.matched
      /\ run' = [run EXCEPT !.sent = @ \cup {t}]
      /\ orders' = IF Executable(t) /\ ModeNow(i) # "review_only" THEN orders \cup {o} ELSE orders
    BY DEF Submit
<1>2. /\ run' \in Runs /\ run'.at = run.at /\ run'.pinned = run.pinned
      /\ run'.sent = run.sent \cup {t} /\ run'.matched = run.matched
      /\ run'.decided = run.decided /\ run'.results = run.results /\ run'.stale = run.stale
    BY <1>1 DEF IInv, Runs
<1>3. Active' = Active /\ Created' = Created /\ LockedRows' = LockedRows /\ Pinned' = Pinned
    BY <1>1, <1>2 DEF Active, Created, LockedRows, Pinned
<1>4. i \in Created \cup {NoRequest}
    BY DEF IInv, TypeOK
<1>5. ASSUME i # NoRequest, rows[i].mode = "review_only", ModeNow(i) # "review_only"
      PROVE  i \in run.stale
  <2>1. i \in Created /\ i \in Ids
      BY <1>4, <1>5 DEF IInv, TypeOK
  <2>2. i \in LockedRows
      BY <1>1, <1>5, <2>1 DEF IInv, EvaluatedFirst, Pinned, LockedRows
  <2>3. i \notin Active
      BY <1>5 DEF ModeNow
  <2> QED BY <2>2, <2>3 DEF IInv, WrittenStayActive
<1>6. EvaluationHoldsReviewOnly'
  <2>1. ASSUME NEW p \in orders' PROVE p \in orders \/ (p = o /\ ModeNow(i) # "review_only")
      BY <1>1
  <2>2. ASSUME NEW p \in orders', p.request # NoRequest, rows[p.request].mode = "review_only"
        PROVE  p.closedEarly
    <3>1. CASE p \in orders
        BY <2>2, <3>1 DEF IInv, EvaluationHoldsReviewOnly
    <3>2. CASE p = o /\ ModeNow(i) # "review_only"
        BY <1>5, <2>2, <3>2
    <3> QED BY <2>1, <3>1, <3>2
  <2> QED BY <1>1, <2>2 DEF EvaluationHoldsReviewOnly
<1>7. UnaskedOrdersAreEarned'
  <2>1. Executable(t) /\ i = NoRequest => Lifecycle[t] \in {"active", "experimental"}
      BY DEF Executable, IInv, AuthorizedEarned
  <2> QED BY <1>1, <2>1 DEF IInv, UnaskedOrdersAreEarned
<1>8. TypeOK'
    BY <1>1, <1>2, <1>3, <1>4 DEF IInv, TypeOK
<1> QED BY <1>1, <1>2, <1>3, <1>6, <1>7, <1>8 DEF IInv, OneActivePerTicker, EvaluatedFirst,
           SentLast, WrittenStayActive, AuthorizedEarned

\* The end of a run, with or without a commit.
LEMMA LeaveInv ==
    ASSUME IInv, run' = NoRun, UNCHANGED <<desk, orders>>, Ages, RowsTyped', OneActivePerTicker'
    PROVE  IInv'
<1>1. \A o \in Operators : desk'[o] = NoDraft
         \/ desk'[o] \in [ticker : Tickers, mode : Modes, seen : SUBSET Created']
    BY DEF IInv, TypeOK, Ages
<1>2. LockedRows' = {} /\ Pinned' = {}
    BY IdleRun DEF LockedRows, Pinned
<1>3. run'.pinned \in [Tickers -> Created' \cup {NoRequest}]
    BY IdleRun DEF Runs
<1>4. TypeOK'
    BY <1>1, <1>2, <1>3, IdleRun DEF IInv, TypeOK, RowsTyped, RowType, Ages, Runs
<1>5. EvaluationHoldsReviewOnly' /\ UnaskedOrdersAreEarned'
    BY DEF IInv, TypeOK, EvaluationHoldsReviewOnly, UnaskedOrdersAreEarned, Ages
<1> QED BY <1>2, <1>4, <1>5, IdleRun DEF IInv, EvaluatedFirst, SentLast, WrittenStayActive,
           AuthorizedEarned

\* Rows that do not change.
LEMMA SameRowsAge == ASSUME IInv, UNCHANGED rows
                     PROVE  Ages /\ RowsTyped' /\ OneActivePerTicker' /\ Active' = Active
  BY Typed DEF IInv, Ages, RowsTyped, OneActivePerTicker, Active, Created

\* Every step of a session, of a run or of the rows' commits keeps IInv.
LEMMA NextInv == IInv /\ [Next]_vars => IInv'
<1> SUFFICES ASSUME IInv, [Next]_vars PROVE IInv'
    OBVIOUS
<1>1. ASSUME NEW o \in Operators, Save(o) PROVE IInv'
  <2>1. UNCHANGED <<run, orders>> /\ \A p \in Operators : desk'[p] \in {NoDraft, desk[p]}
      BY <1>1 DEF Save
  <2> QED BY <1>1, <2>1, SaveRows, Aging DEF IInv
<1>2. ASSUME NEW i \in Created, Close(i) PROVE IInv'
  <2>1. UNCHANGED <<run, orders, desk>>
      BY <1>2 DEF Close
  <2> QED BY <1>2, <2>1, CloseRows, Aging DEF IInv
<1>3. ASSUME NEW o \in Operators, NEW t \in Tickers, NEW m \in Modes, Pin(o, t, m) PROVE IInv'
  <2>1. UNCHANGED <<rows, run, orders>>
        /\ desk' = [desk EXCEPT ![o] = [ticker |-> t, mode |-> m, seen |-> ActiveOf(t)]]
      BY <1>3 DEF Pin
  <2>2. ActiveOf(t) \subseteq Created /\ Created' = Created
      BY <2>1 DEF ActiveOf, Active, Created
  <2>3. TypeOK'
      BY <2>1, <2>2 DEF IInv, TypeOK, LockedRows
  <2> QED BY <2>1, <2>3, SameRowsAge DEF IInv, EvaluatedFirst, SentLast, WrittenStayActive,
             AuthorizedEarned, EvaluationHoldsReviewOnly, UnaskedOrdersAreEarned, Pinned, LockedRows
<1>4. ASSUME Commit PROVE IInv'
  <2>1. run' = NoRun /\ UNCHANGED <<desk, orders>>
      BY <1>4 DEF Commit
  <2> QED BY <1>4, <2>1, CommitRows, LeaveInv DEF IInv
<1>5. ASSUME Fail PROVE IInv'
  <2>1. run' = NoRun /\ UNCHANGED <<desk, orders, rows>>
      BY <1>5 DEF Fail
  <2> QED BY <2>1, SameRowsAge, LeaveInv
<1>6. CASE UNCHANGED vars
    BY <1>6, SameRowsAge DEF vars, IInv, TypeOK, EvaluatedFirst, SentLast, WrittenStayActive,
       AuthorizedEarned, EvaluationHoldsReviewOnly, UnaskedOrdersAreEarned, Pinned, LockedRows,
       Created
<1> QED BY <1>1, <1>2, <1>3, <1>4, <1>5, <1>6, StartInv, EvaluateInv, MatchInv, DecideInv,
           SubmitInv
        DEF Next

\* IInv holds in every state of every behaviour.
LEMMA InvHolds == Spec => []IInv
  BY InitInv, NextInv, PTL DEF Spec

\* Every variable keeps its type.
THEOREM TypeCorrect == Spec => []TypeOK
<1>1. IInv => TypeOK
    BY DEF IInv
<1> QED BY InvHolds, <1>1, PTL

\* However sessions interleave, a ticker has at most one active request.
THEOREM OneActiveHolds == Spec => []OneActivePerTicker
<1>1. IInv => OneActivePerTicker
    BY DEF IInv
<1> QED BY InvHolds, <1>1, PTL

\* No step of a session or of a run makes a closed request active again.
THEOREM ClosedStaysClosedHolds == Spec => ClosedStaysClosed
<1>1. ASSUME IInv, [Next]_vars
      PROVE  [\A i \in Created : rows[i].status # "active" => rows'[i].status # "active"]_vars
  <2>1. CASE UNCHANGED rows
      BY <2>1
  <2>2. ASSUME NEW o \in Operators, Save(o) PROVE Ages
      BY <1>1, <2>2, SaveRows DEF IInv
  <2>3. ASSUME NEW i \in Created, Close(i) PROVE Ages
      BY <1>1, <2>3, CloseRows DEF IInv
  <2>4. ASSUME Commit PROVE Ages
      BY <1>1, <2>4, CommitRows DEF IInv
  <2>5. Ages \/ UNCHANGED rows
      BY <1>1, <2>2, <2>3, <2>4 DEF Next, vars, Pin, Start, Match, Decide, Evaluate, Submit, Fail
  <2> QED BY <2>1, <2>5 DEF Ages
<1> QED BY InvHolds, <1>1, PTL DEF Spec, ClosedStaysClosed

\* A review-only request trades only if it was closed before its evaluation.
THEOREM EvaluationHolds == Spec => []EvaluationHoldsReviewOnly
<1>1. IInv => EvaluationHoldsReviewOnly
    BY DEF IInv
<1> QED BY InvHolds, <1>1, PTL

\* An order nobody asked for is of an active or experimental strategy.
THEOREM UnaskedHolds == Spec => []UnaskedOrdersAreEarned
<1>1. IInv => UnaskedOrdersAreEarned
    BY DEF IInv
<1> QED BY InvHolds, <1>1, PTL
=============================================================================
