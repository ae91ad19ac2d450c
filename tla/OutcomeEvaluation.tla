-------------------------- MODULE OutcomeEvaluation --------------------------
(***************************************************************************)
(* Maturing of persisted candidates into outcome rows (trading/outcomes,   *)
(* trading/phases/outcomes, repositories/mixins/strategy.py).              *)
(*                                                                         *)
(* A candidate has two checkpoints, counted in exchange sessions from the  *)
(* date of its decision.  The scheduled job, after the close of a weekday, *)
(* and an operator's backfill, at any time, go through the source dates,   *)
(* one transaction each: they *load* what is due and *save* a row for each *)
(* checkpoint they have prices for.  Rows are never changed.               *)
(***************************************************************************)
EXTENDS Integers, FiniteSets, FiniteSetsExt, TLC

CONSTANTS
    Candidates,
    Tickers,
    LastDay,            \* bound on the days a decision or a run can be of
    Holidays,           \* weekdays without a session
    InterimOffset, FinalOffset,   \* sessions from the decision to its checkpoints
    Lookback,           \* days the job looks back for source dates
    Lags,               \* how many days before today a backfill may end
    Profiles,           \* what candidates may be: records of identity,
                        \* explicit (a primary benchmark), supported (horizon)
    PriceSets           \* what one load from the provider may have prices of

\* The calendar goes on after LastDay, far enough for every checkpoint.
Days == 1 .. LastDay
Calendar == 1 .. (LastDay + FinalOffset + 2 + Cardinality(Holidays))
Sessions == Calendar \ Holidays

Nobody == "no candidate"    \* a fill of an intraday rebalance has none

ASSUME OutcomeAssumption ==
    /\ Nobody \notin Candidates
    /\ LastDay \in Nat \ {0}
    /\ Holidays \subseteq Calendar /\ IsFiniteSet(Holidays)
    /\ InterimOffset \in Nat \ {0} /\ FinalOffset \in Nat /\ InterimOffset < FinalOffset
    /\ Lookback \in Nat /\ Lags \subseteq Nat
    /\ Profiles \subseteq [identity: {"stock", "option", "watch"},
                            explicit: BOOLEAN, supported: BOOLEAN]
    /\ PriceSets \subseteq SUBSET {"own", "primary", "QQQ", "SPY"}

Statuses == {"interim", "final"}

VARIABLES
    day, closed,    \* the day, and whether its session has closed
    candidates,     \* candidate_scores: a function from those that exist
    fills,          \* paper_executions with their orders' decisions
    rows,           \* candidate_outcome_evaluations
    job,            \* the run of the job under way, or Off
    counts          \* what the run of the job has counted for its report

vars == <<day, closed, candidates, fills, rows, job, counts>>

Off == [on |-> FALSE, dates |-> {}, loaded |-> FALSE, due |-> {}]
Zero == [failed |-> {}, pending |-> {}, anyDue |-> FALSE]

-----------------------------------------------------------------------------
(* Calendar and lineage.                                                   *)

\* checkpoints_for: the n-th session after s, which must be a session itself.
SessionAfter(s, n) ==
    CHOOSE t \in Sessions : t > s /\ Cardinality({u \in Sessions : s < u /\ u <= t}) = n

Checkpoint(c, status) ==
    SessionAfter(candidates[c].session,
                 IF status = "interim" THEN InterimOffset ELSE FinalOffset)

\* Mutant: the fills are those of the ticker.
FillsOfTicker(c) == {f \in fills : f.ticker = candidates[c].ticker}

\* Fills of the orders of the decisions made for this candidate.
FillsOf(c) == {f \in fills : f.candidate = c}

\* complete_close_from_lineage, in units of one position: the days on which an
\* exit followed an entry.  Options have no complete close.
CompleteCloses(c) ==
    IF candidates[c].identity = "option" THEN {}
    ELSE {f.day : f \in {x \in FillsOf(c) :
            x.action = "exit" /\ \E e \in FillsOf(c) : e.action = "enter" /\ e.day <= x.day}}

\* resolve_finalization
End(c, status) ==
    LET closes == {d \in CompleteCloses(c) : d <= Checkpoint(c, status)} IN
      IF status = "final" /\ candidates[c].identity # "watch" /\ closes # {}
      THEN [day |-> Min(closes), reason |-> "trade_closed"]
      ELSE [day |-> Checkpoint(c, status), reason |-> "horizon_expired"]

\* A candidate is looked at as long as one of its two rows is missing.
Missing(c) == \E s \in Statuses : ~\E r \in rows : r.candidate = c /\ r.status = s

\* due_evaluation_statuses
DueOf(c, asOf) ==
    {[candidate |-> c, status |-> s] : s \in {s \in Statuses :
        /\ End(c, s).day <= asOf
        /\ ~\E r \in rows : r.candidate = c /\ r.status = s /\ r.end = End(c, s)}}

LoadedOn(d) == {c \in DOMAIN candidates : candidates[c].day = d /\ Missing(c)}
Supported(d) == {c \in LoadedOn(d) : candidates[c].supported}

\* load_due_candidate_outcome_contexts for a source date
Due(d, asOf) == UNION {DueOf(c, asOf) : c \in Supported(d)}

\* The date of a decision is no session: checkpoints_for raises, and with it
\* the load of the whole source date.
Poisoned(d) == \E c \in Supported(d) : candidates[c].session \notin Sessions

\* The primary comparator: the one persisted with the candidate, or else QQQ,
\* or else SPY; "none" if there is no price of it.
PrimaryOf(c, prices) ==
    IF candidates[c].explicit THEN (IF "primary" \in prices THEN "primary" ELSE "none")
    ELSE IF "QQQ" \in prices THEN "QQQ"
    ELSE IF "SPY" \in prices THEN "SPY" ELSE "none"

\* _evaluate_checkpoint gives a row only with prices of the ticker and of a
\* primary comparator.
Evaluable(due, prices) == "own" \in prices /\ PrimaryOf(due.candidate, prices) # "none"

RowOf(due, prices) ==
    [candidate |-> due.candidate, status |-> due.status,
     end |-> End(due.candidate, due.status),
     primary |-> PrimaryOf(due.candidate, prices),
     settled |-> End(due.candidate, due.status).day < day \/ closed]

-----------------------------------------------------------------------------
TypeOK ==
    /\ day \in Days /\ closed \in BOOLEAN
    /\ DOMAIN candidates \subseteq Candidates
    /\ \A c \in DOMAIN candidates :
         /\ candidates[c].day \in Days
         /\ candidates[c].session \in {candidates[c].day, candidates[c].day + 1}
    /\ \A f \in fills : f.candidate \in DOMAIN candidates \cup {Nobody}
                        /\ f.day \in 1 .. day
    /\ \A r \in rows : r.candidate \in DOMAIN candidates /\ r.status \in Statuses
                       /\ r.end.day \in Sessions /\ r.primary # "none"
    /\ job.dates \subseteq Days
    /\ counts.failed \subseteq Days /\ counts.anyDue \in BOOLEAN

Init ==
    /\ day = 1 /\ closed = FALSE
    /\ candidates = <<>>
    /\ fills = {} /\ rows = {}
    /\ job = Off
    /\ counts = Zero

\* A strategy run persists a candidate.  Its session is the date of its UTC
\* decision time: in the evening, that of the next day.  (Between the close
\* and the evening a decision is like one before the close.)
Decide(c) ==
    /\ c \notin DOMAIN candidates
    /\ \E t \in Tickers, p \in Profiles :
         candidates' = [x \in DOMAIN candidates \cup {c} |->
              IF x # c THEN candidates[x]
              ELSE [day |-> day, session |-> IF closed THEN day + 1 ELSE day, ticker |-> t,
                    identity |-> p.identity, explicit |-> p.explicit, supported |-> p.supported]]
    /\ UNCHANGED <<day, closed, fills, rows, job, counts>>

\* Positions are whole: entered and ended, one at a time.
Held(t, when) ==
    LET upTo(action) == {f \in fills : f.ticker = t /\ f.action = action /\ f.day <= when}
    IN Cardinality(upTo("enter")) > Cardinality(upTo("exit"))

\* An order fills.  A decision has one order: it enters a position in the
\* ticker of its candidate, or it ends one that an earlier candidate entered.
\* The row may be written by a later sync, with the time of the fill.
Fill(c, action, when) ==
    /\ c \in DOMAIN candidates /\ candidates[c].identity # "watch"
    /\ candidates[c].day <= when /\ when <= day /\ when \in Sessions
    /\ ~\E f \in fills : f.candidate = c
    /\ (action = "exit") = Held(candidates[c].ticker, when)
    /\ fills' = fills \cup {[candidate |-> c, ticker |-> candidates[c].ticker,
                             action |-> action, day |-> when]}
    /\ UNCHANGED <<day, closed, candidates, rows, job, counts>>

\* An intraday rebalance ends a position; its decision has no candidate.
Rebalance(t) ==
    /\ ~closed /\ day \in Sessions
    /\ Held(t, day)
    /\ fills' = fills \cup {[candidate |-> Nobody, ticker |-> t, action |-> "exit", day |-> day]}
    /\ UNCHANGED <<day, closed, candidates, rows, job, counts>>

Close ==
    /\ ~closed /\ closed' = TRUE
    /\ UNCHANGED <<day, candidates, fills, rows, job, counts>>

NextDay ==
    /\ closed /\ day < LastDay
    /\ job = Off
    /\ day' = day + 1 /\ closed' = FALSE
    /\ UNCHANGED <<candidates, fills, rows, job, counts>>

-----------------------------------------------------------------------------
\* load_due_candidate_outcome_source_dates
SourceDates(asOf) ==
    {d \in Days : d <= asOf /\ d + Lookback >= asOf /\ LoadedOn(d) # {}}

StartJob ==
    /\ closed /\ job = Off
    /\ job' = [Off EXCEPT !.on = TRUE, !.dates = SourceDates(day)]
    /\ UNCHANGED <<day, closed, candidates, fills, rows, counts>>

NextDate == [job EXCEPT !.dates = @ \ {Min(@)}, !.loaded = FALSE, !.due = {}]

\* Mutant: the first date that fails ends the run.
StopAtFailure ==
    /\ job' = [job EXCEPT !.dates = {}, !.loaded = FALSE, !.due = {}]
    /\ counts' = [counts EXCEPT !.failed = @ \cup {Min(job.dates)}]

\* The date is rolled back; the run goes on to the next one.
FailDate ==
    /\ job' = NextDate
    /\ counts' = [counts EXCEPT !.failed = @ \cup {Min(job.dates)}]

\* The contexts of a date cannot be loaded, or, on an as-of date without a
\* session, the record of the run of the first of them raises.
Raises(d, asOf) == Poisoned(d) \/ (asOf \notin Sessions /\ Due(d, asOf) # {})

\* Load the contexts of the next date.
Load ==
    /\ job.on /\ job.dates # {} /\ ~job.loaded
    /\ LET d == Min(job.dates) IN
         IF Raises(d, day) THEN FailDate
         ELSE /\ job' = [job EXCEPT !.loaded = TRUE, !.due = Due(d, day)]
              /\ UNCHANGED counts
    /\ UNCHANGED <<day, closed, candidates, fills, rows>>

\* ON CONFLICT DO NOTHING on candidate, status and end.
Insert(old, new) ==
    old \cup {n \in new : ~\E r \in old : <<n.candidate, n.status, n.end>> = <<r.candidate, r.status, r.end>>}

\* What one load per candidate from the provider may give.
Loads(due) == [{x.candidate : x \in due} -> PriceSets]

Done(due, prices) == {x \in due : Evaluable(x, prices[x.candidate])}

Recorded(due, prices) ==
    rows' = Insert(rows, {RowOf(x, prices[x.candidate]) : x \in Done(due, prices)})

\* Rows are saved and the date is committed.
Save ==
    /\ job.on /\ job.loaded
    /\ \E prices \in Loads(job.due) :
         /\ Recorded(job.due, prices)
         /\ counts' = [counts EXCEPT !.pending = @ \cup (job.due \ Done(job.due, prices)),
                                     !.anyDue = @ \/ job.due # {}]
    /\ job' = NextDate
    /\ UNCHANGED <<day, closed, candidates, fills>>

\* The session or a call fails in a way the pipeline does not catch.
SaveFails ==
    /\ job.on /\ job.loaded
    /\ FailDate
    /\ UNCHANGED <<day, closed, candidates, fills, rows>>

\* Mutant: a failed date does not degrade the run.
ReportIgnoringFailures ==
    IF ~counts.anyDue THEN "skipped" ELSE IF counts.pending # {} THEN "degraded" ELSE "passed"

\* The status of the run.
Report ==
    IF ~counts.anyDue THEN (IF counts.failed # {} THEN "failed" ELSE "skipped")
    ELSE IF counts.pending # {} \/ counts.failed # {} THEN "degraded" ELSE "passed"

\* End of the run, or of its process: what was committed stays.
Stop ==
    /\ job' = Off /\ counts' = Zero
    /\ UNCHANGED <<day, closed, candidates, fills, rows>>

Finish == job.on /\ job.dates = {} /\ Stop

Crash == job.on /\ job.dates # {} /\ Stop

\* One source date of an operator's backfill, which may run while the job
\* does.  The operator gives the last date, at which the run evaluates.
Backfill(d, end) ==
    /\ end \in Days /\ d <= end
    /\ ~Raises(d, end)
    /\ \E prices \in Loads(Due(d, end)) : Recorded(Due(d, end), prices)
    /\ rows' # rows
    /\ UNCHANGED <<day, closed, candidates, fills, job, counts>>

Environment ==
    \/ Close \/ NextDay
    \/ \E c \in Candidates : Decide(c)
    \/ \E c \in Candidates, action \in {"enter", "exit"}, when \in Days : Fill(c, action, when)
    \/ \E t \in Tickers : Rebalance(t)

Next ==
    \/ Environment
    \/ StartJob \/ Load \/ Save \/ SaveFails \/ Finish \/ Crash
    \/ \E d \in Days, lag \in Lags : Backfill(d, day - lag)

Spec == Init /\ [][Next]_vars

-----------------------------------------------------------------------------
\* A candidate never gets a second interim or a second final row, whatever
\* fills become known between two runs, and however the runs overlap: evidence
\* for a strategy counts a candidate once.
OneOutcomePerCheckpoint ==
    \A r, s \in rows : r.candidate = s.candidate /\ r.status = s.status => r = s

\* A row, once there, is never changed: neither by an overlapping run nor by a
\* later one that has better prices.
RowsStay == [][rows \subseteq rows']_vars

\* Due on a date, but for candidates whose date of decision is no session.
SoundDue(d) == {x \in Due(d, day) : candidates[x.candidate].session \in Sessions}

JobEnds == job.on /\ job.dates = {}

\* A job ends with "passed" or "skipped" only if no checkpoint that was due on
\* its source dates is left without a row.
ReportIsHonest ==
    JobEnds /\ Report \in {"passed", "skipped"}
        => \A d \in SourceDates(day) : SoundDue(d) = {}

\* Trouble stays where it is: when a job ends, whatever is still due had no
\* prices, or is of a source date that failed itself.
NothingForgotten ==
    JobEnds => \A d \in SourceDates(day) \ counts.failed : SoundDue(d) \subseteq counts.pending

\* The position a candidate entered has been ended by later fills, whoever
\* ordered them.
ExitDays(c) ==
    {f.day : f \in {x \in FillsOfTicker(c) : x.action = "exit"
        /\ \E e \in FillsOf(c) : e.action = "enter" /\ e.day < x.day}}

\* A final row of a trade that was closed before its horizon ends at the close
\* of the trade.
FinalizedAtClose ==
    \A r \in rows :
        r.status = "final" /\ candidates[r.candidate].identity = "stock"
            => ~\E d \in ExitDays(r.candidate) : d < r.end.day
=============================================================================
