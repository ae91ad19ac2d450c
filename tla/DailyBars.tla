----------------------------- MODULE DailyBars -----------------------------
(***************************************************************************)
(* The stored daily bars: the evening batch that fetches them, the         *)
(* morning phases that read them, and the universe snapshots by which the  *)
(* mornings tell the evenings what to fetch.                               *)
(*                                                                         *)
(* Time 2d - 1 is the morning of day d, time 2d its evening; the session   *)
(* of day d closes just before that evening.  A batch reads its clock when *)
(* it starts and commits when it ends, perhaps in the next morning.        *)
(*                                                                         *)
(* Where SourceIngestion, which reads the table, has a name of its own for *)
(* the same thing, the name here begins with Bars or is another one, so    *)
(* that a module can extend both.                                          *)
(***************************************************************************)
EXTENDS Integers, FiniteSets, FiniteSetsExt

CONSTANTS
    Listed,     \* tickers the market provider lists
    Pinnable,   \* tickers a user may pin by a manual request
    Watchlist,  \* active watchlist tickers
    Support,    \* SPY, QQQ, GLD
    Excluded,   \* manual_exclude of the universe filter
    Sessions,   \* days on which the exchange trades
    Window,     \* recent_window_days of the batch
    Legacy,     \* bars of an older provider that are stored at time 0
    LastTime    \* bound: the last time

BarSymbols == Listed \cup Pinnable \cup Watchlist \cup Support

ASSUME BarConstants ==
    /\ Sessions \subseteq Nat /\ 0 \in Sessions
    /\ Window \in Nat \ {0}
    /\ LastTime \in Nat \ {0}
    /\ Legacy \subseteq BarSymbols \X {0}

VARIABLES
    now,
    pinned,   \* tickers of the active manual requests
    scan,     \* latest universe snapshot of a preopen phase
    review,   \* latest universe snapshot of a manual review phase
    batch,    \* the batch: running, its as_of and its symbols
    bars,     \* market_daily_bars
    report,   \* the latest source_ingestion_run of the batch
    decided   \* what the morning phases read, and when

barVars == <<now, pinned, scan, review, batch, bars, report, decided>>

Day == (now + 1) \div 2

\* The phases run in the mornings, the batch in the evenings.
Morning == now % 2 = 1

NoReport == [at |-> 0, symbols |-> {}, missing |-> {}, status |-> "none",
             full |-> FALSE]

Bar(t, d, provider, at) ==
    [ticker |-> t, day |-> d, provider |-> provider, at |-> at]

BarsInit ==
    /\ now = 1
    /\ pinned = {}
    /\ scan = [day |-> 0, included |-> Listed]
    /\ review = [day |-> -1, included |-> {}]   \* none yet
    /\ batch = [running |-> FALSE, at |-> 0, symbols |-> {}]
    /\ bars = {Bar(p[1], p[2], "legacy", 0) : p \in Legacy}
    /\ report = NoReport
    /\ decided = {}

-----------------------------------------------------------------------------
(* Reading.                                                                *)

\* Stored bars of t that were available for a decision at that time.
Visible(t, time) == {b \in bars : b.ticker = t /\ b.at <= time}

\* One row per date; a Yahoo row comes before a legacy one.
OnePerDate(rows) ==
    {b \in rows : b.provider = "yahoo"
                    \/ \A o \in rows : o.day = b.day => o.provider = b.provider}

\* Mutant: whatever is stored is read, as of now.
SeenOfAll(t, time) == OnePerDate({b \in bars : b.ticker = t})

\* load_market_daily_bars_for_symbols, for one symbol.
Seen(t, time) == OnePerDate(Visible(t, time))

ReadBy(symbols, time) == UNION {Seen(t, time) : t \in symbols}

\* A phase reads the bars of its universe and of the benchmarks.
Decide(symbols) ==
    decided' = decided \cup
        {[at |-> now, symbols |-> symbols \cup Support,
          quiet |-> ~batch.running, seen |-> ReadBy(symbols \cup Support, now)]}

-----------------------------------------------------------------------------
(* The mornings.                                                           *)

\* Assets without a price, and excluded ones, do not pass the filters.
Passing(priced) == priced \ Excluded

\* Targets are included even without a price, unless excluded by hand.
Forced == (Watchlist \cup pinned) \ Excluded

\* The price batch of the full scan is answered, or fails as a whole.
PriceAnswers == {Listed, {}}

\* The scoped scan asks for one target after the other.
TargetedAnswers == SUBSET pinned

Snapshot(included) == [day |-> Day, included |-> included]

\* A preopen phase scans the full universe.
Preopen ==
    /\ Morning
    /\ scan.day < Day
    /\ \E priced \in PriceAnswers :
         LET included == Passing(priced) \cup Forced
         IN  scan' = Snapshot(included) /\ Decide(included)
    /\ UNCHANGED <<now, pinned, review, batch, bars, report>>

\* A manual review scans the targets of its requests only, and its snapshot
\* is stored like any other.
ManualReview ==
    /\ Morning
    /\ review.day < Day
    /\ pinned # {}
    /\ \E priced \in TargetedAnswers :
         review' = Snapshot(Passing(priced)) /\ Decide(Passing(priced))
    /\ UNCHANGED <<now, pinned, scan, batch, bars, report>>

Pin ==
    /\ \E t \in Pinnable \ pinned : pinned' = pinned \cup {t}
    /\ UNCHANGED <<now, scan, review, batch, bars, report, decided>>

Unpin ==
    /\ \E t \in pinned : pinned' = pinned \ {t}
    /\ UNCHANGED <<now, scan, review, batch, bars, report, decided>>

-----------------------------------------------------------------------------
(* The evening batch.                                                      *)

\* latest_completed_session.
LatestCompleted(time) == Max({d \in Sessions : 2 * d <= time})

\* The session whose bar a symbol must have to count as covered.
ExpectedDate(time) == LatestCompleted(time)

\* Mutant: only the latest session is asked for.
OneDate(time) == {ExpectedDate(time)}

\* The sessions of the recent window.
Requested(time) ==
    {d \in Sessions : ExpectedDate(time) - Window < d /\ d <= ExpectedDate(time)}

\* Mutant: a manual review's snapshot is preferred however old it is.
ReviewFirst == IF review.day > 0 THEN review ELSE scan

\* The snapshot of the latest day; on one day the review (08:50) completes
\* after the scan (08:45).
LatestSnapshot == IF review.day >= scan.day THEN review ELSE scan

StartBatch ==
    /\ ~Morning
    /\ ~batch.running
    /\ batch.at < now
    /\ batch' = [running |-> TRUE, at |-> now,
                 symbols |-> LatestSnapshot.included \cup Watchlist \cup Support]
    /\ UNCHANGED <<now, pinned, scan, review, bars, report, decided>>

\* save_market_daily_bars: a bar that is stored is never written again.
New(answer) ==
    {Bar(p[1], p[2], "yahoo", batch.at) :
        p \in {q \in answer : \A b \in bars : b.provider = "yahoo"
                                 => <<b.ticker, b.day>> # q}}

\* Symbols whose latest returned bar is that of the expected session.
Covered(answer) ==
    {t \in batch.symbols :
        \E d \in Sessions : <<t, d>> \in answer /\ d >= ExpectedDate(batch.at)}

EndBatch == batch' = [batch EXCEPT !.running = FALSE]

\* What Yahoo may return: any bars of what was asked for, nothing at all
\* when its call fails.
Answers == SUBSET (batch.symbols \X Requested(batch.at))

FinishBatch ==
    /\ batch.running
    /\ \E answer \in Answers :
         LET missing == batch.symbols \ Covered(answer)
         IN  /\ bars' = bars \cup New(answer)
             /\ report' = [at |-> batch.at, symbols |-> batch.symbols,
                           missing |-> missing,
                           status |-> IF missing = {} THEN "succeeded"
                                                      ELSE "degraded",
                           full |-> answer = batch.symbols \X Requested(batch.at)]
    /\ EndBatch
    /\ UNCHANGED <<now, pinned, scan, review, decided>>

\* The job logs the error, the session rolls back.
FailBatch ==
    /\ batch.running
    /\ EndBatch
    /\ UNCHANGED <<now, pinned, scan, review, bars, report, decided>>

Tick ==
    /\ now < LastTime
    /\ now' = now + 1
    /\ UNCHANGED <<pinned, scan, review, batch, bars, report, decided>>

BarsNext ==
    \/ Preopen \/ ManualReview \/ Pin \/ Unpin
    \/ StartBatch \/ FinishBatch \/ FailBatch
    \/ Tick

BarsSpec == BarsInit /\ [][BarsNext]_barVars

-----------------------------------------------------------------------------
(* Properties.                                                             *)

Snapshots == [day : -1..LastTime, included : SUBSET BarSymbols]

\* Every variable keeps its type, and no bar is stored twice for a ticker,
\* date and provider (the unique key of market_daily_bars).
BarsTypeOK ==
    /\ now \in 0..LastTime
    /\ pinned \subseteq Pinnable
    /\ scan \in Snapshots /\ review \in Snapshots
    /\ batch \in [running : BOOLEAN, at : 0..LastTime, symbols : SUBSET BarSymbols]
    /\ bars \subseteq [ticker : BarSymbols, day : Sessions,
                       provider : {"yahoo", "legacy"}, at : 0..LastTime]
    /\ \A a, b \in bars :
         a.ticker = b.ticker /\ a.day = b.day /\ a.provider = b.provider => a = b

\* What a phase read while no batch was under way is read again, bar for
\* bar, at any later time as of its decision time: a later batch, a refetched
\* date or the change from a legacy row to a Yahoo row does not change it.
QuietReplayIsStable ==
    \A d \in decided : d.quiet => ReadBy(d.symbols, d.at) = d.seen

\* A complete answer closes every hole that earlier failed or partial
\* batches left in its window, for the symbols it was asked for.
FullAnswerHeals ==
    report.full =>
        \A t \in report.symbols, d \in Sessions :
            LatestCompleted(report.at) - Window < d
              /\ d <= LatestCompleted(report.at)
            => \E b \in bars : b.ticker = t /\ b.day = d

\* A batch that leaves out a ticker of the latest full scan does so because
\* of a manual review of that day or a later one, never because of an old one.
OnlyAReviewNarrows ==
    [][batch'.running /\ ~batch.running
         /\ ~(scan.included \subseteq batch'.symbols)
       => review.day >= scan.day]_barVars
=============================================================================
