--------------------------- MODULE SourceIngestion ---------------------------
(***************************************************************************)
(* One refresh of the signal sources for a few tickers                     *)
(* (trading/signals/source_ingestion.py, SourceIngestionService).          *)
(*                                                                         *)
(* A refresh works through *jobs*, one per source family and ticker; the   *)
(* premarket batch and the social feed are jobs for all tickers.  A job    *)
(* makes *calls*, each through the policy of its endpoint.  A call that    *)
(* raises ends its job with an error, except for intraday bars, whose      *)
(* failure is swallowed.  Daily bars come from a table if there is one.    *)
(* The news of a ticker are condensed with the company name that its       *)
(* fundamentals have given, if they have.                                  *)
(***************************************************************************)
EXTENDS ProviderPolicy, Sequences, FiniteSets, SequencesExt

CONSTANTS
    Tickers,            \* a sequence: the order of normalized_tickers
    Families,           \* source_families
    Unwired             \* sets of things a deployment may be built without

ASSUME IngestionAssumption ==
    /\ Tickers \in Seq(Range(Tickers))
    /\ \A i, j \in DOMAIN Tickers : Tickers[i] = Tickers[j] => i = j
    /\ Families \subseteq {"technical", "fundamental", "option_chain",
                           "events_news", "social_macro"}
    /\ Unwired \subseteq SUBSET {"social_macro", "option_chain", "events_news",
                                 "intraday", "premarket_price", "condenser"}

All == "all tickers"
Benchmarks == <<"SPY", "QQQ">>
Endpoints == {"market_bars", "market_premarket_prices", "market_context",
              "news", "global_context", "option_chain"}

\* The scope under which a policy caches a call is what it is about, and for whom.
Call(endpoint, about, symbol) == [endpoint |-> endpoint, scope |-> <<about, symbol>>]

\* The stories of an answer, by the one the condenser thinks most of: it is of
\* the ticker's "own" (names it, or an event), it is general news that names
\* only the company, or "noise".  A "malformed" one makes the condenser raise.
Stories == {"own", "name_only", "noise", "nothing", "malformed"}

\* What a call may return; fundamentals come with a company name or without.
MayReturn(about) ==
    CASE about = "news" -> Stories
      [] about = "context" -> {"named", "data", "empty"}
      [] OTHER -> {"data", "empty"}

VARIABLES
    wiring,     \* what the service was built with, and the kind of run
    stored,     \* symbols of which the reader has daily bars
    policy,     \* [Endpoints -> policy]
    jobs,       \* jobs left, a sequence of <<family, ticker>>
    job,        \* the job under way, or NoJob
    todo,       \* calls left of that job
    retries,    \* retry_count of the call under way, or NotCalled
    benchmarks, \* _benchmark_returns_cache is filled
    named,      \* tickers whose company_name is known
    told,       \* the stories of each ticker
    records,    \* jobs whose source records were collected
    nothing,    \* jobs that ended well without a source record
    errors,     \* jobs that appended an error
    made,       \* [Endpoints -> operations the provider saw]
    reported,   \* [Endpoints -> operations that telemetry rows account for]
    broken,     \* endpoints an operation of which has failed
    row         \* status of the source_ingestion_runs row; "started" stands
                \* for the provisional "degraded" one without completed_at

vars == <<wiring, stored, policy, jobs, job, todo, retries, benchmarks, named, told,
          records, nothing, errors, made, reported, broken, row>>

NoJob == <<"none", All>>
NotCalled == MaxRetries + 1

-----------------------------------------------------------------------------
\* The order of work: batch of premarket prices, social feed, then per ticker
\* technical, fundamental, option chain, events and news.
Wanted(family, ticker) == IF family \in Families THEN <<<<family, ticker>>>> ELSE <<>>

JobsOf(ticker) ==
    Wanted("technical", ticker) \o Wanted("fundamental", ticker)
        \o Wanted("option_chain", ticker) \o Wanted("events_news", ticker)

BarsJob == IF "technical" \in Families /\ wiring.reader THEN <<<<"daily_bars", All>>>> ELSE <<>>

PremarketJob ==
    IF "technical" \in Families /\ (wiring.batch \/ wiring.preOpen)
    THEN <<<<"premarket", All>>>> ELSE <<>>

SocialJob == IF "social_macro" \in Families THEN <<<<"social_macro", All>>>> ELSE <<>>

Agenda ==
    BarsJob \o PremarketJob \o SocialJob
        \o FlattenSeq([i \in DOMAIN Tickers |-> JobsOf(Tickers[i])])

\* Daily bars are never fetched when the table can be read, nor before the open.
TableOnly == wiring.reader \/ wiring.preOpen
HasBars(symbol) == wiring.reader /\ symbol \in stored

BarsCalls(ticker) ==
    IF HasBars(ticker) THEN <<>> ELSE <<Call("market_bars", "bars", ticker)>>

\* _benchmark_returns_1d, filled once for the refresh.
BenchmarkCalls ==
    IF benchmarks \/ TableOnly THEN <<>>
    ELSE [i \in DOMAIN Benchmarks |-> Call("market_bars", "benchmark", Benchmarks[i])]

\* _premarket_gap_pct: a call only where there is no batch and it is not pre open.
PremarketCalls(ticker) ==
    IF wiring.batch \/ wiring.preOpen \/ "premarket_price" \in wiring.lacks THEN <<>>
    ELSE <<Call("market_premarket_prices", "premarket", ticker)>>

IntradayCalls(ticker) ==
    IF wiring.preOpen \/ "intraday" \in wiring.lacks THEN <<>>
    ELSE <<Call("market_bars", "intraday", ticker)>>

TechnicalCalls(ticker) ==
    BarsCalls(ticker) \o BenchmarkCalls \o PremarketCalls(ticker) \o IntradayCalls(ticker)

NewsCalls(ticker) ==
    IF "events_news" \in wiring.lacks THEN <<>> ELSE <<Call("news", "news", ticker)>>

CallsOf(j) ==
    CASE j[1] = "technical" -> TechnicalCalls(j[2])
      [] j[1] = "premarket" -> <<Call("market_premarket_prices", "batch", All)>>
      [] j[1] = "social_macro" -> <<Call("global_context", "social", All)>>
      [] j[1] = "fundamental" -> <<Call("market_context", "context", j[2])>>
      [] j[1] = "option_chain" -> <<Call("option_chain", "chain", j[2])>>
      [] j[1] = "events_news" -> NewsCalls(j[2])

\* An empty answer to these calls ends the job: there is nothing to record.
Decisive == {"bars", "context", "chain", "social"}

\* None without a call: no bars in the table, or a source that is not wired.
NoSource(j) ==
    \/ j[1] = "technical" /\ ~HasBars(j[2]) /\ TableOnly
    \/ j[1] \in {"social_macro", "option_chain"} \cap wiring.lacks

\* premarket_batch_unavailable
NoBatch(j) == j[1] = "premarket" /\ ~wiring.batch

Condenses == "condenser" \notin wiring.lacks

\* Mutant: the condenser is not told the company's name.
KeptByTicker(ticker) ==
    told[ticker] = "own" \/ (~Condenses /\ told[ticker] # "nothing")

\* _is_irrelevant_general_news: without its name a company is not recognised.
\* With the condenser off every story is kept.
Kept(ticker) ==
    \/ told[ticker] = "own"
    \/ told[ticker] = "name_only" /\ ticker \in named
    \/ ~Condenses /\ told[ticker] # "nothing"

\* The condenser raises, after the call has returned.
Chokes(stories) == stories = "malformed" /\ Condenses

\* Whether the job ends with a source record.  Premarket prices are none of
\* their own, they go into the technical records; a day of earnings in the
\* calendar makes one of the news of a ticker without a story.
Recorded(j) ==
    CASE j[1] = "premarket" -> {FALSE}
      [] j[1] = "events_news" -> IF Kept(j[2]) THEN {TRUE} ELSE BOOLEAN
      [] OTHER -> {TRUE}

-----------------------------------------------------------------------------
TypeOK ==
    /\ wiring \in [reader: BOOLEAN, batch: BOOLEAN, preOpen: BOOLEAN, lacks: Unwired]
    /\ \A e \in Endpoints : policy[e].requests \in 0 .. MaxRequests
                             /\ policy[e].circuit \in {"closed", "open"}
    /\ retries \in 0 .. NotCalled
    /\ benchmarks \in BOOLEAN
    /\ named \subseteq Range(Tickers) /\ told \in [Range(Tickers) -> Stories]
    /\ made \in [Endpoints -> Nat] /\ reported \in [Endpoints -> Nat]
    /\ broken \subseteq Endpoints
    /\ row \in {"none", "started", "degraded", "succeeded", "failed"}
    /\ job = NoJob => todo = <<>>
    /\ \A r, s \in {records, nothing, errors} : r # s => r \cap s = {}

Init ==
    /\ wiring \in [reader: BOOLEAN, batch: BOOLEAN, preOpen: BOOLEAN, lacks: Unwired]
    /\ stored \in IF wiring.reader THEN SUBSET Range(Tickers) ELSE {{}}
    /\ policy = [e \in Endpoints |-> NewPolicy]
    /\ jobs = <<>> /\ job = NoJob /\ todo = <<>>
    /\ retries = NotCalled
    /\ benchmarks = FALSE
    /\ named = {} /\ told = [t \in Range(Tickers) |-> "nothing"]
    /\ records = {} /\ nothing = {} /\ errors = {}
    /\ made = [e \in Endpoints |-> 0] /\ reported = [e \in Endpoints |-> 0]
    /\ broken = {}
    /\ row = "none"

\* The provisional run row is written first, then the policies are built.
Start ==
    /\ row = "none"
    /\ row' = "started"
    /\ jobs' = Agenda
    /\ UNCHANGED <<wiring, stored, policy, job, todo, retries, benchmarks, named, told,
                   records, nothing, errors, made, reported, broken>>

\* _load_daily_bars.  After a failed read the table still counts as readable.
LoadBars ==
    /\ job = NoJob /\ jobs # <<>> /\ Head(jobs)[1] = "daily_bars"
    /\ jobs' = Tail(jobs)
    /\ \/ /\ nothing' = nothing \cup {Head(jobs)}
          /\ UNCHANGED <<stored, errors>>
       \/ /\ errors' = errors \cup {Head(jobs)}
          /\ stored' = {}
          /\ UNCHANGED nothing
    /\ UNCHANGED <<wiring, policy, job, todo, retries, benchmarks, named, told, records,
                   made, reported, broken, row>>

BeginJob ==
    /\ job = NoJob /\ jobs # <<>> /\ Head(jobs)[1] # "daily_bars"
    /\ jobs' = Tail(jobs)
    /\ LET j == Head(jobs) IN
         \/ /\ NoSource(j)
            /\ nothing' = nothing \cup {j}
            /\ UNCHANGED <<job, todo, errors>>
         \/ /\ NoBatch(j)
            /\ errors' = errors \cup {j}
            /\ UNCHANGED <<job, todo, nothing>>
         \/ /\ ~NoSource(j) /\ ~NoBatch(j)
            /\ job' = j /\ todo' = CallsOf(j)
            /\ UNCHANGED <<errors, nothing>>
    /\ UNCHANGED <<wiring, stored, policy, retries, benchmarks, named, told, records,
                   made, reported, broken, row>>

\* The calls of the job are done: its record is collected.
Collect ==
    /\ job # NoJob /\ todo = <<>>
    /\ \E recorded \in Recorded(job) :
         /\ records' = IF recorded THEN records \cup {job} ELSE records
         /\ nothing' = IF recorded THEN nothing ELSE nothing \cup {job}
    /\ job' = NoJob
    /\ UNCHANGED <<wiring, stored, policy, jobs, todo, retries, benchmarks, named, told,
                   errors, made, reported, broken, row>>

-----------------------------------------------------------------------------
(* A call through its policy.                                              *)

Current == Head(todo)
About == Current.scope[1]
CallPolicy == policy[Current.endpoint]
NextCall == job # NoJob /\ todo # <<>> /\ retries = NotCalled
Calling == todo # <<>> /\ retries # NotCalled

\* The call returned; what the job goes on to do with a value or without one.
Proceed ==
    /\ todo' = Tail(todo)
    /\ benchmarks' = (benchmarks
                        \/ Current = Call("market_bars", "benchmark", Last(Benchmarks)))
    /\ UNCHANGED <<job, errors>>

Abandon == job' = NoJob /\ todo' = <<>> /\ UNCHANGED benchmarks

\* Mutant: the call for intraday bars is not guarded by a try of its own.
RaiseAlways == Abandon /\ errors' = errors \cup {job}

\* The call raised.  The try statement around the job turns it into an error.
Raise ==
    IF About = "intraday" THEN Proceed
    ELSE Abandon /\ errors' = errors \cup {job}

\* What the telemetry row of a call stands for.
Accounted == 1 + retries

CacheHit ==
    /\ NextCall
    /\ Current.scope \in CallPolicy.cache
    /\ Proceed
    /\ UNCHANGED <<wiring, stored, policy, jobs, retries, named, told, records, nothing,
                   made, reported, broken, row>>

\* ProviderCircuitOpen or ProviderRequestBudgetExceeded.  A cached value may
\* have outlived cache_ttl, so a call with one may come here too.
Refuse ==
    /\ NextCall
    /\ Refuses(CallPolicy)
    /\ Raise
    /\ UNCHANGED <<wiring, stored, policy, jobs, retries, named, told, records, nothing,
                   made, reported, broken, row>>

Dial ==
    /\ NextCall
    /\ ~Refuses(CallPolicy)
    /\ retries' = 0
    /\ UNCHANGED <<wiring, stored, policy, jobs, job, todo, benchmarks, named, told,
                   records, nothing, errors, made, reported, broken, row>>

\* The operation returns, with data or with an empty or unusable value.
Return(answer) ==
    /\ Calling
    /\ answer \in MayReturn(About)
    /\ policy' = [policy EXCEPT ![Current.endpoint] = Answered(Attempted(@), Current.scope)]
    /\ made' = [made EXCEPT ![Current.endpoint] = @ + 1]
    /\ reported' = [reported EXCEPT ![Current.endpoint] = @ + Accounted]
    /\ retries' = NotCalled
    /\ named' = IF answer = "named" THEN named \cup {job[2]} ELSE named
    /\ told' = IF About = "news" THEN [told EXCEPT ![job[2]] = answer] ELSE told
    /\ \/ /\ answer # "empty" \/ About \notin Decisive \cup {"batch"}
          /\ ~Chokes(answer)
          /\ Proceed /\ UNCHANGED nothing
       \/ /\ answer = "empty" /\ About \in Decisive
          /\ Abandon /\ nothing' = nothing \cup {job} /\ UNCHANGED errors
       \/ /\ \/ answer = "empty" /\ About = "batch"    \* prices of some tickers are missing
             \/ Chokes(answer)
          /\ Abandon /\ errors' = errors \cup {job} /\ UNCHANGED nothing
    /\ UNCHANGED <<wiring, stored, jobs, records, broken, row>>

\* The operation raises and is tried again.
Retry ==
    /\ Calling
    /\ MayRetry(Attempted(CallPolicy), retries)
    /\ policy' = [policy EXCEPT ![Current.endpoint] = Attempted(@)]
    /\ made' = [made EXCEPT ![Current.endpoint] = @ + 1]
    /\ broken' = broken \cup {Current.endpoint}
    /\ retries' = retries + 1
    /\ UNCHANGED <<wiring, stored, jobs, job, todo, benchmarks, named, told, records,
                   nothing, errors, reported, row>>

\* The operation raises for the last time.
Fail ==
    /\ Calling
    /\ ~MayRetry(Attempted(CallPolicy), retries)
    /\ policy' = [policy EXCEPT ![Current.endpoint] = Failed(Attempted(@))]
    /\ made' = [made EXCEPT ![Current.endpoint] = @ + 1]
    /\ reported' = [reported EXCEPT ![Current.endpoint] = @ + Accounted]
    /\ broken' = broken \cup {Current.endpoint}
    /\ retries' = NotCalled
    /\ Raise
    /\ UNCHANGED <<wiring, stored, jobs, named, told, records, nothing, row>>

-----------------------------------------------------------------------------
\* _ingestion_status
StatusOf(errs, recs) ==
    IF errs = {} THEN "succeeded" ELSE IF recs # {} THEN "degraded" ELSE "failed"

Finish ==
    /\ row = "started" /\ jobs = <<>> /\ job = NoJob
    /\ row' = StatusOf(errors, records)
    /\ UNCHANGED <<wiring, stored, policy, jobs, job, todo, retries, benchmarks, named,
                   told, records, nothing, errors, made, reported, broken>>

Next ==
    \/ Start \/ LoadBars \/ BeginJob \/ Collect \/ Finish
    \/ CacheHit \/ Refuse \/ Dial \/ Retry \/ Fail
    \/ \E answer \in Stories \cup {"named", "data", "empty"} : Return(answer)

Spec == Init /\ [][Next]_vars

-----------------------------------------------------------------------------
Done == row \notin {"none", "started"}

\* The policy of an endpoint counts every operation against the budget, the
\* retries included, so the provider never sees more than max_requests of them.
BudgetIsHard == \A e \in Endpoints : made[e] <= MaxRequests

\* After the circuit of an endpoint has opened the provider is left alone,
\* whatever is still to be done for other tickers.
OpenCircuitIsSilent ==
    [][\A e \in Endpoints : policy[e].circuit = "open" =>
            made'[e] = made[e] /\ policy'[e].circuit = "open"]_vars

\* Telemetry rows account for every operation the provider saw but those of the
\* call under way: each row stands for 1 + retry_count of them.
TelemetryAccounts ==
    \A e \in Endpoints :
        made[e] = reported[e] + IF Calling /\ Current.endpoint = e THEN retries ELSE 0

EndpointsOf(family) ==
    CASE family = "technical" -> {"market_bars", "market_premarket_prices"}
      [] family = "fundamental" -> {"market_context"}
      [] family = "option_chain" -> {"option_chain"}
      [] family = "events_news" -> {"news"}

\* The news of a ticker come to nothing: there was no story, or the condenser
\* saw none that the refresh could know to be the ticker's.
NoNews(t) ==
    \/ told[t] = "nothing"
    \/ Condenses /\ told[t] = "noise"
    \/ Condenses /\ told[t] = "name_only" /\ t \notin named

\* Every family is tried for every ticker, and fails only because of its own
\* endpoints, one of which failed or has spent its budget, or of a story of its
\* own that the condenser raises on.  The trouble of the other families costs
\* a ticker no news but the general stories that name nothing but the company,
\* and those only where the fundamentals have not given the company's name.
FamilyIsolation ==
    Done => \A i \in DOMAIN Tickers, f \in Families \ {"social_macro"} :
              \/ <<f, Tickers[i]>> \in records
              \/ <<f, Tickers[i]>> \in nothing /\ (f = "events_news" => NoNews(Tickers[i]))
              \/ \E e \in EndpointsOf(f) : e \in broken \/ policy[e].requests = MaxRequests
              \/ f = "events_news" /\ Chokes(told[Tickers[i]])

\* With bars in the table and prices in a batch, a ticker has its technical
\* record whatever the provider does: open circuits and spent budgets, of the
\* intraday bars and of the batch, cost details of the record and nothing else.
StoredBarsSuffice ==
    Done /\ (wiring.batch \/ wiring.preOpen \/ "premarket_price" \in wiring.lacks)
        => \A i \in DOMAIN Tickers :
             HasBars(Tickers[i]) /\ "technical" \in Families
                => <<"technical", Tickers[i]>> \in records

-----------------------------------------------------------------------------
=============================================================================
