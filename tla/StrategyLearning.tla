-------------------------- MODULE StrategyLearning --------------------------
(***************************************************************************)
(* What the post-close phases learn: learning factors from the daily       *)
(* reflection (phases/reflection, learning/apply.py) and the lifecycle of  *)
(* strategy definitions (phases/strategy_evolution), each run one          *)
(* transaction over mixins/reflection.py and mixins/strategy.py.           *)
(*                                                                         *)
(* Language models answer in the schema but otherwise as they like: which  *)
(* ids they use and which outcomes they cite is arbitrary.  An outcome is  *)
(* recorded on the day of its decision; its maturing is the subject of     *)
(* OutcomeEvaluation.  alpha is in hundredths.                             *)
(***************************************************************************)
EXTENDS Integers, Sequences, FiniteSets, FiniteSetsExt

CONSTANTS
    Ids,                \* strategy ids
    Seeds, Shadows,     \* ids of the catalog, and of strategies under test at the start
    Configs,            \* horizon, required and risk: what duplicates agree on
    ConfigOf,           \* of the seeds and shadows
    Computable,         \* signals the scan computes
    OutcomeKinds,       \* ticker, status, alpha, valued (an alpha is known), filled
    FactorKinds,        \* scope, policy and tags of a factor
    Window,             \* days the evidence reaches back (60)
    LastDay, MaxOutcomes, MaxReflections, MaxProposals, MaxFactors   \* bounds

ASSUME LearningAssumption ==
    /\ Seeds \subseteq Ids /\ Shadows \subseteq Ids /\ Seeds \cap Shadows = {}
    /\ ConfigOf \in [Seeds \cup Shadows -> Configs]
    /\ Window \in Nat /\ LastDay \in Nat \ {0}
    /\ {MaxOutcomes, MaxReflections, MaxProposals, MaxFactors} \subseteq Nat

Days == 1 .. LastDay

VARIABLES
    day,
    outcomes,       \* candidate_outcome_evaluations
    definitions,    \* strategy_definitions, by id
    transitions,    \* strategy_evaluation_results: promotions
    reflections,    \* daily_reflections: by day, their status and how often rewritten
    factors,        \* learning_factors, by key
    run             \* the strategy evolution under way

vars == <<day, outcomes, definitions, transitions, reflections, factors, run>>

Lifecycle == <<"candidate", "shadow", "experimental", "active">>
Successor == [i \in 1 .. 3 |-> <<Lifecycle[i], Lifecycle[i + 1]>>]

NoRun == [on |-> FALSE, left |-> 0, evidence |-> {}, definitions |-> <<>>, transitions |-> {}]

-----------------------------------------------------------------------------
(* Learning factors.                                                       *)

Tightening == {"reduce_exposure", "require_confirmation", "block_stale_data",
               "lower_confidence", "tighten_exit_rules"}
Expansionary == {"increase_score", "expand_eligibility", "increase_size",
                 "weaken_safety_rails", "broaden_universe", "increase_risk_budget"}

\* Mutant: the policy decides, whatever the effects are.
StatusByPolicy(k) == IF k.policy = "auto_risk_tightening" THEN "active" ELSE k.policy

\* derive_learning_factor_status
FactorStatus(k) ==
    IF k.policy \in {"observation", "shadow"} THEN k.policy
    ELSE IF /\ k.tags \cap Expansionary = {}
            /\ k.policy = "auto_risk_tightening"
            /\ k.tags # {} /\ k.tags \subseteq Tightening
         THEN "active" ELSE "candidate"

Clamp(x, low, high) == IF x < low THEN low ELSE IF x > high THEN high ELSE x

\* load_active_learning_factors: of any day, they never expire.
ActiveFactors == {f \in DOMAIN factors : factors[f].status = "active"}

\* build_learning_adjustments, in percent rounded down.
RiskMultiplier ==
    LET relevant == {f \in ActiveFactors : factors[f].scope \in {"risk", "portfolio"}}
        tighten(f) == IF factors[f].tags \cap Tightening # {} THEN 85 ELSE 100
        loosen(f) == IF "increase_risk_budget" \in factors[f].tags THEN 110 ELSE 100
    IN Clamp(FoldSet(LAMBDA f, x : (((x * tighten(f)) \div 100) * loosen(f)) \div 100,
                     100, relevant), 50, 125)

-----------------------------------------------------------------------------
(* Evidence.                                                               *)

Sum(f, S) == MapThenSumSet(LAMBDA x : f[x], S)

\* evaluate_proposal_evidence for rows cited so many times each: three final
\* outcomes, of three dates and two tickers, three with an alpha, of which 60 %
\* are positive, and a positive mean.
Passes(times) ==
    LET cited == {r \in DOMAIN times : times[r] > 0}
        final == {r \in cited : r.status = "final"}
        valued == {r \in final : r.valued}
        count(S) == Sum(times, S)
    IN /\ count(final) >= 3
       /\ Cardinality({r.day : r \in final}) >= 3
       /\ Cardinality({r.ticker : r \in final}) >= 2
       /\ count(valued) >= 3
       /\ 5 * count({r \in valued : r.alpha > 0}) >= 3 * count(valued)
       /\ Sum([r \in valued |-> times[r] * r.alpha], valued) > 0

Once(rows) == [r \in rows |-> 1]
MeanAbove1(rows) ==
    LET valued == {r \in rows : r.valued}
    IN Sum([r \in valued |-> r.alpha], valued) > Cardinality(valued)

\* Mutant: the evidence of every strategy counts.
RelevantOfAll(id, evidence) == {r \in evidence : r.status = "final"}

\* The final outcomes of this strategy.
Relevant(id, evidence) == {r \in evidence : r.strategy = id /\ r.status = "final"}

\* Mutant: a shadow strategy may skip the experimental stage.
PromotedThrough(id, definition, evidence) ==
    LET rows == Relevant(id, evidence) IN
      IF definition.status \notin {"shadow", "experimental"} \/ ~Passes(Once(rows))
      THEN definition.status
      ELSE IF MeanAbove1(rows) THEN "active" ELSE "experimental"

\* maybe_promote_strategy_from_outcomes: the next status, or the same.
Promoted(id, definition, evidence) ==
    LET rows == Relevant(id, evidence) IN
      IF ~Passes(Once(rows)) THEN definition.status
      ELSE IF definition.status = "shadow" THEN "experimental"
      ELSE IF definition.status = "experimental" /\ MeanAbove1(rows) THEN "active"
      ELSE definition.status

\* _jaccard(a, b) >= p / q
Overlap(a, b, p, q) == q * Cardinality(a \cap b) >= p * Cardinality(a \cup b)

\* find_duplicate_strategy
Duplicate(c, existing) ==
    \E id \in DOMAIN existing :
        LET e == existing[id].config IN
          /\ c.horizon = e.horizon
          /\ Overlap(c.required, e.required, 3, 4)
          /\ Overlap(c.risk, e.risk, 1, 2) \/ Overlap(c.thesis, e.thesis, 1, 2)

\* required_signals_are_computable
Scannable(c) == c.required # {} /\ c.required \subseteq Computable

-----------------------------------------------------------------------------
TypeOK ==
    /\ day \in Days
    /\ \A r \in outcomes : r.strategy \in DOMAIN definitions /\ r.day \in 1 .. day
    /\ DOMAIN definitions \subseteq Ids
    /\ \A id \in DOMAIN definitions : definitions[id].config \in Configs
                                      /\ definitions[id].born \in 0 .. day
    /\ \A f \in DOMAIN factors : f[1] \in 1 .. day /\ reflections[f[1]].rewritten > 0
    /\ run.evidence \subseteq outcomes

Definition(status, config, born) == [status |-> status, config |-> config, born |-> born]

Init ==
    /\ day = 1
    /\ outcomes = {}
    /\ definitions = [id \in Seeds \cup Shadows |->
           Definition(IF id \in Seeds THEN "active" ELSE "shadow", ConfigOf[id], 0)]
    /\ transitions = {[strategy |-> id, to |-> "shadow", day |-> 0] : id \in Shadows}
    /\ reflections = [d \in Days |-> [status |-> "none", rewritten |-> 0]]
    /\ factors = <<>>
    /\ run = NoRun

\* A candidate of a strategy that is scanned is scored and gets an outcome;
\* only active and experimental strategies may give it fills.
Outcome(id, k) ==
    /\ ~run.on
    /\ Cardinality(outcomes) < MaxOutcomes
    /\ id \in DOMAIN definitions
    /\ definitions[id].status \in {"active", "experimental", "shadow"}
    /\ k.filled => definitions[id].status \in {"active", "experimental"}
    /\ ~\E r \in outcomes : r.strategy = id /\ r.day = day
    /\ outcomes' = outcomes \cup {[strategy |-> id, day |-> day, ticker |-> k.ticker,
           status |-> k.status, valued |-> k.valued, alpha |-> k.alpha, filled |-> k.filled]}
    /\ UNCHANGED <<day, definitions, transitions, reflections, factors, run>>

NextDay ==
    /\ day < LastDay /\ ~run.on
    /\ day' = day + 1
    /\ UNCHANGED <<outcomes, definitions, transitions, reflections, factors, run>>

\* The n-th factor of a day has the key <<day, n>>, which is unique: a second
\* answer with factors on the same day raises and is rolled back.
NewKeys(n) == {k \in {<<day, i>> : i \in 1 .. n} : k \notin DOMAIN factors}

\* A reflection of the day: an answer with factors, or, after the repair also
\* failed, the fallback.  It overwrites the row of an earlier one of the day.
Reflect(status, kinds) ==
    /\ ~run.on
    /\ Sum([d \in Days |-> reflections[d].rewritten], Days) < MaxReflections
    /\ LET n == Len(kinds)
           keys == NewKeys(n)
           answer == reflections[day].rewritten + 1
       IN /\ Cardinality(keys) = n
          /\ reflections' = [reflections EXCEPT ![day] = [status |-> status, rewritten |-> answer]]
          /\ factors' = [k \in DOMAIN factors \cup keys |->
                LET kind == kinds[1 + (k[2] - Min({x[2] : x \in keys}))] IN
                  IF k \in DOMAIN factors THEN factors[k]
                  ELSE [status |-> FactorStatus(kind), scope |-> kind.scope,
                        tags |-> kind.tags, answer |-> answer]]
    /\ UNCHANGED <<day, outcomes, definitions, transitions, run>>

-----------------------------------------------------------------------------
\* Strategy evolution: skipped without a reflection of the day (a fallback is
\* one).  The evidence is loaded now, and the model answers.
Begin ==
    /\ ~run.on
    /\ reflections[day].status # "none"
    /\ \E n \in 0 .. MaxProposals :
         run' = [on |-> TRUE, left |-> n,
                 evidence |-> {r \in outcomes : r.day + Window >= day},
                 definitions |-> definitions, transitions |-> transitions]
    /\ UNCHANGED <<day, outcomes, definitions, transitions, reflections, factors>>

\* Mutant: what the run saved before it failed is kept.
SavedSoFar ==
    /\ run' = NoRun /\ definitions' = run.definitions
    /\ UNCHANGED <<day, outcomes, transitions, reflections, factors>>

\* The session of the run rolls everything back.
RolledBack ==
    /\ run' = NoRun
    /\ UNCHANGED <<day, outcomes, definitions, transitions, reflections, factors>>

Moved(id, to) == [strategy |-> id, to |-> to, day |-> day]

With(f, id, definition) ==
    [x \in DOMAIN f \cup {id} |-> IF x # id THEN f[x] ELSE definition]

Accepted(id, c) ==
    LET status == IF Scannable(c) THEN "shadow" ELSE "candidate" IN
      [run EXCEPT !.left = @ - 1,
                  !.definitions = With(@, id, Definition(status, c, day)),
                  !.transitions = @ \cup (IF status = "shadow" THEN {Moved(id, status)} ELSE {})]

NextProposal ==
    /\ run' = [run EXCEPT !.left = @ - 1]
    /\ UNCHANGED <<day, outcomes, definitions, transitions, reflections, factors>>

\* What a proposal may cite: an outcome also more than once.
Citations == [run.evidence -> 0 .. 2]

Supportable == \E times \in Citations : Passes(times)

\* A proposal that cites nothing, or what does not exist or does not pass.
Reject == run.on /\ run.left > 0 /\ NextProposal

\* One that passes the gate, in order.  Its id may be that of an existing
\* strategy: if it is no duplicate, its row violates the unique key and the
\* whole run is undone.
Propose ==
  /\ run.on /\ run.left > 0
  /\ Supportable
  /\ \E id \in Ids, c \in Configs :
       IF Duplicate(c, run.definitions) THEN NextProposal
       ELSE IF id \in DOMAIN run.definitions THEN RolledBack
       ELSE /\ run' = Accepted(id, c)
            /\ UNCHANGED <<day, outcomes, definitions, transitions, reflections, factors>>

\* After the proposals, each definition, the new ones included, is promoted at
\* most once; the run commits.
Promote ==
    /\ run.on /\ run.left = 0
    /\ definitions' = [id \in DOMAIN run.definitions |->
           [run.definitions[id] EXCEPT !.status =
               Promoted(id, run.definitions[id], run.evidence)]]
    /\ transitions' = run.transitions \cup
           {Moved(id, definitions'[id].status) : id \in
               {x \in DOMAIN run.definitions : definitions'[x].status # run.definitions[x].status}}
    /\ run' = NoRun
    /\ UNCHANGED <<day, outcomes, reflections, factors>>

\* A call or the database fails.
Fail == run.on /\ RolledBack

KindSeqs == UNION {[1 .. n -> FactorKinds] : n \in 0 .. MaxFactors}

Next ==
    \/ NextDay
    \/ \E id \in Ids, k \in OutcomeKinds : Outcome(id, k)
    \/ \E kinds \in KindSeqs : Reflect("succeeded", kinds)
    \/ Reflect("fallback", <<>>)
    \/ Begin
    \/ Reject
    \/ Propose
    \/ Promote
    \/ Fail

Spec == Init /\ [][Next]_vars

-----------------------------------------------------------------------------
Learned == DOMAIN definitions \ Seeds
MayTrade(id) == definitions[id].status \in {"experimental", "active"}

\* A strategy that a model proposed may trade only when its own candidates had
\* outcomes on three days since it was made, whoever's outcomes were cited for
\* it, whatever ids the answers reused, and however often the phase ran on the
\* evening that made it.
EarnedTrading ==
    \A id \in Learned : MayTrade(id) =>
        Cardinality({r.day : r \in {x \in outcomes : x.strategy = id
                                        /\ x.day >= definitions[id].born}}) >= 3

\* A run moves a definition by at most one step of the lifecycle, one it makes
\* begins before any step that trades, and no definition is lost or replaced.
OneStepPerRun ==
    [][\A id \in DOMAIN definitions \cup DOMAIN definitions' :
         /\ id \in DOMAIN definitions'
         /\ IF id \in DOMAIN definitions
            THEN /\ definitions'[id].config = definitions[id].config
                 /\ \/ definitions'[id].status = definitions[id].status
                    \/ <<definitions[id].status, definitions'[id].status>> \in
                           {Successor[i] : i \in 2 .. 3}
            ELSE definitions'[id].status \in {"candidate", "shadow"}]_vars

\* The recorded promotions explain the status of each learned strategy, also
\* after runs that were rolled back in the middle.
Explained(id) ==
    LET steps == {t \in transitions : t.strategy = id} IN
      /\ Cardinality({t.to : t \in steps}) = Cardinality(steps)
      /\ {t.to : t \in steps} =
            {Lifecycle[i] : i \in {j \in 2 .. 4 :
                \E n \in j .. 4 : Lifecycle[n] = definitions[id].status}}
AuditExplainsStatus ==
    /\ \A id \in Learned : Explained(id)
    /\ {t.strategy : t \in transitions} \subseteq Learned

\* Whatever the reflections answer, and however often a day is reflected on,
\* learning never gives back risk budget: no factor expires, is overwritten or
\* becomes active with an effect that loosens.
LearningOnlyTightens == [][RiskMultiplier' <= RiskMultiplier]_vars

\* A learned strategy becomes active only on outcomes of trades that were
\* filled.
ActiveNeedsPaperFills ==
    \A id \in Learned : definitions[id].status = "active" =>
        \E r \in outcomes : r.strategy = id /\ r.filled
=============================================================================
