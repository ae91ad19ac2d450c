------------------------ MODULE StrategyLearningProofs ------------------------
(***************************************************************************)
(* For every set of ids, configurations and outcomes: a proposed strategy  *)
(* earns its place on its own outcomes, one step per run, and its recorded *)
(* promotions explain where it stands; and for every answer of a reflection, *)
(* learning never gives back risk budget.                                  *)
(*                                                                         *)
(* A run works on copies and commits them at its end; the argument is what *)
(* the copies keep: they extend the committed definitions, what they add   *)
(* has no outcomes yet, and their promotions explain them.                 *)
(*                                                                         *)
(* The risk multiplier is a fold over the active factors.  All of them     *)
(* tighten, so it is a function of their number, found by induction on it  *)
(* (a least counterexample), and that function falls.                      *)
(***************************************************************************)
EXTENDS StrategyLearning, FiniteSetTheorems, WellFoundedInduction, TLAPS

Stages == {"candidate", "shadow", "experimental", "active"}
DefinitionType == [status : Stages, config : Configs, born : Int]

DayFits == day \in Days

\* What definitions are, committed or not.
Fit(defs) ==
    /\ Seeds \subseteq DOMAIN defs
    /\ \A id \in DOMAIN defs : defs[id] \in DefinitionType /\ defs[id].born <= day
    /\ \A id \in Seeds : defs[id].status = "active"

OutcomesFit ==
    \A r \in outcomes : /\ r.strategy \in DOMAIN definitions
                        /\ r.day \in 1 .. day /\ r.day >= definitions[r.strategy].born

\* The promotions that lead to a stage.
Reached(status) ==
    IF status = "candidate" THEN {}
    ELSE IF status = "shadow" THEN {"shadow"}
    ELSE IF status = "experimental" THEN {"shadow", "experimental"}
    ELSE {"shadow", "experimental", "active"}

StepsOf(id, trans) == {t \in trans : t.strategy = id}
Tos(id, trans) == {t.to : t \in StepsOf(id, trans)}

\* The promotions explain the definitions.
Explain(trans, defs) ==
    /\ \A t \in trans : t.strategy \in DOMAIN defs \ Seeds
    /\ \A s, t \in trans : s.strategy = t.strategy /\ s.to = t.to => s = t
    /\ \A id \in DOMAIN defs \ Seeds : Tos(id, trans) = Reached(defs[id].status)

\* What a run adds, it adds below the stages that trade.
Extends(defs) ==
    /\ DOMAIN definitions \subseteq DOMAIN defs
    /\ \A id \in DOMAIN definitions : defs[id] = definitions[id]
    /\ \A id \in DOMAIN defs \ DOMAIN definitions : defs[id].status \in {"candidate", "shadow"}

RunFits ==
    /\ run = [on |-> run.on, left |-> run.left, evidence |-> run.evidence,
              definitions |-> run.definitions, transitions |-> run.transitions]
    /\ run.on => /\ run.evidence \subseteq outcomes
                 /\ Fit(run.definitions)
                 /\ Extends(run.definitions)
                 /\ Explain(run.transitions, run.definitions)

IInv ==
    /\ DayFits
    /\ Fit(definitions)
    /\ OutcomesFit
    /\ Explain(transitions, definitions)
    /\ EarnedTrading
    /\ RunFits

-----------------------------------------------------------------------------
\* The stages that lead to a stage, by the order of the lifecycle.
LEMMA ReachedStages ==
    ASSUME NEW status \in Stages
    PROVE  Reached(status) = {Lifecycle[i] : i \in {j \in 2 .. 4 :
                                  \E n \in j .. 4 : Lifecycle[n] = status}}
<1>1. /\ Lifecycle[1] = "candidate" /\ Lifecycle[2] = "shadow"
      /\ Lifecycle[3] = "experimental" /\ Lifecycle[4] = "active"
    BY DEF Lifecycle
<1> DEFINE upTo == {j \in 2 .. 4 : \E n \in j .. 4 : Lifecycle[n] = status}
<1>2. CASE status = "candidate"
  <2>1. upTo = {}
      BY <1>1, <1>2
  <2> QED BY <1>2, <2>1 DEF Reached
<1>3. CASE status = "shadow"
  <2>1. upTo = {2}
      BY <1>1, <1>3
  <2> QED BY <1>1, <1>3, <2>1 DEF Reached
<1>4. CASE status = "experimental"
  <2>1. upTo = {2, 3}
      BY <1>1, <1>4
  <2> QED BY <1>1, <1>4, <2>1 DEF Reached
<1>5. CASE status = "active"
  <2>1. upTo = {2, 3, 4}
      BY <1>1, <1>5
  <2> QED BY <1>1, <1>5, <2>1 DEF Reached
<1> QED BY <1>2, <1>3, <1>4, <1>5 DEF Stages

\* Three days stay three days when there are more outcomes.
LEMMA MoreDays ==
    ASSUME DayFits, NEW S, NEW T, S \subseteq T, \A r \in T : r.day \in 1 .. day,
           Cardinality({r.day : r \in S}) >= 3
    PROVE  Cardinality({r.day : r \in T}) >= 3
<1> USE LearningAssumption DEF LearningAssumption
<1>1. IsFiniteSet(1 .. day)
    BY FS_Interval DEF DayFits, Days
<1>2. IsFiniteSet({r.day : r \in T})
  <2>1. {r.day : r \in T} \in SUBSET (1 .. day)
      OBVIOUS
  <2> QED BY <1>1, <2>1, FS_Subset
<1>3. {r.day : r \in S} \subseteq {r.day : r \in T}
    OBVIOUS
<1>4. /\ IsFiniteSet({r.day : r \in S})
      /\ Cardinality({r.day : r \in S}) <= Cardinality({r.day : r \in T})
    BY <1>2, <1>3, FS_Subset
<1>5. Cardinality({r.day : r \in S}) \in Nat /\ Cardinality({r.day : r \in T}) \in Nat
    BY <1>2, <1>4, FS_CardinalityType
<1> QED BY <1>4, <1>5

\* Evidence that passes has final outcomes of three days.
LEMMA PassesDays ==
    ASSUME NEW rows, Passes(Once(rows))
    PROVE  Cardinality({r.day : r \in {x \in rows : x.status = "final"}}) >= 3
<1>1. {r \in DOMAIN Once(rows) : Once(rows)[r] > 0} = rows
    BY DEF Once
<1> QED BY <1>1 DEF Passes

\* What a promotion may do.
LEMMA PromotedSteps ==
    ASSUME NEW id, NEW def \in DefinitionType, NEW evidence
    PROVE  /\ Promoted(id, def, evidence) \in Stages
           /\ \/ Promoted(id, def, evidence) = def.status
              \/ /\ Passes(Once(Relevant(id, evidence)))
                 /\ \/ def.status = "shadow" /\ Promoted(id, def, evidence) = "experimental"
                    \/ def.status = "experimental" /\ Promoted(id, def, evidence) = "active"
  BY DEF Promoted, DefinitionType, Stages

\* A strategy without outcomes is not promoted.
LEMMA NoneWithoutOutcomes ==
    ASSUME NEW id, NEW def, NEW evidence, \A r \in evidence : r.strategy # id
    PROVE  Promoted(id, def, evidence) = def.status
<1>1. Relevant(id, evidence) = {}
    BY DEF Relevant
<1>2. ~Passes(Once({}))
  <2>1. SUFFICES ASSUME Passes(Once({})) PROVE FALSE
      OBVIOUS
  <2>2. Cardinality({r.day : r \in {x \in {} : x.status = "final"}}) >= 3
      BY <2>1, PassesDays
  <2>3. {r.day : r \in {x \in {} : x.status = "final"}} = {}
      OBVIOUS
  <2> QED BY <2>2, <2>3, FS_EmptySet
<1> QED BY <1>1, <1>2 DEF Promoted

-----------------------------------------------------------------------------
\* The catalog's strategies are active, those under test are shadows.
LEMMA InitInv == Init => IInv
<1> USE LearningAssumption DEF LearningAssumption
<1> SUFFICES ASSUME Init PROVE IInv
    OBVIOUS
<1>1. DayFits /\ day = 1
    BY DEF Init, DayFits, Days
<1>2. /\ DOMAIN definitions = Seeds \cup Shadows
      /\ \A id \in Seeds :
           definitions[id] = [status |-> "active", config |-> ConfigOf[id], born |-> 0]
      /\ \A id \in Shadows :
           definitions[id] = [status |-> "shadow", config |-> ConfigOf[id], born |-> 0]
    BY DEF Init, Definition
<1>3. Fit(definitions)
  <2>1. \A id \in Seeds \cup Shadows : ConfigOf[id] \in Configs
      OBVIOUS
  <2> QED BY <1>1, <1>2, <2>1 DEF Fit, DefinitionType, Stages
<1>4. OutcomesFit
    BY DEF Init, OutcomesFit
<1>5. transitions = {[strategy |-> id, to |-> "shadow", day |-> 0] : id \in Shadows}
    BY DEF Init
<1>6. ASSUME NEW id \in Shadows PROVE Tos(id, transitions) = {"shadow"}
  <2>1. StepsOf(id, transitions) = {[strategy |-> id, to |-> "shadow", day |-> 0]}
      BY <1>5 DEF StepsOf
  <2> QED BY <2>1 DEF Tos
<1>7. Explain(transitions, definitions)
  <2>1. /\ \A t \in transitions : t.strategy \in Shadows
        /\ \A s, t \in transitions : s.strategy = t.strategy /\ s.to = t.to => s = t
      BY <1>5
  <2>2. DOMAIN definitions \ Seeds = Shadows
      BY <1>2
  <2>3. \A id \in Shadows : Tos(id, transitions) = Reached(definitions[id].status)
      BY <1>2, <1>6 DEF Reached
  <2> QED BY <2>1, <2>2, <2>3 DEF Explain
<1>8. EarnedTrading
    BY <1>2 DEF EarnedTrading, Learned, MayTrade
<1>9. RunFits
    BY DEF Init, NoRun, RunFits
<1> QED BY <1>1, <1>3, <1>4, <1>7, <1>8, <1>9 DEF IInv

\* A step that touches neither the definitions nor their evidence.
LEMMA QuietStep ==
    ASSUME IInv, UNCHANGED <<day, outcomes, definitions, transitions, run>> PROVE IInv'
  BY DEF IInv, DayFits, Fit, OutcomesFit, Explain, Tos, StepsOf, EarnedTrading, Learned,
         MayTrade, RunFits, Extends

\* A run that ends without a commit.
LEMMA NoRunInv ==
    ASSUME IInv, run' = NoRun, UNCHANGED <<day, outcomes, definitions, transitions>> PROVE IInv'
<1>1. RunFits'
    BY DEF NoRun, RunFits
<1> QED BY <1>1 DEF IInv, DayFits, Fit, OutcomesFit, Explain, Tos, StepsOf, EarnedTrading,
           Learned, MayTrade

\* The next day.
LEMMA NextDayInv == ASSUME IInv, NextDay PROVE IInv'
<1> USE LearningAssumption DEF LearningAssumption
<1>1. /\ day \in Days /\ day' = day + 1 /\ day' \in Days /\ ~run.on
      /\ UNCHANGED <<outcomes, definitions, transitions, run>>
    BY DEF IInv, NextDay, DayFits, Days
<1>2. Fit(definitions)'
    BY <1>1 DEF IInv, Fit, DefinitionType, Days
<1>3. OutcomesFit'
    BY <1>1 DEF IInv, OutcomesFit, Days
<1> QED BY <1>1, <1>2, <1>3 DEF IInv, DayFits, Explain, Tos, StepsOf, EarnedTrading, Learned,
           MayTrade, RunFits

\* A new outcome is one of a definition that exists, and of today.
LEMMA OutcomeInv == ASSUME IInv, NEW id, NEW k, Outcome(id, k) PROVE IInv'
<1> USE LearningAssumption DEF LearningAssumption
<1> DEFINE r == [strategy |-> id, day |-> day, ticker |-> k.ticker, status |-> k.status,
                 valued |-> k.valued, alpha |-> k.alpha, filled |-> k.filled]
<1>1. /\ outcomes' = outcomes \cup {r} /\ r.strategy = id /\ r.day = day
      /\ id \in DOMAIN definitions /\ ~run.on
      /\ UNCHANGED <<day, definitions, transitions, run>>
    BY DEF Outcome
<1> HIDE DEF r
<1>2. day \in Int /\ day >= 1
    BY DEF IInv, DayFits, Days
<1>3. OutcomesFit'
    BY <1>1, <1>2 DEF IInv, OutcomesFit, Fit, DefinitionType
<1>4. EarnedTrading'
  <2> SUFFICES ASSUME NEW s \in Learned', MayTrade(s)'
               PROVE  Cardinality({x.day : x \in {x \in outcomes : x.strategy = s
                                       /\ x.day >= definitions[s].born}})' >= 3
      BY DEF EarnedTrading
  <2> DEFINE Old == {x \in outcomes : x.strategy = s /\ x.day >= definitions[s].born}
             New == {x \in outcomes' : x.strategy = s /\ x.day >= definitions[s].born}
  <2>1. Cardinality({x.day : x \in Old}) >= 3
      BY <1>1 DEF IInv, EarnedTrading, Learned, MayTrade
  <2>2. Old \subseteq New /\ \A x \in New : x.day \in 1 .. day
      BY <1>1, <1>2 DEF IInv, OutcomesFit
  <2> HIDE DEF Old
  <2>3. Cardinality({x.day : x \in New}) >= 3
      BY <2>1, <2>2, MoreDays DEF IInv
  <2> QED BY <1>1, <2>3
<1>5. RunFits'
    BY <1>1 DEF IInv, RunFits
<1> QED BY <1>1, <1>3, <1>4, <1>5 DEF IInv, DayFits, Fit, Explain, Tos, StepsOf

\* A run starts from what is committed.
LEMMA BeginInv == ASSUME IInv, Begin PROVE IInv'
<1>1. PICK n : run' = [on |-> TRUE, left |-> n, evidence |-> {r \in outcomes : r.day + Window >= day},
                       definitions |-> definitions, transitions |-> transitions]
    BY DEF Begin
<1>2. UNCHANGED <<day, outcomes, definitions, transitions>>
    BY DEF Begin
<1>3. RunFits'
    BY <1>1, <1>2 DEF IInv, RunFits, Fit, Extends, Explain, Tos, StepsOf
<1> QED BY <1>2, <1>3 DEF IInv, DayFits, Fit, OutcomesFit, Explain, Tos, StepsOf,
           EarnedTrading, Learned, MayTrade

\* A proposal that is not taken.
LEMMA NextProposalInv == ASSUME IInv, NextProposal PROVE IInv'
<1>1. /\ run' = [run EXCEPT !.left = run.left - 1]
      /\ UNCHANGED <<day, outcomes, definitions, transitions>>
    BY DEF NextProposal
<1>2. RunFits'
  <2> DEFINE after == [run EXCEPT !.left = run.left - 1]
  <2>1. after = [on |-> run.on, left |-> run.left - 1, evidence |-> run.evidence,
                 definitions |-> run.definitions, transitions |-> run.transitions]
      BY DEF IInv, RunFits
  <2>2. /\ run'.on = run.on /\ run'.evidence = run.evidence
        /\ run'.definitions = run.definitions /\ run'.transitions = run.transitions
        /\ run' = [on |-> run'.on, left |-> run'.left, evidence |-> run'.evidence,
                   definitions |-> run'.definitions, transitions |-> run'.transitions]
      BY <1>1, <2>1
  <2> QED BY <1>1, <2>2 DEF IInv, RunFits, Fit, Extends, Explain, Tos, StepsOf
<1> QED BY <1>1, <1>2 DEF IInv, DayFits, Fit, OutcomesFit, Explain, Tos, StepsOf,
           EarnedTrading, Learned, MayTrade

\* The promotion of a new definition.
MoreOf(id, def) == IF def.status = "shadow" THEN {Moved(id, "shadow")} ELSE {}

\* A new definition, and the promotion that explains it, if any.
LEMMA ExplainMore ==
    ASSUME NEW trans, NEW defs, Explain(trans, defs), Seeds \subseteq DOMAIN defs,
           NEW id, id \notin DOMAIN defs, NEW def, def.status \in {"candidate", "shadow"}
    PROVE  Explain(trans \cup MoreOf(id, def), With(defs, id, def))
<1> DEFINE after == With(defs, id, def)
           more == MoreOf(id, def)
           all == trans \cup more
<1>1. /\ DOMAIN after = DOMAIN defs \cup {id} /\ after[id] = def
      /\ \A x \in DOMAIN defs : after[x] = defs[x]
    BY DEF With
<1>2. \A t \in more : t.strategy = id /\ t.to = "shadow" /\ t = Moved(id, "shadow")
    BY DEF Moved, MoreOf
<1>3. \A t \in trans : t.strategy \in DOMAIN defs \ Seeds
    BY DEF Explain
<1>4. \A t \in all : t.strategy \in DOMAIN after \ Seeds
    BY <1>1, <1>2, <1>3
<1>5. \A s, t \in all : s.strategy = t.strategy /\ s.to = t.to => s = t
    BY <1>2, <1>3 DEF Explain
<1>6. ASSUME NEW x \in DOMAIN defs \ Seeds PROVE Tos(x, all) = Reached(after[x].status)
  <2>1. StepsOf(x, all) = StepsOf(x, trans)
      BY <1>2 DEF StepsOf
  <2> QED BY <1>1, <2>1 DEF Tos, Explain
<1>7. Tos(id, all) = Reached(after[id].status)
  <2>1. StepsOf(id, all) = more
      BY <1>2, <1>3 DEF StepsOf
  <2>2. CASE def.status = "shadow"
    <3>1. {t.to : t \in {Moved(id, "shadow")}} = {"shadow"}
        BY DEF Moved
    <3> QED BY <1>1, <2>1, <2>2, <3>1 DEF Tos, Reached, MoreOf
  <2>3. CASE def.status = "candidate"
      BY <1>1, <2>1, <2>3 DEF Tos, Reached, MoreOf
  <2> QED BY <2>2, <2>3
<1> QED BY <1>1, <1>4, <1>5, <1>6, <1>7 DEF Explain

\* A proposal that is taken.
LEMMA AcceptInv ==
    ASSUME IInv, NEW id \in Ids, NEW c \in Configs, run.on, id \notin DOMAIN run.definitions,
           run' = Accepted(id, c), UNCHANGED <<day, outcomes, definitions, transitions>>
    PROVE  IInv'
<1> USE LearningAssumption DEF LearningAssumption
<1> DEFINE def == Definition(IF Scannable(c) THEN "shadow" ELSE "candidate", c, day)
           more == MoreOf(id, def)
<1>1. /\ def \in DefinitionType /\ def.status \in {"candidate", "shadow"} /\ def.born <= day
      /\ def.status = IF Scannable(c) THEN "shadow" ELSE "candidate"
    BY DEF Definition, DefinitionType, Stages, IInv, DayFits, Days
<1>2. run' = [on |-> run.on, left |-> run.left - 1, evidence |-> run.evidence,
              definitions |-> With(run.definitions, id, def),
              transitions |-> run.transitions \cup more]
  <2>1. more = IF Scannable(c) THEN {Moved(id, "shadow")} ELSE {}
      BY <1>1 DEF MoreOf
  <2> QED BY <2>1 DEF Accepted, IInv, RunFits
<1> HIDE DEF def
<1>3. /\ Fit(run.definitions) /\ Extends(run.definitions) /\ run.evidence \subseteq outcomes
      /\ Explain(run.transitions, run.definitions)
    BY DEF IInv, RunFits
<1> DEFINE after == With(run.definitions, id, def)
<1>4. /\ DOMAIN after = DOMAIN run.definitions \cup {id} /\ after[id] = def
      /\ \A x \in DOMAIN run.definitions : after[x] = run.definitions[x]
    BY DEF With
<1>5. Explain(run.transitions \cup more, after)
    BY <1>1, <1>3, ExplainMore DEF Fit
<1> HIDE DEF after, more
<1>6. Fit(after)
    BY <1>1, <1>3, <1>4 DEF Fit
<1>7. Extends(after)
    BY <1>1, <1>3, <1>4 DEF Extends
<1>8. /\ run'.on = run.on /\ run'.evidence = run.evidence
      /\ run'.definitions = after /\ run'.transitions = run.transitions \cup more
      /\ run' = [on |-> run'.on, left |-> run'.left, evidence |-> run'.evidence,
                 definitions |-> run'.definitions, transitions |-> run'.transitions]
    BY <1>2 DEF after
<1>9. RunFits'
  <2>1. Fit(run.definitions)'
      BY <1>6, <1>8 DEF Fit
  <2>2. Extends(run.definitions)'
      BY <1>7, <1>8 DEF Extends
  <2>3. Explain(run.transitions, run.definitions)'
      BY <1>5, <1>8 DEF Explain, Tos, StepsOf
  <2> QED BY <1>3, <1>8, <2>1, <2>2, <2>3 DEF RunFits
<1> QED BY <1>9 DEF IInv, DayFits, Fit, OutcomesFit, Explain, Tos, StepsOf,
           EarnedTrading, Learned, MayTrade

-----------------------------------------------------------------------------
(* The commit.                                                             *)

NewStatus(id) == Promoted(id, run.definitions[id], run.evidence)
Moving == {id \in DOMAIN run.definitions : NewStatus(id) # run.definitions[id].status}

\* What a promotion leaves and what it adds.
LEMMA Committed ==
    ASSUME IInv, Promote
    PROVE  /\ run.on /\ run' = NoRun /\ UNCHANGED <<day, outcomes>>
           /\ DOMAIN definitions' = DOMAIN run.definitions
           /\ \A id \in DOMAIN run.definitions :
                /\ definitions'[id] \in DefinitionType
                /\ definitions'[id].status = NewStatus(id)
                /\ definitions'[id].config = run.definitions[id].config
                /\ definitions'[id].born = run.definitions[id].born
           /\ transitions' = run.transitions \cup {Moved(id, NewStatus(id)) : id \in Moving}
<1>1. /\ run.on /\ run' = NoRun /\ UNCHANGED <<day, outcomes>>
      /\ definitions' = [id \in DOMAIN run.definitions |->
             [run.definitions[id] EXCEPT !.status = NewStatus(id)]]
    BY DEF Promote, NewStatus
<1>2. \A id \in DOMAIN run.definitions :
         run.definitions[id] \in DefinitionType /\ NewStatus(id) \in Stages
    BY <1>1, PromotedSteps DEF IInv, RunFits, Fit, NewStatus
<1>3. ASSUME NEW def \in DefinitionType, NEW status \in Stages
      PROVE  /\ [def EXCEPT !.status = status] \in DefinitionType
             /\ [def EXCEPT !.status = status].status = status
             /\ [def EXCEPT !.status = status].config = def.config
             /\ [def EXCEPT !.status = status].born = def.born
    BY DEF DefinitionType
<1>4. \A id \in DOMAIN run.definitions :
                /\ definitions'[id] \in DefinitionType
                /\ definitions'[id].status = NewStatus(id)
                /\ definitions'[id].config = run.definitions[id].config
                /\ definitions'[id].born = run.definitions[id].born
    BY <1>1, <1>2, <1>3
<1>5. transitions' = run.transitions \cup {Moved(id, definitions'[id].status) : id \in
               {x \in DOMAIN run.definitions : definitions'[x].status # run.definitions[x].status}}
    BY DEF Promote
<1>6. {x \in DOMAIN run.definitions : definitions'[x].status # run.definitions[x].status} = Moving
    BY <1>4 DEF Moving
<1>7. \A id \in Moving : definitions'[id].status = NewStatus(id)
    BY <1>4 DEF Moving
<1>8. transitions' = run.transitions \cup {Moved(id, NewStatus(id)) : id \in Moving}
    BY <1>5, <1>6, <1>7
<1> QED BY <1>1, <1>4, <1>8

\* A definition is promoted by one step, on outcomes of its own, and only if
\* it was there before the run.
LEMMA MovingOnes ==
    ASSUME IInv, run.on, NEW id \in Moving
    PROVE  /\ id \in DOMAIN definitions /\ id \notin Seeds
           /\ run.definitions[id] = definitions[id]
           /\ \/ definitions[id].status = "shadow" /\ NewStatus(id) = "experimental"
              \/ definitions[id].status = "experimental" /\ NewStatus(id) = "active"
           /\ Passes(Once(Relevant(id, run.evidence)))
<1>1. /\ Fit(run.definitions) /\ Extends(run.definitions) /\ run.evidence \subseteq outcomes
      /\ OutcomesFit
    BY DEF IInv, RunFits
<1>2. id \in DOMAIN run.definitions /\ NewStatus(id) # run.definitions[id].status
    BY DEF Moving
<1>3. id \in DOMAIN definitions
  <2>1. SUFFICES ASSUME id \notin DOMAIN definitions PROVE FALSE
      OBVIOUS
  <2>2. \A r \in run.evidence : r.strategy # id
      BY <1>1, <2>1 DEF OutcomesFit
  <2> QED BY <1>2, <2>2, NoneWithoutOutcomes DEF NewStatus
<1>4. run.definitions[id] = definitions[id] /\ run.definitions[id] \in DefinitionType
    BY <1>1, <1>2, <1>3 DEF Fit, Extends
<1>5. /\ Passes(Once(Relevant(id, run.evidence)))
      /\ \/ run.definitions[id].status = "shadow" /\ NewStatus(id) = "experimental"
         \/ run.definitions[id].status = "experimental" /\ NewStatus(id) = "active"
    BY <1>2, <1>4, PromotedSteps DEF NewStatus
<1>6. id \notin Seeds
    BY <1>1, <1>5 DEF Fit
<1> QED BY <1>3, <1>4, <1>5, <1>6

\* After a commit, the promotions explain the definitions.
LEMMA PromoteExplains == ASSUME IInv, Promote PROVE Explain(transitions, definitions)'
<1>1. /\ run.on /\ Fit(run.definitions) /\ Explain(run.transitions, run.definitions)
    BY Committed DEF IInv, RunFits
<1>2. /\ DOMAIN definitions' = DOMAIN run.definitions
      /\ \A id \in DOMAIN run.definitions : definitions'[id].status = NewStatus(id)
      /\ transitions' = run.transitions \cup {Moved(id, NewStatus(id)) : id \in Moving}
    BY Committed
<1>3. \A id \in Moving : /\ id \in DOMAIN run.definitions \ Seeds
                          /\ \/ run.definitions[id].status = "shadow"
                                /\ NewStatus(id) = "experimental"
                             \/ run.definitions[id].status = "experimental"
                                /\ NewStatus(id) = "active"
    BY <1>1, MovingOnes DEF Moving
<1> DEFINE step(id) == Moved(id, NewStatus(id))
<1>4. \A id \in Moving : step(id).strategy = id /\ step(id).to = NewStatus(id)
    BY DEF Moved
<1>5. \A t \in transitions' : t \in run.transitions \/ \E id \in Moving : t = step(id)
    BY <1>2
<1>6. \A id \in Moving : step(id) \in transitions' /\ run.transitions \subseteq transitions'
    BY <1>2
<1> HIDE DEF step
<1>7. \A t \in transitions' : t.strategy \in DOMAIN definitions' \ Seeds
    BY <1>1, <1>2, <1>3, <1>4, <1>5 DEF Explain
<1>8. \A id \in Moving : NewStatus(id) \notin Tos(id, run.transitions)
    BY <1>1, <1>3 DEF Explain, Reached
<1>9. \A id \in Moving, t \in run.transitions : t.strategy = id => t.to # NewStatus(id)
    BY <1>8 DEF Tos, StepsOf
<1>10. \A s, t \in transitions' : s.strategy = t.strategy /\ s.to = t.to => s = t
    BY <1>1, <1>4, <1>5, <1>9 DEF Explain
<1>11. ASSUME NEW id \in DOMAIN run.definitions \ Seeds
       PROVE  Tos(id, transitions') = Reached(NewStatus(id))
  <2>1. CASE id \notin Moving
    <3>1. StepsOf(id, transitions') = StepsOf(id, run.transitions)
        BY <1>4, <1>5, <1>2, <2>1 DEF StepsOf
    <3>2. NewStatus(id) = run.definitions[id].status
        BY <2>1 DEF Moving
    <3> QED BY <1>1, <3>1, <3>2 DEF Explain, Tos
  <2>2. CASE id \in Moving
    <3>1. StepsOf(id, transitions') = StepsOf(id, run.transitions) \cup {step(id)}
        BY <1>4, <1>5, <1>6, <2>2 DEF StepsOf
    <3>2. Tos(id, transitions') = Tos(id, run.transitions) \cup {NewStatus(id)}
        BY <1>4, <2>2, <3>1 DEF Tos
    <3>3. Tos(id, run.transitions) = Reached(run.definitions[id].status)
        BY <1>1 DEF Explain
    <3> QED BY <1>3, <2>2, <3>2, <3>3 DEF Reached
  <2> QED BY <2>1, <2>2
<1> QED BY <1>2, <1>7, <1>10, <1>11 DEF Explain, Tos, StepsOf

\* After a commit, those who may trade have earned it.
LEMMA PromoteEarned == ASSUME IInv, Promote PROVE EarnedTrading'
<1> SUFFICES ASSUME NEW s \in Learned', MayTrade(s)'
             PROVE  Cardinality({r.day : r \in {x \in outcomes : x.strategy = s
                                     /\ x.day >= definitions[s].born}})' >= 3
    BY DEF EarnedTrading
<1> DEFINE Own == {x \in outcomes : x.strategy = s /\ x.day >= definitions[s].born}
<1>1. /\ run.on /\ outcomes' = outcomes /\ s \in DOMAIN run.definitions \ Seeds
      /\ NewStatus(s) \in {"experimental", "active"}
      /\ definitions'[s].born = run.definitions[s].born
    BY Committed DEF Learned, MayTrade
<1>2. Extends(run.definitions) /\ run.evidence \subseteq outcomes /\ OutcomesFit /\ DayFits
    BY <1>1 DEF IInv, RunFits
<1>3. s \in DOMAIN definitions /\ run.definitions[s] = definitions[s]
    BY <1>1, <1>2, MovingOnes DEF Extends, Moving
<1>4. Cardinality({r.day : r \in Own}) >= 3
  <2>1. CASE s \notin Moving
    <3>1. MayTrade(s)
        BY <1>1, <1>3, <2>1 DEF Moving, MayTrade
    <3> QED BY <1>1, <1>3, <3>1 DEF IInv, EarnedTrading, Learned
  <2>2. CASE s \in Moving
    <3> DEFINE passed == {x \in Relevant(s, run.evidence) : x.status = "final"}
    <3>1. Cardinality({r.day : r \in passed}) >= 3
        BY <1>1, <2>2, MovingOnes, PassesDays
    <3>2. passed \subseteq Own /\ \A r \in Own : r.day \in 1 .. day
        BY <1>2 DEF Relevant, OutcomesFit
    <3> HIDE DEF passed, Own
    <3> QED BY <1>2, <3>1, <3>2, MoreDays
  <2> QED BY <2>1, <2>2
<1> QED BY <1>1, <1>3, <1>4

\* A commit.
LEMMA PromoteInv == ASSUME IInv, Promote PROVE IInv'
<1>1. /\ run.on /\ run' = NoRun /\ UNCHANGED <<day, outcomes>>
      /\ Fit(run.definitions) /\ Extends(run.definitions)
    BY Committed DEF IInv, RunFits
<1>2. \A id \in Seeds : definitions'[id].status = "active"
  <2> SUFFICES ASSUME NEW id \in Seeds PROVE definitions'[id].status = "active"
      OBVIOUS
  <2>1. id \in DOMAIN run.definitions /\ id \notin Moving
      BY <1>1, MovingOnes DEF Fit
  <2> QED BY <1>1, <2>1, Committed DEF Fit, Moving
<1>3. Fit(definitions)'
    BY <1>1, <1>2, Committed DEF Fit
<1>4. OutcomesFit'
    BY <1>1, Committed DEF IInv, OutcomesFit, Extends
<1>5. RunFits'
    BY <1>1 DEF NoRun, RunFits
<1> QED BY <1>1, <1>3, <1>4, <1>5, PromoteExplains, PromoteEarned DEF IInv, DayFits

-----------------------------------------------------------------------------
\* Every step keeps the invariant.
LEMMA NextInv == IInv /\ [Next]_vars => IInv'
<1> SUFFICES ASSUME IInv, [Next]_vars PROVE IInv'
    OBVIOUS
<1>1. CASE NextDay
    BY <1>1, NextDayInv
<1>2. ASSUME NEW id, NEW k, Outcome(id, k) PROVE IInv'
    BY <1>2, OutcomeInv
<1>3. ASSUME NEW status, NEW kinds, Reflect(status, kinds) PROVE IInv'
    BY <1>3, QuietStep DEF Reflect
<1>4. CASE Begin
    BY <1>4, BeginInv
<1>5. CASE Reject
    BY <1>5, NextProposalInv DEF Reject
<1>6. CASE Propose
  <2>1. PICK id \in Ids, c \in Configs :
          IF Duplicate(c, run.definitions) THEN NextProposal
          ELSE IF id \in DOMAIN run.definitions THEN RolledBack
          ELSE /\ run' = Accepted(id, c)
               /\ UNCHANGED <<day, outcomes, definitions, transitions, reflections, factors>>
      BY <1>6 DEF Propose
  <2>2. run.on
      BY <1>6 DEF Propose
  <2>3. CASE NextProposal
      BY <2>3, NextProposalInv
  <2>4. CASE RolledBack
      BY <2>4, NoRunInv DEF RolledBack
  <2>5. CASE /\ id \notin DOMAIN run.definitions
             /\ run' = Accepted(id, c)
             /\ UNCHANGED <<day, outcomes, definitions, transitions>>
      BY <2>2, <2>5, AcceptInv
  <2> QED BY <2>1, <2>3, <2>4, <2>5
<1>7. CASE Promote
    BY <1>7, PromoteInv
<1>8. CASE Fail
    BY <1>8, NoRunInv DEF Fail, RolledBack
<1>9. CASE UNCHANGED vars
    BY <1>9, QuietStep DEF vars
<1> QED BY <1>1, <1>2, <1>3, <1>4, <1>5, <1>6, <1>7, <1>8, <1>9 DEF Next

\* The invariant holds throughout.
LEMMA InvHolds == Spec => []IInv
  BY InitInv, NextInv, PTL DEF Spec

\* A proposed strategy that may trade has had outcomes of its own on three
\* days since it was made.
THEOREM EarnedTradingHolds == Spec => []EarnedTrading
<1>1. IInv => EarnedTrading
    BY DEF IInv
<1> QED BY InvHolds, <1>1, PTL

\* The moves of one step, for one definition.
OneStep(id) ==
    /\ id \in DOMAIN definitions'
    /\ IF id \in DOMAIN definitions
       THEN /\ definitions'[id].config = definitions[id].config
            /\ \/ definitions'[id].status = definitions[id].status
               \/ <<definitions[id].status, definitions'[id].status>> \in
                      {Successor[i] : i \in 2 .. 3}
       ELSE definitions'[id].status \in {"candidate", "shadow"}

\* A commit moves each definition by a step at most.
LEMMA PromoteOneStep ==
    ASSUME IInv, Promote, NEW id \in DOMAIN definitions \cup DOMAIN definitions'
    PROVE  OneStep(id)
<1>1. run.on /\ Extends(run.definitions)
    BY Committed DEF IInv, RunFits
<1>2. id \in DOMAIN run.definitions /\ id \in DOMAIN definitions'
    BY <1>1, Committed DEF Extends
<1>3. /\ definitions'[id].status = NewStatus(id)
      /\ definitions'[id].config = run.definitions[id].config
    BY <1>2, Committed
<1>4. CASE id \notin Moving
    BY <1>1, <1>2, <1>3, <1>4 DEF OneStep, Extends, Moving
<1>5. CASE id \in Moving
  <2>1. Successor[2] = <<"shadow", "experimental">> /\ Successor[3] = <<"experimental", "active">>
      BY DEF Successor, Lifecycle
  <2>2. <<definitions[id].status, NewStatus(id)>> \in {Successor[2], Successor[3]}
      BY <1>1, <1>5, <2>1, MovingOnes
  <2>3. {Successor[2], Successor[3]} \subseteq {Successor[i] : i \in 2 .. 3}
      OBVIOUS
  <2> QED BY <1>1, <1>2, <1>3, <1>5, <2>2, <2>3, MovingOnes DEF OneStep
<1> QED BY <1>4, <1>5

\* No run moves a strategy by more than one step, makes one that trades at
\* once, or changes or loses one.
THEOREM OneStepHolds == Spec => OneStepPerRun
<1>1. ASSUME IInv, [Next]_vars
      PROVE  [\A id \in DOMAIN definitions \cup DOMAIN definitions' : OneStep(id)]_vars
  <2>1. CASE Promote
      BY <1>1, <2>1, PromoteOneStep
  <2>2. CASE definitions' = definitions
      BY <2>2 DEF OneStep
  <2> QED BY <1>1, <2>1, <2>2 DEF Next, NextDay, Outcome, Reflect, Begin, Reject, NextProposal,
             Propose, RolledBack, Fail, vars
<1>2. [\A id \in DOMAIN definitions \cup DOMAIN definitions' : OneStep(id)]_vars
      <=> [\A id \in DOMAIN definitions \cup DOMAIN definitions' :
             /\ id \in DOMAIN definitions'
             /\ IF id \in DOMAIN definitions
                THEN /\ definitions'[id].config = definitions[id].config
                     /\ \/ definitions'[id].status = definitions[id].status
                        \/ <<definitions[id].status, definitions'[id].status>> \in
                               {Successor[i] : i \in 2 .. 3}
                ELSE definitions'[id].status \in {"candidate", "shadow"}]_vars
    BY DEF OneStep
<1> QED BY InvHolds, <1>1, <1>2, PTL DEF Spec, OneStepPerRun

\* Promotions of one strategy to different stages are as many as the stages.
LEMMA AsManySteps ==
    ASSUME NEW S, \A s, t \in S : s.to = t.to => s = t,
           {t.to : t \in S} \subseteq {"shadow", "experimental", "active"}
    PROVE  Cardinality({t.to : t \in S}) = Cardinality(S)
<1> DEFINE tos == {t.to : t \in S}
           f == [x \in tos |-> CHOOSE t \in S : t.to = x]
<1>1. IsFiniteSet(tos)
  <2>1. {"shadow", "experimental", "active"} = {"shadow"} \cup {"experimental"} \cup {"active"}
      OBVIOUS
  <2>2. IsFiniteSet({"shadow", "experimental", "active"})
    <3>1. IsFiniteSet({"shadow"}) /\ IsFiniteSet({"experimental"}) /\ IsFiniteSet({"active"})
        BY FS_Singleton
    <3>2. IsFiniteSet({"shadow"} \cup {"experimental"})
        BY <3>1, FS_Union
    <3>3. IsFiniteSet({"shadow"} \cup {"experimental"} \cup {"active"})
        BY <3>1, <3>2, FS_Union
    <3> QED BY <2>1, <3>3
  <2>3. tos \in SUBSET {"shadow", "experimental", "active"}
      OBVIOUS
  <2> HIDE DEF tos
  <2> QED BY <2>2, <2>3, FS_Subset
<1>2. \A x \in tos : f[x] \in S /\ f[x].to = x
    OBVIOUS
<1>3. \A t \in S : t.to \in tos /\ f[t.to] = t
  <2> SUFFICES ASSUME NEW t \in S PROVE t.to \in tos /\ f[t.to] = t
      OBVIOUS
  <2>1. t.to \in tos
      OBVIOUS
  <2> QED BY <1>2, <2>1
<1> HIDE DEF tos
<1>4. f \in [tos -> S]
    BY <1>2
<1> HIDE DEF f
<1>5. f \in Bijection(tos, S)
    BY <1>2, <1>3, <1>4 DEF Bijection, Injection, Surjection, IsInjective
<1>6. ExistsBijection(tos, S)
    BY <1>5 DEF ExistsBijection
<1> QED BY <1>1, <1>6, FS_Bijection DEF tos

\* The recorded promotions tell where each proposed strategy stands.
THEOREM AuditHolds == Spec => []AuditExplainsStatus
<1>1. ASSUME IInv PROVE AuditExplainsStatus
  <2>1. Explain(transitions, definitions) /\ Fit(definitions)
      BY <1>1 DEF IInv
  <2>2. ASSUME NEW id \in Learned PROVE Explained(id)
    <3> DEFINE steps == StepsOf(id, transitions)
    <3>1. definitions[id].status \in Stages /\ Tos(id, transitions) = Reached(definitions[id].status)
        BY <2>1 DEF Learned, Fit, DefinitionType, Explain
    <3>2. {t.to : t \in steps} = Reached(definitions[id].status)
        BY <3>1 DEF Tos
    <3>3. {t.to : t \in steps} \subseteq {"shadow", "experimental", "active"}
        BY <3>2 DEF Reached
    <3>4. \A s, t \in steps : s.to = t.to => s = t
        BY <2>1 DEF Explain, StepsOf
    <3> HIDE DEF steps
    <3>5. Cardinality({t.to : t \in steps}) = Cardinality(steps)
        BY <3>3, <3>4, AsManySteps
    <3>6. {t.to : t \in steps} = {Lifecycle[i] : i \in {j \in 2 .. 4 :
                                   \E n \in j .. 4 : Lifecycle[n] = definitions[id].status}}
        BY <3>1, <3>2, ReachedStages
    <3> QED BY <3>5, <3>6 DEF Explained, steps, StepsOf
  <2>3. {t.strategy : t \in transitions} \subseteq Learned
      BY <2>1 DEF Explain, Learned
  <2> QED BY <2>2, <2>3 DEF AuditExplainsStatus
<1> QED BY InvHolds, <1>1, PTL

-----------------------------------------------------------------------------
(* Learning factors.  The risk multiplier folds over the relevant factors; *)
(* each of them tightens, so it depends on their number only, and what     *)
(* depends on more factors is less.                                        *)

TypedFactors == DOMAIN factors \subseteq Days \X (1 .. MaxFactors)

\* What is active has tightening effects and no other.
ActiveTighten ==
    \A f \in ActiveFactors : /\ factors[f].tags # {}
                             /\ factors[f].tags \subseteq Tightening
                             /\ factors[f].tags \cap Expansionary = {}

FactorsFit == TypedFactors /\ ActiveTighten

Relevants == {f \in ActiveFactors : factors[f].scope \in {"risk", "portfolio"}}

\* The effect of one tightening factor.
Less(x) == (((x * 85) \div 100) * 100) \div 100

\* h applies it again and again.
Lessens(h, n) ==
    /\ h \in [0 .. n -> Nat] /\ h[0] = 100
    /\ \A m \in 1 .. n : h[m] = Less(h[m - 1])

\* A nonempty set of naturals has a least element.
LEMMA Least ==
    ASSUME NEW T \in SUBSET Nat, T # {}
    PROVE  \E m \in T : \A n \in T : m <= n
<1>1. PICK m \in T : \A n \in T : ~(<<n, m>> \in OpToRel(<, Nat))
    BY NatLessThanWellFounded, WFMin, Zenon
<1>2. \A n \in T : ~(n < m)
    BY <1>1 DEF OpToRel
<1>3. \A n \in T : m <= n
    BY <1>2
<1> QED BY <1>3

\* A factor takes something off, and leaves no less than nothing.
LEMMA LessIsLess == \A x \in Nat : Less(x) \in Nat /\ Less(x) <= x
  BY DEF Less

\* For every number of factors there is such a table.
LEMMA LessensExists == \A n \in Nat : \E h : Lessens(h, n)
<1> DEFINE T == {n \in Nat : ~\E h : Lessens(h, n)}
<1>1. SUFFICES ASSUME T # {} PROVE FALSE
    OBVIOUS
<1>2. PICK n \in T : \A m \in T : n <= m
  <2>1. T \subseteq Nat
      OBVIOUS
  <2> HIDE DEF T
  <2> QED BY <1>1, <2>1, Least
<1>3. n # 0
  <2>1. Lessens([m \in 0 .. 0 |-> 100], 0)
      BY DEF Lessens
  <2> QED BY <1>2, <2>1
<1>4. PICK h : Lessens(h, n - 1)
  <2>1. n - 1 \in Nat /\ ~(n <= n - 1)
      BY <1>2, <1>3
  <2> QED BY <1>2, <2>1
<1> DEFINE g == [m \in 0 .. n |-> IF m < n THEN h[m] ELSE Less(h[n - 1])]
<1>5. n \in Nat /\ n - 1 \in 0 .. n - 1 /\ h \in [0 .. n - 1 -> Nat] /\ h[0] = 100
      /\ \A m \in 1 .. n - 1 : h[m] = Less(h[m - 1])
    BY <1>2, <1>3, <1>4 DEF Lessens
<1>6. Less(h[n - 1]) \in Nat
    BY <1>5, LessIsLess
<1>7. g \in [0 .. n -> Nat] /\ g[0] = 100
    BY <1>3, <1>5, <1>6
<1>8. ASSUME NEW m \in 1 .. n PROVE g[m] = Less(g[m - 1])
  <2>1. m - 1 \in 0 .. n /\ m - 1 < n /\ m \in 0 .. n /\ (m < n => m \in 1 .. n - 1) /\ m <= n
      BY <1>5
  <2>2. g[m - 1] = h[m - 1]
      BY <2>1
  <2>3. CASE m < n
      BY <1>5, <2>1, <2>2, <2>3
  <2>4. CASE m = n
      BY <2>1, <2>2, <2>4
  <2> QED BY <2>1, <2>3, <2>4
<1>9. Lessens(g, n)
    BY <1>7, <1>8 DEF Lessens
<1> QED BY <1>2, <1>9

\* More factors, less left.
LEMMA LessensFalls ==
    ASSUME NEW n \in Nat, NEW h, Lessens(h, n), NEW m \in 0 .. n
    PROVE  \A k \in m .. n : h[k] <= h[m]
<1> DEFINE T == {k \in m .. n : ~(h[k] <= h[m])}
<1>1. SUFFICES ASSUME T # {} PROVE FALSE
    OBVIOUS
<1>2. PICK k \in T : \A j \in T : k <= j
  <2>1. T \subseteq Nat
      OBVIOUS
  <2> HIDE DEF T
  <2> QED BY <1>1, <2>1, Least
<1>3. k \in m .. n /\ h[m] \in Nat /\ h[k] \in Nat /\ ~(h[k] <= h[m])
    BY <1>2 DEF Lessens
<1>4. k # m
    BY <1>3
<1>5. k - 1 \in m .. n /\ ~(k <= k - 1) /\ k \in 1 .. n
    BY <1>3, <1>4
<1>6. h[k - 1] <= h[m] /\ h[k - 1] \in Nat
    BY <1>2, <1>5 DEF Lessens
<1>7. h[k] = Less(h[k - 1])
    BY <1>5 DEF Lessens
<1>8. h[k] <= h[k - 1]
    BY <1>6, <1>7, LessIsLess
<1> QED BY <1>3, <1>6, <1>8

\* The effect of a factor, and what folding it over S computes.
Effect(f, x) ==
    (((x * (IF factors[f].tags \cap Tightening # {} THEN 85 ELSE 100)) \div 100)
      * (IF "increase_risk_budget" \in factors[f].tags THEN 110 ELSE 100)) \div 100

First(s) == CHOOSE x \in s : TRUE

Folding(iter, S) ==
    iter = [s \in SUBSET S |-> IF s = {} THEN 100
                               ELSE Effect(First(s), iter[s \ {First(s)}])]

LEMMA RiskUnfolded ==
    RiskMultiplier = Clamp((CHOOSE iter : Folding(iter, Relevants))[Relevants], 50, 125)
  BY DEF RiskMultiplier, FoldSet, MapThenFoldSet, Folding, Effect, First, Relevants

\* A tightening factor has one effect.
LEMMA EffectIsLess ==
    ASSUME ActiveTighten, NEW f \in Relevants, NEW x
    PROVE  Effect(f, x) = Less(x)
<1>1. factors[f].tags # {} /\ factors[f].tags \subseteq Tightening
      /\ factors[f].tags \cap Expansionary = {}
    BY DEF ActiveTighten, Relevants
<1>2. factors[f].tags \cap Tightening # {} /\ "increase_risk_budget" \notin factors[f].tags
    BY <1>1 DEF Expansionary
<1> QED BY <1>2 DEF Effect, Less

\* The fold over tightening factors depends on how many there are.
LEMMA RiskByNumber ==
    ASSUME ActiveTighten, IsFiniteSet(Relevants),
           NEW n \in Nat, NEW h, Lessens(h, n), Cardinality(Relevants) <= n
    PROVE  RiskMultiplier = Clamp(h[Cardinality(Relevants)], 50, 125)
<1> DEFINE S == Relevants
           g == [s \in SUBSET S |-> h[Cardinality(s)]]
<1>1. ASSUME NEW s \in SUBSET S, s # {}
      PROVE  /\ First(s) \in S /\ s \ {First(s)} \in SUBSET S
             /\ Cardinality(s) \in 1 .. n
             /\ Cardinality(s \ {First(s)}) = Cardinality(s) - 1
             /\ h[Cardinality(s)] = Less(h[Cardinality(s) - 1])
  <2>1. First(s) \in s
      BY <1>1 DEF First
  <2>2. IsFiniteSet(s) /\ Cardinality(s) <= Cardinality(S)
      BY FS_Subset
  <2>3. Cardinality(s) \in Nat /\ Cardinality(S) \in Nat /\ Cardinality(s) # 0
      BY <2>2, <1>1, FS_CardinalityType, FS_EmptySet
  <2>4. Cardinality(s \ {First(s)}) = Cardinality(s) - 1
      BY <2>1, <2>2, FS_RemoveElement
  <2>5. Cardinality(s) \in 1 .. n
      BY <2>2, <2>3
  <2> QED BY <2>1, <2>4, <2>5 DEF Lessens
<1>2. Folding(g, S)
  <2>1. ASSUME NEW s \in SUBSET S
        PROVE  h[Cardinality(s)] = IF s = {} THEN 100
                                   ELSE Effect(First(s), g[s \ {First(s)}])
    <3>1. CASE s = {}
        BY <3>1, FS_EmptySet DEF Lessens
    <3>2. CASE s # {}
      <4>1. g[s \ {First(s)}] = h[Cardinality(s) - 1]
          BY <1>1, <3>2
      <4> QED BY <1>1, <3>2, <4>1, EffectIsLess
    <3> QED BY <3>1, <3>2
  <2> QED BY <2>1 DEF Folding
<1> DEFINE F == CHOOSE iter : Folding(iter, S)
<1>3. Folding(F, S)
    BY <1>2
<1> DEFINE T == {Cardinality(s) : s \in {x \in SUBSET S : F[x] # h[Cardinality(x)]}}
<1>4. T = {}
  <2> HIDE DEF F
  <2>1. SUFFICES ASSUME T # {} PROVE FALSE
      OBVIOUS
  <2>2. T \subseteq Nat
      BY FS_Subset, FS_CardinalityType
  <2>3. PICK m \in T : \A k \in T : m <= k
    <3> HIDE DEF T
    <3> QED BY <2>1, <2>2, Least
  <2>4. PICK s \in SUBSET S : F[s] # h[Cardinality(s)] /\ m = Cardinality(s)
      BY <2>3
  <2>5. F[s] = IF s = {} THEN 100 ELSE Effect(First(s), F[s \ {First(s)}])
      BY <1>3 DEF Folding
  <2>6. CASE s = {}
      BY <2>4, <2>5, <2>6, FS_EmptySet DEF Lessens
  <2>7. CASE s # {}
    <3> DEFINE r == s \ {First(s)}
    <3>1. r \in SUBSET S /\ Cardinality(r) = m - 1 /\ m \in 1 .. n /\ h[m] = Less(h[m - 1])
          /\ First(s) \in S
        BY <1>1, <2>4, <2>7
    <3>2. F[r] = h[Cardinality(r)]
      <4>1. Cardinality(r) \notin T
          BY <2>3, <3>1
      <4> QED BY <3>1, <4>1
    <3>3. F[s] = Less(h[m - 1])
        BY <2>5, <2>7, <3>1, <3>2, EffectIsLess
    <3> QED BY <2>4, <3>1, <3>3
  <2> QED BY <2>6, <2>7
<1>5. F[S] = h[Cardinality(S)]
    BY <1>4
<1> QED BY <1>5, RiskUnfolded

\* There are finitely many factors; the multiplier depends on how many of the
\* active ones are relevant.
ByNumber ==
    /\ IsFiniteSet(Relevants)
    /\ \A n \in Nat : \A h : Lessens(h, n) /\ Cardinality(Relevants) <= n
           => RiskMultiplier = Clamp(h[Cardinality(Relevants)], 50, 125)

LEMMA FitByNumber == FactorsFit => ByNumber
<1>1. SUFFICES ASSUME FactorsFit PROVE ByNumber
    OBVIOUS
<1>2. IsFiniteSet(Days \X (1 .. MaxFactors))
  <2>1. IsFiniteSet(1 .. LastDay) /\ IsFiniteSet(1 .. MaxFactors)
      BY FS_Interval, LearningAssumption
  <2> QED BY <2>1, FS_Product DEF Days
<1>3. Relevants \subseteq Days \X (1 .. MaxFactors)
    BY <1>1 DEF FactorsFit, TypedFactors, Relevants, ActiveFactors
<1>4. IsFiniteSet(Relevants)
    BY <1>2, <1>3, FS_Subset
<1> QED BY <1>1, <1>4, RiskByNumber DEF ByNumber, FactorsFit

\* Only a reflection adds factors, and only tightening ones are active.
LEMMA FactorsStayFit ==
    ASSUME DayFits, FactorsFit, [Next]_vars
    PROVE  /\ FactorsFit'
           /\ DOMAIN factors \subseteq DOMAIN factors'
           /\ \A f \in DOMAIN factors : factors'[f] = factors[f]
<1>1. CASE UNCHANGED factors
    BY <1>1 DEF FactorsFit, TypedFactors, ActiveTighten, ActiveFactors
<1>2. ASSUME NEW status, NEW kinds, Reflect(status, kinds), Len(kinds) \in 0 .. MaxFactors
      PROVE  /\ FactorsFit'
             /\ DOMAIN factors \subseteq DOMAIN factors'
             /\ \A f \in DOMAIN factors : factors'[f] = factors[f]
  <2> DEFINE keys == NewKeys(Len(kinds))
             kind(k) == kinds[1 + (k[2] - Min({x[2] : x \in keys}))]
             answer == reflections[day].rewritten + 1
  <2>1. factors' = [k \in DOMAIN factors \cup keys |->
                IF k \in DOMAIN factors THEN factors[k]
                ELSE [status |-> FactorStatus(kind(k)), scope |-> kind(k).scope,
                      tags |-> kind(k).tags, answer |-> answer]]
      BY <1>2 DEF Reflect
  <2>2. keys \subseteq Days \X (1 .. MaxFactors)
      BY <1>2, LearningAssumption DEF NewKeys, DayFits
  <2>3. \A k \in keys : k \notin DOMAIN factors
      BY DEF NewKeys
  <2> HIDE DEF keys, kind, answer
  <2>4. DOMAIN factors' = DOMAIN factors \cup keys
      BY <2>1
  <2>5. \A f \in DOMAIN factors : factors'[f] = factors[f]
      BY <2>1
  <2>6. TypedFactors'
      BY <2>2, <2>4 DEF FactorsFit, TypedFactors, Days
  <2>7. ASSUME NEW f \in ActiveFactors'
        PROVE  /\ factors'[f].tags # {} /\ factors'[f].tags \subseteq Tightening
               /\ factors'[f].tags \cap Expansionary = {}
    <3>1. CASE f \in DOMAIN factors
        BY <2>5, <2>7, <3>1 DEF ActiveFactors, FactorsFit, ActiveTighten
    <3>2. CASE f \notin DOMAIN factors
      <4>1. factors'[f].status = FactorStatus(kind(f)) /\ factors'[f].tags = kind(f).tags
            /\ factors'[f].status = "active"
          BY <2>1, <2>7, <3>2 DEF ActiveFactors
      <4> QED BY <4>1 DEF FactorStatus
    <3> QED BY <3>1, <3>2
  <2>8. ActiveTighten'
      BY <2>7 DEF ActiveTighten
  <2> QED BY <2>4, <2>5, <2>6, <2>8 DEF FactorsFit
<1>3. CASE Next /\ ~UNCHANGED factors
  <2>1. CASE Reflect("fallback", <<>>)
    <3>1. Len(<<>>) \in 0 .. MaxFactors
        BY LearningAssumption
    <3> QED BY <1>2, <2>1, <3>1
  <2>2. CASE \E kinds \in KindSeqs : Reflect("succeeded", kinds)
    <3>1. PICK kinds \in KindSeqs : Reflect("succeeded", kinds)
        BY <2>2
    <3>2. Len(kinds) \in 0 .. MaxFactors
      <4>1. PICK n \in 0 .. MaxFactors : kinds \in [1 .. n -> FactorKinds]
          BY <3>1 DEF KindSeqs
      <4> QED BY <4>1
    <3> QED BY <1>2, <3>1, <3>2
  <2> QED BY <1>3, <2>1, <2>2
        DEF Next, NextDay, Outcome, Begin, Reject, NextProposal, Propose, RolledBack,
            Promote, Fail
<1> QED BY <1>1, <1>3 DEF vars

\* Whatever the reflections answer, learning never gives back risk budget.
THEOREM LearningOnlyTightensHolds == Spec => LearningOnlyTightens
<1>1. Init => FactorsFit
    BY DEF Init, FactorsFit, TypedFactors, ActiveTighten, ActiveFactors
<1>2. DayFits /\ FactorsFit /\ [Next]_vars => FactorsFit'
    BY FactorsStayFit
<1>3. FactorsFit /\ FactorsFit' => ByNumber /\ ByNumber'
    BY FitByNumber, PTL
<1>4. DayFits /\ FactorsFit /\ [Next]_vars => RiskMultiplier' <= RiskMultiplier
  <2>1. SUFFICES ASSUME DayFits, FactorsFit, [Next]_vars
                 PROVE  RiskMultiplier' <= RiskMultiplier
      OBVIOUS
  <2>2. FactorsFit' /\ ByNumber /\ ByNumber'
      BY <1>2, <1>3, <2>1
  <2>3. Relevants \subseteq Relevants'
      BY <2>1, FactorsStayFit DEF Relevants, ActiveFactors
  <2> DEFINE m == Cardinality(Relevants)
             n == Cardinality(Relevants')
  <2>4. m \in Nat /\ n \in Nat /\ m <= n
      BY <2>2, <2>3, FS_Subset, FS_CardinalityType DEF ByNumber
  <2>5. PICK h : Lessens(h, n)
      BY <2>4, LessensExists
  <2>6. RiskMultiplier = Clamp(h[m], 50, 125) /\ RiskMultiplier' = Clamp(h[n], 50, 125)
    <3>1. RiskMultiplier = Clamp(h[m], 50, 125)
        BY <2>2, <2>4, <2>5 DEF ByNumber
    <3>2. RiskMultiplier' = Clamp(h[n], 50, 125)
        BY <2>2, <2>4, <2>5 DEF ByNumber
    <3> QED BY <3>1, <3>2
  <2>7. h[m] \in Nat /\ h[n] \in Nat /\ h[n] <= h[m]
    <3> HIDE DEF m, n
    <3>1. m \in 0 .. n /\ n \in m .. n /\ n \in 0 .. n
        BY <2>4
    <3>2. h[n] <= h[m]
        BY <2>4, <2>5, <3>1, LessensFalls
    <3> QED BY <2>5, <3>1, <3>2 DEF Lessens
  <2> QED BY <2>6, <2>7 DEF Clamp
<1>5. IInv => DayFits
    BY DEF IInv
<1> QED BY <1>1, <1>2, <1>4, <1>5, InvHolds, PTL DEF Spec, LearningOnlyTightens
=============================================================================
