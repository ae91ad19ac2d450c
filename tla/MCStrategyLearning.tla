------------------------- MODULE MCStrategyLearning -------------------------
\* An instance of StrategyLearning for TLC.
EXTENDS StrategyLearning

Config(h, required, risk, thesis) ==
    [horizon |-> h, required |-> required, risk |-> risk, thesis |-> thesis]

Momentum == Config("5d", {"rs", "trend"}, {"beta"}, {"strong"})
Reversal == Config("5d", {"rs", "trend"}, {"gap"}, {"weak"})
Fresh    == Config("20d", {"rs"}, {"beta"}, {"strong"})
Exotic   == Config("5d", {"flow"}, {"beta"}, {"strong"})

MCConfigs == {Momentum, Reversal, Fresh, Exotic}
MCConfigOf == [id \in Seeds \cup Shadows |-> IF id \in Seeds THEN Momentum ELSE Reversal]

Kind(t, s, v, a, f) == [ticker |-> t, status |-> s, valued |-> v, alpha |-> a, filled |-> f]
MCOutcomeKinds == {Kind("A", "final", TRUE, 1, FALSE), Kind("B", "final", TRUE, 2, FALSE),
                   Kind("B", "final", TRUE, -2, TRUE), Kind("A", "interim", TRUE, 3, FALSE)}
FactorKind(s, p, t) == [scope |-> s, policy |-> p, tags |-> t]
MCFactorKinds == {FactorKind("risk", "auto_risk_tightening", {"reduce_exposure"}),
                  FactorKind("risk", "auto_risk_tightening", {"increase_risk_budget"})}
=============================================================================
