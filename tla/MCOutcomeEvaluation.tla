------------------------- MODULE MCOutcomeEvaluation -------------------------
\* An instance of OutcomeEvaluation for TLC.
EXTENDS OutcomeEvaluation

Profile(i, e, s) == [identity |-> i, explicit |-> e, supported |-> s]

MCProfiles == {Profile("stock", FALSE, TRUE), Profile("option", TRUE, TRUE), Profile("watch", FALSE, FALSE)}
Symmetry == Permutations(Candidates)
MCPriceSets == {{}, {"own", "SPY"}, {"own", "primary", "QQQ"}}
=============================================================================
