-------------------------- MODULE MCManualRequests --------------------------
\* An instance of ManualRequests for TLC.
EXTENDS ManualRequests, TLC

MCLifecycle == [t \in Tickers |-> IF t = "A" THEN "active" ELSE "shadow"]
MCSymmetry == Permutations(Operators)
=============================================================================
