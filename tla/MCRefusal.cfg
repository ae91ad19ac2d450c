\* An option that is refused, and the expression that should follow it.
CONSTANTS
    Tickers = {"A", "B"}
    Tech = {"A"}
    Profiles <- MCProfiles
    Answers <- MCAnswers
    Regimes = {"balanced", "stale", "risk_off", "unavailable"}
SPECIFICATION Spec
CHECK_DEADLOCK FALSE
INVARIANT RefusalIsRetried
