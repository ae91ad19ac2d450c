\* Two tickers, six kinds of candidates, every regime, day after day.
CONSTANTS
    Tickers = {"A", "B"}
    Tech = {"A"}
    Profiles <- MCProfiles
    Answers <- MCAnswers
    Regimes = {"balanced", "stale", "risk_off", "unavailable"}
SPECIFICATION Spec
INVARIANTS
    HardRejectMakesNoOrder
    NoOpeningIntoEvent
    OneOverlayPerUnderlier
