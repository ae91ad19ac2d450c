CONSTANTS
    c1 = c1
    c2 = c2
    t1 = t1
    Candidates = {c1, c2}
    Tickers = {t1}
    LastDay = 4
    Holidays = {3}
    InterimOffset = 1
    FinalOffset = 2
    Lookback = 5
    Lags = {0, 1}
    Profiles <- MCProfiles
    PriceSets <- MCPriceSets
SPECIFICATION Spec
INVARIANTS
    OneOutcomePerCheckpoint
    ReportIsHonest
    NothingForgotten
SYMMETRY Symmetry
CHECK_DEADLOCK FALSE
