CONSTANTS
    t1 = t1
    t2 = t2
    Tickers <- MCTickers
    Families <- MCFamilies
    Unwired <- MCUnwired
    MaxRequests = 5
    MaxRetries = 1
    FailureThreshold = 2
SPECIFICATION Spec
INVARIANTS
    BudgetIsHard
    FamilyIsolation
    StoredBarsSuffice
CHECK_DEADLOCK FALSE
