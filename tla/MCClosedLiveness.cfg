\* One run at a time, orders settle between runs, fairness.
CONSTANTS
    buy = buy  sell = sell  other = other
    r1 = r1  r2 = r2  r3 = r3
    T = T
    NoOrder = NoOrder
    NoSnap = NoSnap
    Runs <- OneRun
    Orders <- BuyBuySell
    Tickers <- OneTicker
    TickerOf <- MCTickerOf
    Side <- MCSide
    Qty <- MCQty
    MaxActive = 1
    MaxDecisions = 2
    Environment = {"reapprovals"}
SPECIFICATION FairSpec
PROPERTIES
    RunEnds
    SnapshotCatchesUp
    ImplementsLedger
