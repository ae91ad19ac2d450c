\* Three phases overlap while an order fills under them.
CONSTANTS
    buy = buy  sell = sell  other = other
    r1 = r1  r2 = r2  r3 = r3
    T = T
    NoOrder = NoOrder
    NoSnap = NoSnap
    Runs <- ThreeRuns
    Orders <- Buy
    Tickers <- OneTicker
    TickerOf <- MCTickerOf
    Side <- MCSide
    Qty <- MCQty
    MaxActive = 3
    MaxDecisions = 2
    Environment = {"market_open", "local_rejections", "partial_cancels", "reapprovals"}
SPECIFICATION Spec
SYMMETRY RunsAlike
\* A run may wait for itself (see SelfWaitIsLateFill).
CHECK_DEADLOCK FALSE
INVARIANTS
    SubmittedOrderTracked
    SelfWaitIsLateFill
PROPERTIES
    StaleSaveReopens
