\* One run at a time, orders fill while it is active, and faults.
CONSTANTS
    buy = buy  sell = sell  other = other
    r1 = r1  r2 = r2  r3 = r3
    T = T
    NoOrder = NoOrder
    NoSnap = NoSnap
    Runs <- OneRun
    Orders <- BuyBuySell
    Tickers <- OneTicker
    TickerOf <- MCTickerOf
    Side <- MCSide
    Qty <- MCQty
    MaxActive = 1
    MaxDecisions = 2
    Environment = {"market_open", "crashes", "http_errors", "repeats", "partial_cancels", "early_sells"}
SPECIFICATION Spec
\* A run may wait for itself (see NoSelfWait).
CHECK_DEADLOCK FALSE
INVARIANTS
    TypeOK
    NoPhantomFill
    AtMostOneExecution
    NoStrandedFill
    QuietSyncPasses
PROPERTIES
    LinkNeverLost
    KeepsLedger
