CONSTANTS
    entry = entry
    hedge1 = hedge1
    hedge2 = hedge2
    call = call
    spread = spread
    exit = exit
    Stock = Stock
    c1 = c1
    c2 = c2
    c3 = c3
    None = None
    StockOrders = {Stock}
    Decisions = {entry, hedge1, hedge2}
    Orders = {call, spread, exit}
    Contracts = {c1, c2, c3}
    Plan <- ThePlan
    Action <- TheAction
    Legs <- TheLegs
    Book <- TheBook
    Units <- TheUnits
    Environment = {"rejections", "call_errors", "failures", "expiries"}
SPECIFICATION FairSpec
INVARIANT
    OneExecutionPerRun
    NoDoubleCover
PROPERTY
    SyncMirrors
    MirrorCatchesUp
