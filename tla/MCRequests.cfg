\* Two operators pin and dismiss while one run works.
CONSTANTS
    Tickers = {"A", "S"}
    Answers = {"enter_long", "exit"}
    Operators = {o1, o2}
    o1 = o1  o2 = o2
    Lifecycle <- MCLifecycle
    MaxRequests = 2
    MaxRuns = 1
SPECIFICATION Spec
CHECK_DEADLOCK FALSE
SYMMETRY MCSymmetry
INVARIANTS
    OneActivePerTicker
    EvaluationHoldsReviewOnly
PROPERTIES
    ClosedStaysClosed
