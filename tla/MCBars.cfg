CONSTANTS
    listed = listed
    pin = pin
    spy = spy
    Listed = {listed}
    Pinnable = {pin}
    Watchlist = {}
    Support = {spy}
    Excluded = {}
    Sessions = {0, 2}
    Window = 3
    Legacy <- TheLegacy
    LastTime = 5
SPECIFICATION BarsSpec
CHECK_DEADLOCK FALSE
INVARIANT
    QuietReplayIsStable
    FullAnswerHeals
PROPERTY
    OnlyAReviewNarrows
