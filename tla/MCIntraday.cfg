\* Three runs over up to three days; one ticker with an event and another story.
CONSTANTS
    Tickers = {"A"}
    Stories <- MCStories
    Answers = {"hold", "open_new", "exit"}
    MaxRuns = 3
SPECIFICATION Spec
CHECK_DEADLOCK FALSE
INVARIANTS
    StoriesReachAgent
    FreshStoryOnce
    ForcedReductionSells
    CoreRowIsKept
