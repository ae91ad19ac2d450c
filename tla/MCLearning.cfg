\* Evolution and reflection over four days.
CONSTANTS
    Ids = {"seed", "test", "new"}
    Seeds = {"seed"}
    Shadows = {"test"}
    Configs <- MCConfigs
    ConfigOf <- MCConfigOf
    Computable = {"rs", "trend"}
    OutcomeKinds <- MCOutcomeKinds
    FactorKinds <- MCFactorKinds
    Window = 2
    LastDay = 4
    MaxOutcomes = 3
    MaxReflections = 2
    MaxProposals = 1
    MaxFactors = 1
SPECIFICATION Spec
CHECK_DEADLOCK FALSE
INVARIANTS
    EarnedTrading
    AuditExplainsStatus
PROPERTIES
    OneStepPerRun
    LearningOnlyTightens
