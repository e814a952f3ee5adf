\* Two old facts, an ingestion that makes a third, the lifecycle and the user.
CONSTANTS
    MaxFacts = 3
    Known = 2
    Kind <- MCKind
    Task = {t1}
    MaxConflicts = 2
    MaxAge = 1
    MaxCrashes = 0
    MaxForgets = 1
    None = None
    CrystallizeCount = 2
    PromoteCount = 2
    CrystallizeAge = 0
    HypothesisAge = 0
    ForgetAge = 0
    ExpiryAge = 0
    TierAge <- MCTierAge
SPECIFICATION Spec
PROPERTIES FactSettles
CHECK_DEADLOCK FALSE
