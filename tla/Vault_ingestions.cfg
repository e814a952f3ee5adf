\* Two ingestions into an empty vault, the lifecycle beside them, and a crash.
CONSTANTS
    MaxFacts = 2
    Known = 0
    Kind <- MCKind
    Task = {t1, t2}
    MaxConflicts = 1
    MaxAge = 1
    MaxCrashes = 1
    MaxForgets = 0
    None = None
    CrystallizeCount = 2
    PromoteCount = 2
    CrystallizeAge = 0
    HypothesisAge = 0
    ForgetAge = 0
    ExpiryAge = 0
    TierAge <- MCTierAge
SPECIFICATION Spec
INVARIANTS TypeOK SuccessorExists
PROPERTIES NothingVanishes
CHECK_DEADLOCK FALSE
