CONSTANTS
    Session = {"chat", "job"}
    Jobs = {"job"}
    Model = {"X", "p/X"}
    ModelOf <- MCModelOf
    Base <- MCBase
    Configs <- MCConfigs
    MaxTurns = 3
    MaxManagers = 2
    None = None
SPECIFICATION Spec
INVARIANTS TypeOK SlotsConserved NoIdleSlot OneTurnAtATime
PROPERTIES EveryTurnEnds
CHECK_DEADLOCK FALSE
