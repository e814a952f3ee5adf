\* One mode of each family, evicting and refusing, one reconfiguration and one /stop.
CONSTANTS
    MaxMsgs = 3
    Modes <- MCModes
    Caps = {0, 2}
    Drops = {"old", "new"}
    MaxConfigs = 1
    MaxStops = 1
SPECIFICATION Spec
INVARIANTS TypeOK PendingIsHeld InArrivalOrder RepeatsHaveCauses DrainRunsUntilEmpty
PROPERTY ImplementsService
CHECK_DEADLOCK FALSE
