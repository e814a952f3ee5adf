\* Each mode kept throughout, a /stop at any moment: every caller is answered, or left
\* behind by the /stop.
CONSTANTS
    MaxMsgs = 3
    Modes <- MCAllModes
    Caps = {0, 1}
    Drops <- MCDrops
    MaxConfigs = 0
    MaxStops = 1
SPECIFICATION FairSpec
PROPERTY EventuallyAnswered
CHECK_DEADLOCK FALSE
