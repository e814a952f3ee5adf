\* Two messages and a third, a command or a job's result, over a midnight,
\* a configuration reload and a restart.
CONSTANTS
    Msg = {m1, m2, m3}
    Third = m3
    Kinds <- MCKinds
    None = None
    Reaper = Reaper
    MaxSessions = 4
    MaxDays = 1
    MaxDowns = 1
    MaxReloads = 1
SYMMETRY MCUsers
SPECIFICATION Spec
INVARIANTS TypeOK AnsweredIsKept OneRunnerPerSession RunLock FreshContext
PROPERTIES ImplementsLog
CHECK_DEADLOCK FALSE
