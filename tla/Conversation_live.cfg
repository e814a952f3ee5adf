\* Two messages and a third, /reset or a job's result, over a midnight.
CONSTANTS
    Msg = {m1, m2, m3}
    Third = m3
    Kinds <- MCCommand
    None = None
    Reaper = Reaper
    MaxSessions = 4
    MaxDays = 1
    MaxDowns = 0
    MaxReloads = 0
SPECIFICATION Spec
PROPERTIES EventuallyAnswered
CHECK_DEADLOCK FALSE
