CONSTANTS
    MaxSubs = 2
    MaxTasks = 2
    Msg = {m1, m2}
    Chat = Chat
    None = None
SPECIFICATION Spec
INVARIANTS TypeOK RunningIsTrue TakenIsServed LastAnswerTold
PROPERTIES ImplementsService RunsEnd
CHECK_DEADLOCK FALSE
