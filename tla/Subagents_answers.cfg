\* A follow-up message that arrives during the subagent's turn.
CONSTANTS
    MaxSubs = 1
    MaxTasks = 1
    Msg = {m1}
    Chat = Chat
    None = None
SPECIFICATION Spec
PROPERTIES EveryAnswerTold
CHECK_DEADLOCK FALSE
