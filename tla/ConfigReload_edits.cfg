CONSTANTS
    File = {cfg, jobs}
    Present = {cfg, jobs}
    Cfg = cfg
    MaxStamp = 3
    Window = 2
    MaxWrites = 2
    MaxSaves = 1
    Content <- SomeContent
    Command = {c1, c2}
    Watcher = Watcher
    None = None
SPECIFICATION Spec
INVARIANTS TypeOK Applied
PROPERTIES ImplementsNotice EditsAreLoaded
CHECK_DEADLOCK FALSE
