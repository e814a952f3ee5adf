\* The service by itself: a recurring job and a one-shot that may fail, be changed once
\* and see a restart or a crash.
CONSTANTS
    Job = {1, 2}
    None = None
    Name <- MCDistinct
    OneShot = {2}
    Ephemeral = {}
    Ownerless = {}
    Added <- MCAdded
    MaxDowns = 1
    MaxChanges = 1
    MaxEdits = 0
SPECIFICATION Spec
INVARIANTS TypeOK
PROPERTIES ImplementsRegistry EnabledJobFires AtJobNotRepeated
CHECK_DEADLOCK FALSE
