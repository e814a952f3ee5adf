\* A user edits the file twice under the running service; job 2 is a subagent.
CONSTANTS
    Job = {1, 2}
    None = None
    Name <- MCDistinct
    OneShot = {1, 2}
    Ephemeral = {2}
    Ownerless = {}
    Added <- MCAdded
    MaxDowns = 1
    MaxChanges = 0
    MaxEdits = 2
SPECIFICATION EditedSpec
INVARIANTS NoResurrection
PROPERTIES FileKeepsJobs
CHECK_DEADLOCK FALSE
