CONSTANTS
    x = x
    y = y
    Unset = Unset
    Absent = Absent
    Clean = Clean
    Handler = {}
    FileId = {1, 2, 3}
    Path = {1, 2, 3}
    Hash <- MCHash
    Seed <- NoFiles
    Batch <- MCBatch
    Trackable = {1, 2, 3}
    Commands <- PushPull
    Reliable = TRUE
    MaxPerRequest = 1
    MaxCommands = 4
    MaxEdits = 4
    MaxTeamwork = 0
SPECIFICATION Spec
INVARIANT NoConflictWithSelf
CHECK_DEADLOCK FALSE
