CONSTANTS
    x = x
    y = y
    Unset = Unset
    Absent = Absent
    Clean = Clean
    Handler = {}
    FileId = {1, 2, 3}
    Path = {1, 2, 3}
    Hash <- MCHash
    Seed <- TwoFiles
    Batch <- MoveBatch
    Trackable = {1, 2}
    Commands <- ForcedPull
    Reliable = TRUE
    MaxPerRequest = 2
    MaxCommands = 2
    MaxEdits = 0
    MaxTeamwork = 2
SPECIFICATION Spec
PROPERTY PulledFilesAreHere
CHECK_DEADLOCK FALSE
