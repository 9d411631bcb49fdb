CONSTANTS
    x = x
    y = y
    Unset = Unset
    Absent = Absent
    Clean = Clean
    Handler = {}
    FileId = {1, 2, 3}
    Path = {1, 2, 3}
    Hash <- MCHash
    Seed <- OneFile
    Batch <- MCBatch
    Trackable = {1, 2}
    Commands <- ForcedPush
    Reliable = FALSE
    MaxPerRequest = 2
    MaxCommands = 2
    MaxEdits = 1
    MaxTeamwork = 1
SPECIFICATION Spec
PROPERTY WipedTreeKeepsVault
CHECK_DEADLOCK FALSE
