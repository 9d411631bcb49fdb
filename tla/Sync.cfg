CONSTANTS
    x = x
    y = y
    Unset = Unset
    Absent = Absent
    Clean = Clean
    Handler = {}
    FileId = {1, 2, 3}
    Path = {1, 2, 3}
    Hash <- MCHash
    Seed <- OneFile
    Batch <- MCBatch
    Trackable = {1, 2}
    Commands <- MCCommands
    Reliable = FALSE
    MaxPerRequest = 2
    MaxCommands = 3
    MaxEdits = 2
    MaxTeamwork = 2
SPECIFICATION Spec
INVARIANTS TypeOK BaseFromServer StatusTruthful
PROPERTIES LocalWorkKept TeamworkKept
CHECK_DEADLOCK FALSE
