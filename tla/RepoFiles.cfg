CONSTANTS
    p1 = p1
    p2 = p2
    p3 = p3
    p4 = p4
    p5 = p5
    p6 = p6
    p7 = p7
    x = x
    y = y
    Unset = Unset
    Absent = Absent
    Clean = Clean
    Unlimited = Unlimited
    FileId <- MCFileId
    Path <- MCPath
    Hash <- MCHash
    Seed <- MCSeed
    Batch <- MCBatch
    Handler = {h1, h2}
    MaxRepoFiles = 4
    Elsewhere = {0, 2}
    MaxRequests = 3
SPECIFICATION Spec
INVARIANTS TypeOK HistoryComplete VersionNamesRow WritesBasedOnCommitted StoreInv
PROPERTY ImplementsFileStore
SYMMETRY Handlers
CHECK_DEADLOCK FALSE
