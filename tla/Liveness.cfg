CONSTANTS
    p1 = p1
    p2 = p2
    p3 = p3
    p4 = p4
    p5 = p5
    p6 = p6
    p7 = p7
    x = x
    y = y
    Unset = Unset
    Absent = Absent
    Clean = Clean
    Unlimited = Unlimited
    FileId <- MCFileId
    Path <- MCPath
    Hash <- MCHash
    Seed <- MCSeed
    Batch <- CircleBatch
    Handler = {h1, h2}
    MaxRepoFiles = Unlimited
    Elsewhere = {0}
    MaxRequests = 2
    daily = daily
    Finding = {s1}
    Starter = {daily, a}
    MaxScans = 2
SPECIFICATION ServicesSpec
INVARIANTS ScanTypeOK ActiveIsServed CompletedIsStored ToldOnce
PROPERTIES RequestsAnswered TriageSurvives SlotFreed
CHECK_DEADLOCK FALSE
