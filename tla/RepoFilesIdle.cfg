CONSTANTS
    p1 = p1
    p2 = p2
    p3 = p3
    p4 = p4
    p5 = p5
    p6 = p6
    p7 = p7
    x = x
    y = y
    Unset = Unset
    Absent = Absent
    Clean = Clean
    Unlimited = Unlimited
    FileId <- MCFileId
    Path <- MCPath
    Hash <- MCHash
    Seed <- MCSeed
    Batch <- IdleBatch
    Handler = {h1, h2}
    MaxRepoFiles = 4
    Elsewhere = {0}
    MaxRequests = 2
SPECIFICATION Spec
PROPERTY AppliedAtBase
CHECK_DEADLOCK FALSE
