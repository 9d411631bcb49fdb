CONSTANTS
    u = u
    c1 = c1
    c2 = c2
    w = w
    cli = cli
    web = web
    f1 = f1
    f2 = f2
    p1 = p1
    p2 = p2
    pro = pro
    free = free
    q1 = q1
    Person = {u}
    Process = {c1, c2, w}
    Client = {cli, web}
    Home <- MCHome
    CommandLine = {cli}
    Lifetime = 2
    CodeLifetime = 2
    MaxTime = 2
    MaxCalls = 5
    Link = {l1, l2}
    Reader = {r1, r2}
    Revoker = {v1, v2}
    NoLink = NoLink
    CiToken = {t1}
    CiFile = {f1, f2}
    CiPath = {p1, p2}
    CiJob = {j1}
    Outside = Outside
    Key = {k1, k2}
    MaxHits = 2
    Window = 2
    LastTick = 4
    MaxSubs = 2
    MaxEvents = 7
    Desk = {d1}
    Payer = {pro, free}
    Project = {q1, q2}
    Stored = {s1, s2, s3}
    Adder = {h1, h2}
    Growth = 1
    Limit = {1, 2, Infinite}
    Infinite = Infinite
    Nobody = Nobody
    MaxMoves = 1
SPECIFICATION MCSpec
INVARIANTS
    ServicesTypeOK
    CodeGivesOne OldPasswordSignedOut ReplayNeedsMishap RowOutlivesToken
    PayloadHandedOnce RevokedStaysUnread
    SentIsAllowed
    AtMostTwice RefusedOnlyWhenSpent
    RowFollowsStripe
    OvershootBounded
PROPERTY EndedStaysEnded
CHECK_DEADLOCK FALSE
