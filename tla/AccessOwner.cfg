CONSTANTS
    User = {f, u, v}
    Founder = f
    Granted = {"EDITOR"}
    Handler = {h1, h2}
    MaxRequests = 5
    MaxInvites = 2
    Absent = Absent
SPECIFICATION Spec
PROPERTY OwnerStays
CHECK_DEADLOCK FALSE
