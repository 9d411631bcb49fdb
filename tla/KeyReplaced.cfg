CONSTANTS
    o = o
    e = e
    d1 = d1
    d2 = d2
    d3 = d3
    User = {o, e}
    Device = {d1, d2, d3}
    UserOf <- MCUserOf
    Owner = o
    Prepared = {o}
    MaxCalls = 4
    None = None
SPECIFICATION Spec
INVARIANT KeyNeverReplaced
SYMMETRY OwnersDevices
CHECK_DEADLOCK FALSE
