CONSTANTS
    o = o
    e = e
    d1 = d1
    d2 = d2
    d3 = d3
    User = {o, e}
    Device = {d1, d2, d3}
    UserOf <- MCUserOf
    Owner = o
    Prepared = {o}
    MaxCalls = 4
    None = None
SPECIFICATION Spec
INVARIANTS TypeOK VaultsOpen GrantsOpen GrantsPaired GrantsOfMembers
SYMMETRY OwnersDevices
CHECK_DEADLOCK FALSE
