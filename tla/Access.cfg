CONSTANTS
    User = {f, u, v}
    Founder = f
    Granted = {"EDITOR"}
    Handler = {h1, h2, h3}
    MaxRequests = 5
    MaxInvites = 2
    Absent = Absent
SPECIFICATION Spec
INVARIANTS OneOwner AdmitsOnce AccessInv
SYMMETRY Alike
CHECK_DEADLOCK FALSE
