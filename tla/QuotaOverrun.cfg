SPECIFICATION Spec
CONSTANTS
    Sessions = {s1, s2}
    NoSession = NoSession
    Reqs = {r1, r2}
    Size = 2
    Lengths = {1, 2}
    MaxCount = 3
    Settings <- AnyMode
SYMMETRY Symmetry
CHECK_DEADLOCK FALSE
INVARIANT QuotaKept
