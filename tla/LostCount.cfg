SPECIFICATION Spec
CONSTANTS
    Entries = {e1, e2, e3}
    Files = {f1, f2}
    NoFile = NoFile
    Reqs = {r1, r2}
    MaxRef = 3
SYMMETRY Symmetry
CHECK_DEADLOCK FALSE
PROPERTY OnlyUnreferencedDeleted
