SPECIFICATION Spec
CONSTANTS
    Entries = {e1, e2}
    Files = {f1, f2}
    NoFile = NoFile
    Reqs = {r1, r2}
    MaxText = 1
    MaxCharge = 3
    MaxRef = 2
    Modes = {FALSE}
SYMMETRY Symmetry
CHECK_DEADLOCK FALSE
PROPERTY NoConflict
