SPECIFICATION Spec
CONSTANTS
    Entries = {e1, e2}
    Files = {f1, f2}
    NoFile = NoFile
    Reqs = {r1, r2}
    MaxText = 1
    MaxCharge = 3
    MaxRef = 2
    Modes = {TRUE}
SYMMETRY Symmetry
CHECK_DEADLOCK FALSE
INVARIANTS
    TypeOK
    SizesAgree
    Charged
PROPERTY PatchesBased
