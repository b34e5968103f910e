SPECIFICATION Spec
CONSTANTS
    Ids = {root, e1, e2, e3}
    Root = root
    NoId = NoId
    Stems = {"a"}
    MaxCopies = 1
    RequestNames <- MCRequestNames
SYMMETRY Symmetry
CHECK_DEADLOCK FALSE
INVARIANT Acyclic
