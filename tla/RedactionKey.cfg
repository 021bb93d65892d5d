SPECIFICATION Spec
CONSTANTS
    Procs = {p1, p2, p3}
    Absent = Absent
    NoKey = NoKey
    MaxLosses = 2
SYMMETRY Symmetry
INVARIANTS
    TypeOK
    KeysAgree
CHECK_DEADLOCK FALSE
