SPECIFICATION Spec
CONSTANTS
    Procs = {p1, p2}
    Absent = Absent
    Manual = Manual
    Torn = Torn
    MaxOutside = 2
INVARIANTS
    TypeOK
    NeverTorn
    FailureLeavesNoTrace
    HandWrittenStays
CHECK_DEADLOCK FALSE
