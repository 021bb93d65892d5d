\* Another client stores a collection that cannot be fingerprinted.
CONSTANTS
    p1 = p1
    Procs = {p1}
    Collections = {"A", "B", "X"}
    Shapes = {"a", "b", "x"}
    Shape <- MCShape
    Unhashable = {"X"}
    NoCollection = NoCollection
    Foreign = Foreign
    MaxForeign = 1
SPECIFICATION Spec
INVARIANT FailedWritesAreReported
CHECK_DEADLOCK FALSE
