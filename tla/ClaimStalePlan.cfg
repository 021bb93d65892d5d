\* Another client writes between the drift guard and the push.
CONSTANTS
    p1 = p1
    Procs = {p1}
    Collections = {"A", "B", "X"}
    Shapes = {"a", "b", "x"}
    Shape <- MCShape
    Unhashable = {}
    NoCollection = NoCollection
    Foreign = Foreign
    MaxForeign = 1
SPECIFICATION Spec
PROPERTY StalePlansMakeNoWrite
CHECK_DEADLOCK FALSE
