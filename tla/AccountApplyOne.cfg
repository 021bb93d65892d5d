\* One invocation, other clients write twice, every collection.
CONSTANTS
    p1 = p1
    Procs = {p1}
    Collections = {"A", "A2", "B", "B2", "X"}
    Shapes = {"a", "b", "x"}
    Shape <- MCShape
    Unhashable = {"X"}
    NoCollection = NoCollection
    Foreign = Foreign
    MaxForeign = 2
SPECIFICATION FairSpec
INVARIANTS TypeOK WritesAreGuarded OutcomeAccountsForWrites AccountInv
PROPERTIES PushedOnce EveryRunEnds
CHECK_DEADLOCK FALSE
