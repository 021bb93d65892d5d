\* Two reviewed applies or rollbacks, two add-ons, no other client.
CONSTANTS
    p1 = p1
    p2 = p2
    Procs = {p1, p2}
    a = a
    b = b
    u = u
    v = v
    h = h
    r = r
    plain = plain
    locked = locked
    None = None
    Collections <- MCCollections
    Shapes <- MCShapes
    Shape <- MCShape
    Unhashable = {}
    NoCollection = NoCollection
    Foreign = Foreign
    MaxForeign = 0
    Manifests = {a, b}
    Ids = {"a", "b"}
    IdOf <- MCIdOf
    Urls <- MCUrls
    Https = {u, v}
    Private = {}
    Refs = {r}
    Rests = {plain, locked}
    Protected = {locked}
    Keys = {1}
    Key = 1
    Secrets <- MCSecrets
    Reviewed <- MCReviewed
SYMMETRY Symmetry
SPECIFICATION ReviewedSpec
INVARIANT OkMeansDesired OriginalRecoverable ReportsHold
PROPERTIES KeepsThePromise OnlyReviewedChanges
CHECK_DEADLOCK FALSE
