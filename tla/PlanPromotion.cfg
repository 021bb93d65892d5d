SPECIFICATION Spec
CONSTANTS
    a = a
    b = b
    b2 = b2
    bad = bad
    u = u
    v = v
    w = w
    h = h
    r = r
    r2 = r2
    p1 = p1
    p2 = p2
    p3 = p3
    locked = locked
    None = None
    NoPlan = NoPlan
    Refs = {r, r2}
    Https = {u, v, w}
    Private = {w}
    Rests = {p1, p2, p3, locked}
    Protected = {locked}
    Manifests <- MCManifests
    Ids <- MCIds
    IdOf <- MCIdOf
    Urls <- MCUrls
    Keys <- MCKeys
    Accounts <- PromotionAccounts
    Worlds <- PromotionWorlds
    PlanProfiles <- PromotionProfiles
    PlanPromotions <- PromotionSet
    Declarations <- NoPublics
    MaxChanges = 2
INVARIANT
    TypeOK
PROPERTIES
    LabelsNeedTheirKey
    PromotionIsExact
    PromotionSettles
    StartersRestore
