SPECIFICATION EngineSpec
CONSTANTS
    u = u
    q = q
    r = r
    a = a
    b = b
    f = f
    AnyKey = AnyKey
    None = None
    Roles = {u, q, r}
    MaxEdges = 3
    MaxCalls = 1
    Subjects = {u, q, r}
    Actions = {a, b}
    Resources = {f}
    Policies <- EnginePolicies
    Hierarchies <- AllHierarchies
    Explained <- OneRequest
    MaxPolicies = 2
    MaxInstalls = 1
    MaxSimulations = 1
CHECK_DEADLOCK FALSE
INVARIANTS
    ClosureIsReachability
    StoredHierarchyBuilds
    LookupFindsMatches
    ForbidOverrides
    ExplanationJustifies
