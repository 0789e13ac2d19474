SPECIFICATION Spec
CONSTANTS
    u = u
    q = q
    r = r
    a = a
    f = f
    AnyKey = AnyKey
    None = None
    Subjects = {u, q, r}
    Actions = {a, b}
    b = b
    Resources = {f}
    Policies <- ScopedPolicies
    Hierarchies <- OnlyTree
    Explained <- NoRequest
    MaxPolicies = 1
    MaxInstalls = 1
    MaxSimulations = 1
CHECK_DEADLOCK FALSE
PROPERTY
    SimulationChangesNothing
