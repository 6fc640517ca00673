SPECIFICATION Spec
CONSTANTS
    ra = ra
    rb = rb
    x = x
    y = y
    Scopes = {s1, s2}
    Requests = {q1, q2}
    Rights = {x, y}
    Resources = {ra, rb}
    ResourceOf <- MCResourceOf
    Configs <- MCConfigs
    Grants <- MCGrants
    Expiries = {1, Never}
    Never = Never
    Operator = Operator
    MaxDepth = 2
    MaxTime = 1
SYMMETRY Identities
INVARIANTS
    ChildrenWithin
    AncestorsCanStop
    ToldIsClosed
PROPERTIES
    ClosureIsBarrier
