SPECIFICATION Spec
CONSTANTS
    d = d
    fa = fa
    fb = fb
    r1 = r1
    Sessions = {s1, s2}
    Ops = {o1, o2}
    Domains = {d}
    Parts = {fa, fb}
    Depth = 2
    Resources = {r1}
    Key <- MCKey
    Requests <- ThreeRequests
    Leases = {1}
    MaxTime = 1
    NoSession = NoSession
    NoPlan = NoPlan
SYMMETRY Identities
INVARIANTS
    NoConflictingOwnership
    EffectsReserved
    EffectsExclusive
PROPERTIES
    LeaseHonoured
