SPECIFICATION FairSpec
CONSTANTS
    d = d
    fa = fa
    fb = fb
    r1 = r1
    Sessions = {s1}
    Ops = {o1, o2}
    Domains = {d}
    Parts = {fa, fb}
    Depth = 2
    Resources = {r1}
    Key <- MCKey
    Requests <- TwoRequests
    Leases = {1}
    MaxTime = 1
    NoSession = NoSession
    NoPlan = NoPlan
PROPERTIES
    OrphanReported
    ExpiredSessionDrains
    JobsUnderContract
    RefinesReservations
