SPECIFICATION FairSpec
CONSTANTS
    d = d
    e = e
    f = f
    fs = fs
    Domains = {fs}
    Parts = {d, e, f}
    Callers = {c1, c2}
    Places <- MCPlaces
    Requests <- MCRequests
    Sessions <- MCSessions
    NoPath = NoPath
    NoRequest = NoRequest
INVARIANTS
    NoInterference
    StillValid
PROPERTIES
    RequestEnds
