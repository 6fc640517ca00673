SPECIFICATION FairSpec
CONSTANTS
    write = write
    exec = exec
    Submitters = {p1, p2}
    Nobody = Nobody
    Requests <- MCRequests
PROPERTY
    AbandonedEnds
CHECK_DEADLOCK FALSE
