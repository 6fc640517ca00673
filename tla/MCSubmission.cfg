SPECIFICATION MCSpec
CONSTANTS
    write = write
    exec = exec
    Submitters = {p1, p2, p3}
    Nobody = Nobody
    Requests <- MCRequests
INVARIANTS
    Idempotent
    FilesAccounted
PROPERTIES
    EndsUnlessLost
CHECK_DEADLOCK FALSE
