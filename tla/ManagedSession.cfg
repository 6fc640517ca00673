SPECIFICATION FairOwnerSpec
CONSTANTS
    Lease = 3
    Horizon = 8
INVARIANTS
    TrustedLease
PROPERTIES
    GivenBack
CHECK_DEADLOCK FALSE
