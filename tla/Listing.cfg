\* the listing ends, and nothing happens any more
CHECK_DEADLOCK FALSE
SPECIFICATION ListingSpec
CONSTANTS
    Kinds = {"jobs", "locks", "objects", "directory", "log"}
    Items = {1, 2, 3, 4, 5}
    MaxLimit = 2
    Batch = 2
INVARIANTS
    NothingMissed
