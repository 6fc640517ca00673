SPECIFICATION FairSpec
CONSTANTS
    Size = 2
INVARIANTS
    PublishedIsSnapshot
    OneWriter
PROPERTIES
    KeepsPromise
    CopyEnds
\* the copy ends
CHECK_DEADLOCK FALSE
