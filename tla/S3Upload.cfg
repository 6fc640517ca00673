\* the copy ends
CHECK_DEADLOCK FALSE
SPECIFICATION Spec
CONSTANTS
    Sizes = {0, 3, 4, 7}
    MaxChunk = 2
    PartSize = 3
    MaxParts = 2
    MaxUploads = 2
INVARIANTS
    PublishedIsWhole
    PartsFit
    UploadsAccounted
PROPERTIES
    KeepsPromise
