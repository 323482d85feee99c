SPECIFICATION FairSpec
CONSTANTS
    LastHeight = 4
    MaxBlocks = 2
    Oversized = {4}
    Capacity = 1
    Fees = {1, 2}
    MaxFaults = 4
INVARIANTS
    PostedInOrder
    FileIsTrue
PROPERTIES
    FileNeverGoesBack
    EventuallyPosted
