SPECIFICATION FairSpec
CONSTANTS
    First = 1
    StopHeight = 5
    LastHeight = 6
    MaxAhead = 3
    MaxInFlight = 3
    Capacity = 1
INVARIANTS
    ReaderMemoryBounded
PROPERTIES
    RefinesOrderedFeed
    EventuallyForwarded
