SPECIFICATION FairSpec
CONSTANTS
    Blobs <- PostedTwice
    First = 1
    FirstSearch = 0
    StopHeight = 4
    LookAhead = 2
    MaxTasks = 2
    Capacity = 1
INVARIANTS
    SearchHeightReachesNextBlock
PROPERTIES
    RefinesOrderedFeed
    EventuallyFirm
