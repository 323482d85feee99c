SPECIFICATION MempoolSpec
CONSTANTS
    Submitted <- Competing
    Checkers = {c1, c2}
    Balances = {2, 4}
    Fees = {0, 1}
    MaxParkedPerAccount = 1
    MaxParked = 2
    CacheSize = 2
    MaxBlocks = 1
    MaxFailures = 1
INVARIANTS PendingExecutable TrackedMatchesPool
PROPERTIES MaintenanceCovers
CHECK_DEADLOCK FALSE
