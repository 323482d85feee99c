SPECIFICATION Spec
CONSTANTS
    RollupIds = {1, 2, 3}
    Included = {1, 2}
    Transactions <- SomeTransactions
    MaxTxs = 2
    MaxBlocks = 2
    MaxPayloads = 2
    Foreign <- ForeignTransaction
CHECK_DEADLOCK FALSE
INVARIANT TreesAreRFC6962
INVARIANT AuditsAreExact
INVARIANT ProposalsCanBeBuilt
INVARIANT BlocksVerify
INVARIANT DataBoundToRollup
INVARIANT FirmIsSoft
