SPECIFICATION FairAppSpec
CONSTANTS
    Txs <- SampleTxs
    SudoAddress = "sudo"
    Pairs = {"p"}
    Validators = {"v1", "v2", "v3"}
    Aspen = 1
    Genesis <- GenesisState
    MaxData = 1
    MaxTxBytes = 6
    Evidence <- SampleEvidence
    MaxQueue = 2
    MaxHeight = 3
    MaxRound = 2
    MaxCrashes = 1
INVARIANTS CachedEqualsReplayed OwnProposalAccepted MempoolCostsCurrent
PROPERTY DecidedIsCommitted
CHECK_DEADLOCK FALSE
