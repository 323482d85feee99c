SPECIFICATION FairSpec
CONSTANTS
    Height <- Competing
    Fees = {1}
    Faults = {"stream", "open", "stop"}
    MaxFaults = 1
    BroadcastCapacity = 1
    MaxProposals = 2
    NoBlock = NoBlock
    NoBid = NoBid
    NoNonce = NoNonce
CHECK_DEADLOCK FALSE
INVARIANT WinnerExtendsCommittedBlock
INVARIANT SoldOnce
PROPERTY TimedAuctionEnds
