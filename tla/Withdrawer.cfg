SPECIFICATION FairSpec
CONSTANTS
    Busy = {1, 2, 4}
    MaxHeight = 5
    QueueSize = 2
    BridgeSigns = TRUE
    Faults = {"startup", "answer", "call", "reject", "expiry", "delay", "stop", "crash"}
INVARIANT NoWithdrawalSkipped
PROPERTY EventuallyWithdrawn
CHECK_DEADLOCK FALSE
