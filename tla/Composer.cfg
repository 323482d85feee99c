SPECIFICATION FairSpec
CONSTANTS
    Size <- SizeValue
    MaxBytes = 2
    QueueCapacity = 1
    ChannelCapacity = 1
    Faults = {"send timeout", "stream", "unreachable", "reject", "answer", "foreign", "removal", "stop", "drain timeout", "crash"}
    MaxFaults = 2
CHECK_DEADLOCK FALSE
 
PROPERTY EventuallyExecuted
