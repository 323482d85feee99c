SPECIFICATION Spec
CONSTANTS
    Accounts = {"u", "b"}
    Sudo = "u"
    Native = "nria"
    Foreign = "transfer/channel-0/utia"
    Founders = {"b"}
    Keys = {"u"}
    Returns = {"u", "b"}
    InitialBalance <- SampleBalance
    InitialOutside <- SampleOutside
    BaseFee = 1
    Amounts = {1}
    MaxActions = 2
    MaxPackets = 2
    MaxEvents = 1
    MaxPaid = 1
    MaxUnbacked = 1
INVARIANTS AssetsConserved EscrowBacked BridgeSolvent
CHECK_DEADLOCK FALSE
