SPECIFICATION FairSpec
CONSTANTS
    Sessions <- TwoSessions
    CelestiaOf <- Inclusion
    MaxU64 = 15
    MaxHeight = 12
    LastHeight = 8
    FirmCapacity = 2
    SoftCapacity = 2
    Levels = {"FirmOnly", "SoftOnly", "SoftAndFirm"}
INVARIANTS
    TypeOK
    CanonicalChain
    TracksRollup
    NoBlockOutOfOrder
PROPERTIES
    SessionEndRespected
    RefinesLedger
    EventuallyAllCommitted
