CONSTANTS
    None = None
    Published <- Announced
    RefreshPeriod = 50
    ElapsedModulus = 1075
    Builds    <- AllBuilds
    ResetGpio <- AfterReset

SPECIFICATION FirmwareSpec

INVARIANTS
    TypeOK
    LampWillChange
    StrayOutputIsReported
    OnlyMemoryFailsTheCheck
    SerialIoIsReal
    PinsHaveTheirRoles
    OtherPinsKeepTheirReset

PROPERTY FailuresAreRepaired


CHECK_DEADLOCK FALSE
