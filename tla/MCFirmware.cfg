CONSTANTS
    None = None
    Rising         <- MCRising
    Falling        <- MCFalling
    MinReading     <- MCMinReading
    MaxReading     <- MCMaxReading
    FieldTypeMin   <- MCFieldTypeMin
    FieldTypeMax   <- MCFieldTypeMax
    Priority       <- FirmwarePriority
    CreationOrder  <- FirmwareOrder
    QueueLength    <- FirmwareQueueLength
    DefaultConfig  <- MCDefaultConfig
    InitialSample  <- MCInitialSample
    SensorReadings <- DangerousOrInvalid
    Commands       <- SetsAndSample
    BootSamples    <- FirmwareBootSamples
    BootCommands   <- FirmwareBootCommands
    HasIngress = TRUE
    HasWriter  = TRUE
    Schedulable = TRUE

SPECIFICATION ClosedSpec

INVARIANTS
    TypeOK
    ConfigFollowsAnswers
    DataStaysValid
    WrittenAnswerIsRemoved
    SensorPathNeverDrops
