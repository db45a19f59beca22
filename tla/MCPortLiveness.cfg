CONSTANTS
    None = None
    Rising         <- MCRising
    Falling        <- MCFalling
    MinReading     <- MCMinReading
    MaxReading     <- MCMaxReading
    FieldTypeMin   <- MCFieldTypeMin
    FieldTypeMax   <- MCFieldTypeMax
    Priority       <- FirmwarePriority
    CreationOrder  <- FirmwareOrder
    QueueLength    <- ShortQueues
    DefaultConfig  <- MCDefaultConfig
    InitialSample  <- MCInitialSample
    SensorReadings <- DangerousOrInvalid
    Commands       <- OneSet
    BootSamples    <- NoItems
    BootCommands   <- NoItems
    HasIngress = TRUE
    HasWriter  = TRUE
    Schedulable = TRUE

SPECIFICATION FairSpec

PROPERTIES
    AnnouncedIsShown
    SnapshotIsTaken
    LineIsPolledAgain
