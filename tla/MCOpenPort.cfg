CONSTANTS
    None = None
    Rising         <- MCRising
    Falling        <- MCFalling
    MinReading     <- MCMinReading
    MaxReading     <- MCMaxReading
    FieldTypeMin   <- MCFieldTypeMin
    FieldTypeMax   <- MCFieldTypeMax
    Priority       <- InvertedPriority
    CreationOrder  <- InvertedOrder
    QueueLength    <- ShortQueues
    DefaultConfig  <- MCDefaultConfig
    InitialSample  <- MCInitialSample
    SensorReadings <- SafeAndDangerous
    Commands       <- OneSample
    BootSamples    <- NoItems
    BootCommands   <- NoItems
    HasIngress = FALSE
    HasWriter  = FALSE
    Schedulable = FALSE

SPECIFICATION LifecycleSpec

INVARIANT
    OutputFollowsDecision

PROPERTY
    ImplementsAlarmFeed
    ImplementsPort
