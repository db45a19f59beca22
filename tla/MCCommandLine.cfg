CONSTANTS
    Rising         <- MCRising
    Falling        <- MCFalling
    MinReading     <- MCMinReading
    MaxReading     <- SmallMaxReading
    FieldTypeMin   <- MCMinReading
    FieldTypeMax   <- SmallTypeMax
    DefaultConfig  <- SmallConfig
    InitialSample  <- SmallSample
    Commands       <- ParsedCommands
    LineLength     <- LongestLines
    ResponseSize = 512
    ThresholdNames <- MCNames
    SampleFields   <- MCFields
    IntMax = 15
    Lines          <- MCLines

SPECIFICATION LineSpec

INVARIANTS
    TypeOK
    StateIsSettled
    LineIsReadExactly

PROPERTIES
    AlarmEndsByRecovery
    ChangeIsAnswered
