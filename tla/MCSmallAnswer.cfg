CONSTANTS
    Rising         <- MCRising
    Falling        <- MCFalling
    MinReading     <- MCMinReading
    MaxReading     <- MCMaxReading
    FieldTypeMin   <- MCMinReading
    FieldTypeMax   <- MCTypeMax
    DefaultConfig  <- MCDefaultConfig
    InitialSample  <- MCInitialSample
    Commands       <- EveryCommand
    LineLength     <- DefaultLines
    ResponseSize = 256

SPECIFICATION Spec

PROPERTY ChangeIsAnswered
