CONSTANTS
    None = None
    Rising      <- MCRising
    Falling     <- MCFalling
    MinReading  <- MCMinReading
    MaxReading  <- MCMaxReading
    Alphas      <- SomeAlphas
    Configs     <- SomeConfigs
    RawReadings <- GridAndInvalid

SPECIFICATION FairSpec

INVARIANTS
    TypeOK
    AlarmHasCause

PROPERTIES
    FilterIsExact
    SteadyDangerIsSeen
    SteadyRecoveryIsSeen
