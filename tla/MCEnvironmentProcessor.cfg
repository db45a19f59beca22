CONSTANTS
    Rising        <- MCRising
    Falling       <- MCFalling
    MinReading    <- MCMin
    MaxReading    <- MCMax
    Samples       <- MCSamples
    Configs       <- MCConfigs
    InitialConfig <- MCInitialConfig

SPECIFICATION Spec

INVARIANTS
    TypeOK
    ConfigStaysValid
    SteadyReadingSettles
    DangerIsMonotone

PROPERTIES
    FaultIsNeverEntered
    ImplementsLatches
