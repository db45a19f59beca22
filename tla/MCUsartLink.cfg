CONSTANTS
    Printable <- TwoLetters
    CR = "CR"
    LF = "LF"
    RxCapacity = 3
    LineCapacity = 2
    MaxBytesPerPoll = 3
    StreamLength = 6
    AnswerLength = 2
    AnswerQueue = 2

SPECIFICATION LinkSpec

INVARIANTS
    TypeOK
    FramingIsExact
    AtMostOneLinePerPoll
    PatientTerminalIsHeard
    AnswersComeWhole

CHECK_DEADLOCK FALSE
