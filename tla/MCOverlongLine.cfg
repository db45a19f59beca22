CONSTANTS
    Printable <- TwoLetters
    CR = "CR"
    LF = "LF"
    RxCapacity = 4
    LineCapacity = 4
    MaxBytesPerPoll = 3
    StreamLength = 8

SPECIFICATION Spec

INVARIANT ExecutedLinesAreWhole


CHECK_DEADLOCK FALSE
