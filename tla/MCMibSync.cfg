CONSTANTS
    Cmds = 4
    OnuData <- MCOnuData
    Supported <- MCSupported
    MaxUps = 2
    MaxDowns = 1
    MaxOthers = 1
    MaxFaults = 1
SPECIFICATION FairSpec
INVARIANTS
    TypeOK
    DataIsComplete
    PanicNeedsRestart
PROPERTIES
    UploadEnds
    ImplementsMachine
CHECK_DEADLOCK FALSE
