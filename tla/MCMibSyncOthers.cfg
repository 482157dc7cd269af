CONSTANTS
    Cmds = 4
    OnuData <- MCOnuData
    Supported <- MCSupported
    MaxUps = 1
    MaxDowns = 0
    MaxOthers = 1
    MaxFaults = 0
SPECIFICATION Spec
INVARIANTS
    LoadedOrUploaded
CHECK_DEADLOCK FALSE
