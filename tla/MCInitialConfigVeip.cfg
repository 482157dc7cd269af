CONSTANTS
    Mibs <- MCVeip
    OnuId = 1
    UniBits = 1
    MaxDowns = 0
    MaxOthers = 0
    MaxFaults = 0
SPECIFICATION FairSpec
PROPERTY UnlockRunsViaDone
CHECK_DEADLOCK FALSE
