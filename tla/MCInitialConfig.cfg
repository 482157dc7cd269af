CONSTANTS
    Mibs <- MCMibs
    OnuId = 1
    UniBits = 1
    MaxDowns = 1
    MaxOthers = 1
    MaxFaults = 1
SPECIFICATION FairSpec
INVARIANTS
    TypeOK
    PortsFollowMib
    StageByStage
PROPERTIES
    AnsweredConfigEnds
    RoutinesEnd
    ImplementsStages
CHECK_DEADLOCK FALSE
