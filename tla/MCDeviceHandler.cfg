SPECIFICATION FairSpec
CONSTANTS
    MaxUps = 2
    MaxDowns = 1
    MaxReboots = 1
    MaxFaults = 1
INVARIANT TypeOK
INVARIANT StagesRunOnce
INVARIANT OrderlyStopStopsAll
 
PROPERTY BringUp
PROPERTY UsesMachines
CHECK_DEADLOCK FALSE
