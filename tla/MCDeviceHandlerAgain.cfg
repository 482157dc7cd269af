SPECIFICATION Spec
CONSTANTS
    MaxUps = 2
    MaxDowns = 1
    MaxReboots = 0
    MaxFaults = 0
INVARIANT UpAgainGetsGoing
CHECK_DEADLOCK FALSE
