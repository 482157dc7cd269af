CONSTANTS
    g1 = g1
    g2 = g2
    NoGem = NoGem
    Gems = {g1}
    MaxRuns = 2
    MaxFaults = 1
SPECIFICATION FairSpec
INVARIANTS
    TypeOK
    EveryLoopIsEnded
    CompleteIsAnswered
    BlockedNeedsTimeOut
PROPERTIES
    AnsweredRunCompletes
    EveryRunEnds
    ImplementsMachine
CHECK_DEADLOCK FALSE
