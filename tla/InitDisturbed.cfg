SPECIFICATION FairSpec
CONSTANTS
    MaxBoots = 2
    MaxLink = 2
    MaxRefused = 1
    Faults <- Interference
INVARIANTS TypeOK LockStep StartsConfigured
PROPERTIES InitializedMeansReady InitCompletes
CHECK_DEADLOCK FALSE
