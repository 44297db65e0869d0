SPECIFICATION Spec
CONSTANTS
    MaxBoots = 2
    MaxLink = 2
    MaxRefused = 1
    Faults <- Kills
INVARIANTS StartsConfigured
CHECK_DEADLOCK FALSE
