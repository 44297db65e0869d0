SPECIFICATION FairSpec
CONSTANTS
    Bits <- Two
    Traffic <- Some
    MaxCount = 7
    MaxFrames = 2
    MaxDamage = 1
    Damaged = Damaged
    Faults <- AllFaults
INVARIANTS
    TypeOK
PROPERTIES
    IsChannel
    FramesArrive
    HandlerReturns
CHECK_DEADLOCK FALSE
