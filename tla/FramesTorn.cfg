SPECIFICATION Spec
CONSTANTS
    Bits <- Three
    Traffic <- Clear
    MaxCount = 7
    MaxFrames = 1
    MaxDamage = 0
    Damaged = Damaged
    Faults <- Pieces
PROPERTY
    OnlySentFrames
CHECK_DEADLOCK FALSE
