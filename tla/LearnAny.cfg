SPECIFICATION Spec
CONSTANTS
    lamp = lamp
    remote = remote
    mute = mute
    Devices = {lamp, remote}
    Descriptors <- TwoDescriptors
    Addresses <- TwoAddresses
    PathHasSlash = FALSE
    OneAtATime = FALSE
    MaxJoins = 3
    MaxAir = 0
    Faults <- Everything
    MaxId = 2
INVARIANTS
    DbWellFormed
    FileFollows
    DescriptorsWhole
PROPERTIES
    IdentifiersStay
CHECK_DEADLOCK FALSE
