SPECIFICATION Spec
CONSTANTS
    lamp = lamp
    remote = remote
    mute = mute
    Devices = {lamp, remote}
    Descriptors <- TwoDescriptors
    Addresses <- TwoAddresses
    PathHasSlash = FALSE
    OneAtATime = TRUE
    MaxJoins = 2
    MaxAir = 0
    Faults <- Moves
    MaxId = 2
INVARIANTS
    CommandsReachTheirDevice
CHECK_DEADLOCK FALSE
