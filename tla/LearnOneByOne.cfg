SPECIFICATION FairSpec
CONSTANTS
    lamp = lamp
    remote = remote
    mute = mute
    Devices = {lamp, remote, mute}
    Descriptors <- ThreeDescriptors
    Addresses <- ThreeAddresses
    PathHasSlash = FALSE
    OneAtATime = TRUE
    MaxJoins = 3
    MaxAir = 2
    Faults <- Losses
    MaxId = 2
INVARIANTS
    TypeOK
    LearningIsStored
    DescriptorsTruthful
    EventsNameTheirDevice
    CommandsReachTheirDevice
PROPERTIES
    FinishMeansLearnt
    DevicesSurvive
    AnnouncedAreLearnt
    LearningEnds
CHECK_DEADLOCK FALSE
