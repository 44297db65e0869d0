SPECIFICATION FairSpec
CONSTANTS
    MaxScans = 5
    MaxAnswers = 2
    MaxLink = 3
    OtherTraffic = FALSE
    Faults <- NoFault
PROPERTIES WindowSpec TouchlinkEnds SecurityRestored
