SPECIFICATION FairSpec
CONSTANTS
    MaxScans = 2
    MaxAnswers = 1
    MaxLink = 3
    OtherTraffic = TRUE
    Faults <- NoFault
PROPERTIES SendIsReported
