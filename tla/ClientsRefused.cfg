SPECIFICATION FairSpec
CONSTANTS
    Clients = {c1, c2}
    None = None
    MaxCommands = 0
    MaxEvents = 0
    Faults <- NoFault
PROPERTY
    OneAtOnce
CHECK_DEADLOCK FALSE
