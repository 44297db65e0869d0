SPECIFICATION FairSpec
CONSTANTS
    Clients = {c1, c2, c3}
    None = None
    MaxCommands = 2
    MaxEvents = 1
    Faults <- AllFaults
INVARIANTS
    TypeOK
    AnswersGoHome
    EventsHeard
    IpcComesBack
PROPERTIES
    IpcSlot
    TcpSlot
    TcpServesNext
    QuestionsAreAnswered
CHECK_DEADLOCK FALSE
