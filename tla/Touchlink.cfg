SPECIFICATION Spec
CONSTANTS
    MaxScans = 3
    MaxAnswers = 2
    MaxLink = 4
    OtherTraffic = TRUE
    Faults <- AllFaults
INVARIANTS
    TypeOK
    TimersBelongToStates
    ApsSlotBelongsToState
    ScanBudget
    InterPanInTheClear
    SecuredAfterwards
    IdentifiedBeforeReset
