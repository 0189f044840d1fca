CONSTANTS
    Var <- MCVar
    Val = {0, 1}
    EventTimer <- NoEventTimers
    StateTimer <- WindowOpen
    External = {"rain"}
    TapLists <- MCTapLists
    Errors <- MCErrors
SPECIFICATION Spec
CHECK_DEADLOCK FALSE
INVARIANTS
    RepairCorrect
PROPERTIES
    SplitSame
