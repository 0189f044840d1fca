CONSTANTS
    Var <- MCVar
    Val <- MCVal
    NTap = 2
    EventTimer <- MCEventTimer
    StateTimer <- MCStateTimer
    TapDicts <- MCTapDicts
    ActionOrder <- MCActionOrder
    MaxState = 200
SPECIFICATION Spec
INVARIANTS
    TypeOK
    Exact
PROPERTIES
    BuildTerminates
CHECK_DEADLOCK FALSE
