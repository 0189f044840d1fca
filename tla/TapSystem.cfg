CONSTANTS
    Var <- MCVar
    Val <- MCVal
    NTap = 2
    EventTimer <- MCEventTimer
    StateTimer <- MCStateTimer
    TapDicts <- MCTapDicts
SPECIFICATION FairSpec
INVARIANTS
    TypeOK
    TimersExact
PROPERTIES
    TicksExact
    CascadeEnds
