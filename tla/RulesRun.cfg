CONSTANTS
    Cap <- MCCap
    Value <- MCValue
    NTap = 2
    TapLists <- PlainAndRangeLists
    MaxEvents = 2
    MaxList = 5
SPECIFICATION Spec
CHECK_DEADLOCK FALSE
INVARIANTS
    TypeOK
    ReplayReachesState
    DueRulesRun
    SynthesisTrue
PROPERTY AgreesWithIoTSystem
