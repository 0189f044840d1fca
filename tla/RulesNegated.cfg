CONSTANTS
    Cap <- MCCap
    Value <- MCValue
    NTap = 1
    TapLists <- NegatedLists
    MaxEvents = 2
    MaxList = 5
SPECIFICATION Spec
PROPERTY NegatedConditionsHold
CHECK_DEADLOCK FALSE
