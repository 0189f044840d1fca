CONSTANTS
    Devices <- MCDevices
    Numbers <- MCNumbers
    Minutes = {0, 61, 750, 1439}
    Holds = {5, 3661}
    Readable = {4}
    Writeable = {1}
    Tasks = {1, 2}
    FirstRules <- MCFirstRules
    MaxRules = 3
    MaxClauses = 2
    MaxCalls = 2
    MaxClicks = 8
SPECIFICATION Spec
CHECK_DEADLOCK FALSE
INVARIANTS
    EditorTypeOK
    OverwritesExplained
    ClausesFit
    ShownRulesRun
    TranslationsAgree
