CONSTANTS
    Fields <- MCFields
    Day = 12
    RevertSpan = 2
    Target <- LampOn
    External = {"motion", "door"}
    Scenes <- MCScenes
    Related <- MCRelated
    NewTaps <- MCNewTaps
    FnTimes <- MCFnTimes
    Modes = {"nf", "nn", "sn", "debug", "devices"}
    Requests = {1, 2}
    MaxIncidents = 1
    PointedEpisode = 1
    Pre = 3
    Post = 1
    VisPost = 3
    Span = 3
    RevertAlt = 2
    VisSpan = 4
    Rate <- MCRate

SPECIFICATION Spec
CHECK_DEADLOCK FALSE
INVARIANTS
    AnalysisTypeOK
    PatchesPointToRules
    ScoresTrue
    PagesTrue
    SeenUnlessClockLost
    DebugPageFits
