SPECIFICATION ClipSpec
CONSTANTS
    light = light
    door = door
    Cap = {light, door}
    Value = {on, off}
    None = None
    TimingTup <- TwoTimers
    ClockList = {1}
    Day = 3
    MaxTime = 5
    MaxEvents = 3
    Span = 2
CHECK_DEADLOCK FALSE
INVARIANTS
    ClipTypeOK
    EnhancedTrue
    ClipsTrue
PROPERTY EventsKept
