CONSTANTS
    Request = {r1, r2}
    Earlier = r0
    MaxState = 2
SYMMETRY RequestSymmetry
SPECIFICATION Spec
CHECK_DEADLOCK FALSE
INVARIANTS
    TypeOK
    AloneWrites
    EventMatchesAction
    ShownTrue
    OrphansExplained
PROPERTIES
    OnlyDeletesRemove
