SPECIFICATION MCSpec
CONSTANTS
    Versions = {v1, v2}
    Limit = 1
    MaxTime = 3
SYMMETRY Symmetry
INVARIANTS HarvestedIsViewable NothingIsMissed
CHECK_DEADLOCK FALSE
