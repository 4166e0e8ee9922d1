SPECIFICATION Spec
CONSTANTS
    a = a
    b = b
    c = c
    k1 = k1
    k2 = k2
    Keys = {k1, k2}
    Contents = {a, b, c}
    Size <- MCSize
    CanHold <- MCCanHold
    Attempts = 2
    NoObject = NoObject
    Gone = Gone
SYMMETRY Symmetry
INVARIANTS TypeOK CutoverIsComplete RecordedIsStored
PROPERTIES CommandsAdvance
