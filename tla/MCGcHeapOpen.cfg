SPECIFICATION Spec
CONSTANTS
    Obj = {a, b, c}
    Weak = {}
    Null = Null
    Reg = {1, 2}
    Slot = {1, 2}
    OpenUnmarked = TRUE
SYMMETRY MCSymmetry
INVARIANT CloseFreesAll
CHECK_DEADLOCK FALSE
