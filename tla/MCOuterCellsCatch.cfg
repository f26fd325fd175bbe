SPECIFICATION Spec
CONSTANTS
    Var = {x, y, z}
    NoVar = NoVar
    Outer = {o1, o2, o3}
    MaxBlocks = 4
    CatchCaptured = TRUE
    JumpCaptured = FALSE
    YieldCaptured = FALSE
    ReserveCaptured = FALSE
SYMMETRY MCSymmetry
INVARIANT CapturesShareVariable
