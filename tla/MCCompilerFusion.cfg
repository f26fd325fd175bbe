SPECIFICATION MCSpec
CONSTANTS
    Conds = {"local", "cmp"}
    Budgets <- MCNoBudget
    ForAtStart = FALSE
    DefaultReturns = FALSE
    BareVars = FALSE
    JumpCaptured = FALSE
    ThrowCaptured = FALSE
INVARIANT FusionKeepsMeaning
CHECK_DEADLOCK FALSE
