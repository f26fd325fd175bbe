SPECIFICATION MCSpec
CONSTANTS
    Conds = {"local", "cmp"}
    Budgets <- MCBudgets
    ForAtStart = FALSE
    DefaultReturns = FALSE
    BareVars = FALSE
    JumpCaptured = FALSE
    ThrowCaptured = FALSE
INVARIANTS TrapsFollowText JumpsGoRight OutersInScope ExpressionsCompile
CHECK_DEADLOCK FALSE
