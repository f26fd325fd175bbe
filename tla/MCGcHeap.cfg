SPECIFICATION FairSpec
CONSTANTS
    Obj = {a, b, c}
    Weak = {w}
    Null = Null
    Reg = {1, 2}
    Slot = {1}
    OpenUnmarked = FALSE
INVARIANTS HeapExact CloseLeaksNothing NoPointerDangles
PROPERTIES CollectIsExact CollectionEnds
CHECK_DEADLOCK FALSE
