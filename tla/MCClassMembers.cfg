SPECIFICATION Spec
CONSTANTS
    Class = {A, B}
    Inst = {i, j}
    Key = {ctor, x, m}
    Ctor = ctor
    Meta = {m}
    Fun = {f}
    Data = {d}
    None = None
    Sizes = {8}
    MaxSteps = 3
SYMMETRY MCSymmetry
INVARIANTS InstancesFit ConstructorIsMember HandlesHold
PROPERTY IsClassModel
CHECK_DEADLOCK FALSE
