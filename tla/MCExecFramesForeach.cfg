SPECIFICATION Spec
CONSTANTS
    s1 = s1
    h1 = h1
    NoGen = NoGen
    Gen <- MCGen
    HostGen <- MCHostGen
    FrameSizes = {2}
    MaxNative = 3
    MaxDepth = 4
    MaxTraps = 2
    MaxLeft = 0
    NotifyAll = FALSE
    TryInForeach = TRUE
    MixedResume = FALSE
    OverflowInCall = FALSE
INVARIANT NoTrapsAtReturn
