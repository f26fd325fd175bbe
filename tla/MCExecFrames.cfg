SPECIFICATION FairSpec
CONSTANTS
    s1 = s1
    h1 = h1
    NoGen = NoGen
    Gen <- MCGen
    HostGen <- MCHostGen
    FrameSizes = {3}
    MaxNative = 3
    MaxDepth = 3
    MaxTraps = 2
    MaxLeft = 0
    NotifyAll = TRUE
    TryInForeach = FALSE
    MixedResume = FALSE
    OverflowInCall = FALSE
INVARIANTS TrapsAgree RootsDelimitActivations FramesInPlace
PROPERTIES CallersResume ErrorsSettle
