SPECIFICATION MCSpec
CONSTANTS
    Key <- MCKey
    Val = {"v1", "v2"}
    Nil = Nil
    Hash <- MCHashKey
    MinPower2 = 4
    MaxPower2 = 8
    Obj <- MCObj
    NullObject = NullObject
    HashObj <- MCHash
    InitSlots = 1
    MaxHolds = 2
    CountUnheld = FALSE
    String <- MCString
    HashStr <- MCHashStr
    FirstSlots = 4
    MaxSlots = 8
    IntMax = 7
    CIntMax = 3
    FloatExact = 4
    FloatNumber <- MCFloatNumber
    Addresses = {1, 2}
    Element = {1, 2}
    MaxSort = 4
    NewSizes = {0, 5, 20}
    MaxEdits = 2
    Thread = {"t1", "t2"}
    RootVM = "main"
    Arg = {"a"}
    Value = {"function"}
    MaxCpp = 3
    MaxFrames <- MCMaxFrames
    Byte = {0, 1}
    Widths = {1, 2}
    Requests = {0, 1, 5}
    MaxLine = 4
    MaxCode = 6
    MaxSize = 5
    MAX_HEX_DIGITS = 3
    Numbers = {0, 8, 4095}
    StringLength = 1
    AnyChars <- MCAnyChars
    AnyLength = 3
INVARIANTS RefsAreHeld KeysAreFound StringsInterned SortSorts BlobFits ValueLaws LoadsWhatWasSaved LinesAreRight TokensAreRight DecodesText ThreadsTakeTurns
PROPERTIES CountsHolds IsDictionary CallsEnd IsByteFile
CHECK_DEADLOCK FALSE
