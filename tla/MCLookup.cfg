SPECIFICATION FairSpec
CONSTANTS
    Table = {t1, t2, r}
    Root = r
    Inst = {i}
    Fields = {"k"}
    ClassMeta <- MCClassMeta
    Key = {"k", "m"}
    Name = {"k"}
    MetaName <- MCMetaName
    Default = {}
    None = None
    MaxCalls = 2
    MaxPending = 9
INVARIANTS DelegatesAcyclic StackBalanced GetSeesSet
PROPERTY LookupsEnd
CHECK_DEADLOCK FALSE
