SPECIFICATION Spec
CONSTANTS
    Key = {0, 1, 2, 4}
    Val = {v1, v2}
    NoVal = NoVal
    HashOf <- Exact
    Fold <- Exact
    Owners = {"map", "multimap"}
    InitSz = 1
    MaxSz = 8
    MaxDrift = 3
    Word = 64
INVARIANTS
    TypeOK
    NoDuplicateKeys
    Reachable
    SizeIsCount
    AssertHolds
    DupIsCopy
PROPERTIES
    ImplementsDict
CHECK_DEADLOCK FALSE
