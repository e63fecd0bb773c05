SPECIFICATION Spec
CONSTANTS
    parent = parent
    sub = sub
    d1 = d1
    d2 = d2
    s1 = s1
    NoName = NoName
    NoStr = NoStr
    NsId <- MCNsId
    Name <- MCName
    Str <- MCStr
    Num <- MCNum
    NumType <- MCNumType
    ValueCapacity = 1
    ItemCapacity = 1
    MaxBlocks = 10
    MaxItems = 2
    MaxFailures = 2
    GivenRealloc = {"client", "NULL"}
SYMMETRY MCSymmetry
INVARIANTS
    ReallocNotNeeded
