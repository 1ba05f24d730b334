CONSTANTS
    Thread = {t1, t2}
    Key = {1, 2, 3, 4, 5}
    Bin = {b1, b2, b3}
    NoBin = NoBin
    Root = Root
    RootMax = 2
    ChildMax = 2
    Starts <- Rooted
    MaxOps = 1
SPECIFICATION FairSpec
PROPERTY CallsReturn
CHECK_DEADLOCK FALSE
