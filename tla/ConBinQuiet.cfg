CONSTANTS
    Thread = {t1, t2}
    Key = {1, 2, 3, 4, 5}
    Bin = {b1, b2, b3, b4}
    NoBin = NoBin
    Root = Root
    RootMax = 2
    ChildMax = 2
    Starts <- Fresh
    MaxOps = 2
SYMMETRY Symmetry
SPECIFICATION Spec
INVARIANT QuietSelfCheck
CHECK_DEADLOCK FALSE
