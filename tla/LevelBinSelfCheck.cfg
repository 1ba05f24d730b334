CONSTANTS
    Key = {1, 2, 3, 4, 5, 6}
    Val = {v1}
    NoVal = NoVal
    Bin = {b1, b2, b3}
    NoBin = NoBin
    RootSlotMax = 2
    ChildSlotMax = 3
SYMMETRY Symmetry
SPECIFICATION Spec
INVARIANT SelfCheck
CHECK_DEADLOCK FALSE
