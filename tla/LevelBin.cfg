CONSTANTS
    Key = {1, 2, 3, 4, 5, 6}
    Val = {v1, v2}
    NoVal = NoVal
    Bin = {b1, b2, b3}
    NoBin = NoBin
    RootSlotMax = 2
    ChildSlotMax = 3
SYMMETRY Symmetry
SPECIFICATION Spec
INVARIANTS
    Structure
    KeysAreRouted
    RetrainInput
    ScanIsExact
PROPERTY ImplementsMap
CHECK_DEADLOCK FALSE
