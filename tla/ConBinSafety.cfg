CONSTANTS
    Thread = {t1, t2}
    Key = {1, 2, 3, 4, 5}
    Bin = {b1, b2, b3}
    NoBin = NoBin
    Root = Root
    RootMax = 2
    ChildMax = 2
    Starts <- AnyStart
    MaxOps = 2
SYMMETRY Symmetry
SPECIFICATION Spec
INVARIANTS
    Structure
    WritersExclude
    AnswersAreTrue
PROPERTY KeysStay
CHECK_DEADLOCK FALSE
