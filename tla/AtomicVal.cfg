CONSTANTS
    Thread = {t1, t2, t3}
    Val = {x, y}
    Word = {lo, hi}
    Top = Top
    Leaf = Leaf
    Gone = Gone
    Yes = Yes
    No = No
    Pending = Pending
    Ops = {"read", "update", "remove", "replace", "read_ignoring_ptr", "update_ignoring_ptr", "remove_ignoring_ptr"}
    MaxOps = 1
SYMMETRY Symmetry
SPECIFICATION Spec
INVARIANT PointersAreSafe
PROPERTY Implements
CHECK_DEADLOCK FALSE
