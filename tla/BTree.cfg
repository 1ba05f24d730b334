CONSTANTS
    Key <- SomeKeys
    Data = {1}
    NoData = 0
    Starts <- SomeStarts
SPECIFICATION Spec
INVARIANTS
    TreeIsValid
    AssertionsHold
    LookupsAgree
PROPERTY ImplementsEntries
CHECK_DEADLOCK FALSE
