CONSTANTS
    Thread = {t1, t2}
    NoThread = NoThread
    Key = {1, 2, 3}
    Val = {v1}
    NoVal = NoVal
    Mob = {m1, m2, m3, m4}
    NoMob = NoMob
    Top = Top
    ArrayKeys = {3}
    RetrainMin = 1
    MaxOps = 2
SYMMETRY Symmetry
SPECIFICATION Spec
INVARIANTS
    TypeOK
    MutualExclusion
    NoRetrainSeen
    KeysAreRouted
    AnswersAreTrue
    ScanMeetsKeys
PROPERTY OnlyCallsChangeKeys
CHECK_DEADLOCK FALSE
