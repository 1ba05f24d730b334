CONSTANTS
    Thread = {t1, t2}
    NoThread = NoThread
    Key = {1, 2, 3}
    Val = {v1}
    NoVal = NoVal
    Mob = {m1, m2, m3}
    NoMob = NoMob
    Top = Top
    ArrayKeys = {3}
    RetrainMin = 1
    MaxOps = 1
SPECIFICATION FairSpec
PROPERTY CallsReturn
CHECK_DEADLOCK FALSE
