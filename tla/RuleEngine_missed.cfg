SPECIFICATION Spec
CONSTANTS
    w1 = w1
    w2 = w2
    t1 = t1
    t2 = t2
    Window = {w1}
    Root = Root
    Title = {t1, t2}
    Patterns <- MCPatterns
    MaxRules = 1
    MaxUid = 1
    MaxQueue = 1
    Quirks = {"refresh"}
CHECK_DEADLOCK FALSE
INVARIANTS
    OpenedWindowsFire
