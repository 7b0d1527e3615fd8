SPECIFICATION Spec
CONSTANTS
    w1 = w1
    w2 = w2
    t1 = t1
    t2 = t2
    Window = {w1}
    Root = Root
    Title = {t1, t2}
    Patterns <- MCPatterns
    MaxRules = 2
    MaxUid = 2
    MaxQueue = 1
    Quirks = {"edit"}
CHECK_DEADLOCK FALSE
INVARIANTS
    NeverRefires
