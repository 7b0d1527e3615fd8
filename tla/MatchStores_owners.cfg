SPECIFICATION Spec
CONSTANTS
    Window = {w1, w2}
    NoWindow = NoWindow
    Title = {t1, t2}
    Star = Star
    Slot = {s1, s2}
    Features = {"slots", "names", "rules"}
    MaxEntries = 2
    MaxRules = 2
    MaxId = 3
    FailableStores = {}
    LossyStores = {}
SYMMETRY Symmetry
CHECK_DEADLOCK TRUE
INVARIANTS
    Exclusive
    NamesRulesResolve
    Durable
PROPERTIES
    FreshIds
