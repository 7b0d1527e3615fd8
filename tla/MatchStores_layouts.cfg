SPECIFICATION Spec
CONSTANTS
    Window = {w1}
    NoWindow = NoWindow
    Title = {t1, t2}
    Star = Star
    Slot = {s1}
    Features = {"slots", "names", "rules", "layouts"}
    MaxEntries = 2
    MaxRules = 6
    MaxId = 2
    FailableStores = {"slots"}
    LossyStores = {"names"}
SYMMETRY Symmetry
CHECK_DEADLOCK FALSE
INVARIANTS
    GeomRulesInStep
PROPERTIES
    NeverReused
