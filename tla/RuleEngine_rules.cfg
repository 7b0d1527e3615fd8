SPECIFICATION Spec
CONSTANTS
    w1 = w1
    w2 = w2
    t1 = t1
    t2 = t2
    Window = {w1, w2}
    Root = Root
    Title = {t1, t2}
    Patterns <- MCPatterns
    MaxRules = 1
    MaxUid = 1
    MaxQueue = 2
    Quirks = {"race", "refresh", "edit"}
SYMMETRY Symmetry
CHECK_DEADLOCK FALSE
INVARIANTS
    TypeOK
    Settled
    OnceForOne
    AppliedIsLive
    RefiresOnlyByEdits
