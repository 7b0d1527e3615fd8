SPECIFICATION Spec
CONSTANTS
    Keys = {58, 33, 113, 36}
    Later = 113
    MaxText = 2
    Bindings = {"list"}
    MaxHotkeys = 2
    AutoClose = TRUE
INVARIANTS
    TypeOK
    HiddenIsReset
    ModesFit
    PendingCoversQueue
    NeverStranded
