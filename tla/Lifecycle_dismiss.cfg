SPECIFICATION SpecEntered
CONSTANTS
    Keys = {58, 33, 113, 36}
    Later = 113
    MaxText = 2
    Bindings = {"act", "run"}
    MaxHotkeys = 0
    AutoClose = TRUE
INVARIANT
    Dismissed
