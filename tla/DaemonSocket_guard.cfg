SPECIFICATION Spec
CONSTANTS
    Proc = {p1, p2, p3}
    NoProc = NoProc
    Backlog = 1
CHECK_DEADLOCK FALSE
INVARIANTS
    Reachable
PROPERTIES
    OnlyStaleRemoved
    StartsEnd
    Delegates
