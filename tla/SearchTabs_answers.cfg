SPECIFICATION Spec
CONSTANTS
    MaxAsked = 3
    MaxMixed = 2
    Hosts = {h1, h2}
    Texts = {"", "abc", "xyz"}
    LongTexts = {"abc", "xyz"}
INVARIANTS
    TypeOK
    ContextsAccounted
    LoadingIsPending
    DrawnOnScreen
    LocatedFits
    RowsInScope
    LoadingIsFetching
PROPERTIES
    FilesAnswer
    LocateAnswer
