SPECIFICATION Spec
CONSTANTS
    Ids = {1, 2, 3}
    Kind <- MCKind
    Matching = {1, 2}
    Rows = {1, 2}
    Lines = 2
    Coming = {3}
CHECK_DEADLOCK FALSE
PROPERTIES
    PromotesActivated
