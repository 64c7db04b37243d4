\* Three notifications, pages of one row, three moments.
CONSTANTS
    Notes = {n1, n2, n3}
    Limit = 1
    LastTime = 2
SYMMETRY Alike
SPECIFICATION Spec
CHECK_DEADLOCK FALSE
INVARIANTS
    UncountedWasThere
    UnknownStaysUnread
