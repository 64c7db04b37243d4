\* Two accounts, two Google ids, two tabs, refresh tokens of two lives.
CONSTANTS
    Emails = {e1, e2}
    GoogleIds = {g1, g2}
    Workers = {w1, w2}
    AccessLife = 1
    RefreshLife = 2
    LastTime = 3
    MaxUsers = 2
SYMMETRY Alike
SPECIFICATION Spec
CHECK_DEADLOCK FALSE
INVARIANTS
    SessionEnds
    OldSessionFades
PROPERTIES
    SameAccount
