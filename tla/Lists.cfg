\* Pages of one row, of three rows that may tie, with two changes in a walk.
CONSTANTS
    LastKey = 3
    LastMoment = 2
    Keys <- MCKeys
    Moments <- MCMoments
    Workers = {w1}
    PageSize = 1
    MaxMoves = 2
SPECIFICATION ListSpec
CHECK_DEADLOCK FALSE
INVARIANTS
    SlipsBounded
    OnlyTiesSlip
PROPERTIES
    GoneForGood
