\* Three products with two creation times and two prices, in pages of two.
CONSTANTS
    Ids = {1, 2, 3}
    Times = {1, 2}
    Prices = {1, 2}
    Limit = 2
    MaxListed = 3
SPECIFICATION FairSpec
INVARIANTS
    WalkAdvances
    MissesNothing
PROPERTIES
    WalkEnds
