\* Two handlers at a time on one product with three SKUs.
CONSTANTS
    Products = {p1}
    Skus = {k1, k2, k3}
    red = red
    blue = blue
    Combos <- OneColour
    Prices = {1, 2}
    Workers = {w1, w2}
    SeedCodes = {2}
    Base = 2
    Width = 2
    MaxCode = 4
SYMMETRY Alike
SPECIFICATION Spec
INVARIANTS
    NextCodeFree
PROPERTIES
    RangeHeals
    NoTwins
