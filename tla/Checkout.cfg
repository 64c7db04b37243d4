\* Two requests at a time on the cart and the order of one customer.
CONSTANTS
    s1 = s1
    s2 = s2
    Skus = {s1, s2}
    Workers = {w1, w2}
    Stock <- MCStock
    Quantities = {1, 2}
    Lists <- MCLists
    MaxRequests = 4
SYMMETRY Alike
SPECIFICATION Spec
CHECK_DEADLOCK FALSE
INVARIANTS
    NeverMoreThanAsked
    ItemsBoundedByEditors
    ShippedAsOrdered
PROPERTIES
    OrderedRowsLeave
