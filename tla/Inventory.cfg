\* Two handlers at a time in a warehouse that has one of two SKUs.
CONSTANTS
    s1 = s1
    s2 = s2
    Skus = {s1, s2}
    Workers = {w1, w2}
    InitStock <- MCInitStock
    Imports <- MCImports
    Adjustments <- MCAdjustments
    Units = {1, 2}
    MaxLogs = 4
SYMMETRY Alike
SPECIFICATION Spec
CHECK_DEADLOCK FALSE
INVARIANTS
    ImportsBlockedOnlyByReturns
    AdjustmentsWaitForExports
    QuantityFollowsPaperwork
    CostWithinPrices
