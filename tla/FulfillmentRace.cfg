\* Two handlers at a time on one order.
CONSTANTS
    s1 = s1
    A = A
    B = B
    Orders = {o1}
    Skus = {s1}
    Whs = {A, B}
    Workers = {w1, w2}
    MaxHistory = 3
    Qty <- RaceQty
    InitStock <- RaceStock
    Mappings <- RaceMappings
SYMMETRY AnyWorker
SPECIFICATION Spec
CHECK_DEADLOCK FALSE
INVARIANTS
    TypeOK
    HistoryTellsStatus
    DeliveredHasCompletion
    ExportCodesDense
    ReturnsWaitForExports
    AnnouncedOnce
    ClosedMeansRestocked
    ShipmentsBoundedByWorkers
PROPERTIES
    NeverPendingAgain
    RefinesStockBook
