----------------------------- MODULE StockLogs -----------------------------
(***************************************************************************)
(* The warehouse paperwork every stock movement goes through: ExportLog    *)
(* and ImportLog rows.  A table is the set of its committed rows.  A row   *)
(* carries the number at the end of its referenceCode, the order it was    *)
(* written for, its warehouse, and the units of each SKU on its items.     *)
(*                                                                         *)
(* The date in a reference code is left out: every behaviour of these      *)
(* modules happens within one day, the scope in which the codes are        *)
(* numbered.                                                               *)
(***************************************************************************)
EXTENDS Integers, FiniteSets

CONSTANTS Orders,     \* Order.id
          Skus,       \* ProductSKU.id
          Whs,        \* Warehouse.id
          Qty,        \* Qty[o][s]: OrderItem.quantity of s in o, 0 = no item
          InitStock   \* quantity of each Stock row at the start

\* One Stock row per (skuId, warehouseId); a row may be missing.
Cells == Skus \X Whs

ASSUME QtyAssumption == Qty \in [Orders -> [Skus -> Nat]]
ASSUME InitStockAssumption ==
    /\ DOMAIN InitStock \subseteq Cells
    /\ InitStock \in [DOMAIN InitStock -> Int]

LogRow == [code: Nat \ {0}, order: Orders, wh: Whs, qty: [Skus -> Nat]]

Codes(table) == {row.code : row \in table}

\* referenceCode is unique in both tables: rows can be inserted only if no
\* committed row has one of their codes.
CanInsert(rows, table) == Codes(rows) \cap Codes(table) = {}

\* The skuWarehouseMapping of a request is a set of cells.
WarehousesOf(map) == {cell[2] : cell \in map}

\* The items of one warehouse's group: each mapped SKU moves the whole
\* quantity of its order item.
GroupQty(map, o, wh) ==
    [s \in Skus |-> IF <<s, wh>> \in map THEN Qty[o][s] ELSE 0]

\* The units one request's rows move at a cell.  A request writes at most one
\* row per warehouse.
OneRowPerWarehouse(rows) == \A r1, r2 \in rows : r1.wh = r2.wh => r1 = r2
Moved(rows, cell) ==
    IF \E row \in rows : row.wh = cell[2]
    THEN (CHOOSE row \in rows : row.wh = cell[2]).qty[cell[1]]
    ELSE 0
=============================================================================
