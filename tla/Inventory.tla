----------------------------- MODULE Inventory -----------------------------
(***************************************************************************)
(* The manual paperwork of a warehouse: ImportLogService.create,           *)
(* AdjustmentLogService.create and ExportLogService.create, beside the     *)
(* shipments and returns of the order handlers.                            *)
(*                                                                         *)
(* A shipment or a return is one step here: module Fulfillment takes it    *)
(* apart and shows that it posts its row and its movement at once.  The    *)
(* three handlers of this module are transactions under READ COMMITTED as  *)
(* there: what they read is a step, what they write comes with the commit, *)
(* and any of them can roll back before it.                                *)
(*                                                                         *)
(* One warehouse: a request names one, and all that requests for different *)
(* warehouses share is the numbering of the logs, which is the same here.  *)
(* Unit costs are fractions; the dates in codes are left out, a behaviour  *)
(* lies within one day.                                                    *)
(***************************************************************************)
EXTENDS Integers, Sequences, FiniteSets, FiniteSetsExt

CONSTANTS Workers,     \* handlers that can be in progress at once
          Skus,        \* ProductSKU.id
          InitStock,   \* the Stock rows at the start, [qty, cost] by SKU
          Imports,     \* items of the import requests: sequences of Item
          Adjustments, \* items of the adjustment requests, merged: the
                       \* quantityChange of each SKU named
          Units,       \* quantities of order items and manual exports
          MaxLogs      \* bound: rows in the three log tables together

Item == [sku: Skus, qty: Nat \ {0}, price: Nat]

ASSUME InventoryAssumption ==
    /\ DOMAIN InitStock \subseteq Skus
    /\ InitStock \in [DOMAIN InitStock -> [qty: Int, cost: Nat]]
    /\ Imports \subseteq Seq(Item)
    /\ \A change \in Adjustments :
          DOMAIN change \subseteq Skus /\ change \in [DOMAIN change -> Int]
    /\ Units \subseteq Nat \ {0}

VARIABLES
    stock,       \* Stock rows: quantity and unitCost, a fraction
    exportLogs,  \* ExportLog rows
    importLogs,  \* ImportLog rows, of type RETURN and of the other types
    adjustLogs,  \* AdjustmentLog rows
    overdrawn,   \* history: SKUs whose quantity has been below 0
    call         \* the transaction each worker has open

logs == <<exportLogs, importLogs, adjustLogs>>
vars == <<stock, logs, overdrawn, call>>

NoCall == [op |-> "idle"]

\* The fraction n / d in lowest terms, for d # 0.
Fraction(n, d) ==
    LET sign == IF d < 0 THEN -1 ELSE 1
        common == Max({k \in 1 .. sign * d : n % k = 0 /\ d % k = 0}) IN
    [num |-> (sign * n) \div common, den |-> (sign * d) \div common]
Whole(n) == [num |-> n, den |-> 1]

Init ==
    /\ stock = [s \in DOMAIN InitStock |->
                   [qty |-> InitStock[s].qty, cost |-> Whole(InitStock[s].cost)]]
    /\ exportLogs = {}
    /\ importLogs = {}
    /\ adjustLogs = {}
    /\ overdrawn = {s \in DOMAIN InitStock : InitStock[s].qty < 0}
    /\ call = [w \in Workers |-> NoCall]

-----------------------------------------------------------------------------
(* What the handlers share *)

Codes(table) == {row.code : row \in table}
Room == Cardinality(exportLogs) + Cardinality(importLogs)
            + Cardinality(adjustLogs) < MaxLogs

\* Mutants: each table numbered by the count of another one.
NextImportByExports == Cardinality(exportLogs) + 1
NextAdjustmentByItself == Cardinality(adjustLogs) + 1

\* countToday + 1.  Adjustments and returns count the export logs.
NextImport == Cardinality(importLogs) + 1
NextAdjustment == Cardinality(exportLogs) + 1

\* The table of stock rows changes to rows.
Store(rows) ==
    /\ stock' = rows
    /\ overdrawn' = overdrawn \cup {s \in DOMAIN rows : rows[s].qty < 0}

Free(w) == call[w] = NoCall
Begin(w, record) == Free(w) /\ Room /\ call' = [call EXCEPT ![w] = record]
Done(w) == call' = [call EXCEPT ![w] = NoCall]

\* A rollback, for whatever reason.
Abort(w) == ~Free(w) /\ Done(w) /\ UNCHANGED <<stock, logs, overdrawn>>

-----------------------------------------------------------------------------
(* The order handlers: a shipment checks that the row holds something; the *)
(* number of a return is one more than a count of the export logs that may *)
(* be old by now.                                                          *)

Only(s, n) == [t \in Skus |-> IF t = s THEN n ELSE 0]

Ship(s, n) ==
    /\ Room
    /\ s \in DOMAIN stock
    /\ stock[s].qty > 0
    /\ exportLogs' = exportLogs \cup
           {[code |-> Cardinality(exportLogs) + 1, qty |-> Only(s, n)]}
    /\ Store([stock EXCEPT ![s].qty = @ - n])
    /\ UNCHANGED <<importLogs, adjustLogs, call>>

Return(s, n) ==
    /\ Room
    /\ s \in DOMAIN stock
    /\ stock[s].qty > 0
    /\ \E code \in 1 .. Cardinality(exportLogs) + 1 :
          /\ code \notin Codes(importLogs)
          /\ importLogs' = importLogs \cup
                 {[code |-> code, type |-> "RETURN", qty |-> Only(s, n)]}
    /\ Store([stock EXCEPT ![s].qty = @ + n])
    /\ UNCHANGED <<exportLogs, adjustLogs, call>>

-----------------------------------------------------------------------------
(* ImportLogService.create: number the log, then for every item, merged or *)
(* not, read the stock row and average its cost; a row that is missing is  *)
(* created.                                                                *)

\* Mutant: the merge keeps the last quantity of a SKU instead of the sum.
LogQtyLatest(items) ==
    [s \in Skus |-> IF \E i \in DOMAIN items : items[i].sku = s
                    THEN items[Max({i \in DOMAIN items : items[i].sku = s})].qty
                    ELSE 0]

\* The items of the log: those of one SKU are merged.
LogQty(items) ==
    [s \in Skus |-> SumFunctionOnSet([i \in DOMAIN items |-> items[i].qty],
                                     {i \in DOMAIN items : items[i].sku = s})]

\* done: what the transaction has done to each SKU's row so far.
BeginImport(w, items) ==
    /\ Begin(w, [op |-> "import", code |-> NextImport, items |-> items,
                 next |-> 1, done |-> << >>])
    /\ UNCHANGED <<stock, logs, overdrawn>>

\* Mutant: the quantity is read after the increment.
AverageAfter(qty, cost, item) ==
    Fraction((qty + item.qty) * cost.num + item.qty * item.price * cost.den,
             (qty + item.qty) * cost.den)

\* The weighted average of the row's cost and the item's price.
Average(qty, cost, item) ==
    Fraction(qty * cost.num + item.qty * item.price * cost.den,
             (qty + item.qty) * cost.den)

\* One turn of the loop.  The row is read without a lock, its own changes
\* included.  A division by 0 gives a cost that cannot be stored: the handler
\* fails.  A row to be created costs the price, as the average with no units.
ImportItem(w) ==
    LET item == call[w].items[call[w].next]
        s == item.sku
        done == call[w].done
        before == IF s \in DOMAIN done THEN done[s]
                  ELSE [added |-> 0, fresh |-> s \notin DOMAIN stock,
                        cost |-> IF s \in DOMAIN stock THEN stock[s].cost
                                 ELSE Whole(0)]
        qty == before.added
                 + IF s \in DOMAIN stock THEN stock[s].qty ELSE 0
        after == [before EXCEPT !.added = @ + item.qty,
                                !.cost = Average(qty, before.cost, item)] IN
    /\ call[w].op = "import"
    /\ call[w].next \in DOMAIN call[w].items
    /\ qty + item.qty # 0
    /\ call' = [call EXCEPT
           ![w].next = @ + 1,
           ![w].done = [t \in DOMAIN done \cup {s} |->
                           IF t = s THEN after ELSE done[t]]]
    /\ UNCHANGED <<stock, logs, overdrawn>>

\* The quantity is incremented in place, the cost overwritten.
Imported(done) ==
    [s \in DOMAIN stock \cup DOMAIN done |->
        IF s \notin DOMAIN done THEN stock[s]
        ELSE [qty |-> done[s].added
                        + IF s \in DOMAIN stock THEN stock[s].qty ELSE 0,
              cost |-> done[s].cost]]

\* Both the code and the (skuId, warehouseId) of a new row are unique.
CommitImport(w) ==
    LET done == call[w].done IN
    /\ call[w].op = "import"
    /\ call[w].next > Len(call[w].items)
    /\ Room
    /\ call[w].code \notin Codes(importLogs)
    /\ \A s \in DOMAIN done : done[s].fresh => s \notin DOMAIN stock
    /\ importLogs' = importLogs \cup
           {[code |-> call[w].code, type |-> "MANUAL",
             qty |-> LogQty(call[w].items)]}
    /\ Store(Imported(done))
    /\ Done(w)
    /\ UNCHANGED <<exportLogs, adjustLogs>>

-----------------------------------------------------------------------------
(* AdjustmentLogService.create and ExportLogService.create *)

BeginAdjustment(w, change) ==
    /\ Begin(w, [op |-> "adjust", code |-> NextAdjustment, change |-> change])
    /\ UNCHANGED <<stock, logs, overdrawn>>

\* The quantity becomes the quantityChange of the request; a row must exist.
CommitAdjustment(w) ==
    LET change == call[w].change IN
    /\ call[w].op = "adjust"
    /\ Room
    /\ call[w].code \notin Codes(adjustLogs)
    /\ DOMAIN change \subseteq DOMAIN stock
    /\ adjustLogs' = adjustLogs \cup {[code |-> call[w].code, change |-> change]}
    /\ Store([s \in DOMAIN stock |->
                 IF s \in DOMAIN change THEN [stock[s] EXCEPT !.qty = change[s]]
                 ELSE stock[s]])
    /\ Done(w)
    /\ UNCHANGED <<exportLogs, importLogs>>

\* A manual export is checked and numbered, and then fails: it names a column
\* costPrice that ExportLogItem does not have.  Abort is its only next step.
BeginExport(w, s, n) ==
    /\ s \in DOMAIN stock
    /\ stock[s].qty >= n
    /\ Begin(w, [op |-> "export"])
    /\ UNCHANGED <<stock, logs, overdrawn>>

-----------------------------------------------------------------------------
OrderHandler == \E s \in Skus, n \in Units : Ship(s, n) \/ Return(s, n)

ImportHandler(w) ==
    \/ \E items \in Imports : BeginImport(w, items)
    \/ ImportItem(w)
    \/ CommitImport(w)

AdjustmentHandler(w) ==
    \/ \E change \in Adjustments : BeginAdjustment(w, change)
    \/ CommitAdjustment(w)

Next ==
    \/ OrderHandler
    \/ \E w \in Workers :
          \/ ImportHandler(w)
          \/ AdjustmentHandler(w)
          \/ \E s \in Skus, n \in Units : BeginExport(w, s, n)
          \/ Abort(w)

Spec == Init /\ [][Next]_vars

-----------------------------------------------------------------------------
(* Properties *)

\* A manual import is numbered by the count of the import logs, and a manual
\* code never exceeds it: only a return, numbered by the other table, can
\* hold the next code and make every manual import fail.
ImportsBlockedOnlyByReturns ==
    \A row \in importLogs :
        row.type = "MANUAL" => row.code \in 1 .. Cardinality(importLogs)

\* An adjustment is numbered by the count of the EXPORT logs: between two
\* shipments at most one adjustment can be written.
AdjustmentsWaitForExports ==
    /\ Codes(adjustLogs) \subseteq 1 .. Cardinality(exportLogs) + 1
    /\ Cardinality(adjustLogs) <= Cardinality(exportLogs) + 1

\* The units of a SKU a table has moved.
Total(table, s) == SumFunction([row \in table |-> row.qty[s]])
InitQty(s) == IF s \in DOMAIN InitStock THEN InitStock[s].qty ELSE 0

\* The quantity of a SKU is what the logs say, whatever handlers read while
\* others wrote, unless an adjustment has overwritten it.
QuantityFollowsPaperwork ==
    \A s \in DOMAIN stock :
        \/ \E row \in adjustLogs : s \in DOMAIN row.change
        \/ stock[s].qty = InitQty(s) + Total(importLogs, s) - Total(exportLogs, s)

Prices ==
    {InitStock[s].cost : s \in DOMAIN InitStock} \cup
        UNION {{items[i].price : i \in DOMAIN items} : items \in Imports}

\* Averages of stale rows included, a unit cost lies between the lowest and
\* the highest price the SKUs were ever bought at, as long as the quantity
\* that weights it was never below 0.
CostWithinPrices ==
    \A s \in DOMAIN stock \ overdrawn :
        LET cost == stock[s].cost IN
        /\ \E p \in Prices : p * cost.den <= cost.num
        /\ \E p \in Prices : cost.num <= p * cost.den
=============================================================================
