---------------------------- MODULE Fulfillment ----------------------------
(***************************************************************************)
(* An order from checkout to delivery, cancellation or return: the         *)
(* handlers of OrderService and OrderReturnRequestService that change the  *)
(* order, its status history, its return request, the stock, the export    *)
(* and import logs and the outbox.                                         *)
(*                                                                         *)
(* Every handler runs in one PostgreSQL transaction under READ COMMITTED,  *)
(* and workers run handlers concurrently.  Statements that read and decide *)
(* are steps of their own: other transactions commit between them.  The    *)
(* writes of a transaction become visible together when it commits, and    *)
(* the row locks it holds from each write to the commit keep any other     *)
(* writer out in between, so they are one step.  A handler that reads      *)
(* nothing it decides on is one step in all.                               *)
(*                                                                         *)
(* A request refused before it writes anything changes nothing, and is no  *)
(* step; a transaction can roll back at any point (a guard that fails      *)
(* later on, a unique violation, a deadlock, the 20 s timeout, a lost      *)
(* connection, a crash of the server) and leaves nothing behind either.    *)
(*                                                                         *)
(* Waiting for a lock another transaction holds is left out: a handler may *)
(* go on here where PostgreSQL makes it wait, so the model has every       *)
(* behaviour of the program and some that the locks rule out.              *)
(***************************************************************************)
EXTENDS StockLogs, Sequences

CONSTANTS Workers,    \* handlers that can be in progress at once
          Mappings,   \* the skuWarehouseMappings the admins send
          MaxHistory  \* bound: OrderStatusHistory rows per order

ASSUME FulfillmentAssumption ==
    /\ Mappings \subseteq {map \in SUBSET Cells : map # {} /\ IsFiniteSet(map)}
    /\ IsFiniteSet(Workers)
    /\ MaxHistory \in Nat

OrderStatus == {"PENDING", "PROCESSING", "SHIPPED", "DELIVERED",
                "DELIVERY_FAILED", "CANCELED"}
ReturnStatus == {"AWAITING_APPROVAL", "APPROVED", "REJECTED", "COMPLETED",
                 "CANCELED"}
NoOrder == "NONE"
NoWh == "NONE"

VARIABLES
    status,     \* Order.status, NoOrder before the order is created
    completed,  \* Order.completedAt is set
    history,    \* OrderStatusHistory rows of each order, oldest first
    itemWh,     \* OrderItem.warehouseId, NoWh while it is null
    returns,    \* the OrderReturnRequest of each order (orderId is unique)
    stock,      \* Stock.quantity of the rows that exist
    exportLogs, \* ExportLog rows of type CUSTOMER_ORDER
    importLogs, \* ImportLog rows of type RETURN
    outbox,     \* Outbox rows, oldest first
    call        \* the transaction each worker has open

orderVars == <<status, completed, history, itemWh>>
bookVars == <<stock, exportLogs, importLogs>>
vars == <<orderVars, returns, bookVars, outbox, call>>

HistoryRow == [old: OrderStatus, new: OrderStatus]

\* approved: approvedById is set; closed: completedAt is set
ReturnRow == [type: {"CANCEL", "DELIVERY_FAIL"}, status: ReturnStatus,
              approved: BOOLEAN, closed: BOOLEAN]
NoReturn == [type |-> "NONE", status |-> "NONE",
             approved |-> FALSE, closed |-> FALSE]

Event == [type: {"ORDER_CREATED", "RETURN_REQUEST_CREATED"}, order: Orders]

\* updateStatus: what it read of the order, and where the order is to go.
StatusCall == [op: {"updateStatus"}, order: Orders, old: OrderStatus,
               new: OrderStatus, stamp: BOOLEAN]

\* confirmShipment and completeReturnRequest: the mapping, the cells whose
\* stock is still to be checked, and the log rows inserted so far.
StockCall == [op: {"confirm", "complete"}, order: Orders, map: SUBSET Cells,
              todo: SUBSET Cells, drafts: SUBSET LogRow]
NoCall == [op |-> "idle"]

Init ==
    /\ status = [o \in Orders |-> NoOrder]
    /\ completed = [o \in Orders |-> FALSE]
    /\ history = [o \in Orders |-> <<>>]
    /\ itemWh = [o \in Orders |-> [s \in Skus |-> NoWh]]
    /\ returns = [o \in Orders |-> NoReturn]
    /\ stock = InitStock
    /\ exportLogs = {}
    /\ importLogs = {}
    /\ outbox = <<>>
    /\ call = [w \in Workers |-> NoCall]

-----------------------------------------------------------------------------
(* What the handlers share *)

Free(w) == call[w] = NoCall
Exists(o) == status[o] # NoOrder

\* A client sends the status it last saw the order in.
Seen(o) == {"PENDING"} \cup {history[o][i].new : i \in DOMAIN history[o]}

\* Mutant: a canceled order can be reopened.
AllowedReopen(old, new) ==
    \/ old = "PENDING" /\ new \in {"PROCESSING", "CANCELED"}
    \/ old = "CANCELED" /\ new = "PENDING"

\* ALLOWED_STATUS_TRANSITIONS
Allowed(old, new) ==
    \/ old = "PENDING" /\ new \in {"PROCESSING", "CANCELED"}
    \/ old = "PROCESSING" /\ new \in {"SHIPPED", "DELIVERED", "CANCELED"}
    \/ old = "SHIPPED" /\ new \in {"DELIVERED", "DELIVERY_FAILED"}
    \/ old = "DELIVERY_FAILED" /\ new = "CANCELED"

\* Mutant: the two statuses of the row are swapped.
MoveToSwapped(o, old, new) ==
    /\ Len(history[o]) < MaxHistory
    /\ status' = [status EXCEPT ![o] = new]
    /\ history' = [history EXCEPT ![o] = Append(@, [old |-> new, new |-> old])]

\* order.update of the status, and the orderStatusHistory row
MoveTo(o, old, new) ==
    /\ Len(history[o]) < MaxHistory
    /\ status' = [status EXCEPT ![o] = new]
    /\ history' = [history EXCEPT ![o] = Append(@, [old |-> old, new |-> new])]

NewReturn(type) == [type |-> type, status |-> "AWAITING_APPROVAL",
                    approved |-> FALSE, closed |-> FALSE]

\* Mutant: an upsert in place of the create.
OpenReturnUpsert(o, type) == returns' = [returns EXCEPT ![o] = NewReturn(type)]

\* orderReturnRequest.create: orderId is unique
OpenReturn(o, type) ==
    /\ returns[o] = NoReturn
    /\ returns' = [returns EXCEPT ![o] = NewReturn(type)]

\* orderReturnRequest.update
SetReturn(o, new, approved, closed) ==
    returns' = [returns EXCEPT ![o] =
        [type |-> returns[o].type, status |-> new,
         approved |-> approved, closed |-> closed]]

Emit(type, o) == outbox' = Append(outbox, [type |-> type, order |-> o])

\* The transaction of w rolls back.
Abort(w) ==
    /\ ~Free(w)
    /\ call' = [call EXCEPT ![w] = NoCall]
    /\ UNCHANGED <<orderVars, returns, bookVars, outbox>>

-----------------------------------------------------------------------------
(* OrderService.create: the order, its items and its event.  The caller    *)
(* may send a completedAt of its own.                                      *)

CreateOrder(o, prefilled) ==
    /\ \E w \in Workers : Free(w)
    /\ ~Exists(o)
    /\ status' = [status EXCEPT ![o] = "PENDING"]
    /\ completed' = [completed EXCEPT ![o] = prefilled]
    /\ Emit("ORDER_CREATED", o)
    /\ UNCHANGED <<history, itemWh, returns, bookVars, call>>

-----------------------------------------------------------------------------
(* OrderService.updateStatus: reads the order, checks the client's         *)
(* oldStatus and the transition table against what it read, then writes.   *)

\* Mutant: the completedAt check inverted.
NeedsStampInverted(o, new) == new = "DELIVERED" /\ completed[o]

NeedsStamp(o, new) == new = "DELIVERED" /\ ~completed[o]

ReadStatus(w, o, old, new) ==
    /\ Free(w)
    /\ Exists(o)
    /\ status[o] = old
    /\ new # old
    /\ Allowed(old, new)
    /\ call' = [call EXCEPT ![w] =
           [op |-> "updateStatus", order |-> o, old |-> old, new |-> new,
            stamp |-> NeedsStamp(o, new)]]
    /\ UNCHANGED <<orderVars, returns, bookVars, outbox>>

CommitStatus(w) ==
    /\ call[w].op = "updateStatus"
    /\ MoveTo(call[w].order, call[w].old, call[w].new)
    /\ completed' = [completed EXCEPT ![call[w].order] = @ \/ call[w].stamp]
    /\ call' = [call EXCEPT ![w] = NoCall]
    /\ UNCHANGED <<itemWh, returns, bookVars, outbox>>

-----------------------------------------------------------------------------
(* OrderService.cancelOrder and updateDeliveryFailed: no check of the      *)
(* order's status; the client's oldStatus goes into the history and        *)
(* decides whether a cancellation opens a return request.                  *)

CancelOrder(o, old) ==
    /\ \E w \in Workers : Free(w)
    /\ Exists(o)
    /\ MoveTo(o, old, "CANCELED")
    /\ \/ /\ old \in {"PENDING", "DELIVERY_FAILED"}
          /\ UNCHANGED <<returns, outbox>>
       \/ /\ old \notin {"PENDING", "DELIVERY_FAILED"}
          /\ OpenReturn(o, "CANCEL")
          /\ Emit("RETURN_REQUEST_CREATED", o)
    /\ UNCHANGED <<completed, itemWh, bookVars, call>>

FailDelivery(o, old) ==
    /\ \E w \in Workers : Free(w)
    /\ Exists(o)
    /\ MoveTo(o, old, "DELIVERY_FAILED")
    /\ OpenReturn(o, "DELIVERY_FAIL")
    /\ UNCHANGED <<completed, itemWh, bookVars, outbox, call>>

-----------------------------------------------------------------------------
(* OrderReturnRequestService.updateStatus: any status, from any status.    *)

\* Mutant: COMPLETED stamps completedAt here too.
UpdateReturnCloses(o, new) ==
    /\ returns[o] # NoReturn
    /\ SetReturn(o, new, new \in {"APPROVED", "REJECTED"}, new = "COMPLETED")
    /\ UNCHANGED <<orderVars, bookVars, outbox, call>>

UpdateReturn(o, new) ==
    /\ \E w \in Workers : Free(w)
    /\ returns[o] # NoReturn
    /\ SetReturn(o, new, new \in {"APPROVED", "REJECTED"}, returns[o].closed)
    /\ UNCHANGED <<orderVars, bookVars, outbox, call>>

-----------------------------------------------------------------------------
(* OrderService.confirmShipment and                                        *)
(* OrderReturnRequestService.completeReturnRequest: read the order or the  *)
(* return request, check each mapped cell, insert one log row per          *)
(* warehouse, and commit.  The mapping is a set, taken in any order: the   *)
(* order is the caller's.                                                  *)

Open(w, op, o, map) ==
    /\ Free(w)
    /\ call' = [call EXCEPT ![w] =
           [op |-> op, order |-> o, map |-> map, todo |-> map, drafts |-> {}]]
    /\ UNCHANGED <<orderVars, returns, bookVars, outbox>>

\* Mutant: any order that is not canceled can be confirmed.
ReadUncanceledOrder(w, o, map) ==
    status[o] \notin {NoOrder, "CANCELED"} /\ Open(w, "confirm", o, map)

ReadPendingOrder(w, o, map) == status[o] = "PENDING" /\ Open(w, "confirm", o, map)
ReadReturn(w, o, map) == returns[o] # NoReturn /\ Open(w, "complete", o, map)

IsStockCall(w) == call[w].op \in {"confirm", "complete"}

\* The Stock row must exist and hold something: its quantity is compared with
\* 0, whatever the item needs.
HasStock(cell) == cell \in DOMAIN stock /\ stock[cell] > 0

\* The order must have an item of the SKU too.
CheckStock(w, cell) ==
    /\ IsStockCall(w)
    /\ cell \in call[w].todo
    /\ HasStock(cell)
    /\ Qty[call[w].order][cell[1]] > 0
    /\ call' = [call EXCEPT ![w].todo = @ \ {cell}]
    /\ UNCHANGED <<orderVars, returns, bookVars, outbox>>

\* A warehouse whose log row is still to be inserted.
Undrafted(w) == WarehousesOf(call[w].map) \ {row.wh : row \in call[w].drafts}

\* Mutants: the number is the count itself; both tables are counted.
CodeNotAdvanced(counted) == counted
CountBothTables(w) == Cardinality(exportLogs) + Cardinality(importLogs)

\* The code is one more than the export logs counted.  A shipment's count
\* includes the rows its transaction inserted; a return counts the export logs
\* as well, and none of its own rows is one.
NextCode(counted) == counted + 1
CountForExport(w) == Cardinality(exportLogs) + Cardinality(call[w].drafts)
CountForImport(w) == Cardinality(exportLogs)

\* Inserts wh's row into the table.
Draft(w, wh, table, counted) ==
    LET row == [code |-> NextCode(counted), order |-> call[w].order, wh |-> wh,
                qty |-> GroupQty(call[w].map, call[w].order, wh)] IN
    /\ call[w].todo = {}
    /\ wh \in Undrafted(w)
    /\ row.code \notin Codes(table) \cup Codes(call[w].drafts)
    /\ call' = [call EXCEPT ![w].drafts = @ \cup {row}]
    /\ UNCHANGED <<orderVars, returns, bookVars, outbox>>

DraftExport(w, wh) ==
    /\ call[w].op = "confirm"
    /\ Draft(w, wh, exportLogs, CountForExport(w))

DraftImport(w, wh) ==
    /\ call[w].op = "complete"
    /\ Draft(w, wh, importLogs, CountForImport(w))

ReadyToCommit(w) == call[w].todo = {} /\ Undrafted(w) = {}

\* Mutant: one unit per mapped cell.
UnitsOfCells(w, cell) == IF cell \in call[w].map THEN 1 ELSE 0

\* The units the request moves at a cell.
Units(w, cell) ==
    IF cell \in call[w].map THEN Qty[call[w].order][cell[1]] ELSE 0

\* OrderItem.warehouseId of the mapped SKUs: the last mapping of a SKU wins.
RecordWarehouses(o, map) ==
    \E last \in [Skus -> Whs \cup {NoWh}] :
        /\ \A s \in Skus :
              IF \E wh \in Whs : <<s, wh>> \in map
              THEN last[s] \in Whs /\ <<s, last[s]>> \in map
              ELSE last[s] = itemWh[o][s]
        /\ itemWh' = [itemWh EXCEPT ![o] = last]

CommitShipment(w) ==
    LET o == call[w].order
        rows == call[w].drafts IN
    /\ call[w].op = "confirm"
    /\ ReadyToCommit(w)
    /\ CanInsert(rows, exportLogs)
    /\ exportLogs' = exportLogs \cup rows
    /\ stock' = [c \in DOMAIN stock |-> stock[c] - Units(w, c)]
    /\ RecordWarehouses(o, call[w].map)
    /\ MoveTo(o, "PENDING", "PROCESSING")
    /\ call' = [call EXCEPT ![w] = NoCall]
    /\ UNCHANGED <<completed, returns, importLogs, outbox>>

CommitReturn(w) ==
    LET o == call[w].order
        rows == call[w].drafts IN
    /\ call[w].op = "complete"
    /\ ReadyToCommit(w)
    /\ CanInsert(rows, importLogs)
    /\ importLogs' = importLogs \cup rows
    /\ stock' = [c \in DOMAIN stock |-> stock[c] + Units(w, c)]
    /\ SetReturn(o, "COMPLETED", TRUE, TRUE)
    /\ call' = [call EXCEPT ![w] = NoCall]
    /\ UNCHANGED <<orderVars, exportLogs, outbox>>

-----------------------------------------------------------------------------
AtOnce(o) ==
    \/ \E prefilled \in BOOLEAN : CreateOrder(o, prefilled)
    \/ \E old \in Seen(o) : CancelOrder(o, old)
    \/ \E old \in Seen(o) : FailDelivery(o, old)
    \/ \E new \in ReturnStatus : UpdateReturn(o, new)

Begin(w, o) ==
    \/ \E old, new \in OrderStatus : ReadStatus(w, o, old, new)
    \/ \E map \in Mappings : ReadPendingOrder(w, o, map)
    \/ \E map \in Mappings : ReadReturn(w, o, map)

Continue(w) ==
    \/ CommitStatus(w)
    \/ \E cell \in Cells : CheckStock(w, cell)
    \/ \E wh \in Whs : DraftExport(w, wh)
    \/ \E wh \in Whs : DraftImport(w, wh)
    \/ CommitShipment(w)
    \/ CommitReturn(w)
    \/ Abort(w)

Next ==
    \/ \E o \in Orders : AtOnce(o)
    \/ \E w \in Workers, o \in Orders : Begin(w, o)
    \/ \E w \in Workers : Continue(w)

Spec == Init /\ [][Next]_vars

-----------------------------------------------------------------------------
(* Properties *)

TypeOK ==
    /\ status \in [Orders -> OrderStatus \cup {NoOrder}]
    /\ completed \in [Orders -> BOOLEAN]
    /\ history \in [Orders -> Seq(HistoryRow)]
    /\ itemWh \in [Orders -> [Skus -> Whs \cup {NoWh}]]
    /\ returns \in [Orders -> ReturnRow \cup {NoReturn}]
    /\ stock \in [DOMAIN InitStock -> Int]
    /\ exportLogs \in SUBSET LogRow /\ IsFiniteSet(exportLogs)
    /\ importLogs \in SUBSET LogRow /\ IsFiniteSet(importLogs)
    /\ outbox \in Seq(Event)
    /\ call \in [Workers -> StatusCall \cup StockCall \cup {NoCall}]

\* The history tells the order's status: the newest row's newStatus, PENDING
\* for an order without rows.  Every handler writes the two together,
\* whatever runs beside it.
HistoryTellsStatus ==
    \A o \in Orders : Exists(o) =>
        status[o] = IF history[o] = <<>> THEN "PENDING"
                    ELSE history[o][Len(history[o])].new

\* A DELIVERED order has a completedAt, which the statistics of
\* StatisticService read without a check.
DeliveredHasCompletion ==
    \A o \in Orders : status[o] = "DELIVERED" => completed[o]

\* The export codes of the day have no gap, although they are numbered from a
\* count other transactions make stale: the n-th log to commit has code n.
ExportCodesDense == Codes(exportLogs) = 1 .. Cardinality(exportLogs)

\* A return's code comes from the count of EXPORT logs, so between two
\* shipments at most one return log can be written: there are never more
\* return logs than shipments plus one.
ReturnsWaitForExports ==
    /\ Codes(importLogs) \subseteq 1 .. Cardinality(exportLogs) + 1
    /\ Cardinality(importLogs) <= Cardinality(exportLogs) + 1

EventsOf(type, o) ==
    {i \in DOMAIN outbox : outbox[i] = [type |-> type, order |-> o]}

\* The outbox has exactly one event for each order and each requested
\* cancellation that committed, and none for one that did not.
AnnouncedOnce ==
    \A o \in Orders :
        /\ Cardinality(EventsOf("ORDER_CREATED", o)) = IF Exists(o) THEN 1 ELSE 0
        /\ Cardinality(EventsOf("RETURN_REQUEST_CREATED", o))
               = IF returns[o].type = "CANCEL" THEN 1 ELSE 0

\* A return request has a completedAt exactly if goods came back for its
\* order: no other update of the request sets or clears it.
ClosedMeansRestocked ==
    \A o \in Orders :
        returns[o].closed <=> \E row \in importLogs : row.order = o

ShipmentsFrom(o, wh) == {row \in exportLogs : row.order = o /\ row.wh = wh}

\* Concurrent confirmations that all read PENDING can ship an order more than
\* once, but never more often than handlers run at once: after the first of
\* them commits no other gets past its check.
ShipmentsBoundedByWorkers ==
    \A o \in Orders, wh \in Whs :
        Cardinality(ShipmentsFrom(o, wh)) <= Cardinality(Workers)

\* No handler and no race of handlers takes an order back to PENDING, where
\* its goods could be shipped anew.
NeverPendingAgain ==
    [][\A o \in Orders :
          Exists(o) /\ status[o] # "PENDING" => status'[o] # "PENDING"]_vars

\* Every step is one posting of the stock book, or leaves the book alone: the
\* steps, aborts and races of the handlers never show in it.
Book == INSTANCE StockBook
RefinesStockBook == Book!BookSpec

(* What a message of the code says and the program does not do *)

\* "Order status is outdated": a handler that checks the order's status moves
\* it along the table of allowed transitions, from the status the order really
\* has.
ChecksHold ==
    [][\A w \in Workers, o \in Orders :
          ~Free(w) /\ call'[w] = NoCall /\ status'[o] # status[o]
              => Allowed(status[o], status'[o])]_vars
=============================================================================
