------------------------- MODULE FulfillmentProofs -------------------------
(***************************************************************************)
(* Theorems about Fulfillment, for every set of orders, SKUs, warehouses,  *)
(* workers and mappings.                                                   *)
(*                                                                         *)
(* Three parts: the types; the status, the history and the events of an    *)
(* order; the stock, its paperwork, the reference codes and what shipments *)
(* and returns add up to.                                                  *)
(***************************************************************************)
EXTENDS Fulfillment, FiniteSetTheorems, SequenceTheorems, TLAPS

-----------------------------------------------------------------------------
(* Type correctness *)

\* TypeOK is not inductive alone: the codes are numbered from the cardinality
\* of the drafts, which must be finite.
DraftsFinite ==
    \A w \in Workers : IsStockCall(w) => IsFiniteSet(call[w].drafts)

Typed == TypeOK /\ DraftsFinite

\* A return being completed has a row: return requests are never deleted.
CompletesReturn ==
    \A w \in Workers : call[w].op = "complete" => returns[call[w].order] # NoReturn

\* A cell's call type is told by its op.
LEMMA CallTypes ==
    ASSUME TypeOK, NEW w \in Workers
    PROVE  /\ call[w].op = "updateStatus" => call[w] \in StatusCall
           /\ IsStockCall(w) => call[w] \in StockCall
           /\ call[w].op = "confirm" => IsStockCall(w)
           /\ call[w].op = "complete" => IsStockCall(w)
BY DEF TypeOK, StatusCall, StockCall, NoCall, IsStockCall

\* Moving an order keeps the types of its status and its history.
LEMMA MoveToTyped ==
    ASSUME TypeOK, NEW o \in Orders,
           NEW old \in OrderStatus, NEW new \in OrderStatus,
           MoveTo(o, old, new)
    PROVE  /\ status' \in [Orders -> OrderStatus \cup {NoOrder}]
           /\ history' \in [Orders -> Seq(HistoryRow)]
<1> DEFINE row == [old |-> old, new |-> new]
<1>1. row \in HistoryRow
  BY DEF HistoryRow
<1>2. history[o] \in Seq(HistoryRow)
  BY DEF TypeOK
<1>3. Append(history[o], row) \in Seq(HistoryRow)
  BY <1>1, <1>2, AppendProperties
<1> QED
  BY <1>3 DEF MoveTo, TypeOK

LEMMA OpenReturnTyped ==
    ASSUME TypeOK, NEW o \in Orders,
           NEW type \in {"CANCEL", "DELIVERY_FAIL"}, OpenReturn(o, type)
    PROVE  returns' \in [Orders -> ReturnRow \cup {NoReturn}]
<1>1. NewReturn(type) \in ReturnRow
  BY DEF NewReturn, ReturnRow, ReturnStatus
<1> QED
  BY <1>1 DEF OpenReturn, TypeOK

LEMMA SetReturnTyped ==
    ASSUME TypeOK, NEW o \in Orders, returns[o] \in ReturnRow,
           NEW new \in ReturnStatus, NEW approved \in BOOLEAN,
           NEW closed \in BOOLEAN, SetReturn(o, new, approved, closed)
    PROVE  returns' \in [Orders -> ReturnRow \cup {NoReturn}]
<1>1. [type |-> returns[o].type, status |-> new,
       approved |-> approved, closed |-> closed] \in ReturnRow
  BY DEF ReturnRow
<1> QED
  BY <1>1 DEF SetReturn, TypeOK

LEMMA EmitTyped ==
    ASSUME TypeOK, NEW o \in Orders,
           NEW type \in {"ORDER_CREATED", "RETURN_REQUEST_CREATED"}, Emit(type, o)
    PROVE  outbox' \in Seq(Event)
<1>1. [type |-> type, order |-> o] \in Event
  BY DEF Event
<1> QED
  BY <1>1, AppendProperties DEF Emit, TypeOK

\* The statuses a client can have seen are order statuses.
LEMMA SeenTyped ==
    ASSUME TypeOK, NEW o \in Orders
    PROVE  Seen(o) \subseteq OrderStatus
<1>1. history[o] \in Seq(HistoryRow)
  BY DEF TypeOK
<1>2. ASSUME NEW i \in DOMAIN history[o]
      PROVE  history[o][i] \in HistoryRow
  BY <1>1, <1>2, ElementOfSeq
<1> QED
  BY <1>2 DEF Seen, OrderStatus, HistoryRow

LEMMA InitTyped == Init => Typed
<1> SUFFICES ASSUME Init PROVE Typed
  OBVIOUS
<1>1. IsFiniteSet({})
  BY FS_EmptySet
<1>2. TypeOK
  BY <1>1, InitStockAssumption
     DEF Init, TypeOK, NoCall, NoReturn, NoOrder, NoWh
<1>3. DraftsFinite
  BY DEF Init, DraftsFinite, IsStockCall, NoCall
<1> QED
  BY <1>2, <1>3 DEF Typed

\* The steps that open no transaction and close none: only the tables change.
LEMMA AtOnceTyped ==
    ASSUME Typed, NEW o \in Orders, AtOnce(o)
    PROVE  Typed'
<1> USE DEF Typed, orderVars, bookVars
<1>1. ASSUME NEW prefilled \in BOOLEAN, CreateOrder(o, prefilled)
      PROVE  Typed'
  <2>1. outbox' \in Seq(Event)
    BY <1>1, EmitTyped DEF CreateOrder
  <2> QED
    BY <1>1, <2>1
       DEF CreateOrder, TypeOK, DraftsFinite, IsStockCall, OrderStatus
<1>2. ASSUME NEW old \in Seen(o), CancelOrder(o, old)
      PROVE  Typed'
  <2>1. status' \in [Orders -> OrderStatus \cup {NoOrder}]
        /\ history' \in [Orders -> Seq(HistoryRow)]
    <3>1. old \in OrderStatus /\ "CANCELED" \in OrderStatus
      BY SeenTyped DEF OrderStatus
    <3> QED
      BY <1>2, <3>1, MoveToTyped DEF CancelOrder
  <2>2. /\ returns' \in [Orders -> ReturnRow \cup {NoReturn}]
        /\ outbox' \in Seq(Event)
    BY <1>2, OpenReturnTyped, EmitTyped DEF CancelOrder, TypeOK
  <2> QED
    BY <1>2, <2>1, <2>2 DEF CancelOrder, TypeOK, DraftsFinite, IsStockCall
<1>3. ASSUME NEW old \in Seen(o), FailDelivery(o, old)
      PROVE  Typed'
  <2>1. status' \in [Orders -> OrderStatus \cup {NoOrder}]
        /\ history' \in [Orders -> Seq(HistoryRow)]
    <3>1. old \in OrderStatus /\ "DELIVERY_FAILED" \in OrderStatus
      BY SeenTyped DEF OrderStatus
    <3> QED
      BY <1>3, <3>1, MoveToTyped DEF FailDelivery
  <2>2. returns' \in [Orders -> ReturnRow \cup {NoReturn}]
    BY <1>3, OpenReturnTyped DEF FailDelivery
  <2> QED
    BY <1>3, <2>1, <2>2 DEF FailDelivery, TypeOK, DraftsFinite, IsStockCall
<1>4. ASSUME NEW new \in ReturnStatus, UpdateReturn(o, new)
      PROVE  Typed'
  <2>1. returns[o] \in ReturnRow
    BY <1>4 DEF UpdateReturn, TypeOK
  <2>2. returns[o].closed \in BOOLEAN
    BY <2>1 DEF ReturnRow
  <2>3. returns' \in [Orders -> ReturnRow \cup {NoReturn}]
    <3> DEFINE approved == new \in {"APPROVED", "REJECTED"}
    <3>1. SetReturn(o, new, approved, returns[o].closed)
      BY <1>4 DEF UpdateReturn
    <3>2. approved \in BOOLEAN
      OBVIOUS
    <3> HIDE DEF approved
    <3> QED
      BY <2>1, <2>2, <3>1, <3>2, SetReturnTyped, Zenon
  <2> QED
    BY <1>4, <2>3 DEF UpdateReturn, TypeOK, DraftsFinite, IsStockCall
<1> QED
  BY <1>1, <1>2, <1>3, <1>4 DEF AtOnce

LEMMA BeginTyped ==
    ASSUME Typed, NEW w \in Workers, NEW o \in Orders, Begin(w, o)
    PROVE  Typed'
<1> USE DEF Typed, orderVars, bookVars
<1>1. ASSUME NEW old \in OrderStatus, NEW new \in OrderStatus,
             ReadStatus(w, o, old, new)
      PROVE  Typed'
  <2>1. [op |-> "updateStatus", order |-> o, old |-> old, new |-> new,
         stamp |-> NeedsStamp(o, new)] \in StatusCall
    BY DEF StatusCall, NeedsStamp
  <2>2. call' \in [Workers -> StatusCall \cup StockCall \cup {NoCall}]
    BY <1>1, <2>1 DEF ReadStatus, TypeOK
  <2>3. DraftsFinite'
    BY <1>1 DEF ReadStatus, DraftsFinite, IsStockCall, TypeOK
  <2> QED
    BY <1>1, <2>2, <2>3 DEF ReadStatus, TypeOK
<1>2. ASSUME NEW op \in {"confirm", "complete"}, NEW map \in Mappings,
             Open(w, op, o, map)
      PROVE  Typed'
  <2>1. [op |-> op, order |-> o, map |-> map, todo |-> map, drafts |-> {}]
            \in StockCall
    BY FulfillmentAssumption DEF StockCall
  <2>2. call' \in [Workers -> StatusCall \cup StockCall \cup {NoCall}]
    BY <1>2, <2>1 DEF Open, TypeOK
  <2>3. DraftsFinite'
    BY <1>2, FS_EmptySet DEF Open, DraftsFinite, IsStockCall, TypeOK
  <2> QED
    BY <1>2, <2>2, <2>3 DEF Open, TypeOK
<1> QED
  BY <1>1, <1>2 DEF Begin, ReadPendingOrder, ReadReturn

\* The units a request moves at a cell are a natural number.
LEMMA UnitsTyped ==
    ASSUME NEW w \in Workers, call[w] \in StockCall, NEW c \in Cells
    PROVE  Units(w, c) \in Nat
<1>1. c[1] \in Skus /\ call[w].order \in Orders
  BY DEF Cells, StockCall
<1> QED
  BY <1>1, QtyAssumption DEF Units

LEMMA GroupQtyTyped ==
    ASSUME NEW map, NEW o \in Orders, NEW wh
    PROVE  GroupQty(map, o, wh) \in [Skus -> Nat]
BY QtyAssumption DEF GroupQty

\* The number of rows a request counts.
LEMMA CountsTyped ==
    ASSUME Typed, NEW w \in Workers, IsStockCall(w)
    PROVE  CountForExport(w) \in Nat /\ CountForImport(w) \in Nat
<1>1. Cardinality(exportLogs) \in Nat
  BY FS_CardinalityType DEF Typed, TypeOK
<1>2. Cardinality(call[w].drafts) \in Nat
  BY FS_CardinalityType DEF Typed, DraftsFinite
<1> QED
  BY <1>1, <1>2 DEF CountForExport, CountForImport

\* Inserting a row keeps the drafts typed and finite.
LEMMA DraftTyped ==
    ASSUME Typed, NEW w \in Workers, IsStockCall(w), NEW wh \in Whs,
           NEW table, NEW counted \in Nat, Draft(w, wh, table, counted)
    PROVE  Typed'
<1> DEFINE row == [code |-> NextCode(counted), order |-> call[w].order,
                   wh |-> wh, qty |-> GroupQty(call[w].map, call[w].order, wh)]
           drafts == call[w].drafts \cup {row}
<1>1. call[w] \in StockCall
  BY CallTypes DEF Typed
<1>2. row \in LogRow
  <2>1. NextCode(counted) \in Nat \ {0}
    BY DEF NextCode
  <2>2. call[w].order \in Orders
    BY <1>1 DEF StockCall
  <2>3. GroupQty(call[w].map, call[w].order, wh) \in [Skus -> Nat]
    BY <2>2, GroupQtyTyped
  <2> QED
    BY <2>1, <2>2, <2>3 DEF LogRow
<1>3. IsFiniteSet(drafts)
  BY FS_AddElement DEF Typed, DraftsFinite
<1>4. call' = [call EXCEPT ![w].drafts = drafts]
  BY DEF Draft
<1>5. [call[w] EXCEPT !.drafts = drafts] \in StockCall
  BY <1>1, <1>2 DEF StockCall
<1> HIDE DEF drafts
<1>6. call' \in [Workers -> StatusCall \cup StockCall \cup {NoCall}]
  BY <1>4, <1>5 DEF Typed, TypeOK
<1>7. DraftsFinite'
  <2> SUFFICES ASSUME NEW v \in Workers, IsStockCall(v)'
               PROVE  IsFiniteSet(call'[v].drafts)
    BY DEF DraftsFinite
  <2>1. CASE v = w
    BY <1>1, <1>3, <1>4, <2>1 DEF Typed, TypeOK, StockCall
  <2>2. CASE v # w
    BY <1>4, <2>2 DEF Typed, TypeOK, DraftsFinite, IsStockCall
  <2> QED
    BY <2>1, <2>2
<1> QED
  BY <1>6, <1>7 DEF Draft, Typed, TypeOK, orderVars, bookVars

\* Ending the transaction of w.
LEMMA CloseTyped ==
    ASSUME Typed, NEW w \in Workers, call' = [call EXCEPT ![w] = NoCall]
    PROVE  /\ call' \in [Workers -> StatusCall \cup StockCall \cup {NoCall}]
           /\ DraftsFinite'
BY DEF Typed, TypeOK, DraftsFinite, IsStockCall, NoCall

LEMMA ContinueTyped ==
    ASSUME Typed, CompletesReturn, NEW w \in Workers, Continue(w)
    PROVE  Typed'
<1> USE DEF orderVars, bookVars
<1>0. TypeOK /\ DraftsFinite
  BY DEF Typed
<1>1. CASE CommitStatus(w)
  <2>1. call[w] \in StatusCall
    BY <1>0, <1>1, CallTypes DEF CommitStatus
  <2>2. /\ status' \in [Orders -> OrderStatus \cup {NoOrder}]
        /\ history' \in [Orders -> Seq(HistoryRow)]
    BY <1>0, <1>1, <2>1, MoveToTyped DEF CommitStatus, StatusCall
  <2>3. completed' \in [Orders -> BOOLEAN]
    BY <1>0, <1>1, <2>1 DEF CommitStatus, TypeOK, StatusCall
  <2> QED
    BY <1>0, <1>1, <2>2, <2>3, CloseTyped DEF CommitStatus, Typed, TypeOK
<1>2. ASSUME NEW cell \in Cells, CheckStock(w, cell)
      PROVE  Typed'
  <2>1. call[w] \in StockCall
    BY <1>0, <1>2, CallTypes DEF CheckStock
  <2>2. [call[w] EXCEPT !.todo = @ \ {cell}] \in StockCall
    BY <2>1 DEF StockCall
  <2>3. call' \in [Workers -> StatusCall \cup StockCall \cup {NoCall}]
    BY <1>0, <1>2, <2>2 DEF CheckStock, TypeOK
  <2>4. DraftsFinite'
    <3> SUFFICES ASSUME NEW v \in Workers, IsStockCall(v)'
                 PROVE  IsFiniteSet(call'[v].drafts)
      BY DEF DraftsFinite
    <3> QED
      BY <1>0, <1>2, <2>1
         DEF CheckStock, TypeOK, DraftsFinite, IsStockCall, StockCall
  <2> QED
    BY <1>0, <1>2, <2>3, <2>4 DEF CheckStock, Typed, TypeOK
<1>3. ASSUME NEW wh \in Whs, DraftExport(w, wh)
      PROVE  Typed'
  <2>1. IsStockCall(w)
    BY <1>3 DEF DraftExport, IsStockCall
  <2>2. CountForExport(w) \in Nat
    BY <2>1, CountsTyped
  <2> QED
    BY <1>3, <2>1, <2>2, DraftTyped DEF DraftExport
<1>4. ASSUME NEW wh \in Whs, DraftImport(w, wh)
      PROVE  Typed'
  <2>1. IsStockCall(w)
    BY <1>4 DEF DraftImport, IsStockCall
  <2>2. CountForImport(w) \in Nat
    BY <2>1, CountsTyped
  <2> QED
    BY <1>4, <2>1, <2>2, DraftTyped DEF DraftImport
<1>5. CASE CommitShipment(w)
  <2>1. call[w] \in StockCall
    BY <1>0, <1>5, CallTypes DEF CommitShipment
  <2>2. /\ status' \in [Orders -> OrderStatus \cup {NoOrder}]
        /\ history' \in [Orders -> Seq(HistoryRow)]
    <3>1. "PENDING" \in OrderStatus /\ "PROCESSING" \in OrderStatus
      BY DEF OrderStatus
    <3> QED
      BY <1>0, <1>5, <2>1, <3>1, MoveToTyped DEF CommitShipment, StockCall
  <2>3. stock' \in [DOMAIN InitStock -> Int]
    <3>1. \A c \in DOMAIN stock : Units(w, c) \in Nat
      BY <1>0, <2>1, UnitsTyped, InitStockAssumption DEF TypeOK
    <3> QED
      BY <1>0, <1>5, <3>1 DEF CommitShipment, TypeOK
  <2>4. exportLogs' \in SUBSET LogRow /\ IsFiniteSet(exportLogs')
    <3>1. call[w].drafts \in SUBSET LogRow /\ IsFiniteSet(call[w].drafts)
      BY <1>0, <1>5, <2>1 DEF CommitShipment, StockCall, DraftsFinite, IsStockCall
    <3> QED
      BY <1>0, <1>5, <3>1, FS_Union DEF CommitShipment, TypeOK
  <2>5. itemWh' \in [Orders -> [Skus -> Whs \cup {NoWh}]]
    BY <1>0, <1>5 DEF CommitShipment, RecordWarehouses, TypeOK
  <2> QED
    BY <1>0, <1>5, <2>2, <2>3, <2>4, <2>5, CloseTyped
       DEF CommitShipment, Typed, TypeOK
<1>6. CASE CommitReturn(w)
  <2>1. call[w] \in StockCall
    BY <1>0, <1>6, CallTypes DEF CommitReturn
  <2>2. stock' \in [DOMAIN InitStock -> Int]
    <3>1. \A c \in DOMAIN stock : Units(w, c) \in Nat
      BY <1>0, <2>1, UnitsTyped, InitStockAssumption DEF TypeOK
    <3> QED
      BY <1>0, <1>6, <3>1 DEF CommitReturn, TypeOK
  <2>3. importLogs' \in SUBSET LogRow /\ IsFiniteSet(importLogs')
    <3>1. call[w].drafts \in SUBSET LogRow /\ IsFiniteSet(call[w].drafts)
      BY <1>0, <1>6, <2>1 DEF CommitReturn, StockCall, DraftsFinite, IsStockCall
    <3> QED
      BY <1>0, <1>6, <3>1, FS_Union DEF CommitReturn, TypeOK
  <2>4. returns' \in [Orders -> ReturnRow \cup {NoReturn}]
    <3>1. call[w].order \in Orders /\ returns[call[w].order] \in ReturnRow
      BY <1>0, <1>6, <2>1 DEF CommitReturn, CompletesReturn, StockCall, TypeOK
    <3>2. "COMPLETED" \in ReturnStatus
      BY DEF ReturnStatus
    <3> QED
      BY <1>0, <1>6, <3>1, <3>2, SetReturnTyped DEF CommitReturn
  <2> QED
    BY <1>0, <1>6, <2>2, <2>3, <2>4, CloseTyped DEF CommitReturn, Typed, TypeOK
<1>7. CASE Abort(w)
  BY <1>0, <1>7, CloseTyped DEF Abort, Typed, TypeOK
<1> QED
  BY <1>1, <1>2, <1>3, <1>4, <1>5, <1>6, <1>7 DEF Continue

\* No step takes a return request away.
LEMMA ReturnsStay ==
    ASSUME Typed, [Next]_vars, NEW o \in Orders, returns[o] # NoReturn
    PROVE  returns'[o] # NoReturn
<1>0. TypeOK
  BY DEF Typed
<1>1. ASSUME NEW p \in Orders, NEW type \in {"CANCEL", "DELIVERY_FAIL"},
             OpenReturn(p, type)
      PROVE  returns'[o] # NoReturn
  BY <1>0, <1>1 DEF OpenReturn, TypeOK
<1>2. ASSUME NEW p \in Orders, NEW new \in ReturnStatus, NEW approved, NEW closed,
             SetReturn(p, new, approved, closed)
      PROVE  returns'[o] # NoReturn
  <2>1. [type |-> returns[p].type, status |-> new, approved |-> approved,
         closed |-> closed] # NoReturn
    BY DEF NoReturn, ReturnStatus
  <2> QED
    BY <1>0, <1>2, <2>1 DEF SetReturn, TypeOK
<1>3. ASSUME NEW p \in Orders, AtOnce(p)
      PROVE  returns'[o] # NoReturn
  <2>1. ASSUME NEW prefilled \in BOOLEAN, CreateOrder(p, prefilled)
        PROVE  returns'[o] # NoReturn
    BY <2>1 DEF CreateOrder
  <2>2. ASSUME NEW old, CancelOrder(p, old)
        PROVE  returns'[o] # NoReturn
    BY <1>1, <2>2 DEF CancelOrder
  <2>3. ASSUME NEW old, FailDelivery(p, old)
        PROVE  returns'[o] # NoReturn
    BY <1>1, <2>3 DEF FailDelivery
  <2>4. ASSUME NEW new \in ReturnStatus, UpdateReturn(p, new)
        PROVE  returns'[o] # NoReturn
    <3> DEFINE approved == new \in {"APPROVED", "REJECTED"}
    <3>1. SetReturn(p, new, approved, returns[p].closed)
      BY <2>4 DEF UpdateReturn
    <3> HIDE DEF approved
    <3> QED
      BY <1>2, <3>1, Zenon
  <2> QED
    BY <1>3, <2>1, <2>2, <2>3, <2>4 DEF AtOnce
<1>4. ASSUME NEW w \in Workers, NEW p \in Orders, Begin(w, p)
      PROVE  returns' = returns
  BY <1>4 DEF Begin, ReadStatus, ReadPendingOrder, ReadReturn, Open
<1>5. ASSUME NEW w \in Workers, Continue(w)
      PROVE  returns'[o] # NoReturn
  <2>1. CASE CommitReturn(w)
    <3>1. call[w].order \in Orders /\ "COMPLETED" \in ReturnStatus
      BY <1>0, <2>1, CallTypes DEF CommitReturn, StockCall, ReturnStatus
    <3> QED
      BY <1>2, <2>1, <3>1 DEF CommitReturn
  <2>2. CASE ~CommitReturn(w)
    BY <1>5, <2>2 DEF Continue, CommitStatus, CheckStock, DraftExport,
                      DraftImport, Draft, CommitShipment, Abort
  <2> QED
    BY <2>1, <2>2
<1>6. CASE UNCHANGED vars
  BY <1>6 DEF vars
<1> QED
  BY <1>3, <1>4, <1>5, <1>6 DEF Next

\* What a step does to the transaction of a worker v: nothing, end it, or one
\* of v's own reads.
OwnStep(v) ==
    \/ \E o \in Orders : Begin(v, o)
    \/ \E cell \in Cells : CheckStock(v, cell)
    \/ \E wh \in Whs : DraftExport(v, wh) \/ DraftImport(v, wh)

LEMMA CallChange ==
    ASSUME Typed, [Next]_vars, NEW v \in Workers
    PROVE  call'[v] = call[v] \/ call'[v] = NoCall \/ OwnStep(v)
<1>0. call \in [Workers -> StatusCall \cup StockCall \cup {NoCall}]
  BY DEF Typed, TypeOK
<1>1. ASSUME NEW o \in Orders, AtOnce(o)
      PROVE  call' = call
  BY <1>1 DEF AtOnce, CreateOrder, CancelOrder, FailDelivery, UpdateReturn
<1>2. ASSUME NEW w \in Workers, NEW o \in Orders, Begin(w, o)
      PROVE  call'[v] = call[v] \/ OwnStep(v)
  <2>1. CASE w = v
    BY <1>2, <2>1 DEF OwnStep
  <2>2. CASE w # v
    BY <1>0, <1>2, <2>2
       DEF Begin, ReadStatus, ReadPendingOrder, ReadReturn, Open
  <2> QED
    BY <2>1, <2>2
<1>3. ASSUME NEW w \in Workers, Continue(w)
      PROVE  call'[v] = call[v] \/ call'[v] = NoCall \/ OwnStep(v)
  <2>1. CASE CommitStatus(w) \/ CommitShipment(w) \/ CommitReturn(w) \/ Abort(w)
    BY <1>0, <2>1 DEF CommitStatus, CommitShipment, CommitReturn, Abort
  <2>2. ASSUME NEW cell \in Cells, CheckStock(w, cell)
        PROVE  call'[v] = call[v] \/ OwnStep(v)
    BY <1>0, <2>2 DEF CheckStock, OwnStep
  <2>3. ASSUME NEW wh \in Whs, DraftExport(w, wh) \/ DraftImport(w, wh)
        PROVE  call'[v] = call[v] \/ OwnStep(v)
    BY <1>0, <2>3 DEF DraftExport, DraftImport, Draft, OwnStep
  <2> QED
    BY <1>3, <2>1, <2>2, <2>3 DEF Continue
<1>4. CASE UNCHANGED vars
  BY <1>4 DEF vars
<1> QED
  BY <1>1, <1>2, <1>3, <1>4 DEF Next

LEMMA CompletesReturnKept ==
    ASSUME Typed, CompletesReturn, [Next]_vars
    PROVE  CompletesReturn'
<1> SUFFICES ASSUME NEW v \in Workers, call'[v].op = "complete"
             PROVE  returns'[call'[v].order] # NoReturn
  BY DEF CompletesReturn
<1>0. call \in [Workers -> StatusCall \cup StockCall \cup {NoCall}]
  BY DEF Typed, TypeOK
<1>1. ASSUME call[v].op = "complete", call'[v].order = call[v].order
      PROVE  returns'[call'[v].order] # NoReturn
  <2>1. call[v].order \in Orders
    BY <1>1, CallTypes DEF Typed, StockCall
  <2> QED
    BY <1>1, <2>1, ReturnsStay DEF CompletesReturn
<1>2. CASE call'[v] = call[v]
  BY <1>1, <1>2
<1>3. CASE call'[v] = NoCall
  BY <1>3 DEF NoCall
<1>4. ASSUME NEW o \in Orders, Begin(v, o)
      PROVE  returns'[call'[v].order] # NoReturn
  BY <1>0, <1>4 DEF Begin, ReadStatus, ReadPendingOrder, ReadReturn, Open
<1>5. ASSUME NEW cell \in Cells, CheckStock(v, cell)
      PROVE  returns'[call'[v].order] # NoReturn
  <2>1. call[v] \in StockCall
    BY <1>5, CallTypes DEF Typed, CheckStock
  <2> QED
    BY <1>0, <1>1, <1>5, <2>1 DEF CheckStock, StockCall
<1>6. ASSUME NEW wh \in Whs, DraftExport(v, wh) \/ DraftImport(v, wh)
      PROVE  returns'[call'[v].order] # NoReturn
  <2>1. call[v] \in StockCall
    BY <1>6, CallTypes DEF Typed, DraftExport, DraftImport, IsStockCall
  <2>2. PICK table, counted : Draft(v, wh, table, counted)
    BY <1>6 DEF DraftExport, DraftImport
  <2>3. call'[v].op = call[v].op /\ call'[v].order = call[v].order
    BY <1>0, <2>1, <2>2 DEF Draft, StockCall
  <2> QED
    BY <1>1, <2>3
<1> QED
  BY <1>2, <1>3, <1>4, <1>5, <1>6, CallChange DEF OwnStep

LEMMA TypedAlways == Spec => [](Typed /\ CompletesReturn)
<1>1. Init => Typed /\ CompletesReturn
  BY InitTyped DEF Init, CompletesReturn, NoCall
<1>2. Typed /\ CompletesReturn /\ [Next]_vars => (Typed /\ CompletesReturn)'
  <2> SUFFICES ASSUME Typed, CompletesReturn, [Next]_vars
               PROVE  Typed'
    BY CompletesReturnKept
  <2>1. CASE UNCHANGED vars
    BY <2>1 DEF vars, orderVars, bookVars, Typed, TypeOK, DraftsFinite, IsStockCall
  <2>2. CASE Next
    BY <2>2, AtOnceTyped, BeginTyped, ContinueTyped DEF Next
  <2> QED
    BY <2>1, <2>2
<1> QED
  BY <1>1, <1>2, PTL DEF Spec

\* The rows and the open transactions always have their types: the tables hold
\* what their columns declare, and no handler reads a field its transaction
\* does not have.
THEOREM TypeCorrect == Spec => []TypeOK
<1>1. Typed => TypeOK
  BY DEF Typed
<1> QED
  BY <1>1, TypedAlways, PTL

-----------------------------------------------------------------------------
(***************************************************************************)
(* The status, the history and the events of an order                      *)
(***************************************************************************)

\* What is known of an updateStatus between its read and its writes, whatever
\* others commit meanwhile: the order exists, does not go back to PENDING, and
\* has a completedAt, or gets one, if it becomes DELIVERED.
StatusCallInv ==
    \A w \in Workers : call[w].op = "updateStatus" =>
        /\ Exists(call[w].order)
        /\ call[w].new # "PENDING"
        /\ call[w].new = "DELIVERED" =>
              call[w].stamp \/ completed[call[w].order]

\* The three ways a step changes the status and the history of orders.
Checkout(o) ==
    /\ ~Exists(o)
    /\ status' = [status EXCEPT ![o] = "PENDING"]
    /\ history' = history
    /\ \E b \in BOOLEAN : completed' = [completed EXCEPT ![o] = b]
Move(o, old, new) ==
    /\ MoveTo(o, old, new)
    /\ new # "PENDING"
    /\ \/ completed' = completed /\ new # "DELIVERED"
       \/ \E b \in BOOLEAN :
             /\ completed' = [completed EXCEPT ![o] = completed[o] \/ b]
             /\ new = "DELIVERED" => completed[o] \/ b

LEMMA OrderChange ==
    ASSUME Typed, StatusCallInv, [Next]_vars
    PROVE  \/ UNCHANGED <<status, history, completed>>
           \/ \E o \in Orders : Checkout(o)
           \/ \E o \in Orders, old \in OrderStatus, new \in OrderStatus :
                 Move(o, old, new)
<1> USE DEF orderVars
<1>0. TypeOK
  BY DEF Typed
<1>1. ASSUME NEW o \in Orders, AtOnce(o)
      PROVE  \/ UNCHANGED <<status, history, completed>>
             \/ Checkout(o)
             \/ \E old \in OrderStatus, new \in OrderStatus : Move(o, old, new)
  <2>1. ASSUME NEW prefilled \in BOOLEAN, CreateOrder(o, prefilled)
        PROVE  Checkout(o)
    BY <2>1 DEF CreateOrder, Checkout
  <2>2. ASSUME NEW old \in Seen(o), CancelOrder(o, old)
        PROVE  old \in OrderStatus /\ "CANCELED" \in OrderStatus
               /\ Move(o, old, "CANCELED")
    BY <1>0, <2>2, SeenTyped DEF CancelOrder, Move, OrderStatus
  <2>3. ASSUME NEW old \in Seen(o), FailDelivery(o, old)
        PROVE  old \in OrderStatus /\ "DELIVERY_FAILED" \in OrderStatus
               /\ Move(o, old, "DELIVERY_FAILED")
    BY <1>0, <2>3, SeenTyped DEF FailDelivery, Move, OrderStatus
  <2>4. ASSUME NEW new \in ReturnStatus, UpdateReturn(o, new)
        PROVE  UNCHANGED <<status, history, completed>>
    BY <2>4 DEF UpdateReturn
  <2> QED
    BY <1>1, <2>1, <2>2, <2>3, <2>4 DEF AtOnce
<1>2. ASSUME NEW w \in Workers, NEW o \in Orders, Begin(w, o)
      PROVE  UNCHANGED <<status, history, completed>>
  BY <1>2 DEF Begin, ReadStatus, ReadPendingOrder, ReadReturn, Open
<1>3. ASSUME NEW w \in Workers, Continue(w)
      PROVE  \/ UNCHANGED <<status, history, completed>>
             \/ \E o \in Orders, old \in OrderStatus, new \in OrderStatus :
                   Move(o, old, new)
  <2>1. CASE CommitStatus(w)
    <3>1. call[w] \in StatusCall
      BY <1>0, <2>1, CallTypes DEF CommitStatus
    <3>2. /\ call[w].order \in Orders /\ call[w].old \in OrderStatus
          /\ call[w].new \in OrderStatus /\ call[w].stamp \in BOOLEAN
      BY <3>1 DEF StatusCall
    <3>3. Move(call[w].order, call[w].old, call[w].new)
      <4>1. MoveTo(call[w].order, call[w].old, call[w].new)
        BY <2>1 DEF CommitStatus
      <4>2. call[w].new # "PENDING"
        BY <2>1 DEF CommitStatus, StatusCallInv
      <4>3. completed' = [completed EXCEPT ![call[w].order] =
                              completed[call[w].order] \/ call[w].stamp]
        BY <2>1 DEF CommitStatus
      <4>4. call[w].new = "DELIVERED" => completed[call[w].order] \/ call[w].stamp
        BY <2>1 DEF CommitStatus, StatusCallInv
      <4> QED
        BY <3>2, <4>1, <4>2, <4>3, <4>4 DEF Move
    <3> QED
      BY <3>2, <3>3
  <2>2. CASE CommitShipment(w)
    <3>1. call[w].order \in Orders
      BY <1>0, <2>2, CallTypes DEF CommitShipment, StockCall
    <3>2. Move(call[w].order, "PENDING", "PROCESSING")
      BY <2>2 DEF CommitShipment, Move
    <3> QED
      BY <3>1, <3>2 DEF OrderStatus
  <2>3. CASE ~CommitStatus(w) /\ ~CommitShipment(w)
    BY <1>3, <2>3 DEF Continue, CheckStock, DraftExport, DraftImport, Draft,
                      CommitReturn, Abort
  <2> QED
    BY <2>1, <2>2, <2>3
<1>4. CASE UNCHANGED vars
  BY <1>4 DEF vars
<1> QED
  BY <1>1, <1>2, <1>3, <1>4 DEF Next

\* What no step undoes for an order that exists.
LEMMA OrderLife ==
    ASSUME Typed, StatusCallInv, [Next]_vars, NEW o \in Orders, Exists(o)
    PROVE  /\ Exists(o)'
           /\ completed[o] => completed'[o]
           /\ status[o] # "PENDING" => status'[o] # "PENDING"
<1>0. TypeOK
  BY DEF Typed
<1>1. CASE UNCHANGED <<status, history, completed>>
  BY <1>1 DEF Exists
<1>2. ASSUME NEW p \in Orders, Checkout(p)
      PROVE  status'[o] = status[o] /\ completed'[o] = completed[o]
  BY <1>0, <1>2 DEF Checkout, TypeOK
<1>3. ASSUME NEW p \in Orders, NEW old \in OrderStatus, NEW new \in OrderStatus,
             Move(p, old, new)
      PROVE  /\ Exists(o)'
             /\ completed[o] => completed'[o]
             /\ status[o] # "PENDING" => status'[o] # "PENDING"
  <2>1. status'[o] = status[o] \/ status'[o] = new
    BY <1>0, <1>3 DEF Move, MoveTo, TypeOK
  <2>2. completed[o] => completed'[o]
    BY <1>0, <1>3 DEF Move, TypeOK
  <2>3. new # NoOrder /\ new # "PENDING"
    BY <1>3 DEF Move, OrderStatus, NoOrder
  <2> QED
    BY <2>1, <2>2, <2>3 DEF Exists
<1> QED
  BY <1>1, <1>2, <1>3, OrderChange DEF Exists

LEMMA StatusCallKept ==
    ASSUME Typed, StatusCallInv, [Next]_vars
    PROVE  StatusCallInv'
<1> SUFFICES ASSUME NEW v \in Workers, call'[v].op = "updateStatus"
             PROVE  /\ status'[call'[v].order] # NoOrder
                    /\ call'[v].new # "PENDING"
                    /\ call'[v].new = "DELIVERED" =>
                          call'[v].stamp \/ completed'[call'[v].order]
  BY DEF StatusCallInv, Exists
<1>0. call \in [Workers -> StatusCall \cup StockCall \cup {NoCall}]
  BY DEF Typed, TypeOK
<1>1. CASE call'[v] = call[v]
  <2>1. call[v].order \in Orders
    BY <1>1, CallTypes DEF Typed, StatusCall
  <2> QED
    BY <1>1, <2>1, OrderLife DEF StatusCallInv, Exists
<1>2. CASE call'[v] = NoCall
  BY <1>2 DEF NoCall
<1>3. ASSUME NEW o \in Orders, Begin(v, o)
      PROVE  /\ status'[call'[v].order] # NoOrder
             /\ call'[v].new # "PENDING"
             /\ call'[v].new = "DELIVERED" =>
                   call'[v].stamp \/ completed'[call'[v].order]
  <2>1. PICK old \in OrderStatus, new \in OrderStatus : ReadStatus(v, o, old, new)
    BY <1>0, <1>3 DEF Begin, ReadPendingOrder, ReadReturn, Open
  <2>2. call'[v] = [op |-> "updateStatus", order |-> o, old |-> old,
                    new |-> new, stamp |-> NeedsStamp(o, new)]
    BY <1>0, <2>1 DEF ReadStatus
  <2>3. Exists(o)' /\ completed' = completed
    BY <2>1 DEF ReadStatus, Exists, orderVars
  <2>4. new # "PENDING"
    BY <2>1 DEF ReadStatus, Allowed
  <2>5. /\ call'[v].order = o
        /\ call'[v].new = new
        /\ call'[v].stamp = NeedsStamp(o, new)
    BY <2>2
  <2>6. new = "DELIVERED" => NeedsStamp(o, new) \/ completed[o]
    BY DEF NeedsStamp
  <2> QED
    BY <2>3, <2>4, <2>5, <2>6, Zenon DEF Exists
<1>4. ASSUME NEW cell \in Cells, CheckStock(v, cell)
      PROVE  call'[v].op # "updateStatus"
  <2>1. call[v] \in StockCall
    BY <1>4, CallTypes DEF Typed, CheckStock
  <2> QED
    BY <1>0, <1>4, <2>1 DEF CheckStock, StockCall
<1>5. ASSUME NEW wh \in Whs, DraftExport(v, wh) \/ DraftImport(v, wh)
      PROVE  call'[v].op # "updateStatus"
  <2>1. call[v] \in StockCall
    BY <1>5, CallTypes DEF Typed, DraftExport, DraftImport, IsStockCall
  <2>2. PICK table, counted : Draft(v, wh, table, counted)
    BY <1>5 DEF DraftExport, DraftImport
  <2> QED
    BY <1>0, <2>1, <2>2 DEF Draft, StockCall
<1> QED
  BY <1>1, <1>2, <1>3, <1>4, <1>5, CallChange DEF OwnStep

LEMMA StatusCallAlways == Spec => [](Typed /\ StatusCallInv)
<1>1. Init => StatusCallInv
  BY DEF Init, StatusCallInv, NoCall
<1> QED
  BY <1>1, TypedAlways, StatusCallKept, PTL DEF Spec

-----------------------------------------------------------------------------
(* The order's status, its history and its completedAt *)

\* HistoryTellsStatus, and that an order has no history before it exists:
\* without this its first row could be one of an earlier life.
HistoryInv ==
    \A o \in Orders :
        IF Exists(o)
        THEN status[o] = IF history[o] = <<>> THEN "PENDING"
                         ELSE history[o][Len(history[o])].new
        ELSE history[o] = <<>>

LEMMA HistoryKept ==
    ASSUME Typed, StatusCallInv, HistoryInv, [Next]_vars
    PROVE  HistoryInv'
<1>0. TypeOK
  BY DEF Typed
<1>1. CASE UNCHANGED <<status, history, completed>>
  BY <1>1 DEF HistoryInv, Exists
<1>2. ASSUME NEW o \in Orders, Checkout(o)
      PROVE  HistoryInv'
  BY <1>0, <1>2 DEF Checkout, HistoryInv, Exists, NoOrder, TypeOK
<1>3. ASSUME NEW o \in Orders, NEW old \in OrderStatus, NEW new \in OrderStatus,
             Move(o, old, new)
      PROVE  HistoryInv'
  <2> DEFINE row == [old |-> old, new |-> new]
  <2>1. status' = [status EXCEPT ![o] = new]
        /\ history' = [history EXCEPT ![o] = Append(history[o], row)]
    BY <1>3 DEF Move, MoveTo
  <2>2. history[o] \in Seq(HistoryRow) /\ row \in HistoryRow
    BY <1>0 DEF TypeOK, HistoryRow
  <2>3. /\ Append(history[o], row) # <<>>
        /\ Append(history[o], row)[Len(Append(history[o], row))] = row
    BY <2>2, AppendProperties
  <2>4. status'[o] = new /\ new # NoOrder
    BY <1>0, <2>1 DEF TypeOK, OrderStatus, NoOrder
  <2>5. history'[o] # <<>> /\ history'[o][Len(history'[o])] = row
    <3>1. history'[o] = Append(history[o], row)
      BY <1>0, <2>1 DEF TypeOK
    <3> QED
      BY <2>3, <3>1
  <2>6. ASSUME NEW p \in Orders, p # o
        PROVE  status'[p] = status[p] /\ history'[p] = history[p]
    BY <1>0, <2>1, <2>6 DEF TypeOK
  <2>7. row.new = new
    OBVIOUS
  <2> HIDE DEF row
  <2> QED
    BY <2>4, <2>5, <2>6, <2>7 DEF HistoryInv, Exists
<1> QED
  BY <1>1, <1>2, <1>3, OrderChange

\* The newest row of the history always tells the order's status: every
\* handler writes the two together, whatever commits between its statements.
THEOREM HistoryCorrect == Spec => []HistoryTellsStatus
<1>1. Init => HistoryInv
  BY DEF Init, HistoryInv, Exists
<1>2. HistoryInv => HistoryTellsStatus
  BY DEF HistoryInv, HistoryTellsStatus
<1> QED
  BY <1>1, <1>2, HistoryKept, StatusCallAlways, PTL DEF Spec

LEMMA CompletionKept ==
    ASSUME Typed, StatusCallInv, DeliveredHasCompletion, [Next]_vars
    PROVE  DeliveredHasCompletion'
<1>0. TypeOK
  BY DEF Typed
<1>1. CASE UNCHANGED <<status, history, completed>>
  BY <1>1 DEF DeliveredHasCompletion
<1>2. ASSUME NEW o \in Orders, Checkout(o)
      PROVE  DeliveredHasCompletion'
  BY <1>0, <1>2 DEF Checkout, DeliveredHasCompletion, TypeOK
<1>3. ASSUME NEW o \in Orders, NEW old \in OrderStatus, NEW new \in OrderStatus,
             Move(o, old, new)
      PROVE  DeliveredHasCompletion'
  <2> SUFFICES ASSUME NEW p \in Orders, status'[p] = "DELIVERED"
               PROVE  completed'[p]
    BY DEF DeliveredHasCompletion
  <2>1. CASE p = o
    <3>1. new = "DELIVERED"
      BY <1>0, <1>3, <2>1 DEF Move, MoveTo, TypeOK
    <3>2. PICK b \in BOOLEAN :
              /\ completed' = [completed EXCEPT ![o] = completed[o] \/ b]
              /\ completed[o] \/ b
      BY <1>3, <3>1 DEF Move
    <3> QED
      BY <1>0, <2>1, <3>2 DEF TypeOK
  <2>2. CASE p # o
    <3>1. status[p] = "DELIVERED"
      BY <1>0, <1>3, <2>2 DEF Move, MoveTo, TypeOK
    <3>2. completed'[p] = completed[p]
      BY <1>0, <1>3, <2>2 DEF Move, TypeOK
    <3> QED
      BY <3>1, <3>2 DEF DeliveredHasCompletion
  <2> QED
    BY <2>1, <2>2
<1> QED
  BY <1>1, <1>2, <1>3, OrderChange

\* A delivered order has a completedAt, although updateStatus decides whether
\* to set it from a row it read before others committed.
THEOREM CompletionCorrect == Spec => []DeliveredHasCompletion
<1>1. Init => DeliveredHasCompletion
  BY DEF Init, DeliveredHasCompletion, NoOrder
<1> QED
  BY <1>1, CompletionKept, StatusCallAlways, PTL DEF Spec

\* No step takes an order back to PENDING.
THEOREM NotReopened == Spec => NeverPendingAgain
<1>1. Typed /\ StatusCallInv /\ [Next]_vars =>
          [\A o \in Orders :
              Exists(o) /\ status[o] # "PENDING" => status'[o] # "PENDING"]_vars
  BY OrderLife
<1> QED
  BY <1>1, StatusCallAlways, PTL DEF Spec, NeverPendingAgain

-----------------------------------------------------------------------------
(* The events of the outbox *)

\* The order of a shipment in progress is still there: orders are never removed.
ConfirmsOrder ==
    \A w \in Workers : call[w].op = "confirm" => Exists(call[w].order)

LEMMA ConfirmsOrderKept ==
    ASSUME Typed, StatusCallInv, ConfirmsOrder, [Next]_vars
    PROVE  ConfirmsOrder'
<1> SUFFICES ASSUME NEW v \in Workers, call'[v].op = "confirm"
             PROVE  status'[call'[v].order] # NoOrder
  BY DEF ConfirmsOrder, Exists
<1>0. call \in [Workers -> StatusCall \cup StockCall \cup {NoCall}]
  BY DEF Typed, TypeOK
<1>1. ASSUME call[v].op = "confirm", call'[v].order = call[v].order
      PROVE  status'[call'[v].order] # NoOrder
  <2>1. call[v].order \in Orders
    BY <1>1, CallTypes DEF Typed, StockCall
  <2> QED
    BY <1>1, <2>1, OrderLife DEF ConfirmsOrder, Exists
<1>2. CASE call'[v] = call[v]
  BY <1>1, <1>2
<1>3. CASE call'[v] = NoCall
  BY <1>3 DEF NoCall
<1>4. ASSUME NEW o \in Orders, Begin(v, o)
      PROVE  status'[call'[v].order] # NoOrder
  BY <1>0, <1>4
     DEF Begin, ReadStatus, ReadPendingOrder, ReadReturn, Open, orderVars, NoOrder
<1>5. ASSUME NEW cell \in Cells, CheckStock(v, cell)
      PROVE  status'[call'[v].order] # NoOrder
  <2>1. call[v] \in StockCall
    BY <1>5, CallTypes DEF Typed, CheckStock
  <2> QED
    BY <1>0, <1>1, <1>5, <2>1 DEF CheckStock, StockCall
<1>6. ASSUME NEW wh \in Whs, DraftExport(v, wh) \/ DraftImport(v, wh)
      PROVE  status'[call'[v].order] # NoOrder
  <2>1. call[v] \in StockCall
    BY <1>6, CallTypes DEF Typed, DraftExport, DraftImport, IsStockCall
  <2>2. PICK table, counted : Draft(v, wh, table, counted)
    BY <1>6 DEF DraftExport, DraftImport
  <2>3. call'[v].op = call[v].op /\ call'[v].order = call[v].order
    BY <1>0, <2>1, <2>2 DEF Draft, StockCall
  <2> QED
    BY <1>1, <2>3
<1> QED
  BY <1>2, <1>3, <1>4, <1>5, <1>6, CallChange DEF OwnStep

\* What a step does to the outbox: it announces a new order, or a new request
\* of a cancellation; or it adds nothing, and neither orders nor such requests
\* come or go.
NothingNew ==
    /\ UNCHANGED outbox
    /\ \A p \in Orders : /\ Exists(p)' <=> Exists(p)
                         /\ returns'[p].type = "CANCEL" <=> returns[p].type = "CANCEL"
RequestsReturn(o) ==
    /\ OpenReturn(o, "CANCEL")
    /\ Emit("RETURN_REQUEST_CREATED", o)
    /\ \A p \in Orders : Exists(p)' <=> Exists(p)

\* Moving an order that exists creates none.
LEMMA MoveToExisting ==
    ASSUME Typed, NEW o \in Orders, NEW old, NEW new \in OrderStatus,
           MoveTo(o, old, new), Exists(o)
    PROVE  \A p \in Orders : Exists(p)' <=> Exists(p)
BY DEF MoveTo, Exists, Typed, TypeOK, OrderStatus, NoOrder

\* Writing a return request keeps its type.
LEMMA SetReturnType ==
    ASSUME Typed, NEW o \in Orders, NEW new, NEW approved, NEW closed,
           SetReturn(o, new, approved, closed)
    PROVE  \A p \in Orders : returns'[p].type = returns[p].type
BY DEF SetReturn, Typed, TypeOK

LEMMA EventChange ==
    ASSUME Typed, StatusCallInv, ConfirmsOrder, [Next]_vars
    PROVE  \/ NothingNew
           \/ \E o \in Orders, prefilled \in BOOLEAN : CreateOrder(o, prefilled)
           \/ \E o \in Orders : RequestsReturn(o)
<1>1. ASSUME NEW o \in Orders, NEW old, CancelOrder(o, old)
      PROVE  NothingNew \/ RequestsReturn(o)
  <2>1. \A p \in Orders : Exists(p)' <=> Exists(p)
    BY <1>1, MoveToExisting DEF CancelOrder, OrderStatus
  <2> QED
    BY <1>1, <2>1 DEF CancelOrder, NothingNew, RequestsReturn
<1>2. ASSUME NEW o \in Orders, NEW old, FailDelivery(o, old)
      PROVE  NothingNew
  <2>1. \A p \in Orders : Exists(p)' <=> Exists(p)
    BY <1>2, MoveToExisting DEF FailDelivery, OrderStatus
  <2>2. OpenReturn(o, "DELIVERY_FAIL")
    BY <1>2 DEF FailDelivery
  <2>3. returns[o].type # "CANCEL" /\ NewReturn("DELIVERY_FAIL").type # "CANCEL"
    BY <2>2 DEF OpenReturn, NoReturn, NewReturn
  <2>4. returns' = [returns EXCEPT ![o] = NewReturn("DELIVERY_FAIL")]
    BY <2>2 DEF OpenReturn
  <2>5. \A p \in Orders : returns'[p].type = "CANCEL" <=> returns[p].type = "CANCEL"
    BY <2>3, <2>4 DEF Typed, TypeOK
  <2> QED
    BY <1>2, <2>1, <2>5 DEF FailDelivery, NothingNew
<1>3. ASSUME NEW o \in Orders, NEW new \in ReturnStatus, UpdateReturn(o, new)
      PROVE  NothingNew
  <2>1. PICK approved, closed : SetReturn(o, new, approved, closed)
    BY <1>3 DEF UpdateReturn
  <2>2. \A p \in Orders : returns'[p].type = returns[p].type
    BY <2>1, SetReturnType
  <2> QED
    BY <1>3, <2>2 DEF UpdateReturn, NothingNew, orderVars, Exists
<1>4. ASSUME NEW w \in Workers, NEW o \in Orders, Begin(w, o)
      PROVE  NothingNew
  BY <1>4 DEF Begin, ReadStatus, ReadPendingOrder, ReadReturn, Open, orderVars,
              NothingNew, Exists
<1>5. ASSUME NEW w \in Workers, Continue(w)
      PROVE  NothingNew
  <2>1. CASE CommitStatus(w)
    <3>1. call[w] \in StatusCall /\ Exists(call[w].order)
      BY <2>1, CallTypes DEF CommitStatus, StatusCallInv, Typed
    <3>2. call[w].order \in Orders /\ call[w].new \in OrderStatus
      BY <3>1 DEF StatusCall
    <3>3. \A p \in Orders : Exists(p)' <=> Exists(p)
      BY <2>1, <3>1, <3>2, MoveToExisting DEF CommitStatus
    <3> QED
      BY <2>1, <3>3 DEF CommitStatus, NothingNew
  <2>2. CASE CommitShipment(w)
    <3>1. call[w].order \in Orders /\ Exists(call[w].order)
      BY <2>2, CallTypes DEF CommitShipment, ConfirmsOrder, Typed, StockCall
    <3>2. MoveTo(call[w].order, "PENDING", "PROCESSING")
      BY <2>2 DEF CommitShipment
    <3>3. \A p \in Orders : Exists(p)' <=> Exists(p)
      BY <3>1, <3>2, MoveToExisting DEF OrderStatus
    <3> QED
      BY <2>2, <3>3 DEF CommitShipment, NothingNew
  <2>3. CASE CommitReturn(w)
    <3>1. call[w].order \in Orders
      BY <2>3, CallTypes DEF CommitReturn, Typed, StockCall
    <3>2. \A p \in Orders : returns'[p].type = returns[p].type
      BY <2>3, <3>1, SetReturnType DEF CommitReturn
    <3> QED
      BY <2>3, <3>2 DEF CommitReturn, NothingNew, orderVars, Exists
  <2>4. CASE ~CommitStatus(w) /\ ~CommitShipment(w) /\ ~CommitReturn(w)
    BY <1>5, <2>4 DEF Continue, CheckStock, DraftExport, DraftImport, Draft,
                      Abort, orderVars, NothingNew, Exists
  <2> QED
    BY <2>1, <2>2, <2>3, <2>4
<1>6. CASE UNCHANGED vars
  BY <1>6 DEF vars, orderVars, NothingNew, Exists
<1> QED
  BY <1>1, <1>2, <1>3, <1>4, <1>5, <1>6 DEF Next, AtOnce

\* An event adds one to its own number, and nothing to others.
LEMMA EmitCounts ==
    ASSUME Typed, NEW type, NEW o, Emit(type, o), NEW type2, NEW o2
    PROVE  Cardinality(EventsOf(type2, o2))'
               = Cardinality(EventsOf(type2, o2))
                     + (IF type2 = type /\ o2 = o THEN 1 ELSE 0)
<1> DEFINE n == Len(outbox)
           e == [type |-> type, order |-> o]
<1>0. outbox \in Seq(Event) /\ n \in Nat /\ DOMAIN outbox = 1 .. n
  BY DEF Typed, TypeOK
<1>1. outbox' = Append(outbox, e)
  BY DEF Emit
<1>2. /\ DOMAIN outbox' = 1 .. n + 1
      /\ outbox'[n + 1] = e
      /\ \A i \in 1 .. n : outbox'[i] = outbox[i]
  BY <1>0, <1>1
<1>3. EventsOf(type2, o2) \in SUBSET (1 .. n)
  BY <1>0 DEF EventsOf
<1>4. /\ IsFiniteSet(EventsOf(type2, o2))
      /\ Cardinality(EventsOf(type2, o2)) \in Nat
  <2>1. IsFiniteSet(1 .. n)
    BY <1>0, FS_Interval
  <2> QED
    BY <1>3, <2>1, FS_Subset, FS_CardinalityType
<1>5. (e = [type |-> type2, order |-> o2]) <=> (type2 = type /\ o2 = o)
  OBVIOUS
<1> HIDE DEF n, e
<1>6. CASE type2 = type /\ o2 = o
  <2>1. EventsOf(type2, o2)' = EventsOf(type2, o2) \cup {n + 1}
    BY <1>0, <1>2, <1>5, <1>6 DEF EventsOf
  <2>2. n + 1 \notin EventsOf(type2, o2)
    BY <1>0, <1>3
  <2> QED
    BY <1>4, <1>6, <2>1, <2>2, FS_AddElement
<1>7. CASE ~(type2 = type /\ o2 = o)
  <2>1. EventsOf(type2, o2)' = EventsOf(type2, o2)
    BY <1>0, <1>2, <1>5, <1>7 DEF EventsOf
  <2> QED
    BY <1>4, <1>7, <2>1
<1> QED
  BY <1>6, <1>7

LEMMA AnnouncedKept ==
    ASSUME Typed, StatusCallInv, ConfirmsOrder, AnnouncedOnce, [Next]_vars
    PROVE  AnnouncedOnce'
<1> SUFFICES ASSUME NEW p \in Orders
             PROVE  /\ Cardinality(EventsOf("ORDER_CREATED", p))'
                           = IF Exists(p)' THEN 1 ELSE 0
                    /\ Cardinality(EventsOf("RETURN_REQUEST_CREATED", p))'
                           = IF returns'[p].type = "CANCEL" THEN 1 ELSE 0
  BY DEF AnnouncedOnce
<1>0. /\ Cardinality(EventsOf("ORDER_CREATED", p)) = IF Exists(p) THEN 1 ELSE 0
      /\ Cardinality(EventsOf("RETURN_REQUEST_CREATED", p))
             = IF returns[p].type = "CANCEL" THEN 1 ELSE 0
  BY DEF AnnouncedOnce
<1>1. CASE NothingNew
  <2>1. /\ EventsOf("ORDER_CREATED", p)' = EventsOf("ORDER_CREATED", p)
        /\ EventsOf("RETURN_REQUEST_CREATED", p)'
               = EventsOf("RETURN_REQUEST_CREATED", p)
    BY <1>1 DEF NothingNew, EventsOf
  <2> QED
    BY <1>0, <1>1, <2>1 DEF NothingNew
<1>2. ASSUME NEW o \in Orders, NEW prefilled \in BOOLEAN, CreateOrder(o, prefilled)
      PROVE  /\ Cardinality(EventsOf("ORDER_CREATED", p))'
                    = IF Exists(p)' THEN 1 ELSE 0
             /\ Cardinality(EventsOf("RETURN_REQUEST_CREATED", p))'
                    = IF returns'[p].type = "CANCEL" THEN 1 ELSE 0
  <2>1. Emit("ORDER_CREATED", o) /\ returns' = returns /\ ~Exists(o)
    BY <1>2 DEF CreateOrder
  <2>2. Exists(p)' <=> Exists(p) \/ p = o
    BY <1>2 DEF CreateOrder, Exists, Typed, TypeOK, NoOrder
  <2>3. Cardinality(EventsOf("ORDER_CREATED", p))'
            = Cardinality(EventsOf("ORDER_CREATED", p)) + (IF p = o THEN 1 ELSE 0)
    BY <2>1, EmitCounts
  <2>4. Cardinality(EventsOf("RETURN_REQUEST_CREATED", p))'
            = Cardinality(EventsOf("RETURN_REQUEST_CREATED", p)) + 0
    BY <2>1, EmitCounts
  <2> QED
    BY <1>0, <2>1, <2>2, <2>3, <2>4
<1>3. ASSUME NEW o \in Orders, RequestsReturn(o)
      PROVE  /\ Cardinality(EventsOf("ORDER_CREATED", p))'
                    = IF Exists(p)' THEN 1 ELSE 0
             /\ Cardinality(EventsOf("RETURN_REQUEST_CREATED", p))'
                    = IF returns'[p].type = "CANCEL" THEN 1 ELSE 0
  <2>1. /\ Emit("RETURN_REQUEST_CREATED", o) /\ OpenReturn(o, "CANCEL")
        /\ Exists(p)' <=> Exists(p)
    BY <1>3 DEF RequestsReturn
  <2>2. returns[o].type # "CANCEL" /\ NewReturn("CANCEL").type = "CANCEL"
    BY <2>1 DEF OpenReturn, NoReturn, NewReturn
  <2>3. returns' = [returns EXCEPT ![o] = NewReturn("CANCEL")]
    BY <2>1 DEF OpenReturn
  <2>4. returns'[p].type = "CANCEL" <=> returns[p].type = "CANCEL" \/ p = o
    BY <2>2, <2>3 DEF Typed, TypeOK
  <2>5. Cardinality(EventsOf("RETURN_REQUEST_CREATED", p))'
            = Cardinality(EventsOf("RETURN_REQUEST_CREATED", p))
                  + (IF p = o THEN 1 ELSE 0)
    BY <2>1, EmitCounts
  <2>6. Cardinality(EventsOf("ORDER_CREATED", p))'
            = Cardinality(EventsOf("ORDER_CREATED", p)) + 0
    BY <2>1, EmitCounts
  <2> QED
    BY <1>0, <2>1, <2>2, <2>4, <2>5, <2>6
<1> QED
  BY <1>1, <1>2, <1>3, EventChange

\* Whatever rolls back and whatever races, the outbox has one event for every
\* order and one for every request of a cancellation, and no other.
THEOREM AnnouncementsCorrect == Spec => []AnnouncedOnce
<1>1. Init => ConfirmsOrder /\ AnnouncedOnce
  <2> SUFFICES ASSUME Init PROVE ConfirmsOrder /\ AnnouncedOnce
    OBVIOUS
  <2>1. \A type, o : EventsOf(type, o) = {}
    BY DEF Init, EventsOf
  <2>2. AnnouncedOnce
    BY <2>1, FS_EmptySet DEF Init, AnnouncedOnce, Exists, NoReturn
  <2> QED
    BY <2>2 DEF Init, ConfirmsOrder, NoCall
<1> QED
  BY <1>1, StatusCallAlways, ConfirmsOrderKept, AnnouncedKept, PTL DEF Spec

-----------------------------------------------------------------------------
(***************************************************************************)
(* The stock, its paperwork, codes, shipments and returns                  *)
(***************************************************************************)

-----------------------------------------------------------------------------
(* The log rows of an open transaction *)

\* The rows a handler has inserted are those of its order and its mapping, one
\* per warehouse and per code, and the cells it has checked have an item.
GoodDrafts(w) ==
    /\ call[w].map \in Mappings
    /\ \A row \in call[w].drafts :
          /\ row.order = call[w].order
          /\ row.wh \in WarehousesOf(call[w].map)
          /\ row.qty = GroupQty(call[w].map, call[w].order, row.wh)
    /\ OneRowPerWarehouse(call[w].drafts)
    /\ IsFiniteSet(Codes(call[w].drafts))
    /\ Cardinality(Codes(call[w].drafts)) = Cardinality(call[w].drafts)
    /\ \A cell \in call[w].map \ call[w].todo :
          Qty[call[w].order][cell[1]] > 0

DraftsInv == \A w \in Workers : IsStockCall(w) => GoodDrafts(w)

\* The code of a union of tables.
LEMMA CodesOfUnion ==
    ASSUME NEW T1, NEW T2
    PROVE  Codes(T1 \cup T2) = Codes(T1) \cup Codes(T2)
BY DEF Codes

LEMMA CodesOfRow ==
    ASSUME NEW row
    PROVE  Codes({row}) = {row.code}
BY DEF Codes

\* What inserting a row does to the transaction of w.
LEMMA DraftEffect ==
    ASSUME Typed, NEW w \in Workers, IsStockCall(w), NEW wh \in Whs,
           NEW table, NEW counted, Draft(w, wh, table, counted)
    PROVE  \E row :
              /\ row.code = NextCode(counted)
              /\ row.order = call[w].order
              /\ row.wh = wh
              /\ row.qty = GroupQty(call[w].map, call[w].order, wh)
              /\ row.code \notin Codes(call[w].drafts)
              /\ call'[w].op = call[w].op
              /\ call'[w].order = call[w].order
              /\ call'[w].map = call[w].map
              /\ call'[w].todo = call[w].todo
              /\ call'[w].drafts = call[w].drafts \cup {row}
<1> DEFINE row == [code |-> NextCode(counted), order |-> call[w].order,
                   wh |-> wh, qty |-> GroupQty(call[w].map, call[w].order, wh)]
<1>1. call[w] \in StockCall
  BY CallTypes DEF Typed
<1>2. call' = [call EXCEPT ![w].drafts = call[w].drafts \cup {row}]
      /\ row.code \notin Codes(call[w].drafts)
  BY DEF Draft
<1>3. /\ row.code = NextCode(counted) /\ row.order = call[w].order
      /\ row.wh = wh /\ row.qty = GroupQty(call[w].map, call[w].order, wh)
  OBVIOUS
<1> HIDE DEF row
<1>4. /\ call'[w].op = call[w].op
      /\ call'[w].order = call[w].order
      /\ call'[w].map = call[w].map
      /\ call'[w].todo = call[w].todo
      /\ call'[w].drafts = call[w].drafts \cup {row}
  BY <1>1, <1>2 DEF Typed, TypeOK, StockCall
<1> QED
  BY <1>2, <1>3, <1>4

LEMMA GoodDraftsInserted ==
    ASSUME Typed, DraftsInv, NEW w \in Workers, IsStockCall(w), NEW wh \in Whs,
           NEW table, NEW counted, Draft(w, wh, table, counted)
    PROVE  GoodDrafts(w)'
<1>0. GoodDrafts(w)
  BY DEF DraftsInv
<1>1. PICK row :
        /\ row.code = NextCode(counted)
        /\ row.order = call[w].order
        /\ row.wh = wh
        /\ row.qty = GroupQty(call[w].map, call[w].order, wh)
        /\ row.code \notin Codes(call[w].drafts)
        /\ call'[w].op = call[w].op
        /\ call'[w].order = call[w].order
        /\ call'[w].map = call[w].map
        /\ call'[w].todo = call[w].todo
        /\ call'[w].drafts = call[w].drafts \cup {row}
  BY DraftEffect
<1>2. wh \in WarehousesOf(call[w].map)
      /\ \A r \in call[w].drafts : r.wh # wh
  BY DEF Draft, Undrafted
<1>3. row \notin call[w].drafts
  BY <1>1 DEF Codes
<1>4. Codes(call'[w].drafts) = Codes(call[w].drafts) \cup {row.code}
  <2>1. call'[w].drafts = call[w].drafts \cup {row}
    BY <1>1
  <2> QED
    BY <2>1 DEF Codes
<1>5. /\ IsFiniteSet(Codes(call'[w].drafts))
      /\ Cardinality(Codes(call'[w].drafts)) = Cardinality(call'[w].drafts)
  <2>1. /\ IsFiniteSet(Codes(call[w].drafts) \cup {row.code})
        /\ Cardinality(Codes(call[w].drafts) \cup {row.code})
               = Cardinality(Codes(call[w].drafts)) + 1
    BY <1>0, <1>1, FS_AddElement DEF GoodDrafts
  <2>2. Cardinality(call[w].drafts \cup {row}) = Cardinality(call[w].drafts) + 1
    BY <1>3, FS_AddElement DEF Typed, DraftsFinite
  <2> QED
    BY <1>0, <1>1, <1>4, <2>1, <2>2 DEF GoodDrafts
<1>6. OneRowPerWarehouse(call'[w].drafts)
  BY <1>0, <1>1, <1>2 DEF GoodDrafts, OneRowPerWarehouse
<1>7. \A r \in call'[w].drafts :
          /\ r.order = call'[w].order
          /\ r.wh \in WarehousesOf(call'[w].map)
          /\ r.qty = GroupQty(call'[w].map, call'[w].order, r.wh)
  BY <1>0, <1>1, <1>2 DEF GoodDrafts
<1> QED
  BY <1>0, <1>1, <1>5, <1>6, <1>7 DEF GoodDrafts

LEMMA DraftsKept ==
    ASSUME Typed, DraftsInv, [Next]_vars
    PROVE  DraftsInv'
<1> SUFFICES ASSUME NEW v \in Workers, IsStockCall(v)'
             PROVE  GoodDrafts(v)'
  BY DEF DraftsInv
<1>0. call \in [Workers -> StatusCall \cup StockCall \cup {NoCall}]
  BY DEF Typed, TypeOK
<1>1. CASE call'[v] = call[v]
  BY <1>1 DEF DraftsInv, GoodDrafts, IsStockCall
<1>2. CASE call'[v] = NoCall
  BY <1>2 DEF IsStockCall, NoCall
<1>3. ASSUME NEW o \in Orders, Begin(v, o)
      PROVE  GoodDrafts(v)'
  <2>1. ASSUME NEW old \in OrderStatus, NEW new \in OrderStatus,
               ReadStatus(v, o, old, new)
        PROVE  FALSE
    BY <1>0, <2>1 DEF ReadStatus, IsStockCall
  <2>2. ASSUME NEW op \in {"confirm", "complete"}, NEW map \in Mappings,
               Open(v, op, o, map)
        PROVE  GoodDrafts(v)'
    <3>1. call'[v] = [op |-> op, order |-> o, map |-> map, todo |-> map,
                      drafts |-> {}]
      BY <1>0, <2>2 DEF Open
    <3>2. Codes({}) = {}
      BY DEF Codes
    <3> QED
      BY <3>1, <3>2, FS_EmptySet DEF GoodDrafts, OneRowPerWarehouse
  <2> QED
    BY <1>3, <2>1, <2>2 DEF Begin, ReadPendingOrder, ReadReturn
<1>4. ASSUME NEW cell \in Cells, CheckStock(v, cell)
      PROVE  GoodDrafts(v)'
  <2>1. call[v] \in StockCall /\ GoodDrafts(v)
    BY <1>4, CallTypes DEF Typed, CheckStock, DraftsInv
  <2>2. /\ call'[v].order = call[v].order
        /\ call'[v].map = call[v].map
        /\ call'[v].todo = call[v].todo \ {cell}
        /\ call'[v].drafts = call[v].drafts
        /\ Qty[call[v].order][cell[1]] > 0
    BY <1>0, <1>4, <2>1 DEF CheckStock, StockCall
  <2> QED
    BY <2>1, <2>2 DEF GoodDrafts
<1>5. ASSUME NEW wh \in Whs, DraftExport(v, wh) \/ DraftImport(v, wh)
      PROVE  GoodDrafts(v)'
  <2>1. IsStockCall(v)
    BY <1>5 DEF DraftExport, DraftImport, IsStockCall
  <2> QED
    BY <1>5, <2>1, GoodDraftsInserted DEF DraftExport, DraftImport
<1> QED
  BY <1>1, <1>2, <1>3, <1>4, <1>5, CallChange DEF OwnStep

LEMMA DraftsAlways == Spec => [](Typed /\ DraftsInv)
<1>1. Init => DraftsInv
  BY DEF Init, DraftsInv, IsStockCall, NoCall
<1> QED
  BY <1>1, TypedAlways, DraftsKept, PTL DEF Spec

-----------------------------------------------------------------------------
(* Fulfillment implements StockBook *)

\* A request ready to commit has drafted rows that move, at every cell, the
\* units its mapping asks for.
LEMMA MovedIsUnits ==
    ASSUME Typed, DraftsInv, NEW w \in Workers, IsStockCall(w),
           ReadyToCommit(w), NEW c \in Cells
    PROVE  Moved(call[w].drafts, c) = Units(w, c)
<1> DEFINE rows == call[w].drafts
           map == call[w].map
           o == call[w].order
<1>0. GoodDrafts(w)
  BY DEF DraftsInv
<1>1. PICK s \in Skus, wh \in Whs : c = <<s, wh>>
  BY DEF Cells
<1>2. c[1] = s /\ c[2] = wh
  BY <1>1
<1>3. CASE c \in map
  <2>1. wh \in WarehousesOf(map)
    BY <1>2, <1>3 DEF WarehousesOf
  <2>2. PICK row \in rows : row.wh = wh
    BY <2>1 DEF ReadyToCommit, Undrafted
  <2>3. \A r \in rows : r.wh = wh => r = row
    BY <1>0, <2>2 DEF GoodDrafts, OneRowPerWarehouse
  <2>4. Moved(rows, c) = row.qty[s]
    BY <1>2, <2>2, <2>3 DEF Moved
  <2>5. row.qty[s] = Qty[o][s]
    BY <1>0, <1>1, <1>3, <2>2 DEF GoodDrafts, GroupQty
  <2> QED
    BY <1>2, <1>3, <2>4, <2>5 DEF Units
<1>4. CASE c \notin map
  <2>1. ASSUME NEW r \in rows, r.wh = wh
        PROVE  r.qty[s] = 0
    BY <1>0, <1>1, <1>4, <2>1 DEF GoodDrafts, GroupQty
  <2>2. Moved(rows, c) = 0
    <3>1. CASE \E r \in rows : r.wh = wh
      <4> DEFINE r == CHOOSE r \in rows : r.wh = wh
      <4>1. r \in rows /\ r.wh = wh
        BY <3>1
      <4> QED
        BY <1>2, <2>1, <3>1, <4>1 DEF Moved
    <3>2. CASE ~\E r \in rows : r.wh = wh
      BY <1>2, <3>2 DEF Moved
    <3> QED
      BY <3>1, <3>2
  <2> QED
    BY <1>4, <2>2 DEF Units
<1> QED
  BY <1>3, <1>4

\* The rows of a request ready to commit are a posting of the stock book.
LEMMA DraftsArePosting ==
    ASSUME Typed, DraftsInv, NEW w \in Workers, IsStockCall(w),
           ReadyToCommit(w), NEW table, CanInsert(call[w].drafts, table)
    PROVE  /\ (table \cup call[w].drafts) \ table = call[w].drafts
           /\ Book!Posted(table, call[w].drafts)
<1>0. GoodDrafts(w)
  BY DEF DraftsInv
<1>1. call[w].drafts # {}
  <2>1. PICK cell : cell \in call[w].map
    BY <1>0, FulfillmentAssumption DEF GoodDrafts
  <2>2. cell[2] \in WarehousesOf(call[w].map)
    BY <2>1 DEF WarehousesOf
  <2> QED
    BY <2>2 DEF ReadyToCommit, Undrafted
<1>2. \A row \in call[w].drafts : row \notin table
  BY DEF CanInsert, Codes
<1> QED
  BY <1>0, <1>1, <1>2 DEF GoodDrafts, OneRowPerWarehouse, CanInsert, Codes,
       Book!Posted, Book!OneRowPerWarehouse, Book!CanInsert, Book!Codes

LEMMA SameMoved ==
    ASSUME NEW rows, NEW c
    PROVE  Book!Moved(rows, c) = Moved(rows, c)
BY DEF Book!Moved, Moved

LEMMA BookStep ==
    ASSUME Typed, DraftsInv, [Next]_vars
    PROVE  [Book!BookNext]_(Book!bookVars)
<1> USE DEF bookVars, Book!bookVars
<1>0. TypeOK
  BY DEF Typed
<1>1. ASSUME NEW o \in Orders, AtOnce(o)
      PROVE  UNCHANGED Book!bookVars
  BY <1>1 DEF AtOnce, CreateOrder, CancelOrder, FailDelivery, UpdateReturn
<1>2. ASSUME NEW w \in Workers, NEW o \in Orders, Begin(w, o)
      PROVE  UNCHANGED Book!bookVars
  BY <1>2 DEF Begin, ReadStatus, ReadPendingOrder, ReadReturn, Open
<1>3. ASSUME NEW w \in Workers, CommitShipment(w)
      PROVE  Book!Ship
  <2>1. IsStockCall(w) /\ ReadyToCommit(w) /\ CanInsert(call[w].drafts, exportLogs)
    BY <1>3 DEF CommitShipment, IsStockCall
  <2>2. exportLogs' = exportLogs \cup call[w].drafts /\ importLogs' = importLogs
    BY <1>3 DEF CommitShipment
  <2>3. stock' = [c \in DOMAIN stock |-> stock[c] - Moved(call[w].drafts, c)]
    <3>1. \A c \in DOMAIN stock : Units(w, c) = Moved(call[w].drafts, c)
      BY <1>0, <2>1, MovedIsUnits, InitStockAssumption DEF TypeOK
    <3> QED
      BY <1>3, <3>1 DEF CommitShipment
  <2>4. exportLogs' \ exportLogs = call[w].drafts
        /\ Book!Posted(exportLogs, call[w].drafts)
    BY <2>1, <2>2, DraftsArePosting
  <2>5. stock' = [c \in DOMAIN stock |->
                      stock[c] - Book!Moved(exportLogs' \ exportLogs, c)]
    BY <2>3, <2>4, SameMoved
  <2> QED
    BY <2>2, <2>4, <2>5 DEF Book!Ship
<1>4. ASSUME NEW w \in Workers, CommitReturn(w)
      PROVE  Book!Restock
  <2>1. IsStockCall(w) /\ ReadyToCommit(w) /\ CanInsert(call[w].drafts, importLogs)
    BY <1>4 DEF CommitReturn, IsStockCall
  <2>2. importLogs' = importLogs \cup call[w].drafts /\ exportLogs' = exportLogs
    BY <1>4 DEF CommitReturn
  <2>3. stock' = [c \in DOMAIN stock |-> stock[c] + Moved(call[w].drafts, c)]
    <3>1. \A c \in DOMAIN stock : Units(w, c) = Moved(call[w].drafts, c)
      BY <1>0, <2>1, MovedIsUnits, InitStockAssumption DEF TypeOK
    <3> QED
      BY <1>4, <3>1 DEF CommitReturn
  <2>4. importLogs' \ importLogs = call[w].drafts
        /\ Book!Posted(importLogs, call[w].drafts)
    BY <2>1, <2>2, DraftsArePosting
  <2>5. stock' = [c \in DOMAIN stock |->
                      stock[c] + Book!Moved(importLogs' \ importLogs, c)]
    BY <2>3, <2>4, SameMoved
  <2> QED
    BY <2>2, <2>4, <2>5 DEF Book!Restock
<1>5. ASSUME NEW w \in Workers, Continue(w), ~CommitShipment(w), ~CommitReturn(w)
      PROVE  UNCHANGED Book!bookVars
  BY <1>5 DEF Continue, CommitStatus, CheckStock, DraftExport, DraftImport,
              Draft, Abort
<1>6. CASE UNCHANGED vars
  BY <1>6 DEF vars
<1> QED
  BY <1>1, <1>2, <1>3, <1>4, <1>5, <1>6 DEF Next, Book!BookNext

\* For every set of orders, stock and concurrent handlers, what the handlers
\* do to the stock and its logs is a sequence of whole postings: none of their
\* interleavings, rollbacks or races shows a partial one.
THEOREM ImplementsStockBook == Spec => RefinesStockBook
<1>1. Init => Book!BookInit
  BY DEF Init, Book!BookInit
<1> QED
  BY <1>1, DraftsAlways, BookStep, PTL DEF Spec, RefinesStockBook, Book!BookSpec

-----------------------------------------------------------------------------
(* The reference codes *)

\* Codes counted from a table of n rows fill the numbers after n.
LEMMA CodesFill ==
    ASSUME NEW n \in Nat, NEW k \in Nat, NEW C, IsFiniteSet(C),
           Cardinality(C) = k, C \subseteq 1 .. n + k, C \cap 1 .. n = {}
    PROVE  1 .. n \cup C = 1 .. n + k
<1>1. /\ IsFiniteSet(1 .. n) /\ Cardinality(1 .. n) = n
      /\ IsFiniteSet(1 .. n + k) /\ Cardinality(1 .. n + k) = n + k
  BY FS_Interval
<1>2. (1 .. n) \cap C = {}
  OBVIOUS
<1>3. Cardinality((1 .. n) \cup C) = n + k
  <2>1. Cardinality((1 .. n) \cup C)
            = Cardinality(1 .. n) + Cardinality(C) - Cardinality((1 .. n) \cap C)
    BY <1>1, FS_Union
  <2>2. Cardinality((1 .. n) \cap C) = 0
    BY <1>2, FS_EmptySet
  <2> QED
    BY <1>1, <2>1, <2>2
<1>4. (1 .. n) \cup C \in SUBSET (1 .. n + k)
  OBVIOUS
<1> QED
  BY <1>1, <1>3, <1>4, FS_Subset

\* The codes of a confirmation in progress are at most what its count of the
\* export logs gives when it commits: others only add to that count.
ConfirmCodes ==
    \A w \in Workers : call[w].op = "confirm" =>
        \A row \in call[w].drafts :
            row.code \in 1 .. Cardinality(exportLogs) + Cardinality(call[w].drafts)

\* Likewise a return's, whose own rows are not counted.
CompleteCodes ==
    \A w \in Workers : call[w].op = "complete" =>
        \A row \in call[w].drafts : row.code \in 1 .. Cardinality(exportLogs) + 1

LEMMA LogChange ==
    ASSUME Typed, [Next]_vars
    PROVE  \/ UNCHANGED <<exportLogs, importLogs>>
           \/ \E w \in Workers : CommitShipment(w)
           \/ \E w \in Workers : CommitReturn(w)
<1>1. ASSUME NEW o \in Orders, AtOnce(o)
      PROVE  UNCHANGED <<exportLogs, importLogs>>
  BY <1>1 DEF AtOnce, CreateOrder, CancelOrder, FailDelivery, UpdateReturn, bookVars
<1>2. ASSUME NEW w \in Workers, NEW o \in Orders, Begin(w, o)
      PROVE  UNCHANGED <<exportLogs, importLogs>>
  BY <1>2 DEF Begin, ReadStatus, ReadPendingOrder, ReadReturn, Open, bookVars
<1>3. ASSUME NEW w \in Workers, Continue(w), ~CommitShipment(w), ~CommitReturn(w)
      PROVE  UNCHANGED <<exportLogs, importLogs>>
  BY <1>3 DEF Continue, CommitStatus, CheckStock, DraftExport, DraftImport,
              Draft, Abort, bookVars
<1>4. CASE UNCHANGED vars
  BY <1>4 DEF vars, bookVars
<1> QED
  BY <1>1, <1>2, <1>3, <1>4 DEF Next

LEMMA ExportsGrow ==
    ASSUME Typed, Typed', [Next]_vars
    PROVE  /\ Cardinality(exportLogs) \in Nat
           /\ Cardinality(exportLogs)' \in Nat
           /\ Cardinality(exportLogs) <= Cardinality(exportLogs)'
<1>1. IsFiniteSet(exportLogs) /\ IsFiniteSet(exportLogs')
  BY DEF Typed, TypeOK
<1>2. exportLogs \in SUBSET exportLogs'
  BY LogChange DEF CommitShipment, CommitReturn
<1>3. Cardinality(exportLogs) <= Cardinality(exportLogs')
  BY <1>1, <1>2, FS_Subset
<1> QED
  BY <1>1, <1>3, FS_CardinalityType

\* The codes of w's rows after a step that ends neither w's transaction nor
\* opens it: those it had, and perhaps the next one of its count.
LEMMA DraftCodes ==
    ASSUME Typed, DraftsInv, [Next]_vars, NEW v \in Workers, IsStockCall(v)'
    PROVE  \/ call'[v].drafts = {}
           \/ /\ call'[v].op = call[v].op
              /\ call'[v].drafts = call[v].drafts
           \/ /\ call'[v].op = call[v].op
              /\ UNCHANGED exportLogs
              /\ \E row :
                    /\ call'[v].drafts = call[v].drafts \cup {row}
                    /\ row \notin call[v].drafts
                    /\ row.code = NextCode(IF call[v].op = "confirm"
                                           THEN CountForExport(v)
                                           ELSE CountForImport(v))
<1>0. call \in [Workers -> StatusCall \cup StockCall \cup {NoCall}]
  BY DEF Typed, TypeOK
<1>1. CASE call'[v] = call[v]
  BY <1>1
<1>2. CASE call'[v] = NoCall
  BY <1>2 DEF IsStockCall, NoCall
<1>3. ASSUME NEW o \in Orders, Begin(v, o)
      PROVE  call'[v].drafts = {}
  BY <1>0, <1>3 DEF Begin, ReadStatus, ReadPendingOrder, ReadReturn, Open, IsStockCall
<1>4. ASSUME NEW cell \in Cells, CheckStock(v, cell)
      PROVE  call'[v].op = call[v].op /\ call'[v].drafts = call[v].drafts
  <2>1. call[v] \in StockCall
    BY <1>4, CallTypes DEF Typed, CheckStock
  <2> QED
    BY <1>0, <1>4, <2>1 DEF CheckStock, StockCall
<1>5. ASSUME NEW wh \in Whs, DraftExport(v, wh) \/ DraftImport(v, wh)
      PROVE  /\ call'[v].op = call[v].op
             /\ UNCHANGED exportLogs
             /\ \E row :
                   /\ call'[v].drafts = call[v].drafts \cup {row}
                   /\ row \notin call[v].drafts
                   /\ row.code = NextCode(IF call[v].op = "confirm"
                                          THEN CountForExport(v)
                                          ELSE CountForImport(v))
  <2> DEFINE counted == IF call[v].op = "confirm" THEN CountForExport(v)
                                                  ELSE CountForImport(v)
  <2>1. IsStockCall(v)
    BY <1>5 DEF DraftExport, DraftImport, IsStockCall
  <2>2. PICK table : Draft(v, wh, table, counted)
    BY <1>5 DEF DraftExport, DraftImport
  <2> HIDE DEF counted
  <2>3. PICK row :
          /\ row.code = NextCode(counted)
          /\ row.code \notin Codes(call[v].drafts)
          /\ call'[v].op = call[v].op
          /\ call'[v].drafts = call[v].drafts \cup {row}
    BY <2>1, <2>2, DraftEffect
  <2>4. row \notin call[v].drafts
    BY <2>3 DEF Codes
  <2>5. UNCHANGED exportLogs
    BY <2>2 DEF Draft, bookVars
  <2> QED
    BY <2>3, <2>4, <2>5 DEF counted
<1> QED
  BY <1>1, <1>2, <1>3, <1>4, <1>5, CallChange DEF OwnStep

LEMMA ConfirmCodesKept ==
    ASSUME Typed, Typed', DraftsInv, ConfirmCodes, [Next]_vars
    PROVE  ConfirmCodes'
<1> SUFFICES ASSUME NEW v \in Workers, call'[v].op = "confirm",
                    NEW r \in call'[v].drafts
             PROVE  r.code \in 1 .. Cardinality(exportLogs')
                                    + Cardinality(call'[v].drafts)
  BY DEF ConfirmCodes
<1> DEFINE n == Cardinality(exportLogs)
           m == Cardinality(exportLogs')
<1>1. n \in Nat /\ m \in Nat /\ n <= m
  BY ExportsGrow
<1>2. IsStockCall(v)'
  BY DEF IsStockCall
<1>3. CASE call'[v].drafts = {}
  BY <1>3
<1>4. CASE call'[v].op = call[v].op /\ call'[v].drafts = call[v].drafts
  <2>1. IsFiniteSet(call[v].drafts) /\ r.code \in 1 .. n + Cardinality(call[v].drafts)
    BY <1>4 DEF ConfirmCodes, Typed, DraftsFinite, IsStockCall
  <2>2. Cardinality(call[v].drafts) \in Nat
    BY <2>1, FS_CardinalityType
  <2> HIDE DEF n, m
  <2>3. r.code \in 1 .. m + Cardinality(call[v].drafts)
    BY <1>1, <2>1, <2>2
  <2> QED
    BY <1>4, <2>3 DEF m
<1>5. ASSUME call'[v].op = call[v].op, UNCHANGED exportLogs,
             NEW row, call'[v].drafts = call[v].drafts \cup {row},
             row \notin call[v].drafts, row.code = NextCode(CountForExport(v))
      PROVE  r.code \in 1 .. m + Cardinality(call'[v].drafts)
  <2> DEFINE k == Cardinality(call[v].drafts)
  <2>1. IsFiniteSet(call[v].drafts) /\ k \in Nat
    BY <1>5, FS_CardinalityType DEF Typed, DraftsFinite, IsStockCall
  <2>2. Cardinality(call'[v].drafts) = k + 1
    BY <1>5, <2>1, FS_AddElement
  <2>3. m = n
    BY <1>5
  <2>4. row.code = n + k + 1
    BY <1>5 DEF NextCode, CountForExport
  <2>5. r \in call[v].drafts => r.code \in 1 .. n + k
    BY <1>5 DEF ConfirmCodes
  <2>6. r = row \/ r \in call[v].drafts
    BY <1>5
  <2> HIDE DEF n, m, k
  <2> QED
    BY <1>1, <2>1, <2>2, <2>3, <2>4, <2>5, <2>6
<1> QED
  BY <1>2, <1>3, <1>4, <1>5, DraftCodes

LEMMA CompleteCodesKept ==
    ASSUME Typed, Typed', DraftsInv, CompleteCodes, [Next]_vars
    PROVE  CompleteCodes'
<1> SUFFICES ASSUME NEW v \in Workers, call'[v].op = "complete",
                    NEW r \in call'[v].drafts
             PROVE  r.code \in 1 .. Cardinality(exportLogs') + 1
  BY DEF CompleteCodes
<1>1. /\ Cardinality(exportLogs) \in Nat /\ Cardinality(exportLogs') \in Nat
      /\ Cardinality(exportLogs) <= Cardinality(exportLogs')
  BY ExportsGrow
<1>2. IsStockCall(v)'
  BY DEF IsStockCall
<1>3. CASE call'[v].op = call[v].op /\ call'[v].drafts = call[v].drafts
  <2>1. r.code \in 1 .. Cardinality(exportLogs) + 1
    BY <1>3 DEF CompleteCodes
  <2> QED
    BY <1>1, <2>1
<1>4. ASSUME call'[v].op = call[v].op, UNCHANGED exportLogs,
             NEW row, call'[v].drafts = call[v].drafts \cup {row},
             row.code = NextCode(CountForImport(v))
      PROVE  r.code \in 1 .. Cardinality(exportLogs') + 1
  <2>1. row.code = Cardinality(exportLogs) + 1
    BY <1>4 DEF NextCode, CountForImport
  <2>2. r \in call[v].drafts => r.code \in 1 .. Cardinality(exportLogs) + 1
    BY <1>4 DEF CompleteCodes
  <2> QED
    BY <1>1, <1>4, <2>1, <2>2
<1> QED
  BY <1>2, <1>3, <1>4, DraftCodes

LEMMA DenseKept ==
    ASSUME Typed, Typed', DraftsInv, ConfirmCodes, ExportCodesDense, [Next]_vars
    PROVE  ExportCodesDense'
<1>1. CASE UNCHANGED exportLogs
  BY <1>1 DEF ExportCodesDense, Codes
<1>2. ASSUME NEW w \in Workers, CommitShipment(w)
      PROVE  ExportCodesDense'
  <2> DEFINE n == Cardinality(exportLogs)
             rows == call[w].drafts
             k == Cardinality(rows)
  <2>1. IsStockCall(w) /\ call[w].op = "confirm"
    BY <1>2 DEF CommitShipment, IsStockCall
  <2>2. /\ IsFiniteSet(exportLogs) /\ IsFiniteSet(rows)
        /\ n \in Nat /\ k \in Nat
    BY <2>1, FS_CardinalityType DEF Typed, TypeOK, DraftsFinite
  <2>3. IsFiniteSet(Codes(rows)) /\ Cardinality(Codes(rows)) = k
    BY <2>1 DEF DraftsInv, GoodDrafts
  <2>4. Codes(rows) \subseteq 1 .. n + k
    BY <2>1 DEF ConfirmCodes, Codes
  <2>5. Codes(rows) \cap Codes(exportLogs) = {}
    BY <1>2 DEF CommitShipment, CanInsert
  <2>6. Codes(exportLogs) = 1 .. n
    BY DEF ExportCodesDense
  <2>7. Codes(exportLogs) \cup Codes(rows) = 1 .. n + k
    <3> HIDE DEF n, k
    <3> QED
      BY <2>2, <2>3, <2>4, <2>5, <2>6, CodesFill
  <2>8. exportLogs' = exportLogs \cup rows
    BY <1>2 DEF CommitShipment
  <2>9. Codes(exportLogs') = Codes(exportLogs) \cup Codes(rows)
    BY <2>8 DEF Codes
  <2>10. Cardinality(exportLogs') = n + k
    <3>1. exportLogs \cap rows = {}
      BY <2>5 DEF Codes
    <3>2. Cardinality(exportLogs \cap rows) = 0
      BY <3>1, FS_EmptySet
    <3>3. Cardinality(exportLogs \cup rows)
              = n + k - Cardinality(exportLogs \cap rows)
      BY <2>2, FS_Union
    <3> HIDE DEF n, k
    <3> QED
      BY <2>2, <2>8, <3>2, <3>3
  <2> QED
    BY <2>7, <2>9, <2>10 DEF ExportCodesDense, Codes
<1>3. ASSUME NEW w \in Workers, CommitReturn(w)
      PROVE  UNCHANGED exportLogs
  BY <1>3 DEF CommitReturn
<1> QED
  BY <1>1, <1>2, <1>3, LogChange

LEMMA CodesAlways ==
    Spec => [](Typed /\ DraftsInv /\ ConfirmCodes /\ CompleteCodes /\ ExportCodesDense)
<1>1. Init => ConfirmCodes /\ CompleteCodes /\ ExportCodesDense
  <2> SUFFICES ASSUME Init PROVE ConfirmCodes /\ CompleteCodes /\ ExportCodesDense
    OBVIOUS
  <2>1. Codes(exportLogs) = {} /\ Cardinality(exportLogs) = 0
    BY FS_EmptySet DEF Init, Codes
  <2>2. ExportCodesDense
    BY <2>1 DEF ExportCodesDense
  <2> QED
    BY <2>2 DEF Init, ConfirmCodes, CompleteCodes, NoCall
<1> QED
  BY <1>1, DraftsAlways, ConfirmCodesKept, CompleteCodesKept, DenseKept, PTL DEF Spec

\* However many confirmations number their logs from counts that others make
\* stale, the export codes that commit are 1, 2, 3, ... without a gap.
THEOREM ExportCodesCorrect == Spec => []ExportCodesDense
BY CodesAlways, PTL

\* The codes of the return logs are distinct and no larger than the count of
\* the export logs gives now.
ImportInv ==
    /\ Codes(importLogs) \subseteq 1 .. Cardinality(exportLogs) + 1
    /\ IsFiniteSet(Codes(importLogs))
    /\ Cardinality(Codes(importLogs)) = Cardinality(importLogs)

LEMMA ImportInvKept ==
    ASSUME Typed, Typed', DraftsInv, CompleteCodes, ImportInv, [Next]_vars
    PROVE  ImportInv'
<1>1. /\ Cardinality(exportLogs) \in Nat /\ Cardinality(exportLogs') \in Nat
      /\ Cardinality(exportLogs) <= Cardinality(exportLogs')
  BY ExportsGrow
<1>2. CASE UNCHANGED importLogs
  <2>1. Codes(importLogs') = Codes(importLogs)
    BY <1>2
  <2>2. Codes(importLogs) \subseteq 1 .. Cardinality(exportLogs') + 1
    BY <1>1 DEF ImportInv
  <2> QED
    BY <1>2, <2>1, <2>2 DEF ImportInv, Codes
<1>3. ASSUME NEW w \in Workers, CommitReturn(w)
      PROVE  ImportInv'
  <2> DEFINE rows == call[w].drafts
             n == Cardinality(exportLogs)
  <2>1. IsStockCall(w) /\ call[w].op = "complete"
    BY <1>3 DEF CommitReturn, IsStockCall
  <2>2. importLogs' = importLogs \cup rows /\ exportLogs' = exportLogs
    BY <1>3 DEF CommitReturn
  <2>3. Codes(rows) \cap Codes(importLogs) = {}
    BY <1>3 DEF CommitReturn, CanInsert
  <2>4. IsFiniteSet(importLogs) /\ IsFiniteSet(rows)
    BY <2>1 DEF Typed, TypeOK, DraftsFinite
  <2>5. IsFiniteSet(Codes(rows)) /\ Cardinality(Codes(rows)) = Cardinality(rows)
    BY <2>1 DEF DraftsInv, GoodDrafts
  <2>6. Codes(rows) \subseteq 1 .. n + 1
    BY <2>1 DEF CompleteCodes, Codes
  <2>7. Codes(importLogs') = Codes(importLogs) \cup Codes(rows)
    BY <2>2 DEF Codes
  <2>8. Codes(importLogs') \subseteq 1 .. n + 1
    BY <2>6, <2>7 DEF ImportInv
  <2>9. importLogs \cap rows = {}
    BY <2>3 DEF Codes
  <2>10. /\ Cardinality(Codes(importLogs) \cap Codes(rows)) = 0
         /\ Cardinality(importLogs \cap rows) = 0
    BY <2>3, <2>9, FS_EmptySet
  <2>11. Cardinality(importLogs')
             = Cardinality(importLogs) + Cardinality(rows) - Cardinality(importLogs \cap rows)
    BY <2>2, <2>4, FS_Union
  <2>12. /\ IsFiniteSet(Codes(importLogs'))
         /\ Cardinality(Codes(importLogs'))
               = Cardinality(Codes(importLogs)) + Cardinality(Codes(rows))
                     - Cardinality(Codes(importLogs) \cap Codes(rows))
    BY <2>5, <2>7, FS_Union DEF ImportInv
  <2>13. Cardinality(Codes(importLogs')) = Cardinality(importLogs')
    BY <2>5, <2>10, <2>11, <2>12 DEF ImportInv
  <2> QED
    BY <2>2, <2>8, <2>12, <2>13 DEF ImportInv, Codes
<1>4. ASSUME NEW w \in Workers, CommitShipment(w)
      PROVE  UNCHANGED importLogs
  BY <1>4 DEF CommitShipment
<1> QED
  BY <1>2, <1>3, <1>4, LogChange

\* Distinct codes up to one more than the number of shipments: the return logs
\* are no more than that.
LEMMA ImportsBounded ==
    ASSUME Typed, ImportInv
    PROVE  ReturnsWaitForExports
<1> DEFINE n == Cardinality(exportLogs)
<1>1. n \in Nat
  BY FS_CardinalityType DEF Typed, TypeOK
<1>2. IsFiniteSet(1 .. n + 1) /\ Cardinality(1 .. n + 1) = n + 1
  <2> HIDE DEF n
  <2> QED
    BY <1>1, FS_Interval
<1>3. Cardinality(Codes(importLogs)) <= Cardinality(1 .. n + 1)
  BY <1>2, FS_Subset DEF ImportInv
<1> QED
  BY <1>2, <1>3 DEF ImportInv, ReturnsWaitForExports

\* A return's log is numbered by the export logs: however returns and shipments
\* race, there are at most as many return logs as shipments plus one.
THEOREM ReturnsWait == Spec => []ReturnsWaitForExports
<1>1. Init => ImportInv
  <2> SUFFICES ASSUME Init PROVE ImportInv
    OBVIOUS
  <2>1. Codes(importLogs) = {} /\ importLogs = {}
    BY DEF Init, Codes
  <2> QED
    BY <2>1, FS_EmptySet DEF ImportInv
<1>2. Typed /\ Typed' /\ DraftsInv /\ CompleteCodes /\ ImportInv /\ [Next]_vars
          => ImportInv'
  BY ImportInvKept
<1>3. Typed /\ ImportInv => ReturnsWaitForExports
  BY ImportsBounded
<1> QED
  BY <1>1, <1>2, <1>3, CodesAlways, PTL DEF Spec

-----------------------------------------------------------------------------
(* Returns and their paperwork *)

\* The four things a step does to the return requests and the import logs:
\* nothing, open a request, move one, or complete one with its rows.
OpensReturn(o) == \E type \in {"CANCEL", "DELIVERY_FAIL"} : OpenReturn(o, type)
MovesReturn(o) ==
    /\ returns[o] # NoReturn
    /\ \E new \in ReturnStatus, approved \in BOOLEAN :
          SetReturn(o, new, approved, returns[o].closed)

LEMMA ReturnChange ==
    ASSUME Typed, [Next]_vars
    PROVE  \/ UNCHANGED <<returns, importLogs>>
           \/ /\ UNCHANGED importLogs
              /\ \E o \in Orders : OpensReturn(o) \/ MovesReturn(o)
           \/ \E w \in Workers : CommitReturn(w)
<1>1. ASSUME NEW o \in Orders, AtOnce(o)
      PROVE  /\ UNCHANGED importLogs
             /\ UNCHANGED returns \/ OpensReturn(o) \/ MovesReturn(o)
  <2>1. UNCHANGED importLogs
    BY <1>1 DEF AtOnce, CreateOrder, CancelOrder, FailDelivery, UpdateReturn,
                bookVars
  <2>2. ASSUME NEW prefilled \in BOOLEAN, CreateOrder(o, prefilled)
        PROVE  UNCHANGED returns
    BY <2>2 DEF CreateOrder
  <2>3. ASSUME NEW old, CancelOrder(o, old)
        PROVE  UNCHANGED returns \/ OpensReturn(o)
    BY <2>3 DEF CancelOrder, OpensReturn
  <2>4. ASSUME NEW old, FailDelivery(o, old)
        PROVE  OpensReturn(o)
    BY <2>4 DEF FailDelivery, OpensReturn
  <2>5. ASSUME NEW new \in ReturnStatus, UpdateReturn(o, new)
        PROVE  MovesReturn(o)
    <3> DEFINE approved == new \in {"APPROVED", "REJECTED"}
    <3>1. returns[o] # NoReturn /\ SetReturn(o, new, approved, returns[o].closed)
      BY <2>5 DEF UpdateReturn
    <3>2. approved \in BOOLEAN
      OBVIOUS
    <3> HIDE DEF approved
    <3> QED
      BY <3>1, <3>2, Zenon DEF MovesReturn
  <2> QED
    BY <1>1, <2>1, <2>2, <2>3, <2>4, <2>5 DEF AtOnce
<1>2. ASSUME NEW w \in Workers, NEW o \in Orders, Begin(w, o)
      PROVE  UNCHANGED <<returns, importLogs>>
  BY <1>2 DEF Begin, ReadStatus, ReadPendingOrder, ReadReturn, Open, bookVars
<1>3. ASSUME NEW w \in Workers, Continue(w), ~CommitReturn(w)
      PROVE  UNCHANGED <<returns, importLogs>>
  BY <1>3 DEF Continue, CommitStatus, CheckStock, DraftExport, DraftImport,
              Draft, CommitShipment, Abort, bookVars
<1>4. CASE UNCHANGED vars
  BY <1>4 DEF vars, bookVars
<1> QED
  BY <1>1, <1>2, <1>3, <1>4 DEF Next

LEMMA ClosedKept ==
    ASSUME Typed, CompletesReturn, DraftsInv, ClosedMeansRestocked, [Next]_vars
    PROVE  ClosedMeansRestocked'
<1> USE DEF ClosedMeansRestocked
<1>0. returns \in [Orders -> ReturnRow \cup {NoReturn}]
  BY DEF Typed, TypeOK
<1>1. CASE UNCHANGED <<returns, importLogs>>
  BY <1>1
<1>2. ASSUME NEW o \in Orders, OpensReturn(o), UNCHANGED importLogs
      PROVE  ClosedMeansRestocked'
  <2>1. PICK type \in {"CANCEL", "DELIVERY_FAIL"} : OpenReturn(o, type)
    BY <1>2 DEF OpensReturn
  <2>2. returns[o].closed = FALSE
    BY <2>1 DEF OpenReturn, NoReturn
  <2>3. returns' = [returns EXCEPT ![o] = NewReturn(type)]
    BY <2>1 DEF OpenReturn
  <2>4. NewReturn(type).closed = FALSE
    BY DEF NewReturn
  <2>5. \A p \in Orders : returns'[p].closed = returns[p].closed
    BY <1>0, <2>2, <2>3, <2>4
  <2> QED
    BY <1>2, <2>5
<1>3. ASSUME NEW o \in Orders, MovesReturn(o), UNCHANGED importLogs
      PROVE  ClosedMeansRestocked'
  <2>1. PICK new \in ReturnStatus, approved \in BOOLEAN :
             SetReturn(o, new, approved, returns[o].closed)
    BY <1>3 DEF MovesReturn
  <2>2. \A p \in Orders : returns'[p].closed = returns[p].closed
    BY <1>0, <2>1 DEF SetReturn
  <2> QED
    BY <1>3, <2>2
<1>4. ASSUME NEW w \in Workers, CommitReturn(w)
      PROVE  ClosedMeansRestocked'
  <2> DEFINE o == call[w].order
             rows == call[w].drafts
  <2>1. IsStockCall(w) /\ o \in Orders
    BY <1>4, CallTypes DEF CommitReturn, Typed, StockCall
  <2>2. GoodDrafts(w) /\ rows # {}
    <3>1. GoodDrafts(w)
      BY <2>1 DEF DraftsInv
    <3>2. PICK cell : cell \in call[w].map
      BY <3>1, FulfillmentAssumption DEF GoodDrafts
    <3>3. cell[2] \in WarehousesOf(call[w].map)
      BY <3>2 DEF WarehousesOf
    <3> QED
      BY <1>4, <3>1, <3>3 DEF CommitReturn, ReadyToCommit, Undrafted
  <2>3. \A row \in rows : row.order = o
    BY <2>2 DEF GoodDrafts
  <2>4. importLogs' = importLogs \cup rows
    BY <1>4 DEF CommitReturn
  <2>5. SetReturn(o, "COMPLETED", TRUE, TRUE)
    BY <1>4 DEF CommitReturn
  <2> HIDE DEF o, rows
  <2>6. /\ returns'[o].closed = TRUE
        /\ \A p \in Orders \ {o} : returns'[p].closed = returns[p].closed
    BY <1>0, <2>1, <2>5 DEF SetReturn
  <2>7. ASSUME NEW p \in Orders
        PROVE  returns'[p].closed <=> \E row \in importLogs' : row.order = p
    <3>1. CASE p = o
      BY <2>2, <2>3, <2>4, <2>6, <3>1
    <3>2. CASE p # o
      BY <2>3, <2>4, <2>6, <3>2
    <3> QED
      BY <3>1, <3>2
  <2> QED
    BY <2>7
<1> QED
  BY <1>1, <1>2, <1>3, <1>4, ReturnChange

\* A return request says when it was completed exactly if goods came back for
\* its order, whatever other requests did to its status meanwhile.
THEOREM ClosedCorrect == Spec => []ClosedMeansRestocked
<1>1. Init => ClosedMeansRestocked
  BY DEF Init, ClosedMeansRestocked, NoReturn
<1> QED
  BY <1>1, ClosedKept, TypedAlways, DraftsAlways, PTL DEF Spec

-----------------------------------------------------------------------------
(* How often an order can be shipped *)

\* The shipments of o that are still in progress.
Confirming(o) ==
    {w \in Workers : call[w].op = "confirm" /\ call[w].order = o}

\* Before an order leaves PENDING nothing of it is shipped, so whoever may
\* still ship it is among the shipments in progress; each of these adds at most
\* one log per warehouse when it is no longer among them.
ShipmentInv ==
    \A o \in Orders :
        /\ status[o] \in {NoOrder, "PENDING"} => \A row \in exportLogs : row.order # o
        /\ \A wh \in Whs :
              Cardinality(ShipmentsFrom(o, wh)) + Cardinality(Confirming(o))
                  <= Cardinality(Workers)

LEMMA ConfirmingFinite ==
    ASSUME NEW o
    PROVE  /\ IsFiniteSet(Confirming(o))
           /\ Cardinality(Confirming(o)) \in Nat
           /\ Cardinality(Confirming(o)) <= Cardinality(Workers)
           /\ Cardinality(Workers) \in Nat
<1>1. Confirming(o) \in SUBSET Workers
  BY DEF Confirming
<1> QED
  BY <1>1, FulfillmentAssumption, FS_Subset, FS_CardinalityType

LEMMA ShipmentsFinite ==
    ASSUME Typed, NEW o, NEW wh
    PROVE  /\ IsFiniteSet(ShipmentsFrom(o, wh))
           /\ Cardinality(ShipmentsFrom(o, wh)) \in Nat
<1>1. ShipmentsFrom(o, wh) \in SUBSET exportLogs
  BY DEF ShipmentsFrom
<1> QED
  BY <1>1, FS_Subset, FS_CardinalityType DEF Typed, TypeOK

\* A step makes a shipment of o begin only while o is PENDING.
LEMMA ConfirmingChange ==
    ASSUME Typed, [Next]_vars, NEW o \in Orders, status[o] # "PENDING"
    PROVE  Confirming(o)' \subseteq Confirming(o)
<1> SUFFICES ASSUME NEW v \in Workers, call'[v].op = "confirm",
                    call'[v].order = o
             PROVE  call[v].op = "confirm" /\ call[v].order = o
  BY DEF Confirming
<1>0. call \in [Workers -> StatusCall \cup StockCall \cup {NoCall}]
  BY DEF Typed, TypeOK
<1>1. CASE call'[v] = call[v]
  BY <1>1
<1>2. CASE call'[v] = NoCall
  BY <1>2 DEF NoCall
<1>3. ASSUME NEW p \in Orders, Begin(v, p)
      PROVE  FALSE
  BY <1>0, <1>3 DEF Begin, ReadStatus, ReadPendingOrder, ReadReturn, Open
<1>4. ASSUME NEW cell \in Cells, CheckStock(v, cell)
      PROVE  call[v].op = "confirm" /\ call[v].order = o
  <2>1. call[v] \in StockCall
    BY <1>4, CallTypes DEF Typed, CheckStock
  <2> QED
    BY <1>0, <1>4, <2>1 DEF CheckStock, StockCall
<1>5. ASSUME NEW wh \in Whs, DraftExport(v, wh) \/ DraftImport(v, wh)
      PROVE  call[v].op = "confirm" /\ call[v].order = o
  <2>1. call[v] \in StockCall
    BY <1>5, CallTypes DEF Typed, DraftExport, DraftImport, IsStockCall
  <2>2. PICK table, counted : Draft(v, wh, table, counted)
    BY <1>5 DEF DraftExport, DraftImport
  <2>3. call'[v].op = call[v].op /\ call'[v].order = call[v].order
    BY <1>0, <2>1, <2>2 DEF Draft, StockCall
  <2> QED
    BY <2>3
<1> QED
  BY <1>1, <1>2, <1>3, <1>4, <1>5, CallChange DEF OwnStep

\* What a shipment of w adds to the logs of an order and a warehouse.
LEMMA ShipmentAdds ==
    ASSUME Typed, Typed', DraftsInv, NEW w \in Workers, CommitShipment(w),
           NEW o \in Orders, NEW wh \in Whs
    PROVE  Cardinality(ShipmentsFrom(o, wh))' + Cardinality(Confirming(o)')
               <= Cardinality(ShipmentsFrom(o, wh)) + Cardinality(Confirming(o))
<1> DEFINE rows == call[w].drafts
           added == {row \in rows : row.order = o /\ row.wh = wh}
<1>0. /\ IsStockCall(w)
      /\ call \in [Workers -> StatusCall \cup StockCall \cup {NoCall}]
      /\ call[w].op = "confirm"
  BY CallTypes DEF Typed, TypeOK, CommitShipment
<1>1. GoodDrafts(w)
  BY <1>0 DEF DraftsInv
<1>2. exportLogs' = exportLogs \cup rows
  BY DEF CommitShipment
<1>3. call' = [call EXCEPT ![w] = NoCall]
  BY DEF CommitShipment
<1>4. Confirming(o)' = Confirming(o) \ {w}
  <2>1. call'[w].op # "confirm"
    BY <1>0, <1>3 DEF NoCall
  <2>2. \A v \in Workers \ {w} : call'[v] = call[v]
    BY <1>0, <1>3
  <2> QED
    BY <2>1, <2>2 DEF Confirming
<1>5. ShipmentsFrom(o, wh)' = ShipmentsFrom(o, wh) \cup added
  BY <1>2 DEF ShipmentsFrom
<1>6. \A row \in rows : row.order = call[w].order
  BY <1>1 DEF GoodDrafts
<1>7. \A r1, r2 \in added : r1 = r2
  BY <1>1 DEF GoodDrafts, OneRowPerWarehouse
<1>8. CASE added = {}
  <2>1. Cardinality(Confirming(o)') <= Cardinality(Confirming(o))
    BY <1>4, ConfirmingFinite, FS_Subset
  <2>2. ShipmentsFrom(o, wh)' = ShipmentsFrom(o, wh)
    BY <1>5, <1>8
  <2>3. Cardinality(Confirming(o)') \in Nat
    BY <1>4, ConfirmingFinite, FS_Subset, FS_CardinalityType
  <2> QED
    BY <2>1, <2>2, <2>3, ConfirmingFinite, ShipmentsFinite
<1>9. CASE added # {}
  <2>1. PICK row : row \in added
    BY <1>9
  <2>2. added = {row}
    BY <1>7, <2>1
  <2>3. call[w].order = o
    BY <1>6, <2>1
  <2>4. w \in Confirming(o)
    BY <1>0, <2>3 DEF Confirming
  <2>5. Cardinality(Confirming(o) \ {w}) = Cardinality(Confirming(o)) - 1
    BY <2>4, ConfirmingFinite, FS_RemoveElement
  <2>6. \/ Cardinality(ShipmentsFrom(o, wh) \cup {row})
               = Cardinality(ShipmentsFrom(o, wh))
        \/ Cardinality(ShipmentsFrom(o, wh) \cup {row})
               = Cardinality(ShipmentsFrom(o, wh)) + 1
    BY ShipmentsFinite, FS_AddElement
  <2> HIDE DEF added, rows
  <2> QED
    BY <1>4, <1>5, <2>2, <2>3, <2>5, <2>6, ConfirmingFinite, ShipmentsFinite
<1> QED
  BY <1>8, <1>9

LEMMA ShipmentKept ==
    ASSUME Typed, Typed', StatusCallInv, DraftsInv, ShipmentInv, [Next]_vars
    PROVE  ShipmentInv'
<1> SUFFICES ASSUME NEW o \in Orders
             PROVE  /\ status'[o] \in {NoOrder, "PENDING"} =>
                           \A row \in exportLogs' : row.order # o
                    /\ \A wh \in Whs :
                          Cardinality(ShipmentsFrom(o, wh))' + Cardinality(Confirming(o)')
                              <= Cardinality(Workers)
  BY DEF ShipmentInv
<1>1. ASSUME status'[o] \in {NoOrder, "PENDING"}
      PROVE  status[o] \in {NoOrder, "PENDING"}
  BY <1>1, OrderLife DEF Exists
<1>2. ASSUME NEW w \in Workers, CommitShipment(w)
      PROVE  /\ status'[o] \in {NoOrder, "PENDING"} =>
                    \A row \in exportLogs' : row.order # o
             /\ \A wh \in Whs :
                   Cardinality(ShipmentsFrom(o, wh))' + Cardinality(Confirming(o)')
                       <= Cardinality(Workers)
  <2>1. call[w].order \in Orders
    BY <1>2, CallTypes DEF CommitShipment, Typed, StockCall
  <2>2. status'[call[w].order] = "PROCESSING"
    BY <1>2, <2>1 DEF CommitShipment, MoveTo, Typed, TypeOK
  <2>3. ASSUME NEW wh \in Whs
        PROVE  Cardinality(ShipmentsFrom(o, wh))' + Cardinality(Confirming(o)')
                   <= Cardinality(Workers)
    <3>1. Confirming(o)' \in SUBSET Workers
      BY DEF Confirming
    <3>2. Cardinality(Confirming(o)') \in Nat
      BY <3>1, FulfillmentAssumption, FS_Subset, FS_CardinalityType
    <3>3. Cardinality(ShipmentsFrom(o, wh))' \in Nat
      <4>1. ShipmentsFrom(o, wh)' \in SUBSET exportLogs'
        BY DEF ShipmentsFrom
      <4> QED
        BY <4>1, FS_Subset, FS_CardinalityType DEF Typed, TypeOK
    <3> QED
      BY <1>2, <3>2, <3>3, ShipmentAdds, ConfirmingFinite, ShipmentsFinite
         DEF ShipmentInv
  <2>4. CASE o = call[w].order
    BY <2>2, <2>3, <2>4 DEF NoOrder
  <2>5. CASE o # call[w].order
    <3>1. \A row \in exportLogs' : row.order = o => row \in exportLogs
      <4>1. exportLogs' = exportLogs \cup call[w].drafts
        BY <1>2 DEF CommitShipment
      <4>2. \A row \in call[w].drafts : row.order = call[w].order
        BY <1>2, CallTypes DEF DraftsInv, GoodDrafts, Typed, CommitShipment
      <4> QED
        BY <2>5, <4>1, <4>2
    <3> QED
      BY <1>1, <2>3, <3>1 DEF ShipmentInv
  <2> QED
    BY <2>4, <2>5
<1>3. CASE UNCHANGED exportLogs
  <2>1. \A wh \in Whs : ShipmentsFrom(o, wh)' = ShipmentsFrom(o, wh)
    BY <1>3 DEF ShipmentsFrom
  <2>2. CASE status[o] = "PENDING"
    <3>1. \A wh \in Whs : ShipmentsFrom(o, wh) = {}
      BY <2>2 DEF ShipmentInv, ShipmentsFrom
    <3>2. Confirming(o)' \in SUBSET Workers
      BY DEF Confirming
    <3>3. /\ Cardinality(Confirming(o)') \in Nat
          /\ Cardinality(Confirming(o)') <= Cardinality(Workers)
      BY <3>2, FulfillmentAssumption, FS_Subset, FS_CardinalityType
    <3>4. \A wh \in Whs : Cardinality(ShipmentsFrom(o, wh))' = 0
      BY <2>1, <3>1, FS_EmptySet
    <3> QED
      BY <1>1, <1>3, <3>3, <3>4 DEF ShipmentInv
  <2>3. CASE status[o] # "PENDING"
    <3>1. Confirming(o)' \in SUBSET Confirming(o)
      BY <2>3, ConfirmingChange
    <3>2. /\ Cardinality(Confirming(o)') \in Nat
          /\ Cardinality(Confirming(o)') <= Cardinality(Confirming(o))
      BY <3>1, ConfirmingFinite, FS_Subset, FS_CardinalityType
    <3> QED
      BY <1>1, <1>3, <2>1, <3>2, ConfirmingFinite, ShipmentsFinite DEF ShipmentInv
  <2> QED
    BY <2>2, <2>3
<1>4. ASSUME NEW w \in Workers, CommitReturn(w)
      PROVE  UNCHANGED exportLogs
  BY <1>4 DEF CommitReturn
<1> QED
  BY <1>2, <1>3, <1>4, LogChange

\* However many confirmations of an order read it while it is PENDING, a
\* warehouse ships it no more often than handlers can be in progress at once.
THEOREM ShipmentsCorrect == Spec => []ShipmentsBoundedByWorkers
<1>1. Init => ShipmentInv
  <2> SUFFICES ASSUME Init, NEW o \in Orders, NEW wh \in Whs
               PROVE  /\ \A row \in exportLogs : row.order # o
                      /\ Cardinality(ShipmentsFrom(o, wh)) + Cardinality(Confirming(o))
                             <= Cardinality(Workers)
    BY DEF ShipmentInv, Init
  <2>1. ShipmentsFrom(o, wh) = {}
    BY DEF Init, ShipmentsFrom
  <2>2. Cardinality(ShipmentsFrom(o, wh)) = 0
    BY <2>1, FS_EmptySet
  <2> QED
    BY <2>2, ConfirmingFinite DEF Init
<1>2. Typed /\ ShipmentInv => ShipmentsBoundedByWorkers
  <2> SUFFICES ASSUME Typed, ShipmentInv, NEW o \in Orders, NEW wh \in Whs
               PROVE  Cardinality(ShipmentsFrom(o, wh)) <= Cardinality(Workers)
    BY DEF ShipmentsBoundedByWorkers
  <2> QED
    BY ConfirmingFinite, ShipmentsFinite DEF ShipmentInv
<1>3. Typed /\ Typed' /\ StatusCallInv /\ DraftsInv /\ ShipmentInv /\ [Next]_vars
          => ShipmentInv'
  BY ShipmentKept
<1> QED
  BY <1>1, <1>2, <1>3, StatusCallAlways, DraftsAlways, PTL DEF Spec
=============================================================================
