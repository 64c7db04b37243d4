------------------------------ MODULE Checkout ------------------------------
(***************************************************************************)
(* A customer's cart, the order it becomes, and the edits of that order    *)
(* before and beside its shipment: CartService, the end of                 *)
(* OrderService.create, OrderService.update, and confirmShipment as far as *)
(* it reads the items.                                                     *)
(*                                                                         *)
(* Apart from addToCart the cart handlers run no transaction: each of      *)
(* their statements commits by itself.  All of them look for the row of a  *)
(* SKU in one statement and write it, by its id, in another; requests of   *)
(* the customer's other devices come in between.  A statement that names a *)
(* row which is gone, or inserts a second row of a SKU, fails: the request *)
(* ends there (Abort), and what it wrote before stays.                     *)
(*                                                                         *)
(* Left out: the Cart row (a handler that finds none is refused, or        *)
(* creates it and goes on); prices, names and attributes of the items; the *)
(* status beyond PENDING, PROCESSING, which no edit looks at.              *)
(***************************************************************************)
EXTENDS Integers, Sequences, FiniteSets, FiniteSetsExt

CONSTANTS Workers,     \* requests that can be in progress at once
          Skus,        \* ProductSKU.id, each with its productId
          Stock,       \* Stock[s]: units of s in all warehouses
          Quantities,  \* quantities the clients send
          Lists,       \* lists of items they send: a SKU may come twice
          MaxRequests  \* bound: requests in a behaviour

None == "NONE"

\* An entry of a list that a client sends
Entry == [sku: Skus, qty: Quantities]

ASSUME CheckoutAssumption ==
    /\ Stock \in [Skus -> Nat]
    /\ Quantities \subseteq Nat \ {0}
    /\ Lists \subseteq Seq(Entry) \ {<<>>}
    /\ IsFiniteSet(Workers)

VARIABLES
    cart,     \* CartItem rows by SKU: (cartId, productId, skuId) is unique
    lastId,   \* the last CartItem.id given
    status,   \* Order.status, None before there is an order
    items,    \* OrderItem rows
    shipped,  \* what the last shipment took, and of which edition
    edition,  \* history: edits of the order committed so far
    asked,    \* history: what the customer asked for of each SKU
    requests, \* requests started
    call      \* the request each worker handles

cartVars == <<cart, lastId, asked>>
orderVars == <<status, items, shipped, edition>>
vars == <<cartVars, orderVars, requests, call>>

NoRow == [id |-> 0, qty |-> 0]
NoCall == [op |-> "idle"]
NotShipped == [edition |-> -1]

Init ==
    /\ cart = [s \in Skus |-> NoRow]
    /\ lastId = 0
    /\ status = None
    /\ items = {}
    /\ shipped = NotShipped
    /\ edition = 0
    /\ asked = [s \in Skus |-> [added |-> 0, most |-> 0]]
    /\ requests = 0
    /\ call = [w \in Workers |-> NoCall]

-----------------------------------------------------------------------------
(* What the handlers share *)

Free(w) == call[w] = NoCall
Arrive == requests < MaxRequests /\ requests' = requests + 1
Done(w) == call' = [call EXCEPT ![w] = NoCall]

\* A statement fails, the connection or the server is lost.
Abort(w) == ~Free(w) /\ Done(w) /\ UNCHANGED <<cartVars, orderVars, requests>>

InsertRow(s, n) ==
    /\ cart[s] = NoRow
    /\ lastId' = lastId + 1
    /\ cart' = [cart EXCEPT ![s] = [id |-> lastId + 1, qty |-> n]]

\* Update and delete by id: the row must still be there.
UpdateRow(s, row, n) ==
    /\ cart[s].id = row.id
    /\ cart' = [cart EXCEPT ![s].qty = n]
    /\ UNCHANGED lastId
DeleteRow(s, row) ==
    /\ cart[s].id = row.id
    /\ cart' = [cart EXCEPT ![s] = NoRow]
    /\ UNCHANGED lastId

-----------------------------------------------------------------------------
(* The cart handlers of one statement, after checks of what they name *)

\* updateQuantity, which removes the item when the quantity is not positive
SetQuantity(s, n) ==
    /\ Arrive
    /\ cart[s] # NoRow
    /\ n <= Stock[s]
    /\ UpdateRow(s, cart[s], n)
    /\ asked' = [asked EXCEPT ![s].most = Max({@, n})]
    /\ UNCHANGED <<orderVars, call>>

RemoveItem(s) ==
    /\ Arrive
    /\ cart[s] # NoRow
    /\ DeleteRow(s, cart[s])
    /\ UNCHANGED <<asked, orderVars, call>>

ClearCart ==
    /\ Arrive
    /\ cart' = [s \in Skus |-> NoRow]
    /\ UNCHANGED <<lastId, asked, orderVars, call>>

-----------------------------------------------------------------------------
(* addToCart, syncCart, syncCartReload and the end of create: for each     *)
(* entry of the list, look for the row of its SKU, then write it.          *)

\* upTo: the rows the cart has had until now.
Start(w, op, list) ==
    /\ Free(w)
    /\ Arrive
    /\ call' = [call EXCEPT ![w] = [op |-> op, list |-> list,
           at |-> 1, looked |-> FALSE, row |-> NoRow, upTo |-> lastId]]

Add(w, s, n) ==
    Start(w, "add", <<[sku |-> s, qty |-> n]>>) /\ UNCHANGED <<cartVars, orderVars>>
Sync(w, list) ==
    Start(w, "sync", list) /\ UNCHANGED <<cartVars, orderVars>>
SyncReload(w, list) ==
    Start(w, "reload", list) /\ UNCHANGED <<cartVars, orderVars>>

\* create: its transaction writes the order and an item for each entry in one
\* step, for it decides on nothing it reads; the cart is emptied after it.
\* The id of an item tells its SKU, the edit that inserted it (0 is create) and
\* the entry it was made of.
CreateOrder(w, list) ==
    /\ status = None
    /\ Start(w, "create", list)
    /\ status' = "PENDING"
    /\ items' = {[id |-> <<list[i].sku, 0, i>>, sku |-> list[i].sku,
                  qty |-> list[i].qty] : i \in DOMAIN list}
    /\ UNCHANGED <<cartVars, shipped, edition>>

Looping(w) == call[w].op \in {"add", "sync", "reload", "create"}

Current(w) == call[w].list[call[w].at]

FindRow(w) ==
    /\ Looping(w)
    /\ ~call[w].looked
    /\ call' = [call EXCEPT ![w].looked = TRUE, ![w].row = cart[Current(w).sku]]
    /\ UNCHANGED <<cartVars, orderVars, requests>>

\* On to the next entry; after the last one the request is answered.
NextItem(w) ==
    call' = [call EXCEPT ![w] =
        IF call[w].at = Len(call[w].list) THEN NoCall
        ELSE [call[w] EXCEPT !.at = @ + 1, !.looked = FALSE, !.row = NoRow]]

Asked(s, added, most) ==
    asked' = [asked EXCEPT ![s].added = @ + added, ![s].most = Max({@, most})]

\* Mutant: the sum is added to the row in place, on top of what it read.
AddItemTwice(s, row, n) ==
    /\ IF row = NoRow THEN InsertRow(s, n)
       ELSE UpdateRow(s, row, cart[s].qty + row.qty + n)
    /\ Asked(s, n, 0)

AddItem(s, row, n) ==
    /\ row.qty + n <= Stock[s]
    /\ IF row = NoRow THEN InsertRow(s, n) ELSE UpdateRow(s, row, row.qty + n)
    /\ Asked(s, n, 0)

\* The larger of the row's quantity and the client's.
SyncItem(s, row, n) ==
    /\ IF row = NoRow THEN InsertRow(s, n)
       ELSE UpdateRow(s, row, Max({row.qty, n}))
    /\ Asked(s, 0, n)

\* The row's quantity is written back.
ReloadItem(s, row, n) ==
    IF row = NoRow THEN InsertRow(s, n) /\ Asked(s, 0, n)
    ELSE UpdateRow(s, row, row.qty) /\ UNCHANGED asked

\* Mutant: an item is removed only if it is no more than what was ordered.
DropSmallItem(s, row, n) ==
    /\ IF row = NoRow \/ row.qty > n THEN UNCHANGED <<cart, lastId>>
       ELSE DeleteRow(s, row)
    /\ UNCHANGED asked

DropItem(s, row, n) ==
    /\ IF row = NoRow THEN UNCHANGED <<cart, lastId>> ELSE DeleteRow(s, row)
    /\ UNCHANGED asked

WriteItem(w) ==
    LET s == Current(w).sku
        row == call[w].row
        n == Current(w).qty IN
    /\ Looping(w)
    /\ call[w].looked
    /\ \/ call[w].op = "add" /\ AddItem(s, row, n)
       \/ call[w].op = "sync" /\ SyncItem(s, row, n)
       \/ call[w].op = "reload" /\ ReloadItem(s, row, n)
       \/ call[w].op = "create" /\ DropItem(s, row, n)
    /\ NextItem(w)
    /\ UNCHANGED <<orderVars, requests>>

-----------------------------------------------------------------------------
(* OrderService.update: read the items, then in a transaction bring them   *)
(* to what the admin sent.                                                 *)

RowsOf(s) == {r \in items : r.sku = s}

\* newMap: the last entry of a SKU counts.
Wanted(list) ==
    [s \in {list[i].sku : i \in DOMAIN list} |->
        list[Max({i \in DOMAIN list : list[i].sku = s})].qty]

OpenEdit(w, list, found) ==
    /\ status # None
    /\ Free(w)
    /\ Arrive
    /\ call' = [call EXCEPT ![w] =
           [op |-> "edit", list |-> Wanted(list), found |-> found]]
    /\ UNCHANGED <<cartVars, orderVars>>

\* One row of each SKU that has any: a Map keeps the last row read of a SKU,
\* find takes the first.
OnePerSku(rows) ==
    {picked \in SUBSET rows :
        /\ \A r1, r2 \in picked : r1.sku = r2.sku => r1 = r2
        /\ \A r \in rows : \E p \in picked : p.sku = r.sku}

\* Mutant: the map is keyed by something the admin's items do not have.
BeginEditBlind(w, list) == OpenEdit(w, list, {})

BeginEdit(w, list) == \E found \in OnePerSku(items) : OpenEdit(w, list, found)

\* SKUs that are not in the map are inserted; rows in the map are deleted, or
\* written if the quantity or the price is to change.
Gone(found, list) == {f.id : f \in {g \in found : g.sku \notin DOMAIN list}}
Written(found, list, repriced) ==
    {f.id : f \in {g \in found : /\ g.sku \in DOMAIN list
                                 /\ g.qty # list[g.sku] \/ g.sku \in repriced}}
Inserted(found, list) ==
    {[id |-> <<s, edition + 1, 0>>, sku |-> s, qty |-> list[s]] :
        s \in DOMAIN list \ {f.sku : f \in found}}

CommitEdit(w) ==
    LET found == call[w].found
        list == call[w].list IN
    /\ call[w].op = "edit"
    /\ \E repriced \in SUBSET Skus :
          LET gone == Gone(found, list)
              written == Written(found, list, repriced) IN
          /\ gone \cup written \subseteq {r.id : r \in items}
          /\ items' = Inserted(found, list) \cup
                 {IF r.id \in written THEN [r EXCEPT !.qty = list[r.sku]] ELSE r :
                     r \in {i \in items : i.id \notin gone}}
    /\ edition' = edition + 1
    /\ Done(w)
    /\ UNCHANGED <<cartVars, status, shipped, requests>>

-----------------------------------------------------------------------------
(* confirmShipment of the SKUs that the client maps to warehouses, which    *)
(* need not be all of the order's: for each entry of the mapping it takes  *)
(* the first item of the SKU, and writes that item by its id.  The entries *)
(* of one SKU take the same item.                                          *)

ReadOrder(w) ==
    /\ status = "PENDING"
    /\ Free(w)
    /\ Arrive
    /\ \E mapped \in (SUBSET {r.sku : r \in items}) \ {{}} :
       \E picked \in OnePerSku({r \in items : r.sku \in mapped}) :
          call' = [call EXCEPT ![w] =
              [op |-> "confirm", picked |-> picked, edition |-> edition]]
    /\ UNCHANGED <<cartVars, orderVars>>

\* Mutant: find takes the first item, whatever its SKU.
QuantityOfAny(picked, s) == (CHOOSE p \in picked : TRUE).qty

QuantityOf(picked, s) == (CHOOSE p \in picked : p.sku = s).qty

ShipOrder(w) ==
    LET picked == call[w].picked IN
    /\ call[w].op = "confirm"
    /\ {p.id : p \in picked} \subseteq {r.id : r \in items}
    /\ shipped' = [edition |-> call[w].edition,
                   qty |-> [s \in {p.sku : p \in picked} |-> QuantityOf(picked, s)]]
    /\ status' = "PROCESSING"
    /\ Done(w)
    /\ UNCHANGED <<cartVars, items, edition, requests>>

-----------------------------------------------------------------------------
CartRequest ==
    \/ \E s \in Skus, n \in Quantities : SetQuantity(s, n)
    \/ \E s \in Skus : RemoveItem(s)
    \/ ClearCart

Begin(w) ==
    \/ \E s \in Skus, n \in Quantities : Add(w, s, n)
    \/ \E list \in Lists : Sync(w, list)
    \/ \E list \in Lists : SyncReload(w, list)
    \/ \E list \in Lists : CreateOrder(w, list)
    \/ \E list \in Lists : BeginEdit(w, list)
    \/ ReadOrder(w)

Continue(w) ==
    \/ FindRow(w)
    \/ WriteItem(w)
    \/ CommitEdit(w)
    \/ ShipOrder(w)
    \/ Abort(w)

Next == CartRequest \/ \E w \in Workers : Begin(w) \/ Continue(w)

Spec == Init /\ [][Next]_vars

-----------------------------------------------------------------------------
(* Properties *)

\* Requests that overlap can lose an addition, and bring back a quantity that
\* was lowered meanwhile, but the cart never holds more of a SKU than the
\* additions and the largest quantity ever set or synced come to.
NeverMoreThanAsked ==
    \A s \in Skus : cart[s].qty <= asked[s].added + asked[s].most

\* When create is through with an entry, the row the cart had of its SKU when
\* the order was written is gone, whatever its quantity has become; a row that
\* is left is one the customer added since.
OrderedRowsLeave ==
    [][\A w \in Workers : call[w].op = "create" /\ WriteItem(w) =>
          cart'[Current(w).sku].id \notin 1 .. call[w].upTo]_vars

\* The items of a SKU are those the order was placed with, one for each entry
\* of it; once they are gone, all are inserted by edits, and edits that overlap
\* can leave several: one for each of them at most.
ItemsBoundedByEditors ==
    \A s \in Skus :
        \/ \A r \in RowsOf(s) : r.id[2] = 0
        \/ /\ \A r \in RowsOf(s) : r.id[2] # 0
           /\ Cardinality(RowsOf(s)) <= Cardinality(Workers)

\* As long as no edit is committed after the shipment read the items, what it
\* takes of a SKU is the quantity of an item of that SKU: of the one item there
\* is, unless the order lists the SKU twice or edits have overlapped.
ShippedAsOrdered ==
    shipped # NotShipped /\ shipped.edition = edition =>
        \A s \in DOMAIN shipped.qty : \E r \in RowsOf(s) : r.qty = shipped.qty[s]
=============================================================================
