--------------------------- MODULE CheckoutProofs ---------------------------
(***************************************************************************)
(* Theorems about Checkout, for any number of concurrent requests, any     *)
(* SKUs, stock and quantities.                                             *)
(***************************************************************************)
EXTENDS Checkout, FiniteSetTheorems, SequenceTheorems, WellFoundedInduction, TLAPS

-----------------------------------------------------------------------------
(* Types *)

LoopOps == {"add", "sync", "reload", "create"}
SentLists == Seq(Entry) \ {<<>>}
\* What an edit wants of each SKU
QtyLists == UNION {[S -> Quantities] : S \in SUBSET Skus}
Row == [id: Nat, qty: Nat]
\* The id of an item tells its SKU, the edit that inserted it and its entry.
Item == {r \in [id: Skus \X Nat \X Nat, sku: Skus, qty: Nat] : r.id[1] = r.sku}

LoopCall == [op: LoopOps, list: SentLists, at: Nat, looked: BOOLEAN,
             row: Row, upTo: Nat]
EditCall == [op: {"edit"}, list: QtyLists, found: SUBSET Item]
ConfirmCall == [op: {"confirm"}, picked: SUBSET Item, edition: Nat]
Calls == LoopCall \cup EditCall \cup ConfirmCall \cup {NoCall}

CartTyped ==
    /\ cart \in [Skus -> Row]
    /\ lastId \in Nat
    /\ asked \in [Skus -> [added: Nat, most: Nat]]
OrderTyped ==
    /\ status \in {None, "PENDING", "PROCESSING"}
    /\ items \in SUBSET Item
    /\ edition \in Nat
CallTyped == call \in [Workers -> Calls]
Typed == CartTyped /\ OrderTyped /\ CallTyped

LEMMA LoopTyped ==
    ASSUME NEW c \in Calls, c.op \in LoopOps
    PROVE  c \in LoopCall
BY DEF Calls, LoopCall, EditCall, ConfirmCall, NoCall, LoopOps

LEMMA EditTyped ==
    ASSUME NEW c \in Calls, c.op = "edit"
    PROVE  c \in EditCall
BY DEF Calls, LoopCall, EditCall, ConfirmCall, NoCall, LoopOps

LEMMA ConfirmTyped ==
    ASSUME NEW c \in Calls, c.op = "confirm"
    PROVE  c \in ConfirmCall
BY DEF Calls, LoopCall, EditCall, ConfirmCall, NoCall, LoopOps

\* The entry that a loop is at names a SKU and a quantity.
LEMMA EntryTyped ==
    ASSUME NEW list \in SentLists, NEW i \in 1 .. Len(list), CheckoutAssumption
    PROVE  list[i].sku \in Skus /\ list[i].qty \in Quantities /\ list[i].qty \in Nat
<1>1. list \in Seq(Entry)
  BY DEF SentLists
<1>2. list[i] \in Entry
  BY <1>1, ElementOfSeq
<1> QED
  BY <1>2 DEF Entry, CheckoutAssumption

LEMMA SmallestOf ==
    ASSUME NEW N \in SUBSET Nat, N # {}
    PROVE  \E n \in N : \A k \in N : n <= k
<1>1. IsWellFoundedOn(OpToRel(<, Nat), Nat)
  BY NatLessThanWellFounded
<1>2. PICK n \in N : \A k \in N : ~(<<k, n>> \in OpToRel(<, Nat))
  BY <1>1, WFMin
<1>3. \A k \in N : ~(k < n)
  BY <1>2 DEF OpToRel
<1> QED
  BY <1>3

\* What an edit wants is a quantity for each SKU of the list.
LEMMA WantedTyped ==
    ASSUME NEW list \in SentLists, CheckoutAssumption
    PROVE  Wanted(list) \in QtyLists
<1> DEFINE skus == {list[i].sku : i \in DOMAIN list}
           at(t) == {i \in DOMAIN list : list[i].sku = t}
<1>1. DOMAIN list = 1 .. Len(list) /\ Len(list) \in Nat
  BY LenProperties DEF SentLists
<1>2. ASSUME NEW t \in skus
      PROVE  Max(at(t)) \in 1 .. Len(list)
  <2> DEFINE below == {n \in Nat : Len(list) - n \in at(t)}
  <2>1. PICK i \in DOMAIN list : list[i].sku = t
    OBVIOUS
  <2>2. Len(list) - i \in below
    BY <1>1, <2>1
  <2>3. PICK n \in below : \A k \in below : n <= k
    BY <2>2, SmallestOf
  <2>4. Len(list) - n \in at(t) /\ \A k \in at(t) : Len(list) - n >= k
    <3>1. Len(list) - n \in at(t) /\ n \in Nat
      OBVIOUS
    <3>2. ASSUME NEW k \in at(t)
          PROVE  Len(list) - n >= k
      <4>1. k \in Nat /\ k <= Len(list)
        BY <1>1
      <4>2. Len(list) - k \in Nat /\ Len(list) - (Len(list) - k) = k
        BY <1>1, <4>1
      <4>3. n <= Len(list) - k
        BY <2>3, <4>2
      <4> QED
        BY <1>1, <3>1, <4>1, <4>3
    <3> QED
      BY <3>1, <3>2
  <2>5. Max(at(t)) \in at(t)
    BY <2>4 DEF Max
  <2> QED
    BY <1>1, <2>5
<1>3. skus \in SUBSET Skus
  BY <1>1, EntryTyped
<1>4. \A t \in skus : list[Max(at(t))].qty \in Quantities
  BY <1>2, EntryTyped
<1>5. Wanted(list) = [t \in skus |-> list[Max(at(t))].qty]
  BY DEF Wanted
<1> HIDE DEF skus, at
<1> QED
  BY <1>3, <1>4, <1>5 DEF QtyLists

LEMMA MaxOfTwo ==
    ASSUME NEW a \in Nat, NEW b \in Nat
    PROVE  Max({a, b}) \in Nat /\ Max({a, b}) >= a /\ Max({a, b}) >= b
           /\ (Max({a, b}) = a \/ Max({a, b}) = b)
<1>1. \E m \in {a, b} : \A y \in {a, b} : m >= y
  <2>1. CASE a >= b
    BY <2>1
  <2>2. CASE b >= a
    BY <2>2
  <2> QED
    BY <2>1, <2>2
<1> QED
  BY <1>1 DEF Max

-----------------------------------------------------------------------------
(* The cart *)

Bound(s) == asked[s].added + asked[s].most

\* What a loop has read stays within the bound.  If create found no row, a
\* row that is there now is younger than the order.
SkuAt(c) == c.list[c.at].sku
LoopOK(c) ==
    c.op \in LoopOps =>
        /\ c.at \in 1 .. Len(c.list)
        /\ c.upTo <= lastId
        /\ c.looked =>
              /\ c.row.qty <= Bound(SkuAt(c))
              /\ c.op = "create" /\ c.row = NoRow =>
                    cart[SkuAt(c)].id \notin 1 .. c.upTo

CartInv ==
    /\ NeverMoreThanAsked
    /\ \A s \in Skus : cart[s].id <= lastId
    /\ \A w \in Workers : LoopOK(call[w])

\* All that a step can do to the cart: bounds grow, new rows have new ids.
CartGrows ==
    /\ CartTyped'
    /\ lastId' >= lastId
    /\ \A s \in Skus :
          /\ Bound(s)' >= Bound(s)
          /\ cart'[s].qty <= Bound(s)'
          /\ cart'[s].id <= lastId'
          /\ cart'[s].id = cart[s].id \/ cart'[s].id = 0 \/ cart'[s].id > lastId

LEMMA SameCartGrows ==
    ASSUME CartTyped, CartInv, UNCHANGED cartVars
    PROVE  CartGrows
BY DEF CartGrows, CartTyped, CartInv, NeverMoreThanAsked, cartVars, Bound, Row

LEMMA CartRequestGrows ==
    ASSUME CheckoutAssumption, CartTyped, CartInv, CartRequest
    PROVE  CartGrows /\ UNCHANGED <<orderVars, call>>
<1> USE DEF CartTyped, CartInv, NeverMoreThanAsked, Row
<1>1. ASSUME NEW s \in Skus, NEW n \in Quantities, SetQuantity(s, n)
      PROVE  CartGrows
  <2>1. n \in Nat
    BY DEF CheckoutAssumption
  <2>2. asked[s].most \in Nat /\ asked[s].added \in Nat
    OBVIOUS
  <2> DEFINE m == Max({asked[s].most, n})
  <2>3. m \in Nat /\ m >= asked[s].most /\ m >= n
    BY <2>1, <2>2, MaxOfTwo
  <2>4. /\ asked' = [asked EXCEPT ![s].most = m]
        /\ cart' = [cart EXCEPT ![s].qty = n]
        /\ lastId' = lastId
    BY <1>1 DEF SetQuantity, UpdateRow
  <2> HIDE DEF m
  <2>5. CartTyped'
    BY <2>1, <2>3, <2>4
  <2>6. ASSUME NEW t \in Skus
        PROVE  /\ asked'[t].added = asked[t].added
               /\ asked'[t].most >= asked[t].most
               /\ cart'[t].id = cart[t].id
               /\ t # s => cart'[t] = cart[t]
               /\ t = s => cart'[t].qty = n /\ asked'[t].most >= n
    BY <2>1, <2>2, <2>3, <2>4
  <2>7. ASSUME NEW t \in Skus
        PROVE  /\ Bound(t)' >= Bound(t)
               /\ cart'[t].qty <= Bound(t)'
               /\ cart'[t].id = cart[t].id
               /\ cart'[t].id <= lastId'
    <3>1. /\ asked[t].added \in Nat /\ asked[t].most \in Nat
          /\ asked'[t].added \in Nat /\ asked'[t].most \in Nat
          /\ cart[t].qty <= asked[t].added + asked[t].most
          /\ cart[t].qty \in Nat
      BY <2>5 DEF Bound
    <3>2. Bound(t)' = asked'[t].added + asked'[t].most
      BY DEF Bound
    <3>3. Bound(t)' >= Bound(t)
      BY <2>6, <3>1, <3>2 DEF Bound
    <3>4. cart'[t].qty <= asked'[t].added + asked'[t].most
      <4>1. CASE t = s
        BY <2>1, <2>6, <3>1, <4>1
      <4>2. CASE t # s
        BY <2>6, <3>1, <4>2
      <4> QED
        BY <4>1, <4>2
    <3>5. cart'[t].id <= lastId'
      BY <2>4, <2>6
    <3> QED
      BY <2>6, <3>2, <3>3, <3>4, <3>5
  <2>8. lastId' >= lastId
    BY <2>4
  <2> QED
    BY <2>5, <2>7, <2>8 DEF CartGrows
<1>2. ASSUME NEW s \in Skus, RemoveItem(s)
      PROVE  CartGrows
  BY <1>2 DEF RemoveItem, DeleteRow, NoRow, CartGrows, Bound
<1>3. ASSUME ClearCart
      PROVE  CartGrows
  BY <1>3 DEF ClearCart, NoRow, CartGrows, Bound
<1>4. UNCHANGED <<orderVars, call>>
  BY DEF CartRequest, SetQuantity, RemoveItem, ClearCart
<1> QED
  BY <1>1, <1>2, <1>3, <1>4 DEF CartRequest

LEMMA InsertWrites ==
    ASSUME CartTyped, NEW s \in Skus, NEW n \in Nat, InsertRow(s, n)
    PROVE  /\ lastId' = lastId + 1
           /\ cart' \in [Skus -> Row]
           /\ \A t \in Skus : t # s => cart'[t] = cart[t]
           /\ cart'[s].id = lastId + 1 /\ cart'[s].qty = n
BY DEF InsertRow, CartTyped, Row

LEMMA UpdateWrites ==
    ASSUME CartTyped, NEW s \in Skus, NEW row, NEW n \in Nat, UpdateRow(s, row, n)
    PROVE  /\ lastId' = lastId
           /\ cart' \in [Skus -> Row]
           /\ \A t \in Skus : t # s => cart'[t] = cart[t]
           /\ cart'[s].id = cart[s].id /\ cart'[s].qty = n
BY DEF UpdateRow, CartTyped, Row

LEMMA DeleteWrites ==
    ASSUME CartTyped, NEW s \in Skus, NEW row, DeleteRow(s, row)
    PROVE  /\ lastId' = lastId
           /\ cart' \in [Skus -> Row]
           /\ \A t \in Skus : t # s => cart'[t] = cart[t]
           /\ cart'[s].id = 0 /\ cart'[s].qty = 0
BY DEF DeleteRow, NoRow, CartTyped, Row

LEMMA AskedWrites ==
    ASSUME CartTyped, NEW s \in Skus, NEW a \in Nat, NEW n \in Nat, Asked(s, a, n)
    PROVE  /\ asked' \in [Skus -> [added: Nat, most: Nat]]
           /\ \A t \in Skus : t # s => asked'[t] = asked[t]
           /\ asked'[s].added = asked[s].added + a
           /\ asked'[s].most >= asked[s].most
           /\ asked'[s].most >= n
<1> DEFINE m == Max({asked[s].most, n})
<1>1. asked[s] \in [added: Nat, most: Nat]
  BY DEF CartTyped
<1>2. m \in Nat /\ m >= asked[s].most /\ m >= n
  BY <1>1, MaxOfTwo
<1>3. asked' = [asked EXCEPT ![s].added = @ + a, ![s].most = m]
  BY DEF Asked
<1> HIDE DEF m
<1> DEFINE mid == [asked EXCEPT ![s].added = @ + a]
<1>4. asked' = [mid EXCEPT ![s].most = m]
  BY <1>3 DEF CartTyped
<1>5. /\ mid \in [Skus -> [added: Nat, most: Nat]]
      /\ \A t \in Skus : t # s => mid[t] = asked[t]
      /\ mid[s].added = asked[s].added + a
  BY <1>1 DEF CartTyped
<1> HIDE DEF mid
<1>6. asked' \in [Skus -> [added: Nat, most: Nat]]
  BY <1>2, <1>4, <1>5
<1>7. asked'[s].most = m /\ asked'[s].added = mid[s].added
  BY <1>2, <1>4, <1>5
<1>8. \A t \in Skus : t # s => asked'[t] = asked[t]
  BY <1>4, <1>5
<1> QED
  BY <1>2, <1>5, <1>6, <1>7, <1>8

\* A step that writes the row of one SKU.
LEMMA OneRowGrows ==
    ASSUME CartTyped, CartInv, NEW s \in Skus,
           CartTyped',
           \A t \in Skus : t # s => cart'[t] = cart[t] /\ asked'[t] = asked[t],
           Bound(s)' >= Bound(s),
           cart'[s].qty <= Bound(s)',
           \/ lastId' = lastId /\ (cart'[s].id = cart[s].id \/ cart'[s].id = 0)
           \/ lastId' = lastId + 1 /\ cart'[s].id = lastId + 1
    PROVE  CartGrows
<1>1. lastId \in Nat /\ lastId' \in Nat /\ lastId' >= lastId
  BY DEF CartTyped
<1>2. ASSUME NEW t \in Skus, t # s
      PROVE  /\ Bound(t)' >= Bound(t)
             /\ cart'[t].qty <= Bound(t)'
             /\ cart'[t].id <= lastId'
             /\ cart'[t].id = cart[t].id
  <2>1. cart'[t] = cart[t] /\ asked'[t] = asked[t]
    BY <1>2
  <2>2. /\ cart[t].id \in Nat /\ cart[t].id <= lastId /\ Bound(t) \in Nat
        /\ cart[t].qty <= Bound(t)
    BY DEF CartTyped, CartInv, NeverMoreThanAsked, Row, Bound
  <2>3. Bound(t)' = Bound(t)
    BY <2>1 DEF Bound
  <2> QED
    BY <1>1, <2>1, <2>2, <2>3
<1>3. cart[s].id \in Nat /\ cart[s].id <= lastId
  BY DEF CartTyped, CartInv, Row
<1>4. /\ cart'[s].id <= lastId'
      /\ cart'[s].id = cart[s].id \/ cart'[s].id = 0 \/ cart'[s].id > lastId
  BY <1>1, <1>3
<1> QED
  BY <1>1, <1>2, <1>4 DEF CartGrows

\* The bodies of the loop.
LEMMA AddItemGrows ==
    ASSUME CartTyped, CartInv, NEW s \in Skus, NEW row \in Row, NEW n \in Nat,
           row.qty <= Bound(s), AddItem(s, row, n)
    PROVE  CartGrows
<1>1. /\ asked[s].added \in Nat /\ asked[s].most \in Nat /\ row.qty \in Nat
      /\ row.qty <= asked[s].added + asked[s].most
  BY DEF CartTyped, Row, Bound
<1>2. /\ asked' \in [Skus -> [added: Nat, most: Nat]]
      /\ \A t \in Skus : t # s => asked'[t] = asked[t]
      /\ asked'[s].added = asked[s].added + n
      /\ asked'[s].most >= asked[s].most
  BY AskedWrites DEF AddItem
<1>3. CASE InsertRow(s, n)
  <2>2. /\ lastId' = lastId + 1
        /\ cart' \in [Skus -> Row]
        /\ \A t \in Skus : t # s => cart'[t] = cart[t]
        /\ cart'[s].id = lastId + 1 /\ cart'[s].qty = n
    BY <1>3, InsertWrites
  <2> QED
    BY <1>1, <1>2, <2>2, OneRowGrows DEF CartTyped, Bound
<1>4. CASE UpdateRow(s, row, row.qty + n)
  <2>1. row.qty + n \in Nat
    BY <1>1
  <2>2. /\ lastId' = lastId
        /\ cart' \in [Skus -> Row]
        /\ \A t \in Skus : t # s => cart'[t] = cart[t]
        /\ cart'[s].id = cart[s].id /\ cart'[s].qty = row.qty + n
    BY <1>4, <2>1, UpdateWrites
  <2> QED
    BY <1>1, <1>2, <2>1, <2>2, OneRowGrows DEF CartTyped, Bound
<1> QED
  BY <1>3, <1>4 DEF AddItem

LEMMA SyncItemGrows ==
    ASSUME CartTyped, CartInv, NEW s \in Skus, NEW row \in Row, NEW n \in Nat,
           row.qty <= Bound(s), SyncItem(s, row, n)
    PROVE  CartGrows
<1>1. /\ asked[s].added \in Nat /\ asked[s].most \in Nat /\ row.qty \in Nat
      /\ row.qty <= asked[s].added + asked[s].most
  BY DEF CartTyped, Row, Bound
<1> DEFINE q == Max({row.qty, n})
<1>2. q \in Nat /\ (q = row.qty \/ q = n)
  BY <1>1, MaxOfTwo
<1>3. InsertRow(s, n) \/ UpdateRow(s, row, q)
  BY DEF SyncItem
<1> HIDE DEF q
<1>4. /\ asked' \in [Skus -> [added: Nat, most: Nat]]
      /\ \A t \in Skus : t # s => asked'[t] = asked[t]
      /\ asked'[s].added = asked[s].added
      /\ asked'[s].most >= asked[s].most /\ asked'[s].most >= n
  <2>1. 0 \in Nat /\ Asked(s, 0, n)
    BY DEF SyncItem
  <2>2. /\ asked' \in [Skus -> [added: Nat, most: Nat]]
        /\ \A t \in Skus : t # s => asked'[t] = asked[t]
        /\ asked'[s].added = asked[s].added + 0
        /\ asked'[s].most >= asked[s].most
        /\ asked'[s].most >= n
    BY <2>1, AskedWrites
  <2>3. asked'[s].added = asked[s].added
    BY <1>1, <2>2
  <2> QED
    BY <2>2, <2>3
<1>5. CASE InsertRow(s, n)
  <2>2. /\ lastId' = lastId + 1
        /\ cart' \in [Skus -> Row]
        /\ \A t \in Skus : t # s => cart'[t] = cart[t]
        /\ cart'[s].id = lastId + 1 /\ cart'[s].qty = n
    BY <1>5, InsertWrites
  <2> QED
    BY <1>1, <1>4, <2>2, OneRowGrows DEF CartTyped, Bound
<1>6. CASE UpdateRow(s, row, q)
  <2>2. /\ lastId' = lastId
        /\ cart' \in [Skus -> Row]
        /\ \A t \in Skus : t # s => cart'[t] = cart[t]
        /\ cart'[s].id = cart[s].id /\ cart'[s].qty = q
    BY <1>2, <1>6, UpdateWrites
  <2> QED
    BY <1>1, <1>2, <1>4, <2>2, OneRowGrows DEF CartTyped, Bound
<1> QED
  BY <1>3, <1>5, <1>6

LEMMA ReloadItemGrows ==
    ASSUME CartTyped, CartInv, NEW s \in Skus, NEW row \in Row, NEW n \in Nat,
           row.qty <= Bound(s), ReloadItem(s, row, n)
    PROVE  CartGrows
<1>1. /\ asked[s].added \in Nat /\ asked[s].most \in Nat /\ row.qty \in Nat
      /\ row.qty <= asked[s].added + asked[s].most
  BY DEF CartTyped, Row, Bound
<1>2. CASE InsertRow(s, n) /\ Asked(s, 0, n)
  <2>1. /\ asked' \in [Skus -> [added: Nat, most: Nat]]
        /\ \A t \in Skus : t # s => asked'[t] = asked[t]
        /\ asked'[s].added = asked[s].added
        /\ asked'[s].most >= asked[s].most /\ asked'[s].most >= n
    <3>1. 0 \in Nat /\ Asked(s, 0, n)
      BY <1>2
    <3>2. /\ asked' \in [Skus -> [added: Nat, most: Nat]]
          /\ \A t \in Skus : t # s => asked'[t] = asked[t]
          /\ asked'[s].added = asked[s].added + 0
          /\ asked'[s].most >= asked[s].most
          /\ asked'[s].most >= n
      BY <3>1, AskedWrites
    <3>3. asked'[s].added = asked[s].added
      BY <1>1, <3>2
    <3> QED
      BY <3>2, <3>3
  <2>2. /\ lastId' = lastId + 1
        /\ cart' \in [Skus -> Row]
        /\ \A t \in Skus : t # s => cart'[t] = cart[t]
        /\ cart'[s].id = lastId + 1 /\ cart'[s].qty = n
    BY <1>2, InsertWrites
  <2> QED
    BY <1>1, <2>1, <2>2, OneRowGrows DEF CartTyped, Bound
<1>3. CASE UpdateRow(s, row, row.qty) /\ UNCHANGED asked
  <2>1. row.qty \in Nat
    BY <1>1
  <2>2. /\ lastId' = lastId
        /\ cart' \in [Skus -> Row]
        /\ \A t \in Skus : t # s => cart'[t] = cart[t]
        /\ cart'[s].id = cart[s].id /\ cart'[s].qty = row.qty
    BY <1>3, <2>1, UpdateWrites
  <2> QED
    BY <1>1, <1>3, <2>1, <2>2, OneRowGrows DEF CartTyped, Bound
<1> QED
  BY <1>2, <1>3 DEF ReloadItem

LEMMA DropItemGrows ==
    ASSUME CartTyped, CartInv, NEW s \in Skus, NEW row \in Row, NEW n \in Nat,
           DropItem(s, row, n)
    PROVE  CartGrows /\ (row # NoRow => cart'[s].id = 0)
                     /\ (row = NoRow => cart' = cart)
<1>1. asked' = asked /\ Bound(s)' = Bound(s) /\ Bound(s) \in Nat
  BY DEF DropItem, Bound, CartTyped
<1>2. CASE row = NoRow
  <2>1. UNCHANGED cartVars
    BY <1>2 DEF DropItem, cartVars
  <2> QED
    BY <1>2, <2>1, SameCartGrows DEF cartVars
<1>3. CASE row # NoRow
  <2>1. /\ lastId' = lastId
        /\ cart' \in [Skus -> Row]
        /\ \A t \in Skus : t # s => cart'[t] = cart[t]
        /\ cart'[s].id = 0 /\ cart'[s].qty = 0
    BY <1>3, DeleteWrites DEF DropItem
  <2>2. CartTyped'
    BY <1>1, <2>1 DEF CartTyped
  <2>3. CartGrows
    BY <1>1, <2>1, <2>2, OneRowGrows
  <2> QED
    BY <1>3, <2>1, <2>3
<1> QED
  BY <1>2, <1>3

-----------------------------------------------------------------------------
(* The calls *)

\* What holds of a loop goes on to hold while the cart grows.
LEMMA LoopStays ==
    ASSUME CheckoutAssumption, NEW c \in Calls, CartTyped, LoopOK(c), CartGrows
    PROVE  LoopOK(c)'
<1> SUFFICES ASSUME c.op \in LoopOps
             PROVE  LoopOK(c)'
  BY DEF LoopOK
<1>1. c \in LoopCall
  BY LoopTyped
<1>2. c.upTo <= lastId' /\ c.at \in 1 .. Len(c.list)
  BY <1>1 DEF LoopOK, CartGrows, LoopCall, CartTyped
<1> DEFINE t == SkuAt(c)
<1>3. t \in Skus
  BY <1>1, <1>2, EntryTyped DEF LoopCall, SkuAt
<1> HIDE DEF t
<1>4. ASSUME c.looked
      PROVE  /\ c.row.qty <= Bound(t)'
             /\ c.op = "create" /\ c.row = NoRow => cart'[t].id \notin 1 .. c.upTo
  <2>1. c.row.qty <= Bound(t)
    BY <1>4 DEF LoopOK, t
  <2>2. /\ c.row.qty \in Nat
        /\ Bound(t) \in Nat /\ Bound(t)' \in Nat
        /\ Bound(t)' >= Bound(t)
    BY <1>1, <1>3 DEF LoopCall, Row, CartGrows, CartTyped, Bound
  <2>3. ASSUME c.op = "create", c.row = NoRow
        PROVE  cart'[t].id \notin 1 .. c.upTo
    <3>1. /\ cart[t].id \notin 1 .. c.upTo
          /\ c.upTo \in Nat /\ c.upTo <= lastId /\ lastId \in Nat
      BY <1>1, <1>4, <2>3 DEF LoopOK, LoopCall, CartTyped, t
    <3>2. \/ cart'[t].id = cart[t].id
          \/ cart'[t].id = 0
          \/ cart'[t].id > lastId
      BY <1>3 DEF CartGrows
    <3>3. cart'[t].id \in Nat /\ cart[t].id \in Nat
      BY <1>3 DEF CartGrows, CartTyped, Row
    <3> QED
      BY <3>1, <3>2, <3>3
  <2> QED
    BY <2>1, <2>2, <2>3
<1>5. (c.row.qty <= Bound(SkuAt(c)))' = (c.row.qty <= Bound(t)')
  BY DEF t, Bound
<1> QED
  BY <1>2, <1>4, <1>5 DEF LoopOK, t

\* A step of which one worker's call is all that changes but the cart.
LEMMA CartInvStays ==
    ASSUME CheckoutAssumption, CartTyped, CallTyped, CartInv, CartGrows,
           NEW w \in Workers,
           \A v \in Workers : v # w => call'[v] = call[v],
           LoopOK(call[w])'
    PROVE  CartInv'
<1>1. NeverMoreThanAsked'
  BY DEF CartGrows, NeverMoreThanAsked, Bound
<1>2. \A s \in Skus : cart'[s].id <= lastId'
  BY DEF CartGrows
<1>3. ASSUME NEW v \in Workers
      PROVE  LoopOK(call[v])'
  <2>1. CASE v = w
    BY <2>1
  <2>2. CASE v # w
    <3>1. LoopOK(call[v]) /\ call[v] \in Calls
      BY DEF CartInv, CallTyped
    <3> DEFINE c == call[v]
    <3>2. call'[v] = call[v]
      BY <2>2
    <3>3. PICK c0 \in Calls : c0 = call[v]
      BY <3>1
    <3>4. LoopOK(c0)'
      BY <3>1, <3>3, LoopStays
    <3> QED
      BY <3>2, <3>3, <3>4 DEF LoopOK
  <2> QED
    BY <2>1, <2>2
<1> QED
  BY <1>1, <1>2, <1>3 DEF CartInv

-----------------------------------------------------------------------------
(* The order *)

\* An item was inserted by an edit committed already, and its id is unique.
ItemsInv ==
    /\ \A r \in items : r.id[2] <= edition
    /\ \A r1, r2 \in items : r1.id = r2.id => r1 = r2

\* Before the order there are no items, edits or shipments.
BeforeOrder ==
    status = None =>
        /\ items = {} /\ shipped = NotShipped
        /\ \A w \in Workers : call[w].op \notin {"edit", "confirm"}

\* What a shipment has picked are items of the order, if no edit has been
\* committed since.
ConfirmsOK ==
    \A w \in Workers : call[w].op = "confirm" =>
        /\ call[w].edition <= edition
        /\ call[w].edition = edition => call[w].picked \subseteq items

ShippedOK ==
    /\ shipped # NotShipped => shipped.edition \in Nat /\ shipped.edition <= edition
    /\ ShippedAsOrdered

OrderInv == ItemsInv /\ BeforeOrder /\ ConfirmsOK /\ ShippedOK

Inv == Typed /\ CartInv /\ OrderInv

LEMMA InitInv == CheckoutAssumption /\ Init => Inv
<1> SUFFICES ASSUME CheckoutAssumption, Init
             PROVE  Inv
  OBVIOUS
<1>1. Typed
  BY DEF Init, Typed, CartTyped, OrderTyped, CallTyped, Calls, Row, NoRow
<1>2. CartInv
  BY DEF Init, CartInv, NeverMoreThanAsked, NoRow, LoopOK, NoCall, LoopOps
<1>3. OrderInv
  BY DEF Init, OrderInv, ItemsInv, BeforeOrder, ConfirmsOK, ShippedOK,
         ShippedAsOrdered, NotShipped, NoCall
<1> QED
  BY <1>1, <1>2, <1>3 DEF Inv

-----------------------------------------------------------------------------
(* The steps *)

\* The order stays as it is, and a worker's call is not about it.
LEMMA OrderInvStays ==
    ASSUME OrderInv, UNCHANGED orderVars, NEW w \in Workers,
           \A v \in Workers : v # w => call'[v] = call[v],
           call'[w].op \notin {"edit", "confirm"}
    PROVE  OrderInv'
BY DEF OrderInv, orderVars, ItemsInv, BeforeOrder, ConfirmsOK, ShippedOK,
       ShippedAsOrdered, OnePerSku, RowsOf, NotShipped

LEMMA SameOrder ==
    ASSUME OrderInv, UNCHANGED <<orderVars, call>>
    PROVE  OrderInv'
BY DEF OrderInv, orderVars, ItemsInv, BeforeOrder, ConfirmsOK, ShippedOK,
       ShippedAsOrdered, OnePerSku, RowsOf, NotShipped

LEMMA CallWrites ==
    ASSUME CallTyped, NEW w \in Workers, NEW c \in Calls,
           call' = [call EXCEPT ![w] = c]
    PROVE  CallTyped' /\ call'[w] = c /\ \A v \in Workers : v # w => call'[v] = call[v]
BY DEF CallTyped

LEMMA CartRequestKeeps ==
    ASSUME CheckoutAssumption, Inv, CartRequest
    PROVE  Inv'
<1>1. CartGrows /\ UNCHANGED <<orderVars, call>>
  BY CartRequestGrows DEF Inv, Typed
<1>2. Typed'
  BY <1>1 DEF Inv, Typed, CartGrows, CartTyped, OrderTyped, CallTyped, orderVars
<1>3. CartInv'
  <2>1. ASSUME NEW v \in Workers
        PROVE  LoopOK(call[v])'
    <3>1. PICK c \in Calls : c = call[v]
      BY DEF Inv, Typed, CallTyped
    <3>2. LoopOK(c)'
      BY <1>1, <3>1, LoopStays DEF Inv, Typed, CartInv
    <3> QED
      BY <1>1, <3>1, <3>2 DEF LoopOK
  <2> QED
    BY <1>1, <2>1 DEF CartInv, CartGrows, NeverMoreThanAsked, Bound
<1>4. OrderInv'
  BY <1>1, SameOrder DEF Inv
<1> QED
  BY <1>2, <1>3, <1>4 DEF Inv

\* A loop begins.
LEMMA StartKeeps ==
    ASSUME CheckoutAssumption, Inv, NEW w \in Workers, NEW op \in LoopOps,
           NEW list \in SentLists, Start(w, op, list), UNCHANGED cartVars
    PROVE  /\ CallTyped' /\ CartInv'
           /\ call'[w].op = op
           /\ \A v \in Workers : v # w => call'[v] = call[v]
<1> DEFINE c == [op |-> op, list |-> list, at |-> 1, looked |-> FALSE,
                 row |-> NoRow, upTo |-> lastId]
<1>1. call' = [call EXCEPT ![w] = c]
  BY DEF Start
<1>2. c \in Calls
  BY DEF Calls, LoopCall, Row, NoRow, Inv, Typed, CartTyped
<1>3. PICK d \in Calls : d = c
  BY <1>2
<1>4. CallTyped' /\ call'[w] = d /\ \A v \in Workers : v # w => call'[v] = call[v]
  BY <1>1, <1>3, CallWrites DEF Inv, Typed
<1>5. CartGrows
  BY SameCartGrows DEF Inv, Typed
<1>6. LoopOK(call[w])'
  <2>1. lastId' = lastId /\ lastId \in Nat
    BY DEF cartVars, Inv, Typed, CartTyped
  <2>2. 1 \in 1 .. Len(list)
    BY EmptySeq, LenProperties DEF SentLists
  <2> QED
    BY <1>3, <1>4, <2>1, <2>2 DEF LoopOK
<1>7. CartInv'
  BY <1>4, <1>5, <1>6, CartInvStays DEF Inv, Typed
<1> QED
  BY <1>3, <1>4, <1>7

LEMMA FindRowKeeps ==
    ASSUME CheckoutAssumption, Inv, NEW w \in Workers, FindRow(w)
    PROVE  Inv'
<1> DEFINE s == SkuAt(call[w])
<1>1. /\ call[w] \in LoopCall /\ LoopOK(call[w]) /\ ~call[w].looked
      /\ call[w].at \in 1 .. Len(call[w].list)
  BY LoopTyped DEF FindRow, Looping, LoopOps, Inv, Typed, CallTyped, CartInv, LoopOK
<1>0. s \in Skus
  BY <1>1, EntryTyped DEF SkuAt, LoopCall
<1>2. PICK c \in Calls : c = [call[w] EXCEPT !.looked = TRUE, !.row = cart[s]]
  <2>1. cart[s] \in Row
    BY <1>0 DEF Inv, Typed, CartTyped
  <2>2. [call[w] EXCEPT !.looked = TRUE, !.row = cart[s]] \in LoopCall
    BY <1>1, <2>1 DEF LoopCall
  <2> QED
    BY <2>2 DEF Calls
<1>3. /\ c.op = call[w].op /\ c.op \in LoopOps
      /\ c.list = call[w].list /\ c.at = call[w].at
      /\ c.upTo = call[w].upTo /\ c.looked /\ c.row = cart[s]
  BY <1>1, <1>2 DEF LoopCall
<1>4. CallTyped' /\ call'[w] = c /\ \A v \in Workers : v # w => call'[v] = call[v]
  <2>1. call' = [call EXCEPT ![w] = c]
    BY <1>2 DEF FindRow, Current, SkuAt, Inv, Typed, CallTyped
  <2> QED
    BY <2>1, CallWrites DEF Inv, Typed
<1>5. CartGrows /\ UNCHANGED cartVars
  BY SameCartGrows DEF Inv, Typed, FindRow
<1>6. LoopOK(call[w])'
  <2>1. /\ cart' = cart /\ lastId' = lastId /\ asked' = asked
        /\ cart[s].qty <= asked[s].added + asked[s].most
    BY <1>0, <1>5 DEF cartVars, Inv, CartInv, NeverMoreThanAsked
  <2>2. cart[s] = NoRow => cart[s].id \notin 1 .. c.upTo
    BY <1>1, <1>3 DEF NoRow, LoopCall
  <2>3. SkuAt(c) = s
    BY <1>3 DEF SkuAt
  <2> HIDE DEF s
  <2>4. /\ c.at \in 1 .. Len(c.list) /\ c.upTo <= lastId' /\ SkuAt(c) = s
        /\ c.row.qty <= asked'[s].added + asked'[s].most
        /\ c.row = NoRow => cart'[s].id \notin 1 .. c.upTo
    BY <1>1, <1>3, <2>1, <2>2, <2>3 DEF LoopOK
  <2> QED
    BY <1>4, <2>4 DEF LoopOK, SkuAt, Bound
<1>7. CartInv'
  BY <1>4, <1>5, <1>6, CartInvStays DEF Inv, Typed
<1>8. OrderInv'
  <2>1. call'[w].op \notin {"edit", "confirm"}
    BY <1>3, <1>4 DEF LoopOps
  <2> QED
    BY <1>4, <2>1, OrderInvStays DEF Inv, FindRow
<1> QED
  BY <1>4, <1>5, <1>7, <1>8 DEF Inv, Typed, CartGrows, OrderTyped, FindRow, orderVars

\* The row of the item is written, and one that create dropped is gone.
LEMMA WriteItemWrites ==
    ASSUME CheckoutAssumption, Inv, NEW w \in Workers, WriteItem(w)
    PROVE  /\ CartGrows
           /\ call[w].op = "create" =>
                 cart'[Current(w).sku].id \notin 1 .. call[w].upTo
<1> DEFINE s == Current(w).sku
           row == call[w].row
           n == Current(w).qty
<1>1. /\ call[w] \in LoopCall /\ LoopOK(call[w]) /\ call[w].looked
      /\ call[w].at \in 1 .. Len(call[w].list)
  BY LoopTyped DEF WriteItem, Looping, LoopOps, Inv, Typed, CallTyped, CartInv, LoopOK
<1>2. s \in Skus /\ row \in Row /\ s = SkuAt(call[w])
  BY <1>1, EntryTyped DEF LoopCall, Current, SkuAt
<1>3. n \in Nat
  BY <1>1, EntryTyped DEF LoopCall, Current
<1>4. row.qty <= Bound(s)
  BY <1>1, <1>2 DEF LoopOK, LoopCall
<1>5. CASE call[w].op = "add"
  <2>1. AddItem(s, row, n)
    BY <1>5 DEF WriteItem
  <2> HIDE DEF s, row, n
  <2> QED
    BY <1>2, <1>3, <1>4, <1>5, <2>1, AddItemGrows DEF Inv, Typed
<1>6. CASE call[w].op = "sync"
  <2>1. SyncItem(s, row, n)
    BY <1>6 DEF WriteItem
  <2> HIDE DEF s, row, n
  <2> QED
    BY <1>2, <1>3, <1>4, <1>6, <2>1, SyncItemGrows DEF Inv, Typed
<1>7. CASE call[w].op = "reload"
  <2>1. ReloadItem(s, row, n)
    BY <1>7 DEF WriteItem
  <2> HIDE DEF s, row, n
  <2> QED
    BY <1>2, <1>3, <1>4, <1>7, <2>1, ReloadItemGrows DEF Inv, Typed
<1>8. CASE call[w].op = "create"
  <2>1. DropItem(s, row, n)
    BY <1>8 DEF WriteItem
  <2>2. row = NoRow => cart[s].id \notin 1 .. call[w].upTo
    BY <1>1, <1>2, <1>8 DEF LoopOK, LoopCall
  <2>3. call[w].upTo \in Nat
    BY <1>1 DEF LoopCall
  <2>4. CartGrows /\ (row # NoRow => cart'[s].id = 0) /\ (row = NoRow => cart' = cart)
    <3> HIDE DEF s, row, n
    <3> QED
      BY <1>2, <1>3, <2>1, DropItemGrows DEF Inv, Typed
  <2> QED
    BY <2>2, <2>3, <2>4
<1> QED
  BY <1>5, <1>6, <1>7, <1>8 DEF WriteItem

LEMMA WriteItemKeeps ==
    ASSUME CheckoutAssumption, Inv, NEW w \in Workers, WriteItem(w)
    PROVE  Inv'
<1>1. CartGrows
  BY WriteItemWrites
<1>2. call[w] \in LoopCall /\ LoopOK(call[w])
  BY LoopTyped DEF WriteItem, Looping, LoopOps, Inv, Typed, CallTyped, CartInv
<1>3. CASE call[w].at = Len(call[w].list)
  <2>1. call' = [call EXCEPT ![w] = NoCall] /\ NoCall \in Calls
    BY <1>3 DEF WriteItem, NextItem, Calls, Inv, Typed, CallTyped
  <2>2. CallTyped' /\ call'[w] = NoCall /\ \A v \in Workers : v # w => call'[v] = call[v]
    BY <2>1, CallWrites DEF Inv, Typed
  <2>3. LoopOK(call[w])' /\ call'[w].op \notin {"edit", "confirm"}
    BY <2>2 DEF LoopOK, NoCall, LoopOps
  <2>4. CartInv' /\ OrderInv'
    BY <1>1, <2>2, <2>3, CartInvStays, OrderInvStays DEF Inv, Typed, WriteItem
  <2> QED
    BY <1>1, <2>2, <2>4 DEF Inv, Typed, CartGrows, OrderTyped, WriteItem, orderVars
<1>4. CASE call[w].at # Len(call[w].list)
  <2> DEFINE new == [call[w] EXCEPT !.at = @ + 1, !.looked = FALSE, !.row = NoRow]
  <2>1. new \in LoopCall
    <3>1. call[w].at + 1 \in Nat /\ NoRow \in Row
      BY <1>2 DEF LoopCall, Row, NoRow
    <3> QED
      BY <1>2, <3>1 DEF LoopCall
  <2>2. PICK c \in Calls : c = new
    BY <2>1 DEF Calls
  <2>3. /\ c.op = call[w].op /\ c.op \in LoopOps
        /\ c.list = call[w].list /\ c.at = call[w].at + 1
        /\ c.upTo = call[w].upTo /\ c.looked = FALSE
    BY <1>2, <2>2 DEF LoopCall
  <2>9. c.at \in 1 .. Len(c.list)
    <3>1. call[w].at \in 1 .. Len(call[w].list) /\ Len(call[w].list) \in Nat
      BY <1>2, LenProperties DEF LoopOK, LoopCall, SentLists
    <3> QED
      BY <1>4, <2>3, <3>1
  <2>4. call' = [call EXCEPT ![w] = c]
    <3>1. call' = [call EXCEPT ![w] =
              IF call[w].at = Len(call[w].list) THEN NoCall ELSE new]
      BY DEF WriteItem, NextItem
    <3> HIDE DEF new
    <3> QED
      BY <1>4, <2>2, <3>1
  <2>5. CallTyped' /\ call'[w] = c /\ \A v \in Workers : v # w => call'[v] = call[v]
    BY <2>4, CallWrites DEF Inv, Typed
  <2>6. LoopOK(call[w])'
    <3>1. c.upTo \in Nat /\ lastId \in Nat /\ lastId' \in Nat /\ lastId' >= lastId
          /\ c.upTo <= lastId
      BY <1>1, <1>2, <2>3 DEF LoopCall, LoopOK, Inv, Typed, CartTyped, CartGrows
    <3>2. c.upTo <= lastId'
      BY <3>1
    <3> QED
      BY <2>3, <2>5, <2>9, <3>2 DEF LoopOK
  <2>7. call'[w].op \notin {"edit", "confirm"}
    BY <2>3, <2>5 DEF LoopOps
  <2>8. CartInv' /\ OrderInv'
    BY <1>1, <2>5, <2>6, <2>7, CartInvStays, OrderInvStays DEF Inv, Typed, WriteItem
  <2> QED
    BY <1>1, <2>5, <2>8 DEF Inv, Typed, CartGrows, OrderTyped, WriteItem, orderVars
<1> QED
  BY <1>3, <1>4

LEMMA AbortKeeps ==
    ASSUME CheckoutAssumption, Inv, NEW w \in Workers, Abort(w)
    PROVE  Inv'
<1>1. call' = [call EXCEPT ![w] = NoCall] /\ NoCall \in Calls
  BY DEF Abort, Done, Calls
<1>2. CallTyped' /\ call'[w] = NoCall /\ \A v \in Workers : v # w => call'[v] = call[v]
  BY <1>1, CallWrites DEF Inv, Typed
<1>3. LoopOK(call[w])' /\ call'[w].op \notin {"edit", "confirm"}
  BY <1>2 DEF LoopOK, NoCall, LoopOps
<1>4. CartGrows
  BY SameCartGrows DEF Inv, Typed, Abort
<1>5. CartInv' /\ OrderInv'
  BY <1>2, <1>3, <1>4, CartInvStays, OrderInvStays DEF Inv, Typed, Abort
<1> QED
  BY <1>2, <1>4, <1>5 DEF Inv, Typed, CartGrows, OrderTyped, Abort, orderVars

\* addToCart, syncCart, syncCartReload
LEMMA CartLoopKeeps ==
    ASSUME CheckoutAssumption, Inv, NEW w \in Workers, NEW op \in LoopOps,
           NEW list \in SentLists, Start(w, op, list), UNCHANGED <<cartVars, orderVars>>
    PROVE  Inv'
<1>1. /\ CallTyped' /\ CartInv'
      /\ call'[w].op = op
      /\ \A v \in Workers : v # w => call'[v] = call[v]
  BY StartKeeps
<1>2. OrderInv'
  BY <1>1, OrderInvStays DEF Inv, LoopOps
<1> QED
  BY <1>1, <1>2 DEF Inv, Typed, CartTyped, OrderTyped, cartVars, orderVars

LEMMA CreateOrderKeeps ==
    ASSUME CheckoutAssumption, Inv, NEW w \in Workers, NEW list \in Lists,
           CreateOrder(w, list)
    PROVE  Inv'
<1>2. list \in SentLists
  BY DEF CheckoutAssumption, SentLists
<1>3. /\ CallTyped' /\ CartInv'
      /\ call'[w].op = "create"
      /\ \A v \in Workers : v # w => call'[v] = call[v]
  BY <1>2, StartKeeps DEF CreateOrder, LoopOps
<1> DEFINE item(i) == [id |-> <<list[i].sku, 0, i>>, sku |-> list[i].sku,
                       qty |-> list[i].qty]
<1>4. /\ items' = {item(i) : i \in DOMAIN list}
      /\ DOMAIN list = 1 .. Len(list) /\ Len(list) \in Nat
  BY <1>2, LenProperties DEF CreateOrder, SentLists
<1>5. items' \in SUBSET Item
  <2>1. \A i \in 1 .. Len(list) : item(i) \in Item
    BY <1>2, <1>4, EntryTyped DEF Item
  <2> HIDE DEF item
  <2> QED
    BY <1>4, <2>1
<1>6. Typed'
  BY <1>3, <1>5 DEF Inv, Typed, CartTyped, OrderTyped, CreateOrder, cartVars
<1>7. ItemsInv'
  BY <1>4 DEF ItemsInv, CreateOrder, Inv, Typed, OrderTyped
<1>8. BeforeOrder'
  BY DEF BeforeOrder, CreateOrder, None
<1>9. ConfirmsOK' /\ ShippedOK'
  <2>1. shipped' = NotShipped /\ \A v \in Workers : call'[v].op # "confirm"
    BY <1>3 DEF CreateOrder, Inv, OrderInv, BeforeOrder
  <2> QED
    BY <2>1 DEF ConfirmsOK, ShippedOK, ShippedAsOrdered
<1> QED
  BY <1>3, <1>6, <1>7, <1>8, <1>9 DEF Inv, OrderInv

\* What update and confirmShipment read of the items.
LEMMA ReadingKeeps ==
    ASSUME CheckoutAssumption, Inv, status # None, NEW w \in Workers, NEW c \in EditCall \cup ConfirmCall,
           call' = [call EXCEPT ![w] = c],
           c.op = "confirm" => c.edition = edition /\ c.picked \subseteq items,
           UNCHANGED <<cartVars, orderVars>>
    PROVE  Inv'
<1>1. CallTyped' /\ call'[w] = c /\ \A v \in Workers : v # w => call'[v] = call[v]
  <2>1. c \in Calls
    BY DEF Calls
  <2> QED
    BY <2>1, CallWrites DEF Inv, Typed
<1>2. CartInv'
  <2>1. CartGrows
    BY SameCartGrows DEF Inv, Typed
  <2>2. LoopOK(call[w])'
    BY <1>1 DEF LoopOK, LoopOps, EditCall, ConfirmCall
  <2> QED
    BY <1>1, <2>1, <2>2, CartInvStays DEF Inv, Typed
<1>3. ConfirmsOK'
  BY <1>1 DEF ConfirmsOK, OnePerSku, Inv, OrderInv, orderVars, Typed, OrderTyped
<1>4. (ItemsInv /\ BeforeOrder /\ ShippedOK)'
  BY DEF ItemsInv, BeforeOrder, ShippedOK, ShippedAsOrdered, RowsOf, NotShipped,
         Inv, OrderInv, orderVars
<1> QED
  BY <1>1, <1>2, <1>3, <1>4
  DEF Inv, OrderInv, Typed, CartTyped, OrderTyped, cartVars, orderVars

LEMMA BeginEditKeeps ==
    ASSUME CheckoutAssumption, Inv, NEW w \in Workers, NEW list \in Lists,
           BeginEdit(w, list)
    PROVE  Inv'
<1>1. PICK found \in OnePerSku(items) : OpenEdit(w, list, found)
  BY DEF BeginEdit
<1>2. found \in SUBSET Item /\ Wanted(list) \in QtyLists
  BY WantedTyped DEF OnePerSku, Inv, Typed, OrderTyped, CheckoutAssumption, SentLists
<1>3. PICK c \in EditCall : c = [op |-> "edit", list |-> Wanted(list), found |-> found]
  BY <1>2 DEF EditCall
<1> QED
  BY <1>1, <1>3, ReadingKeeps DEF OpenEdit

LEMMA ReadOrderKeeps ==
    ASSUME CheckoutAssumption, Inv, NEW w \in Workers, ReadOrder(w)
    PROVE  Inv'
<1>0. PICK mapped \in (SUBSET {r.sku : r \in items}) \ {{}} :
       \E picked \in OnePerSku({r \in items : r.sku \in mapped}) :
          call' = [call EXCEPT ![w] =
              [op |-> "confirm", picked |-> picked, edition |-> edition]]
  BY DEF ReadOrder
<1>1. PICK picked \in OnePerSku({r \in items : r.sku \in mapped}) :
          call' = [call EXCEPT ![w] =
              [op |-> "confirm", picked |-> picked, edition |-> edition]]
  BY <1>0
<1>2. picked \subseteq items /\ picked \in SUBSET Item /\ edition \in Nat
  BY DEF OnePerSku, Inv, Typed, OrderTyped
<1>3. PICK c \in ConfirmCall :
          c = [op |-> "confirm", picked |-> picked, edition |-> edition]
  BY <1>2 DEF ConfirmCall
<1>4. c.edition = edition /\ c.picked \subseteq items
  BY <1>2, <1>3
<1>5. status # None /\ UNCHANGED <<cartVars, orderVars>>
  BY DEF ReadOrder, None
<1> QED
  BY <1>1, <1>3, <1>4, <1>5, ReadingKeeps

LEMMA ShipOrderKeeps ==
    ASSUME CheckoutAssumption, Inv, NEW w \in Workers, ShipOrder(w)
    PROVE  Inv'
<1>1. call' = [call EXCEPT ![w] = NoCall] /\ NoCall \in Calls
  BY DEF ShipOrder, Done, Calls
<1>2. CallTyped' /\ call'[w] = NoCall /\ \A v \in Workers : v # w => call'[v] = call[v]
  BY <1>1, CallWrites DEF Inv, Typed
<1>3. LoopOK(call[w])' /\ call'[w].op \notin {"edit", "confirm"}
  BY <1>2 DEF LoopOK, NoCall, LoopOps
<1>4. CartGrows
  BY SameCartGrows DEF Inv, Typed, ShipOrder
<1>5. CartInv'
  BY <1>2, <1>3, <1>4, CartInvStays DEF Inv, Typed
<1>6. (ItemsInv /\ BeforeOrder)'
  BY DEF ItemsInv, BeforeOrder, Inv, OrderInv, ShipOrder, None
<1>7. ConfirmsOK'
  BY <1>2, <1>3 DEF ConfirmsOK, OnePerSku, Inv, OrderInv, ShipOrder
<1>8. ShippedOK'
  <2> DEFINE picked == call[w].picked
             e == call[w].edition
           skus == {p.sku : p \in picked}
  <2>1. e \in Nat /\ e <= edition /\ (e = edition => picked \subseteq items)
    BY ConfirmTyped DEF ShipOrder, Inv, OrderInv, ConfirmsOK, Typed, CallTyped, ConfirmCall
  <2>2. /\ shipped'.edition = e
        /\ DOMAIN shipped'.qty = skus
        /\ \A s \in skus : shipped'.qty[s] = QuantityOf(picked, s)
        /\ items' = items /\ edition' = edition
    BY DEF ShipOrder
  <2>3. ASSUME e = edition, NEW s \in skus
        PROVE  \E r \in items : r.sku = s /\ r.qty = QuantityOf(picked, s)
    <3>1. \E p \in picked : p.sku = s
      OBVIOUS
    <3> DEFINE q == CHOOSE p \in picked : p.sku = s
    <3>2. q \in picked /\ q.sku = s
      BY <3>1
    <3> QED
      BY <2>1, <2>3, <3>2 DEF QuantityOf
  <2> HIDE DEF picked, e, skus
  <2>4. shipped'.edition \in Nat /\ shipped'.edition <= edition'
    BY <2>1, <2>2
  <2>5. ASSUME shipped'.edition = edition', NEW s \in DOMAIN shipped'.qty
        PROVE  \E r \in items : r.sku = s /\ r.qty = shipped'.qty[s]
    <3>1. e = edition /\ s \in skus /\ shipped'.qty[s] = QuantityOf(picked, s)
      BY <2>2, <2>5
    <3> QED
      BY <2>3, <3>1
  <2>6. ShippedAsOrdered'
    BY <2>2, <2>5 DEF ShippedAsOrdered, RowsOf
  <2> QED
    BY <2>4, <2>6 DEF ShippedOK
<1> QED
  BY <1>2, <1>4, <1>5, <1>6, <1>7, <1>8
  DEF Inv, OrderInv, Typed, CartGrows, OrderTyped, ShipOrder

\* An edit keeps rows, perhaps with another quantity, and inserts a row of each
\* SKU that it had not found.
Kept(r, old) == r \in Item /\ r.id = old.id /\ r.sku = old.sku
Fresh(r, found) == /\ r \in Item
                   /\ r.id = <<r.sku, edition + 1, 0>>
                   /\ r.sku \notin {f.sku : f \in found}

LEMMA EditedItems ==
    ASSUME CheckoutAssumption, Inv, NEW w \in Workers, CommitEdit(w)
    PROVE  /\ \A r \in items' : \/ \E old \in items : Kept(r, old)
                                \/ Fresh(r, call[w].found)
           /\ \A r1, r2 \in items' : r1.id = r2.id => r1 = r2
<1> DEFINE found == call[w].found
           list == call[w].list
           new == Inserted(found, list)
<1>1. call[w] \in EditCall
  BY EditTyped DEF CommitEdit, Inv, Typed, CallTyped
<1>2. PICK S \in SUBSET Skus : list \in [S -> Quantities]
  BY <1>1 DEF EditCall, QtyLists
<1>3. DOMAIN list = S /\ \A s \in S : list[s] \in Nat
  BY <1>2 DEF CheckoutAssumption
<1>4. PICK repriced \in SUBSET Skus :
          items' = new \cup
              {IF r.id \in Written(found, list, repriced)
               THEN [r EXCEPT !.qty = list[r.sku]] ELSE r :
                  r \in {i \in items : i.id \notin Gone(found, list)}}
  BY DEF CommitEdit
<1> DEFINE written == Written(found, list, repriced)
           gone == Gone(found, list)
           edited(r) == IF r.id \in written THEN [r EXCEPT !.qty = list[r.sku]] ELSE r
<1>5. ASSUME NEW r \in items
      PROVE  Kept(edited(r), r)
  <2>1. r \in Item
    BY DEF Inv, Typed, OrderTyped
  <2>2. CASE r.id \in written
    <3>1. PICK f \in found : f.id = r.id /\ f.sku \in S
      BY <1>3, <2>2 DEF Written
    <3>2. f.sku = r.sku
      BY <1>1, <2>1, <3>1 DEF Item, EditCall
    <3>3. list[r.sku] \in Nat
      BY <1>3, <3>1, <3>2
    <3> QED
      BY <2>1, <2>2, <3>3 DEF Kept, Item
  <2>3. CASE r.id \notin written
    BY <2>1, <2>3 DEF Kept
  <2> QED
    BY <2>2, <2>3
<1>6. ASSUME NEW r \in new
      PROVE  Fresh(r, found)
  <2>1. PICK s \in S : /\ s \notin {f.sku : f \in found}
                       /\ r = [id |-> <<s, edition + 1, 0>>, sku |-> s, qty |-> list[s]]
    BY <1>3 DEF Inserted
  <2>2. s \in Skus /\ edition + 1 \in Nat /\ list[s] \in Nat
    BY <1>3 DEF Inv, Typed, OrderTyped
  <2> QED
    BY <2>1, <2>2 DEF Fresh, Item
<1>7. \A r \in items' : r \in new \/ \E old \in items : r = edited(old)
  BY <1>4
<1> HIDE DEF edited, new, written, gone, found
<1>8. \A r \in items' : (\E old \in items : Kept(r, old)) \/ Fresh(r, found)
  BY <1>5, <1>6, <1>7
<1>9. ASSUME NEW r1 \in items', NEW r2 \in items', r1.id = r2.id
      PROVE  r1 = r2
  <2>1. ASSUME NEW r \in new
        PROVE  r.id[2] = edition + 1
    BY <1>6 DEF Fresh
  <2>2. ASSUME NEW old \in items
        PROVE  edited(old).id = old.id /\ old.id[2] \in Nat /\ old.id[2] <= edition
    BY <1>5 DEF Kept, Inv, OrderInv, ItemsInv, Typed, OrderTyped, Item
  <2>3. edition \in Nat
    BY DEF Inv, Typed, OrderTyped
  <2>4. CASE r1 \in new /\ r2 \in new
    <3>1. PICK s1 \in S : r1 = [id |-> <<s1, edition + 1, 0>>, sku |-> s1, qty |-> list[s1]]
      BY <1>3, <2>4 DEF new, Inserted
    <3>2. PICK s2 \in S : r2 = [id |-> <<s2, edition + 1, 0>>, sku |-> s2, qty |-> list[s2]]
      BY <1>3, <2>4 DEF new, Inserted
    <3> QED
      BY <1>9, <3>1, <3>2
  <2>5. CASE r1 \notin new /\ r2 \notin new
    <3>1. PICK old1 \in items : r1 = edited(old1)
      BY <1>7, <2>5
    <3>2. PICK old2 \in items : r2 = edited(old2)
      BY <1>7, <2>5
    <3>3. old1 = old2
      BY <1>9, <2>2, <3>1, <3>2 DEF Inv, OrderInv, ItemsInv
    <3> QED
      BY <3>1, <3>2, <3>3
  <2>6. CASE (r1 \in new /\ r2 \notin new) \/ (r1 \notin new /\ r2 \in new)
    BY <1>7, <1>9, <2>1, <2>2, <2>3, <2>6
  <2> QED
    BY <2>4, <2>5, <2>6
<1> QED
  BY <1>8, <1>9 DEF found

LEMMA CommitEditKeeps ==
    ASSUME CheckoutAssumption, Inv, NEW w \in Workers, CommitEdit(w)
    PROVE  Inv'
<1>1. call' = [call EXCEPT ![w] = NoCall] /\ NoCall \in Calls
  BY DEF CommitEdit, Done, Calls
<1>2. CallTyped' /\ call'[w] = NoCall /\ \A v \in Workers : v # w => call'[v] = call[v]
  BY <1>1, CallWrites DEF Inv, Typed
<1>3. LoopOK(call[w])' /\ call'[w].op \notin {"edit", "confirm"}
  BY <1>2 DEF LoopOK, NoCall, LoopOps
<1>4. CartGrows
  BY SameCartGrows DEF Inv, Typed, CommitEdit
<1>5. CartInv'
  BY <1>2, <1>3, <1>4, CartInvStays DEF Inv, Typed
<1>6. edition \in Nat /\ edition' = edition + 1 /\ UNCHANGED <<status, shipped>>
  BY DEF CommitEdit, Inv, Typed, OrderTyped
<1>7. items' \in SUBSET Item /\ ItemsInv'
  <2>1. \A r \in items' : r \in Item /\ r.id[2] <= edition + 1
    <3> SUFFICES ASSUME NEW r \in items'
                 PROVE  r \in Item /\ r.id[2] <= edition + 1
      OBVIOUS
    <3>1. CASE Fresh(r, call[w].found)
      BY <1>6, <3>1 DEF Fresh
    <3>2. CASE \E old \in items : Kept(r, old)
      <4>1. PICK old \in items : Kept(r, old)
        BY <3>2
      <4>2. old.id[2] \in Nat /\ old.id[2] <= edition
        BY DEF Inv, OrderInv, ItemsInv, Typed, OrderTyped, Item
      <4> QED
        BY <1>6, <4>1, <4>2 DEF Kept
    <3> QED
      BY <3>1, <3>2, EditedItems
  <2> QED
    BY <1>6, <2>1, EditedItems DEF ItemsInv
<1>8. BeforeOrder'
  BY <1>6 DEF BeforeOrder, Inv, OrderInv, CommitEdit
<1>9. ConfirmsOK'
  <2> SUFFICES ASSUME NEW v \in Workers, call'[v].op = "confirm"
               PROVE  call'[v].edition <= edition' /\ call'[v].edition # edition'
    BY DEF ConfirmsOK
  <2>1. call'[v] = call[v]
    BY <1>2, <1>3
  <2>2. call[v].edition \in Nat /\ call[v].edition <= edition
    BY <2>1, ConfirmTyped DEF Inv, OrderInv, ConfirmsOK, Typed, CallTyped, ConfirmCall
  <2> QED
    BY <1>6, <2>1, <2>2
<1>10. ShippedOK'
  <2>1. shipped' # NotShipped =>
            shipped'.edition \in Nat /\ shipped'.edition <= edition
    BY <1>6 DEF Inv, OrderInv, ShippedOK, NotShipped
  <2> QED
    BY <1>6, <2>1 DEF ShippedOK, ShippedAsOrdered, NotShipped
<1> QED
  BY <1>2, <1>4, <1>5, <1>6, <1>7, <1>8, <1>9, <1>10
  DEF Inv, OrderInv, Typed, CartGrows, OrderTyped

LEMMA BeginKeeps ==
    ASSUME CheckoutAssumption, Inv, NEW w \in Workers, Begin(w)
    PROVE  Inv'
<1>1. ASSUME NEW s \in Skus, NEW n \in Quantities, Add(w, s, n)
      PROVE  Inv'
  <2>1. PICK list \in SentLists : list = <<[sku |-> s, qty |-> n]>>
    <3>1. [sku |-> s, qty |-> n] \in Entry
      BY DEF Entry
    <3>2. <<[sku |-> s, qty |-> n]>> \in Seq(Entry)
      BY <3>1
    <3>3. <<[sku |-> s, qty |-> n]>> # <<>>
      <4>1. Len(<<[sku |-> s, qty |-> n]>>) = 1 /\ Len(<<>>) = 0
        OBVIOUS
      <4> QED
        BY <4>1
    <3> QED
      BY <3>2, <3>3 DEF SentLists
  <2> QED
    BY <1>1, <2>1, CartLoopKeeps DEF Add, LoopOps
<1>2. ASSUME NEW list \in Lists, Sync(w, list) \/ SyncReload(w, list)
      PROVE  Inv'
  <2>1. list \in SentLists
    BY DEF CheckoutAssumption, SentLists
  <2> QED
    BY <1>2, <2>1, CartLoopKeeps DEF Sync, SyncReload, LoopOps
<1> QED
  BY <1>1, <1>2, CreateOrderKeeps, BeginEditKeeps, ReadOrderKeeps DEF Begin

LEMMA StutterKeeps ==
    ASSUME Inv, UNCHANGED vars
    PROVE  Inv'
<1>1. OrderInv'
  BY SameOrder DEF Inv, vars
<1>2. CartInv'
  BY DEF Inv, CartInv, NeverMoreThanAsked, LoopOK, Bound, vars, cartVars
<1> QED
  BY <1>1, <1>2 DEF Inv, Typed, CartTyped, OrderTyped, CallTyped, vars, cartVars, orderVars

LEMMA NextKeeps ==
    ASSUME CheckoutAssumption, Inv, [Next]_vars
    PROVE  Inv'
<1>1. ASSUME NEW w \in Workers, Continue(w)
      PROVE  Inv'
  BY <1>1, FindRowKeeps, WriteItemKeeps, CommitEditKeeps, ShipOrderKeeps, AbortKeeps
  DEF Continue
<1> QED
  BY <1>1, BeginKeeps, CartRequestKeeps, StutterKeeps DEF Next

LEMMA AlwaysInv == Spec => []Inv
<1>1. CheckoutAssumption
  BY CheckoutAssumption
<1>2. Init => Inv
  BY <1>1, InitInv
<1>3. Inv /\ [Next]_vars => Inv'
  BY <1>1, NextKeeps
<1> QED
  BY <1>2, <1>3, PTL DEF Spec

\* The cart never holds more of a SKU than the customer asked for: what any
\* loop has read, however long ago, is within the bound, and the bound only
\* grows (addToCart, syncCart, syncCartReload, updateQuantity).
THEOREM CartBounded == Spec => []NeverMoreThanAsked
<1>1. Inv => NeverMoreThanAsked
  BY DEF Inv, CartInv
<1> QED
  BY <1>1, AlwaysInv, PTL

\* When create is through with an item, the row that the cart had of it when
\* the order was written is gone.
THEOREM OrderedRowsGo == Spec => OrderedRowsLeave
<1>1. CheckoutAssumption
  BY CheckoutAssumption
<1>2. ASSUME Inv, [Next]_vars
      PROVE  [\A w \in Workers : call[w].op = "create" /\ WriteItem(w) =>
                  cart'[Current(w).sku].id \notin 1 .. call[w].upTo]_vars
  BY <1>1, <1>2, WriteItemWrites
<1> QED
  BY <1>2, AlwaysInv, PTL DEF Spec, OrderedRowsLeave

\* What a shipment takes of a SKU is the quantity of an item of it, whichever
\* SKUs it was asked to ship, as long as no edit is committed after it read
\* the items.
THEOREM ShipmentFits == Spec => []ShippedAsOrdered
<1>1. Inv => ShippedAsOrdered
  BY DEF Inv, OrderInv, ShippedOK
<1> QED
  BY <1>1, AlwaysInv, PTL

-----------------------------------------------------------------------------
(* The number of items of a SKU *)

\* The ids of the items that edits have inserted
Ids(s) == {r.id : r \in {x \in RowsOf(s) : x.id[2] # 0}}

\* Some item is one the order was placed with.
Placed(s) == \E r \in RowsOf(s) : r.id[2] = 0

\* The edits in progress that will insert a row of the SKU.
Editors(s) ==
    {w \in Workers : call[w].op = "edit" /\ s \notin {f.sku : f \in call[w].found}}

Room(s) ==
    /\ IsFiniteSet(Ids(s))
    /\ Cardinality(Ids(s)) + Cardinality(Editors(s)) <= Cardinality(Workers)
    /\ Placed(s) => Ids(s) = {} /\ Editors(s) = {}

EditorInv == \A s \in Skus : Room(s)

LEMMA EditorsFinite ==
    ASSUME CheckoutAssumption, NEW s \in Skus
    PROVE  /\ IsFiniteSet(Editors(s))
           /\ Cardinality(Editors(s)) \in Nat
           /\ Cardinality(Editors(s)) <= Cardinality(Workers)
<1>1. Editors(s) \in SUBSET Workers /\ IsFiniteSet(Workers)
  BY DEF Editors, CheckoutAssumption
<1> QED
  BY <1>1, FS_Subset, FS_CardinalityType

LEMMA EditorsFiniteNext ==
    ASSUME CheckoutAssumption, NEW s \in Skus
    PROVE  /\ IsFiniteSet(Editors(s)')
           /\ Cardinality(Editors(s)') \in Nat
           /\ Cardinality(Editors(s)') <= Cardinality(Workers)
<1>1. Editors(s)' \in SUBSET Workers /\ IsFiniteSet(Workers)
  BY DEF Editors, CheckoutAssumption
<1> QED
  BY <1>1, FS_Subset, FS_CardinalityType

\* Fewer rows and fewer editors leave room.
LEMMA LessRoom ==
    ASSUME CheckoutAssumption, NEW s \in Skus, Room(s),
           Ids(s)' \subseteq Ids(s), Editors(s)' \subseteq Editors(s),
           Placed(s)' => Placed(s)
    PROVE  Room(s)'
<1>1. /\ IsFiniteSet(Ids(s)') /\ Cardinality(Ids(s)') <= Cardinality(Ids(s))
      /\ Cardinality(Ids(s)') \in Nat /\ Cardinality(Ids(s)) \in Nat
  BY FS_Subset, FS_CardinalityType DEF Room
<1>2. /\ Cardinality(Editors(s)') <= Cardinality(Editors(s))
      /\ Cardinality(Editors(s)') \in Nat /\ Cardinality(Editors(s)) \in Nat
  BY EditorsFinite, FS_Subset, FS_CardinalityType
<1>3. Cardinality(Workers) \in Nat
  BY FS_CardinalityType DEF CheckoutAssumption
<1> QED
  BY <1>1, <1>2, <1>3 DEF Room

\* An editor that inserts its row has left its place to it.
LEMMA PlaceTaken ==
    ASSUME CheckoutAssumption, NEW s \in Skus, Room(s),
           NEW w \in Editors(s), NEW id,
           Ids(s)' \subseteq Ids(s) \cup {id}, Editors(s)' \subseteq Editors(s) \ {w},
           ~Placed(s)'
    PROVE  Room(s)'
<1>1. /\ IsFiniteSet(Ids(s) \cup {id})
      /\ Cardinality(Ids(s) \cup {id}) <= Cardinality(Ids(s)) + 1
      /\ Cardinality(Ids(s)) \in Nat
  <2>1. IsFiniteSet(Ids(s))
    BY DEF Room
  <2>2. Cardinality(Ids(s)) \in Nat
    BY <2>1, FS_CardinalityType
  <2>3. /\ IsFiniteSet(Ids(s) \cup {id})
        /\ \/ Cardinality(Ids(s) \cup {id}) = Cardinality(Ids(s))
           \/ Cardinality(Ids(s) \cup {id}) = Cardinality(Ids(s)) + 1
    BY <2>1, FS_AddElement
  <2> QED
    BY <2>2, <2>3
<1>2. /\ IsFiniteSet(Ids(s)') /\ Cardinality(Ids(s)') <= Cardinality(Ids(s) \cup {id})
      /\ Cardinality(Ids(s)') \in Nat /\ Cardinality(Ids(s) \cup {id}) \in Nat
  BY <1>1, FS_Subset, FS_CardinalityType
<1>3. /\ IsFiniteSet(Editors(s) \ {w})
      /\ Cardinality(Editors(s) \ {w}) = Cardinality(Editors(s)) - 1
      /\ Cardinality(Editors(s)) \in Nat
  BY EditorsFinite, FS_RemoveElement, FS_CardinalityType
<1>4. /\ Cardinality(Editors(s)') <= Cardinality(Editors(s) \ {w})
      /\ Cardinality(Editors(s)') \in Nat
  BY <1>3, FS_Subset, FS_CardinalityType
<1>5. Cardinality(Workers) \in Nat
  BY FS_CardinalityType DEF CheckoutAssumption
<1> QED
  BY <1>1, <1>2, <1>3, <1>4, <1>5 DEF Room

\* One more editor of a SKU that has no rows.
LEMMA NoRowsYet ==
    ASSUME CheckoutAssumption, NEW s \in Skus, Ids(s)' = {}, ~Placed(s)'
    PROVE  Room(s)'
<1>1. IsFiniteSet(Ids(s)') /\ Cardinality(Ids(s)') = 0
  BY FS_EmptySet
<1>2. Cardinality(Workers) \in Nat
  BY FS_CardinalityType DEF CheckoutAssumption
<1> QED
  BY <1>1, <1>2, EditorsFiniteNext DEF Room

\* Steps that neither begin nor commit an edit, nor write the order.
Aside ==
    /\ items' = items
    /\ \A v \in Workers : call'[v] = call[v] \/ call'[v].op # "edit"

LEMMA OtherSteps ==
    ASSUME CheckoutAssumption, Inv, [Next]_vars
    PROVE  \/ Aside
           \/ \E w \in Workers, list \in Lists : CreateOrder(w, list) \/ BeginEdit(w, list)
           \/ \E w \in Workers : CommitEdit(w)
<1> USE DEF Inv, Typed, CallTyped, orderVars
<1>1. CASE CartRequest \/ UNCHANGED vars
  BY <1>1, CartRequestGrows DEF Aside, vars
<1>2. ASSUME NEW w \in Workers, Begin(w),
             \A list \in Lists : ~CreateOrder(w, list) /\ ~BeginEdit(w, list)
      PROVE  Aside
  <2>1. ASSUME NEW op \in LoopOps, NEW list, Start(w, op, list), UNCHANGED orderVars
        PROVE  Aside
    BY <2>1 DEF Start, LoopOps, Aside
  <2>2. CASE ReadOrder(w)
    BY <2>2 DEF ReadOrder, Aside
  <2> QED
    BY <1>2, <2>1, <2>2 DEF Begin, Add, Sync, SyncReload, LoopOps
<1>3. ASSUME NEW w \in Workers, Continue(w), ~CommitEdit(w)
      PROVE  Aside
  <2>1. CASE FindRow(w)
    <3>1. call[w] \in LoopCall
      BY <2>1, LoopTyped DEF FindRow, Looping, LoopOps
    <3>2. call'[w].op = call[w].op /\ call[w].op # "edit"
      BY <2>1, <3>1 DEF FindRow, LoopCall, LoopOps
    <3> QED
      BY <2>1, <3>2 DEF FindRow, Aside
  <2>2. CASE WriteItem(w)
    <3>1. call[w] \in LoopCall
      BY <2>2, LoopTyped DEF WriteItem, Looping, LoopOps
    <3>2. call'[w].op # "edit"
      BY <2>2, <3>1 DEF WriteItem, NextItem, NoCall, LoopCall, LoopOps
    <3> QED
      BY <2>2, <3>2 DEF WriteItem, NextItem, Aside
  <2>3. CASE ShipOrder(w) \/ Abort(w)
    BY <2>3 DEF ShipOrder, Abort, Done, NoCall, Aside
  <2> QED
    BY <1>3, <2>1, <2>2, <2>3 DEF Continue
<1> QED
  BY <1>1, <1>2, <1>3 DEF Next

LEMMA EditorStep ==
    ASSUME CheckoutAssumption, Inv, EditorInv, [Next]_vars
    PROVE  EditorInv'
<1> SUFFICES ASSUME NEW s \in Skus
             PROVE  Room(s)'
  BY DEF EditorInv
<1>1. Room(s)
  BY DEF EditorInv
<1>2. CASE Aside
  <2>1. /\ Ids(s)' \subseteq Ids(s) /\ Editors(s)' \subseteq Editors(s)
        /\ Placed(s)' => Placed(s)
    BY <1>2 DEF Aside, Ids, Placed, RowsOf, Editors
  <2> QED
    BY <1>1, <2>1, LessRoom
<1>3. ASSUME NEW w \in Workers, NEW list \in Lists, CreateOrder(w, list)
      PROVE  Room(s)'
  <2>1. Editors(s)' = {}
    <3>1. \A v \in Workers : call[v].op # "edit"
      BY <1>3 DEF CreateOrder, Inv, OrderInv, BeforeOrder
    <3> QED
      BY <1>3, <3>1 DEF CreateOrder, Start, Editors, Inv, Typed, CallTyped
  <2>2. Ids(s)' = {}
    BY <1>3 DEF CreateOrder, Ids, RowsOf
  <2>3. Cardinality({}) = 0 /\ IsFiniteSet({}) /\ Cardinality(Workers) \in Nat
    BY FS_EmptySet, FS_CardinalityType DEF CheckoutAssumption
  <2> QED
    BY <2>1, <2>2, <2>3 DEF Room
<1>4. ASSUME NEW w \in Workers, NEW list \in Lists, BeginEdit(w, list)
      PROVE  Room(s)'
  <2>1. PICK found \in OnePerSku(items) : OpenEdit(w, list, found)
    BY <1>4 DEF BeginEdit
  <2>2. items' = items
    BY <2>1 DEF OpenEdit, orderVars
  <2>3. CASE RowsOf(s) = {}
    <3>1. Ids(s)' = {} /\ ~Placed(s)'
      BY <2>2, <2>3 DEF Ids, Placed, RowsOf
    <3> QED
      BY <3>1, NoRowsYet
  <2>4. CASE RowsOf(s) # {}
    <3>1. \E f \in found : f.sku = s
      BY <2>4 DEF RowsOf, OnePerSku
    <3>2. w \notin Editors(s)'
      BY <2>1, <3>1 DEF OpenEdit, Editors, Inv, Typed, CallTyped
    <3>3. Editors(s)' \subseteq Editors(s)
      BY <2>1, <3>2 DEF OpenEdit, Editors, Inv, Typed, CallTyped
    <3>4. Ids(s)' \subseteq Ids(s) /\ (Placed(s)' => Placed(s))
      BY <2>2 DEF Ids, Placed, RowsOf
    <3> QED
      BY <1>1, <3>3, <3>4, LessRoom
  <2> QED
    BY <2>3, <2>4
<1>5. ASSUME NEW w \in Workers, CommitEdit(w)
      PROVE  Room(s)'
  <2>1. Editors(s)' \subseteq Editors(s) \ {w}
    BY <1>5 DEF CommitEdit, Done, NoCall, Editors, Inv, Typed, CallTyped
  <2>2. ASSUME NEW r \in items', r.sku = s
        PROVE  \/ \E old \in RowsOf(s) : old.id = r.id
               \/ r.id = <<s, edition + 1, 0>> /\ w \in Editors(s)
    <3>1. CASE \E old \in items : Kept(r, old)
      BY <2>2, <3>1 DEF Kept, RowsOf
    <3>2. CASE Fresh(r, call[w].found)
      BY <1>5, <2>2, <3>2 DEF Fresh, Editors, CommitEdit
    <3> QED
      BY <1>5, <3>1, <3>2, EditedItems
  <2>3. edition + 1 # 0
    BY DEF Inv, Typed, OrderTyped
  <2>4. Placed(s)' => Placed(s)
    BY <2>2, <2>3 DEF Placed, RowsOf
  <2>5. CASE w \in Editors(s)
    <3>1. Ids(s)' \subseteq Ids(s) \cup {<<s, edition + 1, 0>>}
      BY <2>2 DEF Ids, RowsOf
    <3>2. ~Placed(s)
      BY <1>1, <2>5 DEF Room
    <3> QED
      BY <1>1, <2>1, <2>4, <2>5, <3>1, <3>2, PlaceTaken
  <2>6. CASE w \notin Editors(s)
    <3>1. Ids(s)' \subseteq Ids(s)
      BY <2>2, <2>6 DEF Ids, RowsOf
    <3> QED
      BY <1>1, <2>1, <2>4, <3>1, LessRoom
  <2> QED
    BY <2>5, <2>6
<1> QED
  BY <1>2, <1>3, <1>4, <1>5, OtherSteps

\* The items of a SKU are those the order was placed with, or all inserted by
\* edits and no more than there are requests at once: every edit that will
\* insert one of it found none, so that it has a place of its own, and none of
\* those placed is left.
THEOREM EditorsBound == Spec => []ItemsBoundedByEditors
<1>1. CheckoutAssumption
  BY CheckoutAssumption
<1>2. Init => EditorInv
  <2> SUFFICES ASSUME Init, NEW s \in Skus
               PROVE  Room(s)
    BY DEF EditorInv
  <2>1. Ids(s) = {} /\ Editors(s) = {} /\ ~Placed(s)
    BY DEF Init, Ids, Placed, RowsOf, Editors, NoCall
  <2>2. IsFiniteSet({}) /\ Cardinality({}) = 0
    BY FS_EmptySet
  <2>3. Cardinality(Workers) \in Nat
    BY <1>1, FS_CardinalityType DEF CheckoutAssumption
  <2> QED
    BY <2>1, <2>2, <2>3 DEF Room
<1>3. Inv /\ EditorInv /\ [Next]_vars => EditorInv'
  BY <1>1, EditorStep
<1>4. ASSUME Inv, EditorInv
      PROVE  ItemsBoundedByEditors
  <2> SUFFICES ASSUME NEW s \in Skus
               PROVE  \/ \A r \in RowsOf(s) : r.id[2] = 0
                      \/ /\ \A r \in RowsOf(s) : r.id[2] # 0
                         /\ Cardinality(RowsOf(s)) <= Cardinality(Workers)
    BY DEF ItemsBoundedByEditors
  <2>1. Room(s)
    BY <1>4 DEF EditorInv
  <2>2. CASE Placed(s)
    BY <2>1, <2>2 DEF Room, Ids
  <2>3. CASE ~Placed(s)
    <3> DEFINE f == [r \in RowsOf(s) |-> r.id]
    <3>1. \A r \in RowsOf(s) : r.id[2] # 0
      BY <2>3 DEF Placed
    <3>2. f \in Injection(RowsOf(s), Ids(s))
      BY <1>4, <3>1 DEF Injection, IsInjective, Ids, RowsOf, Inv, OrderInv, ItemsInv
    <3>3. IsFiniteSet(RowsOf(s)) /\ Cardinality(RowsOf(s)) <= Cardinality(Ids(s))
      BY <2>1, <3>2, FS_Injection DEF Room
    <3>4. /\ Cardinality(RowsOf(s)) \in Nat /\ Cardinality(Ids(s)) \in Nat
          /\ Cardinality(Editors(s)) \in Nat /\ Cardinality(Workers) \in Nat
      BY <1>1, <2>1, <3>3, EditorsFinite, FS_CardinalityType DEF Room, CheckoutAssumption
    <3> QED
      BY <2>1, <3>1, <3>3, <3>4 DEF Room
  <2> QED
    BY <2>2, <2>3
<1> QED
  BY <1>2, <1>3, <1>4, AlwaysInv, PTL DEF Spec
=============================================================================
