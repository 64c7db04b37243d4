---------------------------- MODULE CatalogProofs ---------------------------
(***************************************************************************)
(* Theorems about the price range, the attributes and the codes of         *)
(* Catalog, for any products, SKUs, prices, bases and widths of codes, and  *)
(* any number of concurrent handlers.                                      *)
(***************************************************************************)
EXTENDS Catalog, TLAPS, NaturalsInduction, FiniteSetTheorems, WellFoundedInduction

RowFields == {"product", "code", "combo", "price", "deleted"}
CallFields == {"op", "product", "sku", "combo", "price", "code", "range", "pc", "alone"}
Ops == {"create", "update", "softDelete", "restore", "forceDelete"}

IsRow(r) == r = NoSku \/ (DOMAIN r = RowFields /\ r.product \in Products)
IsCall(c) == c = NoCall \/ /\ DOMAIN c = CallFields
                           /\ c.product \in Products
                           /\ c.sku \in Skus
                           /\ c.op \in Ops

Table(t) == DOMAIN t = Skus /\ t = [k \in Skus |-> t[k]] /\ \A k \in Skus : IsRow(t[k])

Typed ==
    /\ Table(sku)
    /\ DOMAIN range = Products /\ range = [p \in Products |-> range[p]]
    /\ DOMAIN call = Workers /\ call = [w \in Workers |-> call[w]]
    /\ \A w \in Workers : IsCall(call[w])

\* Requests that name the same SKU name the same product, the SKU's own.
SameProduct ==
    /\ \A w, v \in Workers :
          ~Free(w) /\ ~Free(v) /\ call[w].sku = call[v].sku
              => call[w].product = call[v].product
    /\ \A w \in Workers :
          ~Free(w) /\ Exists(call[w].sku)
              => sku[call[w].sku].product = call[w].product

\* A handler that is alone has its product to itself.
AloneInv ==
    \A w, v \in Workers :
        w # v /\ ~Free(w) /\ ~Free(v) /\ call[w].alone = TRUE
            => call[v].product # call[w].product

\* The range it has read is still that of its rows.
RangeInv ==
    \A w \in Workers :
        ~Free(w) /\ call[w].alone = TRUE /\ call[w].pc = "commit" =>
            call[w].range = RangeOf(Applied(w), call[w].product)

\* No other SKU of its product has taken the attributes it was asked for.
Untaken(t, c) ==
    \A j \in Skus \ {c.sku} :
        t[j] = NoSku \/ t[j].product # c.product \/ t[j].combo # c.combo
TwinInv ==
    \A w \in Workers :
        ~Free(w) /\ call[w].alone = TRUE /\ call[w].op \in {"create", "update"} =>
            Untaken(sku, call[w])

Inv == Typed /\ SameProduct /\ AloneInv /\ RangeInv /\ TwinInv

LEMMA InitInv == Init => Inv
BY DEF Init, Inv, Typed, Table, IsRow, IsCall, SameProduct, AloneInv, RangeInv,
       TwinInv, Free

-----------------------------------------------------------------------------
(* Tables *)

\* The rows of a product decide its price range.
LEMMA RangeSame ==
    ASSUME NEW t, NEW u, NEW p,
           \A j \in Skus : t[j] = u[j] \/ /\ t[j] = NoSku \/ t[j].product # p
                                          /\ u[j] = NoSku \/ u[j].product # p
    PROVE  RangeOf(t, p) = RangeOf(u, p)
<1> DEFINE live(s) == {j \in Skus : s[j] # NoSku /\ s[j].product = p /\ ~s[j].deleted}
<1>1. live(t) = live(u)
  OBVIOUS
<1>2. \A j \in live(t) : t[j] = u[j]
  OBVIOUS
<1>3. {t[j].price : j \in live(t)} = {u[j].price : j \in live(u)}
  BY <1>1, <1>2
<1> QED
  BY <1>3 DEF RangeOf

\* Applied, of any table and any call.
AppliedTo(t, c) ==
    CASE c.op = "create" -> [t EXCEPT ![c.sku].combo = c.combo]
      [] c.op = "update" -> t
      [] c.op = "softDelete" -> [t EXCEPT ![c.sku].deleted = TRUE]
      [] c.op = "restore" -> [t EXCEPT ![c.sku].deleted = FALSE]
      [] c.op = "forceDelete" -> [t EXCEPT ![c.sku] = NoSku]

LEMMA AppliedIs ==
    ASSUME NEW w \in Workers
    PROVE  Applied(w) = AppliedTo(sku, call[w])
BY DEF Applied, AppliedTo

\* A handler leaves all rows but its own alone.
LEMMA AppliedElsewhere ==
    ASSUME NEW t, Table(t), NEW c, c.op \in Ops, NEW j \in Skus, j # c.sku
    PROVE  AppliedTo(t, c)[j] = t[j]
BY DEF AppliedTo, Ops, Table

LEMMA AppliedHere ==
    ASSUME NEW t, Table(t), NEW u, Table(u), NEW c, c.op \in Ops, c.sku \in Skus,
           t[c.sku] = u[c.sku]
    PROVE  AppliedTo(t, c)[c.sku] = AppliedTo(u, c)[c.sku]
BY DEF AppliedTo, Ops, Table

\* Its own row keeps its product.
LEMMA AppliedKeeps ==
    ASSUME NEW t, Table(t), NEW c, c.op \in Ops, c.sku \in Skus,
           t[c.sku] # NoSku \/ c.op = "update"
    PROVE  /\ Table(AppliedTo(t, c))
           /\ AppliedTo(t, c)[c.sku] # NoSku =>
                 /\ t[c.sku] # NoSku
                 /\ AppliedTo(t, c)[c.sku].product = t[c.sku].product
<1> DEFINE k == c.sku
           r == t[k]
<1>1. r = NoSku \/ (DOMAIN r = RowFields /\ r.product \in Products)
  BY DEF Table, IsRow
<1>2. CASE c.op = "update"
  BY <1>2 DEF AppliedTo
<1>3. ASSUME NEW row, IsRow(row), row # NoSku => row.product = r.product /\ r # NoSku,
             AppliedTo(t, c) = [t EXCEPT ![k] = row]
      PROVE  /\ Table(AppliedTo(t, c))
             /\ AppliedTo(t, c)[c.sku] # NoSku =>
                   /\ t[c.sku] # NoSku
                   /\ AppliedTo(t, c)[c.sku].product = t[c.sku].product
  BY <1>3 DEF Table
<1>4. CASE c.op = "forceDelete"
  <2>1. IsRow(NoSku) /\ AppliedTo(t, c) = [t EXCEPT ![k] = NoSku]
    BY <1>4 DEF AppliedTo, IsRow
  <2> QED
    BY <2>1, <1>3
<1>5. CASE c.op = "create"
  <2>1. PICK row : row = [r EXCEPT !.combo = c.combo]
    OBVIOUS
  <2>2. r # NoSku
    BY <1>5
  <2>3. IsRow(row) /\ row.product = r.product
    BY <1>1, <2>1, <2>2 DEF IsRow, RowFields
  <2>4. AppliedTo(t, c) = [t EXCEPT ![k] = row]
    BY <1>5, <2>1 DEF AppliedTo, Table
  <2> QED
    BY <1>3, <2>2, <2>3, <2>4
<1>6. CASE c.op \in {"softDelete", "restore"}
  <2>1. PICK d \in BOOLEAN : AppliedTo(t, c) = [t EXCEPT ![k].deleted = d]
    BY <1>6 DEF AppliedTo
  <2>2. PICK row : row = [r EXCEPT !.deleted = d]
    OBVIOUS
  <2>3. r # NoSku
    BY <1>6
  <2>4. IsRow(row) /\ row.product = r.product
    BY <1>1, <2>2, <2>3 DEF IsRow, RowFields
  <2>5. AppliedTo(t, c) = [t EXCEPT ![k] = row]
    BY <2>1, <2>2 DEF Table
  <2> QED
    BY <1>3, <2>3, <2>4, <2>5
<1> QED
  BY <1>2, <1>4, <1>5, <1>6 DEF Ops

-----------------------------------------------------------------------------
(* The steps of a handler in progress *)

\* What it may do: write its own row, which keeps its product, and go on with
\* the same request or end it.
Works(w) ==
    LET k == call[w].sku IN
    /\ ~Free(w)
    /\ Table(sku')
    /\ \A j \in Skus \ {k} : sku'[j] = sku[j]
    /\ sku'[k] = NoSku \/ sku'[k].product = call[w].product
    /\ DOMAIN range' = Products /\ range' = [p \in Products |-> range'[p]]
    /\ DOMAIN call' = Workers /\ call' = [v \in Workers |-> call'[v]]
    /\ \A v \in Workers \ {w} : call'[v] = call[v]
    /\ \/ call'[w] = NoCall
       \/ /\ DOMAIN call'[w] = CallFields
          /\ call'[w].product = call[w].product
          /\ call'[w].sku = call[w].sku
          /\ call'[w].op = call[w].op
          /\ call'[w].combo = call[w].combo
          /\ call'[w].alone = call[w].alone

LEMMA CallFacts ==
    ASSUME Typed, NEW w \in Workers, ~Free(w)
    PROVE  /\ DOMAIN call[w] = CallFields
           /\ call[w].product \in Products
           /\ call[w].sku \in Skus
           /\ call[w].op \in Ops
BY DEF Typed, IsCall, Free

LEMMA BusyPc ==
    ASSUME NEW w \in Workers, call[w].pc \in {"code", "insert", "write", "range", "commit"}
    PROVE  ~Free(w)
BY DEF Free, NoCall

LEMMA SameTable == Typed /\ UNCHANGED sku => Table(sku')
BY DEF Typed

LEMMA ReadLastCodeWorks ==
    ASSUME Inv, NEW w \in Workers, ReadLastCode(w)
    PROVE  Works(w) /\ call'[w].pc # "commit"
<1>1. ~Free(w)
  BY BusyPc DEF ReadLastCode
<1>2. PICK code : call' = [call EXCEPT ![w].pc = "insert", ![w].code = code]
  BY DEF ReadLastCode
<1>3. /\ call'[w] = [call[w] EXCEPT !.pc = "insert", !.code = code]
      /\ DOMAIN call' = Workers /\ call' = [v \in Workers |-> call'[v]]
      /\ \A v \in Workers \ {w} : call'[v] = call[v]
  BY <1>2 DEF Inv, Typed
<1>4. DOMAIN call[w] = CallFields
  BY <1>1, CallFacts DEF Inv
<1>5. /\ DOMAIN call'[w] = CallFields
      /\ call'[w].pc = "insert"
      /\ \A x \in CallFields \ {"pc", "code"} : call'[w][x] = call[w][x]
  BY <1>3, <1>4 DEF CallFields
<1>6. sku' = sku /\ range' = range
  BY DEF ReadLastCode
<1>7. Exists(call[w].sku) => sku[call[w].sku].product = call[w].product
  BY <1>1 DEF Inv, SameProduct
<1> QED
  BY <1>1, <1>3, <1>5, <1>6, <1>7, SameTable DEF Works, CallFields, Inv, Typed, Exists

LEMMA InsertSkuWorks ==
    ASSUME Inv, NEW w \in Workers, InsertSku(w)
    PROVE  Works(w) /\ call'[w].pc # "commit"
<1>1. ~Free(w)
  BY BusyPc DEF InsertSku
<1>2. /\ DOMAIN call[w] = CallFields /\ call[w].sku \in Skus
      /\ call[w].product \in Products
  BY <1>1, CallFacts DEF Inv
<1>3. call' = [call EXCEPT ![w].pc = "range"]
  BY DEF InsertSku
<1>4. /\ call'[w] = [call[w] EXCEPT !.pc = "range"]
      /\ DOMAIN call' = Workers /\ call' = [v \in Workers |-> call'[v]]
      /\ \A v \in Workers \ {w} : call'[v] = call[v]
  BY <1>3 DEF Inv, Typed
<1>5. /\ DOMAIN call'[w] = CallFields
      /\ call'[w].pc = "range"
      /\ \A x \in CallFields \ {"pc"} : call'[w][x] = call[w][x]
  BY <1>2, <1>4 DEF CallFields
<1>6. PICK row : /\ row = [product |-> call[w].product, code |-> call[w].code,
                           combo |-> {}, price |-> call[w].price, deleted |-> FALSE]
                 /\ sku' = [sku EXCEPT ![call[w].sku] = row]
  BY DEF InsertSku
<1>7. IsRow(row) /\ row.product = call[w].product
  BY <1>2, <1>6 DEF IsRow, RowFields
<1>8. /\ Table(sku') /\ sku'[call[w].sku] = row
      /\ \A j \in Skus \ {call[w].sku} : sku'[j] = sku[j]
  BY <1>2, <1>6, <1>7 DEF Table, Inv, Typed
<1>9. range' = range
  BY DEF InsertSku
<1> QED
  BY <1>1, <1>4, <1>5, <1>7, <1>8, <1>9 DEF Works, CallFields, Inv, Typed

LEMMA WriteSkuWorks ==
    ASSUME Inv, NEW w \in Workers, WriteSku(w)
    PROVE  Works(w) /\ call'[w].pc # "commit"
<1>1. ~Free(w)
  BY BusyPc DEF WriteSku
<1>2. /\ DOMAIN call[w] = CallFields /\ call[w].sku \in Skus
      /\ call[w].product \in Products
  BY <1>1, CallFacts DEF Inv
<1>3. call' = [call EXCEPT ![w].pc = "range"]
  BY DEF WriteSku
<1>4. /\ call'[w] = [call[w] EXCEPT !.pc = "range"]
      /\ DOMAIN call' = Workers /\ call' = [v \in Workers |-> call'[v]]
      /\ \A v \in Workers \ {w} : call'[v] = call[v]
  BY <1>3 DEF Inv, Typed
<1>5. /\ DOMAIN call'[w] = CallFields
      /\ call'[w].pc = "range"
      /\ \A x \in CallFields \ {"pc"} : call'[w][x] = call[w][x]
  BY <1>2, <1>4 DEF CallFields
<1> DEFINE k == call[w].sku
<1>6. /\ DOMAIN sku[k] = RowFields /\ sku[k].product \in Products
      /\ sku[k].product = call[w].product
  BY <1>1, <1>2 DEF WriteSku, Exists, Inv, Typed, Table, IsRow, SameProduct
<1>7. PICK row : row = [sku[k] EXCEPT !.price = call[w].price, !.combo = call[w].combo]
  OBVIOUS
<1>8. IsRow(row) /\ row.product = call[w].product
  BY <1>6, <1>7 DEF IsRow, RowFields
<1>9. sku' = [sku EXCEPT ![k] = row]
  BY <1>2, <1>7 DEF WriteSku, Inv, Typed, Table
<1>10. /\ Table(sku') /\ sku'[k] = row
       /\ \A j \in Skus \ {k} : sku'[j] = sku[j]
  BY <1>2, <1>8, <1>9 DEF Table, Inv, Typed
<1>11. range' = range
  BY DEF WriteSku
<1> QED
  BY <1>1, <1>4, <1>5, <1>8, <1>10, <1>11 DEF Works, CallFields, Inv, Typed

LEMMA ReadRangeWorks ==
    ASSUME Inv, NEW w \in Workers, ReadRange(w)
    PROVE  /\ Works(w) /\ UNCHANGED sku
           /\ call'[w].range = RangeOf(Applied(w), call[w].product)
<1>1. ~Free(w)
  BY BusyPc DEF ReadRange
<1>2. PICK r : /\ r = RangeOf(Applied(w), call[w].product)
               /\ call' = [call EXCEPT ![w].pc = "commit", ![w].range = r]
  BY DEF ReadRange
<1>3. /\ call'[w] = [call[w] EXCEPT !.pc = "commit", !.range = r]
      /\ DOMAIN call' = Workers /\ call' = [v \in Workers |-> call'[v]]
      /\ \A v \in Workers \ {w} : call'[v] = call[v]
  BY <1>2 DEF Inv, Typed
<1>4. DOMAIN call[w] = CallFields
  BY <1>1, CallFacts DEF Inv
<1>5. /\ DOMAIN call'[w] = CallFields
      /\ call'[w].range = r
      /\ \A x \in CallFields \ {"pc", "range"} : call'[w][x] = call[w][x]
  BY <1>3, <1>4 DEF CallFields
<1>6. sku' = sku /\ range' = range
  BY DEF ReadRange
<1>7. Exists(call[w].sku) => sku[call[w].sku].product = call[w].product
  BY <1>1 DEF Inv, SameProduct
<1>8. Works(w)
  BY <1>1, <1>3, <1>5, <1>6, <1>7, SameTable DEF Works, CallFields, Inv, Typed, Exists
<1> QED
  BY <1>2, <1>5, <1>6, <1>8

LEMMA CommitWorks ==
    ASSUME Inv, NEW w \in Workers, Commit(w)
    PROVE  /\ Works(w) /\ call'[w].pc # "commit"
           /\ sku' = AppliedTo(sku, call[w])
           /\ range'[call[w].product] = call[w].range
<1>1. ~Free(w)
  BY BusyPc DEF Commit
<1>2. /\ call[w].sku \in Skus /\ call[w].product \in Products /\ call[w].op \in Ops
  BY <1>1, CallFacts DEF Inv
<1>3. sku' = AppliedTo(sku, call[w])
  BY AppliedIs DEF Commit
<1>4. sku[call[w].sku] # NoSku \/ call[w].op = "update"
  BY DEF Commit, Standing, Exists
<1>5. PICK c : c = call[w]
  OBVIOUS
<1>6. /\ Table(sku')
      /\ sku'[c.sku] # NoSku =>
            /\ sku[c.sku] # NoSku
            /\ sku'[c.sku].product = sku[c.sku].product
      /\ \A j \in Skus \ {c.sku} : sku'[j] = sku[j]
  BY <1>2, <1>3, <1>4, <1>5, AppliedKeeps, AppliedElsewhere DEF Inv, Typed
<1>7. sku[c.sku] # NoSku => sku[c.sku].product = c.product
  BY <1>1, <1>5 DEF Inv, SameProduct, Exists
<1>8. /\ call' = [call EXCEPT ![w] = NoCall]
      /\ range' = [range EXCEPT ![c.product] = c.range]
  BY <1>5 DEF Commit
<1>9. /\ DOMAIN range' = Products /\ range' = [p \in Products |-> range'[p]]
      /\ range'[c.product] = c.range
  BY <1>2, <1>5, <1>8 DEF Inv, Typed
<1>10. /\ DOMAIN call' = Workers /\ call' = [v \in Workers |-> call'[v]]
       /\ \A v \in Workers \ {w} : call'[v] = call[v]
       /\ call'[w] = NoCall
  BY <1>8 DEF Inv, Typed
<1> QED
  BY <1>1, <1>3, <1>5, <1>6, <1>7, <1>9, <1>10 DEF Works, NoCall

LEMMA AbortWorks ==
    ASSUME Inv, NEW w \in Workers, Abort(w)
    PROVE  Works(w) /\ call'[w].pc # "commit"
<1>1. ~Free(w) /\ call' = [call EXCEPT ![w] = NoCall] /\ sku' = sku /\ range' = range
  BY DEF Abort
<1>2. /\ DOMAIN call' = Workers /\ call' = [v \in Workers |-> call'[v]]
      /\ \A v \in Workers \ {w} : call'[v] = call[v]
      /\ call'[w] = NoCall
  BY <1>1 DEF Inv, Typed
<1>3. Exists(call[w].sku) => sku[call[w].sku].product = call[w].product
  BY <1>1 DEF Inv, SameProduct
<1> QED
  BY <1>1, <1>2, <1>3, SameTable DEF Works, Inv, Typed, NoCall, Exists

\* Whatever a handler does, what holds of the others goes on to hold.
LEMMA WorksKeeps ==
    ASSUME Inv, NEW w \in Workers, Works(w)
    PROVE  /\ Typed' /\ SameProduct' /\ AloneInv' /\ TwinInv'
           /\ \A v \in Workers \ {w} :
                 (~Free(v))' /\ call'[v].alone = TRUE /\ call'[v].pc = "commit" =>
                     call'[v].range = RangeOf(Applied(v)', call'[v].product)
<1>1. /\ DOMAIN call[w] = CallFields /\ call[w].sku \in Skus
      /\ call[w].product \in Products /\ call[w].op \in Ops /\ ~Free(w)
  BY CallFacts DEF Inv, Works
<1>2. ASSUME NEW v \in Workers, (~Free(v))'
      PROVE  /\ ~Free(v)
             /\ DOMAIN call'[v] = CallFields
             /\ call'[v].product = call[v].product /\ call'[v].sku = call[v].sku
             /\ call'[v].op = call[v].op /\ call'[v].combo = call[v].combo
             /\ call'[v].alone = call[v].alone
  <2>1. CASE v = w
    BY <1>1, <1>2, <2>1 DEF Works, Free
  <2>2. CASE v # w
    BY <1>2, <2>2, CallFacts DEF Works, Free, Inv
  <2> QED
    BY <2>1, <2>2
<1>3. Typed'
  <2>1. ASSUME NEW v \in Workers
        PROVE  IsCall(call'[v])
    <3>1. CASE (~Free(v))'
      BY <1>2, <3>1, CallFacts DEF IsCall, Inv
    <3>2. CASE Free(v)'
      BY <3>2 DEF IsCall, Free
    <3> QED
      BY <3>1, <3>2
  <2> QED
    BY <2>1 DEF Typed, Works
<1>4. SameProduct'
  <2>1. ASSUME NEW v \in Workers, (~Free(v))', sku'[call'[v].sku] # NoSku
        PROVE  sku'[call'[v].sku].product = call'[v].product
    <3>1. call[v].sku \in Skus /\ ~Free(v)
      BY <1>2, <2>1, CallFacts DEF Inv
    <3>2. CASE call[v].sku = call[w].sku
      <4>1. call[v].product = call[w].product
        BY <1>1, <3>1, <3>2 DEF Inv, SameProduct
      <4> QED
        BY <1>2, <2>1, <3>2, <4>1 DEF Works
    <3>3. CASE call[v].sku # call[w].sku
      <4>1. sku'[call[v].sku] = sku[call[v].sku]
        BY <3>1, <3>3 DEF Works
      <4>2. sku[call[v].sku] # NoSku => sku[call[v].sku].product = call[v].product
        BY <3>1 DEF Inv, SameProduct, Exists
      <4> QED
        BY <1>2, <2>1, <4>1, <4>2
    <3> QED
      BY <3>2, <3>3
  <2>2. ASSUME NEW v \in Workers, NEW u \in Workers, (~Free(v))', (~Free(u))',
               call'[v].sku = call'[u].sku
        PROVE  call'[v].product = call'[u].product
    BY <1>2, <2>2 DEF Inv, SameProduct
  <2> QED
    BY <2>1, <2>2 DEF SameProduct, Exists
<1>5. AloneInv'
  BY <1>2 DEF Inv, AloneInv
\* The rows of a product that another handler has to itself
<1>6. ASSUME NEW v \in Workers \ {w}, (~Free(v))', call'[v].alone = TRUE
      PROVE  /\ call[v].product # call[w].product /\ call[v].sku # call[w].sku
             /\ call[v].alone = TRUE /\ ~Free(v)
             /\ sku[call[w].sku] = NoSku \/ sku[call[w].sku].product # call[v].product
             /\ sku'[call[w].sku] = NoSku \/ sku'[call[w].sku].product # call[v].product
  <2>1. call[v].alone = TRUE /\ ~Free(v)
    BY <1>2, <1>6
  <2>2. call[v].product # call[w].product
    BY <1>1, <2>1 DEF Inv, AloneInv
  <2>3. call[v].sku # call[w].sku
    BY <1>1, <2>1, <2>2 DEF Inv, SameProduct
  <2> QED
    BY <1>1, <2>1, <2>2, <2>3 DEF Works, Inv, SameProduct, Exists
<1>7. TwinInv'
  <2> SUFFICES ASSUME NEW v \in Workers, (~Free(v))', call'[v].alone = TRUE,
                      call'[v].op \in {"create", "update"},
                      NEW j \in Skus \ {call'[v].sku},
                      sku'[j] # NoSku, sku'[j].product = call'[v].product
               PROVE  sku'[j].combo # call'[v].combo
    BY DEF TwinInv, Untaken
  <2>1. /\ ~Free(v) /\ call[v].alone = TRUE /\ call[v].op \in {"create", "update"}
        /\ j \in Skus \ {call[v].sku} /\ call'[v].product = call[v].product
        /\ call'[v].combo = call[v].combo
    BY <1>2
  <2>2. Untaken(sku, call[v])
    BY <2>1 DEF Inv, TwinInv
  <2>3. sku'[j] = sku[j]
    <3>1. CASE v = w
      BY <2>1, <3>1 DEF Works
    <3>2. CASE v # w
      <4>1. j # call[w].sku
        BY <1>6, <2>1, <3>2
      <4> QED
        BY <4>1 DEF Works
    <3> QED
      BY <3>1, <3>2
  <2> QED
    BY <2>1, <2>2, <2>3 DEF Untaken
<1>8. ASSUME NEW v \in Workers \ {w}, (~Free(v))', call'[v].alone = TRUE,
             call'[v].pc = "commit"
      PROVE  call'[v].range = RangeOf(Applied(v)', call'[v].product)
  <2>1. PICK c : c = call[v]
    OBVIOUS
  <2>2. call'[v] = c
    BY <2>1 DEF Works
  <2>3. c.op \in Ops /\ c.sku \in Skus /\ c.range = RangeOf(AppliedTo(sku, c), c.product)
    <3>1. ~Free(v) /\ call[v].alone = TRUE /\ call[v].pc = "commit"
      BY <1>2, <1>8 DEF Works
    <3> QED
      BY <2>1, <3>1, CallFacts, AppliedIs DEF Inv, RangeInv
  <2>4. Table(sku) /\ Table(sku')
    BY DEF Works, Inv, Typed
  <2>5. ASSUME NEW j \in Skus
        PROVE  \/ AppliedTo(sku, c)[j] = AppliedTo(sku', c)[j]
               \/ /\ AppliedTo(sku, c)[j] = NoSku \/ AppliedTo(sku, c)[j].product # c.product
                  /\ AppliedTo(sku', c)[j] = NoSku \/ AppliedTo(sku', c)[j].product # c.product
    <3>1. CASE j = c.sku
      <4>1. sku'[j] = sku[j]
        BY <1>6, <1>8, <2>1, <3>1 DEF Works
      <4> QED
        BY <2>3, <2>4, <3>1, <4>1, AppliedHere
    <3>2. CASE j # c.sku
      <4>1. AppliedTo(sku, c)[j] = sku[j] /\ AppliedTo(sku', c)[j] = sku'[j]
        BY <2>3, <2>4, <3>2, AppliedElsewhere
      <4>2. CASE j = call[w].sku
        BY <1>6, <1>8, <2>1, <4>1, <4>2
      <4>3. CASE j # call[w].sku
        BY <4>1, <4>3 DEF Works
      <4> QED
        BY <4>2, <4>3
    <3> QED
      BY <3>1, <3>2
  <2>6. RangeOf(AppliedTo(sku, c), c.product) = RangeOf(AppliedTo(sku', c), c.product)
    BY <2>5, RangeSame
  <2>7. Applied(v)' = AppliedTo(sku', call'[v])
    BY DEF Applied, AppliedTo
  <2> QED
    BY <2>2, <2>3, <2>6, <2>7
<1> QED
  BY <1>3, <1>4, <1>5, <1>7, <1>8

LEMMA WorkingKeeps ==
    ASSUME Inv, NEW w \in Workers,
           \/ ReadLastCode(w) \/ InsertSku(w) \/ WriteSku(w)
           \/ ReadRange(w) \/ Commit(w) \/ Abort(w)
    PROVE  Inv'
<1>1. CASE ~ReadRange(w)
  <2>1. Works(w) /\ call'[w].pc # "commit"
    BY <1>1, ReadLastCodeWorks, InsertSkuWorks, WriteSkuWorks, CommitWorks, AbortWorks
  <2> QED
    BY <2>1, WorksKeeps DEF Inv, RangeInv
<1>2. CASE ReadRange(w)
  <2>1. /\ Works(w) /\ UNCHANGED sku
        /\ call'[w].range = RangeOf(Applied(w), call[w].product)
    BY <1>2, ReadRangeWorks
  <2>2. (~Free(w))' =>
            call'[w].range = RangeOf(Applied(w)', call'[w].product)
    <3> SUFFICES ASSUME (~Free(w))'
                 PROVE  /\ call'[w].product = call[w].product
                        /\ Applied(w)' = Applied(w)
      BY <2>1
    <3>1. /\ call'[w].product = call[w].product /\ call'[w].sku = call[w].sku
          /\ call'[w].op = call[w].op /\ call'[w].combo = call[w].combo
      BY <2>1 DEF Works, Free
    <3> QED
      BY <2>1, <3>1 DEF Applied
  <2> QED
    BY <2>1, <2>2, WorksKeeps DEF Inv, RangeInv
<1> QED
  BY <1>1, <1>2

-----------------------------------------------------------------------------
(* The beginning of a handler *)

LEMMA BeginKeeps ==
    ASSUME Inv, NEW w \in Workers, NEW op \in Ops, NEW p \in Products, NEW k \in Skus,
           NEW combo, NEW price, NEW pc, pc # "commit",
           Begin(w, op, p, k, combo, price, pc),
           Exists(k) => sku[k].product = p,
           \A v \in Workers : ~Free(v) /\ call[v].sku = k => call[v].product = p,
           op \in {"create", "update"} => ~Taken(p, combo, k)
    PROVE  Inv'
<1> DEFINE others == {v \in Workers : ~Free(v) /\ call[v].product = p}
<1>1. PICK c : c = [op |-> op, product |-> p, sku |-> k, combo |-> combo,
                    price |-> price, code |-> 0, range |-> NoRange,
                    pc |-> pc, alone |-> others = {}]
  OBVIOUS
<1>2. /\ DOMAIN c = CallFields /\ c.product = p /\ c.sku = k /\ c.op = op
      /\ c.combo = combo /\ c.pc = pc /\ c.alone = (others = {})
  BY <1>1 DEF CallFields
<1>3. Free(w) /\ UNCHANGED <<sku, range>>
  BY DEF Begin
<1>4. /\ DOMAIN call' = Workers /\ call' = [v \in Workers |-> call'[v]]
      /\ call'[w] = c
      /\ \A v \in Workers \ {w} :
            call'[v] = IF v \in others THEN [call[v] EXCEPT !.alone = FALSE] ELSE call[v]
  BY <1>1 DEF Begin
<1>5. ASSUME NEW v \in Workers \ {w}, (~Free(v))'
      PROVE  /\ ~Free(v)
             /\ DOMAIN call'[v] = CallFields
             /\ \A x \in CallFields \ {"alone"} : call'[v][x] = call[v][x]
             /\ call'[v].alone = TRUE =>
                    call[v].alone = TRUE /\ call'[v] = call[v] /\ call[v].product # p
  <2>1. CASE v \in others
    <3>1. ~Free(v) /\ DOMAIN call[v] = CallFields
      BY <2>1, CallFacts DEF Inv
    <3> QED
      BY <1>4, <2>1, <3>1 DEF CallFields
  <2>2. CASE v \notin others
    <3>1. call'[v] = call[v] /\ ~Free(v)
      BY <1>4, <1>5, <2>2 DEF Free
    <3> QED
      BY <2>2, <3>1, CallFacts DEF Inv
  <2> QED
    BY <2>1, <2>2
<1>6. ASSUME NEW v \in Workers \ {w}, (~Free(v))'
      PROVE  /\ call'[v].product = call[v].product /\ call'[v].sku = call[v].sku
             /\ call'[v].op = call[v].op /\ call'[v].combo = call[v].combo
             /\ call[v].product \in Products /\ call[v].sku \in Skus /\ call[v].op \in Ops
  BY <1>5, <1>6, CallFacts DEF CallFields, Inv
<1>7. Typed'
  <2>1. ASSUME NEW v \in Workers
        PROVE  IsCall(call'[v])
    <3>1. CASE v = w
      BY <1>2, <1>4, <3>1 DEF IsCall
    <3>2. CASE v # w /\ (~Free(v))'
      BY <1>5, <1>6, <3>2 DEF IsCall
    <3>3. CASE Free(v)'
      BY <3>3 DEF IsCall, Free
    <3> QED
      BY <3>1, <3>2, <3>3
  <2> QED
    BY <1>3, <1>4, <2>1 DEF Inv, Typed
<1>8. SameProduct'
  <2>1. ASSUME NEW v \in Workers, (~Free(v))', sku[call'[v].sku] # NoSku
        PROVE  sku[call'[v].sku].product = call'[v].product
    <3>1. CASE v = w
      BY <1>2, <1>4, <2>1, <3>1 DEF Exists
    <3>2. CASE v # w
      <4>1. /\ call'[v].product = call[v].product /\ call'[v].sku = call[v].sku
            /\ ~Free(v)
        BY <1>5, <1>6, <2>1, <3>2
      <4> QED
        BY <2>1, <4>1 DEF Inv, SameProduct, Exists
    <3> QED
      BY <3>1, <3>2
  <2>2. ASSUME NEW v \in Workers \ {w}, (~Free(v))', call'[v].sku = k
        PROVE  call'[v].product = p
    BY <1>5, <1>6, <2>2
  <2>3. ASSUME NEW v \in Workers \ {w}, NEW u \in Workers \ {w}, (~Free(v))',
               (~Free(u))', call'[v].sku = call'[u].sku
        PROVE  call'[v].product = call'[u].product
    <3>1. /\ call'[v].product = call[v].product /\ call'[v].sku = call[v].sku
          /\ ~Free(v)
      BY <1>5, <1>6, <2>3
    <3>2. /\ call'[u].product = call[u].product /\ call'[u].sku = call[u].sku
          /\ ~Free(u)
      BY <1>5, <1>6, <2>3
    <3> QED
      BY <2>3, <3>1, <3>2 DEF Inv, SameProduct
  <2>4. ASSUME NEW v \in Workers, NEW u \in Workers, (~Free(v))',
               (~Free(u))', call'[v].sku = call'[u].sku
        PROVE  call'[v].product = call'[u].product
    <3>1. call'[w].sku = k /\ call'[w].product = p
      BY <1>2, <1>4
    <3>2. CASE v = w /\ u = w
      BY <3>2
    <3>3. CASE v = w /\ u # w
      BY <2>2, <2>4, <3>1, <3>3
    <3>4. CASE v # w /\ u = w
      BY <2>2, <2>4, <3>1, <3>4
    <3>5. CASE v # w /\ u # w
      BY <2>3, <2>4, <3>5
    <3> QED
      BY <3>2, <3>3, <3>4, <3>5
  <2> QED
    BY <1>3, <2>1, <2>4 DEF SameProduct, Exists
<1>9. AloneInv'
  <2> SUFFICES ASSUME NEW u \in Workers, NEW v \in Workers, u # v, (~Free(u))',
                      (~Free(v))', call'[u].alone = TRUE
               PROVE  call'[v].product # call'[u].product
    BY DEF AloneInv
  <2>1. CASE u = w
    <3>1. others = {}
      BY <1>2, <1>4, <2>1
    <3>2. /\ call'[v].product = call[v].product /\ ~Free(v)
          /\ call'[u].product = p
      BY <1>2, <1>4, <1>5, <1>6, <2>1
    <3> QED
      BY <3>1, <3>2
  <2>2. CASE v = w
    <3>1. call[u].product # p /\ call'[u].product = call[u].product
      BY <1>5, <1>6, <2>2
    <3>2. call'[v].product = p
      BY <1>2, <1>4, <2>2
    <3> QED
      BY <3>1, <3>2
  <2>3. CASE u # w /\ v # w
    <3>1. /\ call'[u].product = call[u].product /\ call[u].alone = TRUE /\ ~Free(u)
          /\ call'[v].product = call[v].product /\ ~Free(v)
      BY <1>5, <1>6, <2>3
    <3> QED
      BY <3>1 DEF Inv, AloneInv
  <2> QED
    BY <2>1, <2>2, <2>3
<1>10. RangeInv'
  <2> SUFFICES ASSUME NEW v \in Workers, (~Free(v))', call'[v].alone = TRUE,
                      call'[v].pc = "commit"
               PROVE  call'[v].range = RangeOf(Applied(v)', call'[v].product)
    BY DEF RangeInv
  <2>1. v # w
    BY <1>2, <1>4
  <2>2. call'[v] = call[v] /\ ~Free(v)
    BY <1>5, <2>1
  <2>3. call[v].range = RangeOf(Applied(v), call[v].product)
    BY <2>2 DEF Inv, RangeInv
  <2>4. Applied(v)' = Applied(v)
    BY <1>3, <2>2 DEF Applied
  <2> QED
    BY <2>2, <2>3, <2>4
<1>11. TwinInv'
  <2> SUFFICES ASSUME NEW v \in Workers, (~Free(v))', call'[v].alone = TRUE,
                      call'[v].op \in {"create", "update"}
               PROVE  Untaken(sku, call'[v])
    BY <1>3 DEF TwinInv, Untaken
  <2>1. CASE v = w
    <3>1. ~Taken(p, combo, k)
      BY <1>2, <1>4, <2>1
    <3> QED
      BY <1>2, <1>4, <2>1, <3>1 DEF Taken, Untaken, Exists
  <2>2. CASE v # w
    BY <1>5, <2>2 DEF Inv, TwinInv
  <2> QED
    BY <2>1, <2>2
<1> QED
  BY <1>7, <1>8, <1>9, <1>10, <1>11 DEF Inv

LEMMA CreateKeeps ==
    ASSUME Inv, NEW w \in Workers, NEW p \in Products, NEW k \in Skus,
           NEW combo \in Combos, NEW price \in Prices, Create(w, p, k, combo, price)
    PROVE  Inv'
<1>1. ~Exists(k) /\ \A v \in Workers : ~Free(v) => call[v].sku # k
  BY DEF Create, Unused
<1>2. Begin(w, "create", p, k, combo, price, "code") /\ ~Taken(p, combo, k)
  BY DEF Create
<1>3. "create" \in Ops
  BY DEF Ops
<1> QED
  BY <1>1, <1>2, <1>3, BeginKeeps

\* The other handlers are about a SKU that exists.
LEMMA OnSkuKeeps ==
    ASSUME Inv, NEW w \in Workers, NEW op \in Ops, NEW k \in Skus, Exists(k),
           NEW combo, NEW price, NEW pc, pc # "commit",
           Begin(w, op, sku[k].product, k, combo, price, pc),
           op \in {"create", "update"} => ~Taken(sku[k].product, combo, k)
    PROVE  Inv'
<1>1. PICK p \in Products : p = sku[k].product
  BY DEF Inv, Typed, Table, IsRow, Exists
<1>2. \A v \in Workers : ~Free(v) /\ call[v].sku = k => call[v].product = p
  BY <1>1 DEF Inv, SameProduct
<1> QED
  BY <1>1, <1>2, BeginKeeps

LEMMA NextKeeps ==
    ASSUME Inv, [Next]_vars
    PROVE  Inv'
<1>1. ASSUME NEW w \in Workers, NEW k \in Skus, NEW combo \in Combos, NEW price \in Prices,
             Update(w, k, combo, price)
      PROVE  Inv'
  BY <1>1, OnSkuKeeps DEF Update, Ops
<1>2. ASSUME NEW w \in Workers, NEW k \in Skus,
             SoftDelete(w, k) \/ Restore(w, k) \/ ForceDelete(w, k)
      PROVE  Inv'
  BY <1>2, OnSkuKeeps DEF SoftDelete, Restore, ForceDelete, Ops
<1>3. CASE UNCHANGED vars
  <2>1. \A w \in Workers : Applied(w)' = Applied(w)
    BY <1>3 DEF vars, Applied
  <2> QED
    BY <1>3, <2>1 DEF vars, Inv, Typed, SameProduct, AloneInv, RangeInv, TwinInv,
                      Free, Exists
<1> QED
  BY <1>1, <1>2, <1>3, CreateKeeps, WorkingKeeps DEF Next

LEMMA AlwaysInv == Spec => []Inv
BY InitInv, NextKeeps, PTL DEF Spec

-----------------------------------------------------------------------------
(* Powers of the base of the codes *)

\* A set of natural numbers has a least one.
LEMMA LeastNumber ==
  ASSUME NEW S \in SUBSET Nat, S # {}
  PROVE  \E n \in S : \A m \in S : n <= m
<1>1. IsWellFoundedOn(OpToRel(<, Nat), Nat)
  BY NatLessThanWellFounded
<1>2. PICK n \in S : \A m \in S : ~ (<<m, n>> \in OpToRel(<, Nat))
  BY <1>1, WFMin
<1>3. \A m \in S : ~ (m < n)
  BY <1>2 DEF OpToRel
<1> QED
  BY <1>3

\* A set of subsets of a finite set has a smallest member: what does not hold
\* of every subset has a smallest counterexample.
LEMMA SmallestSubset ==
  ASSUME NEW S, IsFiniteSet(S), NEW C \in SUBSET (SUBSET S), C # {}
  PROVE  \E T \in C : \A U \in C : U \subseteq T => U = T
<1>1. IsWellFoundedOn(StrictSubsetOrdering(S), FiniteSubsetsOf(S))
  BY FS_StrictSubsetOrderingWellFounded
<1>2. IsWellFoundedOn(StrictSubsetOrdering(S), SUBSET S)
  BY <1>1, FS_FiniteSubsetsOfFinite
<1>3. PICK T \in C : \A U \in C : ~ (<<U, T>> \in StrictSubsetOrdering(S))
  BY <1>2, WFMin
<1> QED
  BY <1>3 DEF StrictSubsetOrdering

LEMMA BaseIs == Base \in Nat /\ Base >= 2 /\ Width \in Nat \ {0}
BY CatalogAssumption

\* g lists the powers of Base up to the n-th.
Powers(g, n) ==
    /\ g \in [0 .. n -> Nat]
    /\ g[0] = 1
    /\ \A d \in 1 .. n : g[d] = Base * g[d - 1]

LEMMA PowersExist ==
    ASSUME NEW n \in Nat
    PROVE  \E g : Powers(g, n)
<1> DEFINE C == {d \in Nat : ~ \E g : Powers(g, d)}
<1> SUFFICES ASSUME C # {} PROVE FALSE
  OBVIOUS
<1>1. PICK d \in C : \A e \in C : d <= e
  <2> HIDE DEF C
  <2>1. C \in SUBSET Nat
    BY DEF C
  <2> QED
    BY <2>1, LeastNumber
<1>2. CASE d = 0
  <2>1. Powers([e \in 0 .. 0 |-> 1], 0)
    BY DEF Powers
  <2> QED
    BY <1>2, <2>1
<1>3. CASE d # 0
  <2>1. d \in Nat /\ d - 1 \in Nat
    BY <1>3
  <2>2. d - 1 \notin C
    <3> HIDE DEF C
    <3> QED
      BY <1>1, <2>1
  <2>3. PICK g : Powers(g, d - 1)
    BY <2>1, <2>2
  <2>4. PICK p \in Nat : p = Base * g[d - 1]
    <3>1. g[d - 1] \in Nat
      BY <2>1, <2>3 DEF Powers
    <3> QED
      BY <3>1, BaseIs
  <2>5. PICK h : h = [e \in 0 .. d |-> IF e = d THEN p ELSE g[e]]
    OBVIOUS
  <2>6. h \in [0 .. d -> Nat] /\ h[0] = 1
    BY <1>3, <2>1, <2>3, <2>4, <2>5 DEF Powers
  <2>7. ASSUME NEW e \in 1 .. d
        PROVE  h[e] = Base * h[e - 1]
    <3>1. CASE e = d
      <4>1. h[e] = p /\ h[e - 1] = g[d - 1]
        BY <2>1, <2>5, <3>1
      <4> QED
        BY <2>4, <4>1, <3>1
    <3>2. CASE e # d
      <4>1. h[e] = g[e] /\ h[e - 1] = g[e - 1] /\ e \in 1 .. d - 1
        BY <2>1, <2>5, <3>2
      <4> QED
        BY <2>3, <4>1 DEF Powers
    <3> QED
      BY <3>1, <3>2
  <2>8. Powers(h, d)
    BY <2>6, <2>7 DEF Powers
  <2> QED
    BY <2>8
<1> QED
  BY <1>2, <1>3

\* There is only one such list.
LEMMA PowersAgree ==
    ASSUME NEW m \in Nat, NEW n \in Nat, m <= n,
           NEW g, Powers(g, m), NEW h, Powers(h, n)
    PROVE  \A d \in 0 .. m : g[d] = h[d]
<1> DEFINE C == {d \in 0 .. m : g[d] # h[d]}
<1> SUFFICES ASSUME C # {} PROVE FALSE
  OBVIOUS
<1>1. PICK d \in C : \A e \in C : d <= e
  <2> HIDE DEF C
  <2>1. C \in SUBSET Nat
    BY DEF C
  <2> QED
    BY <2>1, LeastNumber
<1>2. d # 0
  BY DEF Powers
<1>3. d \in Nat /\ d - 1 \in 0 .. m
  BY <1>2
<1>4. d - 1 \notin C
  <2> HIDE DEF C
  <2> QED
    BY <1>1, <1>3
<1>5. g[d] = Base * g[d - 1] /\ h[d] = Base * h[d - 1]
  BY <1>2 DEF Powers
<1> QED
  BY <1>3, <1>4, <1>5

\* Power is what its definition says.
LEMMA PowerIs ==
    /\ Power[0] = 1
    /\ \A d \in Nat : Power[d] \in Nat
    /\ \A d \in Nat : Power[d + 1] = Base * Power[d]
<1> DEFINE next(f) == [d \in Nat |-> IF d = 0 THEN 1 ELSE Base * f[d - 1]]
           list(n) == CHOOSE g : Powers(g, n)
           all == [d \in Nat |-> list(d)[d]]
<1>1. \A n \in Nat : Powers(list(n), n)
  BY PowersExist
<1>2. \A n \in Nat : list(n)[n] \in Nat /\ list(0)[0] = 1
  <2> HIDE DEF list
  <2> QED
    BY <1>1 DEF Powers
<1>3. ASSUME NEW n \in Nat \ {0}
      PROVE  all[n] = Base * all[n - 1]
  <2>1. n - 1 \in Nat /\ n - 1 <= n /\ n \in 1 .. n /\ n - 1 \in 0 .. (n - 1)
    OBVIOUS
  <2>2. Powers(list(n), n) /\ Powers(list(n - 1), n - 1)
    BY <1>1, <2>1
  <2> HIDE DEF list
  <2>3. list(n - 1)[n - 1] = list(n)[n - 1]
    BY <2>1, <2>2, PowersAgree
  <2>4. list(n)[n] = Base * list(n)[n - 1]
    BY <2>1, <2>2 DEF Powers
  <2> QED
    BY <2>1, <2>3, <2>4
<1>4. all[0] = 1
  <2> HIDE DEF list
  <2> QED
    BY <1>2
<1>5. all = next(all)
  <2>1. all = [d \in Nat |-> all[d]]
    OBVIOUS
  <2> HIDE DEF all
  <2> QED
    BY <1>3, <1>4, <2>1
<1>6. Power = next(Power)
  <2> HIDE DEF next, list
  <2>1. Power = CHOOSE f : f = next(f)
    BY DEF Power, next
  <2> HIDE DEF all
  <2> QED
    BY <1>5, <2>1
<1>7. Power[0] = 1 /\ \A d \in Nat \ {0} : Power[d] = Base * Power[d - 1]
  BY <1>6
<1>8. \A d \in Nat : Power[d + 1] = Base * Power[d]
  <2> TAKE d \in Nat
  <2>1. d + 1 \in Nat \ {0} /\ (d + 1) - 1 = d
    OBVIOUS
  <2> QED
    BY <1>7, <2>1
<1>9. \A d \in Nat : Power[d] \in Nat
  <2> DEFINE C == {d \in Nat : Power[d] \notin Nat}
  <2> SUFFICES ASSUME C # {} PROVE FALSE
    OBVIOUS
  <2>1. PICK d \in C : \A e \in C : d <= e
    <3> HIDE DEF C
    <3>1. C \in SUBSET Nat
      BY DEF C
    <3> QED
      BY <3>1, LeastNumber
  <2>2. d # 0
    BY <1>7
  <2>3. d - 1 \in Nat /\ d - 1 \notin C
    <3> HIDE DEF C
    <3>1. d \in Nat
      BY DEF C
    <3> QED
      BY <2>1, <2>2, <3>1
  <2>4. Power[d] = Base * Power[d - 1]
    BY <1>7, <2>2
  <2>5. Power[d - 1] \in Nat
    BY <2>3
  <2> QED
    BY <2>4, <2>5, BaseIs
<1> QED
  BY <1>7, <1>8, <1>9

LEMMA Product ==
    ASSUME NEW a \in Nat, NEW b \in Nat
    PROVE  a * b \in Nat
OBVIOUS

\* Powers grow at least as fast as their exponents.
LEMMA PowerGrows ==
    ASSUME NEW n \in Nat
    PROVE  Power[n] > n
<1> DEFINE C == {d \in Nat : ~(Power[d] > d)}
<1> SUFFICES ASSUME C # {} PROVE FALSE
  OBVIOUS
<1>1. PICK d \in C : \A e \in C : d <= e
  <2> HIDE DEF C
  <2>1. C \in SUBSET Nat
    BY DEF C
  <2> QED
    BY <2>1, LeastNumber
<1>2. d # 0
  BY PowerIs
<1>3. d - 1 \in Nat /\ d - 1 \notin C
  <2> HIDE DEF C
  <2>1. d \in Nat
    BY DEF C
  <2> QED
    BY <1>1, <1>2, <2>1
<1>4. PICK p \in Nat : p = Power[d - 1] /\ p >= d
  BY <1>3, PowerIs
<1>5. Power[d] = Base * p
  <2>1. d = (d - 1) + 1
    BY <1>3
  <2> QED
    BY <1>3, <1>4, <2>1, PowerIs
<1>6. Base * p >= 2 * p
  <2>1. PICK e \in Nat : Base = 2 + e
    <3>1. Base - 2 \in Nat /\ Base = 2 + (Base - 2)
      BY BaseIs
    <3> QED
      BY <3>1
  <2>2. (2 + e) * p = 2 * p + e * p
    OBVIOUS
  <2>3. e * p \in Nat
    BY Product
  <2> QED
    BY <2>1, <2>2, <2>3
<1>7. Base * p \in Nat
  BY Product, BaseIs
<1>8. Power[d] > d
  <2>1. PICK q \in Nat : q = Base * p
    BY <1>7
  <2>2. Power[d] = q /\ q >= 2 * p /\ d \in Nat
    BY <1>5, <1>6, <2>1
  <2> QED
    BY <1>2, <1>4, <2>2
<1> QED
  BY <1>8

\* Exponents add up.
LEMMA PowerAdds ==
    ASSUME NEW a \in Nat, NEW b \in Nat
    PROVE  Power[a + b] = Power[a] * Power[b]
<1> DEFINE C == {d \in Nat : Power[a + d] # Power[a] * Power[d]}
<1> SUFFICES ASSUME C # {} PROVE FALSE
  OBVIOUS
<1>1. PICK d \in C : \A e \in C : d <= e
  <2> HIDE DEF C
  <2>1. C \in SUBSET Nat
    BY DEF C
  <2> QED
    BY <2>1, LeastNumber
<1>2. d # 0
  <2>1. Power[a + 0] = Power[a] * 1
    BY PowerIs
  <2> QED
    BY <2>1, PowerIs
<1>3. d - 1 \in Nat /\ d - 1 \notin C
  <2> HIDE DEF C
  <2>1. d \in Nat
    BY DEF C
  <2> QED
    BY <1>1, <1>2, <2>1
<1>4. PICK e \in Nat : d = e + 1 /\ e = d - 1
  BY <1>3
<1>5. Power[a + e] = Power[a] * Power[e]
  BY <1>3, <1>4
<1>6. Power[d] = Base * Power[e]
  BY <1>4, PowerIs
<1>7. Power[a + d] = Base * Power[a + e]
  <2>1. a + d = (a + e) + 1 /\ a + e \in Nat
    BY <1>4
  <2> QED
    BY <2>1, PowerIs
<1>8. PICK x \in Nat, y \in Nat : x = Power[a] /\ y = Power[e]
  BY PowerIs
<1>9. Base * (x * y) = x * (Base * y)
  BY BaseIs
<1> QED
  BY <1>5, <1>6, <1>7, <1>8, <1>9

-----------------------------------------------------------------------------
(* Digits *)

LEMMA DigitsAre ==
    ASSUME NEW n \in Nat
    PROVE  /\ Digits(n) \in Nat
           /\ Digits(n) <= Width + n
           /\ n < Power[Digits(n)]
           /\ \A d \in Width .. Width + n : n < Power[d] => Digits(n) <= d
           /\ Digits(n) >= Width
<1> DEFINE D == {d \in Width .. Width + n : n < Power[d]}
<1>1. Width + n \in Nat /\ Width + n \in Width .. Width + n
  BY BaseIs
<1>2. n < Power[Width + n]
  <2>1. Power[Width + n] > Width + n /\ Power[Width + n] \in Nat
    BY <1>1, PowerGrows, PowerIs
  <2> QED
    BY <1>1, <2>1, BaseIs
<1>3. D \in SUBSET Nat /\ D # {}
  BY <1>1, <1>2, BaseIs
<1>4. PICK d \in D : \A e \in D : d <= e
  <2> HIDE DEF D
  <2> QED
    BY <1>3, LeastNumber
<1>5. Min(D) \in D /\ \A e \in D : Min(D) <= e
  <2> HIDE DEF D
  <2> QED
    BY <1>4 DEF Min
<1>6. Digits(n) \in D /\ \A e \in D : Digits(n) <= e
  BY <1>5 DEF Digits
<1> QED
  BY <1>6, BaseIs

\* A number does not have more digits than its successor.
LEMMA DigitsGrow ==
    ASSUME NEW n \in Nat
    PROVE  Digits(n) <= Digits(n + 1)
<1>1. PICK e \in Nat : e = Digits(n + 1) /\ e >= Width /\ n + 1 < Power[e]
  BY DigitsAre
<1>2. Digits(n) <= Width + n /\ Digits(n) \in Nat
  BY DigitsAre
<1>3. CASE e <= Width + n
  <2>1. e \in Width .. Width + n /\ n < Power[e]
    BY <1>1, <1>3, BaseIs, PowerIs
  <2> QED
    BY <1>1, <2>1, DigitsAre
<1>4. CASE e > Width + n
  BY <1>1, <1>2, <1>4, BaseIs
<1> QED
  BY <1>1, <1>3, <1>4, BaseIs

-----------------------------------------------------------------------------
(* The order of the codes *)

LEMMA MaxOfTwo ==
    ASSUME NEW a \in Nat, NEW b \in Nat
    PROVE  Max({a, b}) \in Nat /\ Max({a, b}) >= a /\ Max({a, b}) >= b
           /\ (Max({a, b}) = a \/ Max({a, b}) = b)
<1>1. \E m \in {a, b} : \A y \in {a, b} : m >= y
  <2>1. CASE a >= b
    BY <2>1
  <2>2. CASE b >= a
    BY <2>2
  <2> QED
    BY <2>1, <2>2
<1> QED
  BY <1>1 DEF Max

\* Multiplication by a positive number keeps the order and the difference.
LEMMA ProductOrder ==
    ASSUME NEW a \in Nat, NEW b \in Nat, NEW c \in Nat \ {0}
    PROVE  /\ a * c > b * c <=> a > b
           /\ a * c = b * c <=> a = b
<1>1. ASSUME NEW x \in Nat, NEW y \in Nat, x > y
      PROVE  x * c > y * c
  <2>1. PICK e \in Nat : x = y + 1 + e
    <3>1. x - (y + 1) \in Nat /\ x = y + 1 + (x - (y + 1))
      BY <1>1
    <3> QED
      BY <3>1
  <2>2. (y + 1 + e) * c = y * c + c + e * c
    OBVIOUS
  <2>3. y * c \in Nat /\ e * c \in Nat
    BY Product
  <2>4. PICK u \in Nat, v \in Nat : u = y * c /\ v = e * c
    BY <2>3
  <2> QED
    BY <2>1, <2>2, <2>4
<1>2. a * c \in Nat /\ b * c \in Nat
  BY Product
<1>3. PICK u \in Nat, v \in Nat : u = a * c /\ v = b * c
  BY <1>2
<1>4. /\ a > b => u > v
      /\ b > a => v > u
      /\ a = b => u = v
  BY <1>1, <1>3
<1> QED
  BY <1>3, <1>4

\* n as a string, filled up with zeros behind to d digits.
Filled(n, d) == n * Power[d - Digits(n)]

\* However far the two are filled up.
LEMMA SortsAfterFilled ==
    ASSUME NEW m \in Nat, NEW n \in Nat, NEW d \in Nat,
           d >= Digits(m), d >= Digits(n)
    PROVE  SortsAfter(m, n) <=>
               \/ Filled(m, d) > Filled(n, d)
               \/ Filled(m, d) = Filled(n, d) /\ Digits(m) > Digits(n)
<1>1. PICK dm \in Nat, dn \in Nat : dm = Digits(m) /\ dn = Digits(n)
  BY DigitsAre
<1>2. PICK c \in Nat : /\ c = Max({dm, dn}) /\ c >= dm /\ c >= dn
                       /\ (c = dm \/ c = dn)
  BY MaxOfTwo
<1>3. c <= d
  BY <1>1, <1>2
<1>4. PICK p \in Nat \ {0} : p = Power[d - c]
  <2>1. d - c \in Nat
    BY <1>3
  <2>2. Power[d - c] > d - c /\ Power[d - c] \in Nat
    BY <2>1, PowerGrows, PowerIs
  <2> QED
    BY <2>1, <2>2
<1>5. ASSUME NEW k \in Nat, NEW e \in Nat, e = Digits(k), e <= c
      PROVE  /\ Filled(k, d) = (k * Power[c - e]) * p
             /\ k * Power[c - e] \in Nat
  <2>1. c - e \in Nat /\ d - c \in Nat /\ (c - e) + (d - c) = d - e
    BY <1>3, <1>5
  <2>2. Power[d - e] = Power[c - e] * p
    BY <1>4, <2>1, PowerAdds
  <2>3. PICK q \in Nat : q = Power[c - e]
    BY <2>1, PowerIs
  <2>4. k * (q * p) = (k * q) * p
    OBVIOUS
  <2>5. k * q \in Nat
    BY Product
  <2> QED
    BY <1>5, <2>2, <2>3, <2>4, <2>5 DEF Filled
<1>6. PICK mm \in Nat, nn \in Nat : mm = m * Power[c - dm] /\ nn = n * Power[c - dn]
  BY <1>1, <1>2, <1>5
<1>7. Filled(m, d) = mm * p /\ Filled(n, d) = nn * p
  <2>1. Filled(m, d) = (m * Power[c - dm]) * p
    BY <1>1, <1>2, <1>5
  <2>2. Filled(n, d) = (n * Power[c - dn]) * p
    BY <1>1, <1>2, <1>5
  <2> QED
    BY <1>6, <2>1, <2>2
<1>8. SortsAfter(m, n) <=> mm > nn \/ (mm = nn /\ dm > dn)
  BY <1>1, <1>2, <1>6 DEF SortsAfter
<1>9. mm * p > nn * p <=> mm > nn
  BY ProductOrder
<1>10. mm * p = nn * p <=> mm = nn
  BY ProductOrder
<1> QED
  BY <1>1, <1>7, <1>8, <1>9, <1>10

LEMMA FilledIs ==
    ASSUME NEW n \in Nat, NEW d \in Nat, d >= Digits(n)
    PROVE  Filled(n, d) \in Nat
<1>1. d - Digits(n) \in Nat
  BY DigitsAre
<1>2. Power[d - Digits(n)] \in Nat
  BY <1>1, PowerIs
<1> QED
  BY <1>2, Product DEF Filled

\* Codes are in order: of two one comes after the other ...
LEMMA SortsTotal ==
    ASSUME NEW m \in Nat, NEW n \in Nat, m # n
    PROVE  SortsAfter(m, n) \/ SortsAfter(n, m)
<1>1. PICK dm \in Nat, dn \in Nat : dm = Digits(m) /\ dn = Digits(n)
  BY DigitsAre
<1>2. PICK d \in Nat : d = dm + dn
  BY <1>1
<1>3. PICK x \in Nat, y \in Nat : x = Filled(m, d) /\ y = Filled(n, d)
  BY <1>1, <1>2, FilledIs
<1>4. /\ SortsAfter(m, n) <=> x > y \/ (x = y /\ dm > dn)
      /\ SortsAfter(n, m) <=> y > x \/ (y = x /\ dn > dm)
  <2>1. d >= Digits(m) /\ d >= Digits(n)
    BY <1>1, <1>2
  <2> QED
    BY <1>1, <1>3, <2>1, SortsAfterFilled
<1>5. ~(x = y /\ dm = dn)
  <2> SUFFICES ASSUME x = y, dm = dn PROVE FALSE
    OBVIOUS
  <2>1. PICK p \in Nat \ {0} : p = Power[d - dm]
    <3>1. d - dm \in Nat
      BY <1>2
    <3>2. Power[d - dm] > d - dm /\ Power[d - dm] \in Nat
      BY <3>1, PowerGrows, PowerIs
    <3> QED
      BY <3>1, <3>2
  <2>2. m * p = n * p
    BY <1>1, <1>3, <2>1 DEF Filled
  <2> QED
    BY <2>2, ProductOrder
<1> QED
  BY <1>4, <1>5

\* ... and what comes after a later one comes after an earlier one.
LEMMA SortsTransitive ==
    ASSUME NEW m \in Nat, NEW n \in Nat, NEW k \in Nat,
           SortsAfter(m, n), SortsAfter(n, k)
    PROVE  SortsAfter(m, k)
<1>1. PICK dm \in Nat, dn \in Nat, dk \in Nat :
          dm = Digits(m) /\ dn = Digits(n) /\ dk = Digits(k)
  BY DigitsAre
<1>2. PICK d \in Nat : d = dm + dn + dk
  BY <1>1
<1>3. d >= Digits(m) /\ d >= Digits(n) /\ d >= Digits(k)
  BY <1>1, <1>2
<1>4. PICK x \in Nat, y \in Nat, z \in Nat :
          x = Filled(m, d) /\ y = Filled(n, d) /\ z = Filled(k, d)
  BY <1>3, FilledIs
<1>5. /\ x > y \/ (x = y /\ dm > dn)
      /\ y > z \/ (y = z /\ dn > dk)
      /\ SortsAfter(m, k) <=> x > z \/ (x = z /\ dm > dk)
  BY <1>1, <1>3, <1>4, SortsAfterFilled
<1> QED
  BY <1>5

\* The code that comes last.
Numbers(S) == S \subseteq Nat
Last(U, m) == m \in U /\ \A n \in U \ {m} : SortsAfter(m, n)

LEMMA LastExists ==
    ASSUME NEW S, Numbers(S), IsFiniteSet(S), S # {}
    PROVE  \E m \in S : Last(S, m)
<1> DEFINE D == {T \in SUBSET S : T # {} /\ ~ \E m \in T : Last(T, m)}
<1> SUFFICES ASSUME D # {} PROVE FALSE
  OBVIOUS
<1>1. PICK T \in D : \A V \in D : V \subseteq T => V = T
  <2> HIDE DEF D
  <2>1. D \in SUBSET (SUBSET S)
    BY DEF D
  <2> QED
    BY <2>1, SmallestSubset
<1>2. PICK x \in T : TRUE
  OBVIOUS
<1>3. T \ {x} \notin D
  <2> HIDE DEF D
  <2> QED
    BY <1>1, <1>2
<1>4. T # {x}
  BY DEF Last
<1>5. PICK y \in T \ {x} : Last(T \ {x}, y)
  BY <1>2, <1>3, <1>4
<1>6. x \in Nat /\ y \in Nat /\ x # y /\ T \subseteq Nat
  BY <1>2, <1>5 DEF Numbers
<1>7. CASE SortsAfter(y, x)
  <2>1. Last(T, y)
    BY <1>5, <1>7 DEF Last
  <2> QED
    BY <1>5, <2>1
<1>8. CASE SortsAfter(x, y)
  <2>1. \A n \in T \ {x} : SortsAfter(x, n)
    BY <1>5, <1>6, <1>8, SortsTransitive DEF Last
  <2> QED
    BY <1>2, <2>1 DEF Last
<1> QED
  BY <1>6, <1>7, <1>8, SortsTotal

-----------------------------------------------------------------------------
(* Codes in use *)

\* Rows have numbers as codes, and so has a handler about to insert one.
CodeInv ==
    /\ \A k \in Skus : Exists(k) => sku[k].code \in Nat
    /\ \A w \in Workers : ~Free(w) /\ call[w].pc = "insert" => call[w].code \in Nat

LEMMA CodesUsed ==
    ASSUME CodeInv
    PROVE  Numbers(UsedCodes) /\ IsFiniteSet(UsedCodes)
<1>1. IsFiniteSet({k \in Skus : Exists(k)})
  BY FS_Subset, CatalogAssumption
<1>2. IsFiniteSet({sku[k].code : k \in {j \in Skus : Exists(j)}})
  <2> DEFINE S == {j \in Skus : Exists(j)}
             code == [k \in S |-> sku[k].code]
             T == {sku[k].code : k \in S}
  <2>1. code \in Surjection(S, T)
    BY DEF Surjection
  <2> HIDE DEF S, code, T
  <2>2. IsFiniteSet(T)
    BY <1>1, <2>1, FS_Surjection DEF S
  <2> QED
    BY <2>2 DEF T, S
<1>3. IsFiniteSet(UsedCodes)
  BY <1>2, FS_Union, CatalogAssumption DEF UsedCodes
<1>4. Numbers(UsedCodes)
  BY CatalogAssumption DEF CodeInv, UsedCodes, Numbers
<1> QED
  BY <1>3, <1>4

\* generateSKU finds the code that comes last.
LEMMA GeneratedIs ==
    ASSUME CodeInv
    PROVE  \/ UsedCodes = {} /\ GeneratedCode = 1
           \/ \E m \in Nat : Last(UsedCodes, m) /\ GeneratedCode = m + 1
<1>1. CASE UsedCodes = {}
  BY <1>1 DEF GeneratedCode
<1>2. CASE UsedCodes # {}
  <2>1. \E m \in UsedCodes : Last(UsedCodes, m)
    BY <1>2, CodesUsed, LastExists
  <2>2. PICK m : /\ m = CHOOSE x \in UsedCodes : \A n \in UsedCodes \ {x} : SortsAfter(x, n)
                 /\ Last(UsedCodes, m)
    BY <2>1 DEF Last
  <2>3. GeneratedCode = 1 + m
    BY <1>2, <2>2 DEF GeneratedCode
  <2>4. m \in Nat
    BY <2>2, CodesUsed DEF Last, Numbers
  <2>5. GeneratedCode = m + 1
    BY <2>3, <2>4
  <2> QED
    BY <2>2, <2>4, <2>5
<1> QED
  BY <1>1, <1>2

LEMMA BeginCodes ==
    ASSUME Inv, CodeInv, NEW w \in Workers, NEW op, NEW p, NEW k,
           NEW combo, NEW price, NEW pc, pc # "insert",
           Begin(w, op, p, k, combo, price, pc)
    PROVE  CodeInv'
<1>1. UNCHANGED sku
  BY DEF Begin
<1>2. ASSUME NEW v \in Workers, (~Free(v))', call'[v].pc = "insert"
      PROVE  call'[v].code \in Nat
  <2>1. v # w
    BY <1>2 DEF Begin
  <2>2. PICK others : call'[v] = IF v \in others THEN [call[v] EXCEPT !.alone = FALSE]
                                 ELSE call[v]
    BY <2>1 DEF Begin
  <2>3. ~Free(v)
    BY <1>2, <2>1 DEF Begin, Free
  <2>4. DOMAIN call[v] = CallFields
    BY <2>3, CallFacts DEF Inv
  <2>5. call'[v].pc = call[v].pc /\ call'[v].code = call[v].code
    BY <2>2, <2>4 DEF CallFields
  <2> QED
    BY <1>2, <2>3, <2>5 DEF CodeInv
<1> QED
  BY <1>1, <1>2 DEF CodeInv, Exists

\* The steps of a handler in progress: others keep theirs, and the row it
\* writes keeps its code, or gets the one it was given.
LEMMA WorkingCodes ==
    ASSUME Inv, CodeInv, NEW w \in Workers,
           \/ ReadLastCode(w) \/ InsertSku(w) \/ WriteSku(w)
           \/ ReadRange(w) \/ Commit(w) \/ Abort(w)
    PROVE  CodeInv'
<1>1. Works(w)
  BY ReadLastCodeWorks, InsertSkuWorks, WriteSkuWorks, ReadRangeWorks, CommitWorks,
     AbortWorks
<1>2. /\ DOMAIN call[w] = CallFields /\ call[w].sku \in Skus /\ ~Free(w)
      /\ call[w].op \in Ops
  BY <1>1, CallFacts DEF Works, Inv
<1>3. (~Free(w))' /\ call'[w].pc = "insert" => call'[w].code \in Nat
  <2>1. CASE ReadLastCode(w)
    <3>1. GeneratedCode \in Nat
      BY GeneratedIs
    <3>2. PICK c : /\ c = GeneratedCode
                   /\ call' = [call EXCEPT ![w].pc = "insert", ![w].code = c]
      BY <2>1 DEF ReadLastCode
    <3>3. call'[w] = [call[w] EXCEPT !.pc = "insert", !.code = c]
      BY <3>2 DEF Inv, Typed
    <3>4. call'[w].code = c
      BY <1>2, <3>3 DEF CallFields
    <3> QED
      BY <3>1, <3>2, <3>4
  <2>2. CASE InsertSku(w) \/ WriteSku(w)
    <3>1. call'[w] = [call[w] EXCEPT !.pc = "range"]
      BY <2>2 DEF InsertSku, WriteSku, Inv, Typed
    <3> QED
      BY <1>2, <3>1 DEF CallFields
  <2>3. CASE ReadRange(w)
    <3>1. PICK r : call' = [call EXCEPT ![w].pc = "commit", ![w].range = r]
      BY <2>3 DEF ReadRange
    <3>2. call'[w] = [call[w] EXCEPT !.pc = "commit", !.range = r]
      BY <3>1 DEF Inv, Typed
    <3> QED
      BY <1>2, <3>2 DEF CallFields
  <2>4. CASE Commit(w) \/ Abort(w)
    <3>1. call'[w] = NoCall
      BY <2>4 DEF Commit, Abort, Inv, Typed
    <3> QED
      BY <3>1 DEF Free
  <2> QED
    BY <2>1, <2>2, <2>3, <2>4
<1>4. PICK k \in Skus : k = call[w].sku
  BY <1>2
<1>5. sku[k] # NoSku => DOMAIN sku[k] = RowFields /\ sku[k].code \in Nat
  BY DEF Inv, Typed, Table, IsRow, CodeInv, Exists
<1>6. sku'[k] # NoSku => sku'[k].code \in Nat
  <2>1. CASE UNCHANGED sku
    BY <1>5, <2>1
  <2>2. CASE InsertSku(w)
    <3>1. call[w].code \in Nat
      BY <1>2, <2>2 DEF InsertSku, CodeInv
    <3>2. sku'[k] = [product |-> call[w].product, code |-> call[w].code, combo |-> {},
                     price |-> call[w].price, deleted |-> FALSE]
      BY <1>4, <2>2 DEF InsertSku, Inv, Typed, Table
    <3> QED
      BY <3>1, <3>2
  <2>3. CASE WriteSku(w)
    <3>1. sku'[k] = [sku[k] EXCEPT !.price = call[w].price, !.combo = call[w].combo]
      BY <1>4, <2>3 DEF WriteSku, Inv, Typed, Table
    <3>2. sku[k] # NoSku
      BY <1>4, <2>3 DEF WriteSku, Exists
    <3> QED
      BY <1>5, <3>1, <3>2 DEF RowFields
  <2>4. CASE Commit(w)
    <3>1. PICK c : c = call[w] /\ c.op \in Ops /\ c.sku = k
      BY <1>2, <1>4
    <3>2. sku' = AppliedTo(sku, c)
      BY <2>4, <3>1, CommitWorks
    <3>3. c.op # "update" => sku[k] # NoSku
      BY <2>4, <3>1 DEF Commit, Standing, Exists
    <3>4. CASE c.op = "update"
      BY <1>5, <3>2, <3>4 DEF AppliedTo
    <3>5. CASE c.op = "forceDelete"
      BY <3>1, <3>2, <3>5 DEF AppliedTo, Inv, Typed, Table
    <3>6. CASE c.op = "create"
      <4>1. sku'[k] = [sku[k] EXCEPT !.combo = c.combo]
        BY <3>1, <3>2, <3>6 DEF AppliedTo, Inv, Typed, Table
      <4> QED
        BY <1>5, <3>3, <3>6, <4>1 DEF RowFields
    <3>7. CASE c.op \in {"softDelete", "restore"}
      <4>1. PICK d \in BOOLEAN : sku' = [sku EXCEPT ![k].deleted = d]
        BY <3>1, <3>2, <3>7 DEF AppliedTo
      <4>2. sku'[k] = [sku[k] EXCEPT !.deleted = d]
        BY <4>1 DEF Inv, Typed, Table
      <4> QED
        BY <1>5, <3>3, <3>7, <4>2 DEF RowFields
    <3> QED
      BY <3>1, <3>4, <3>5, <3>6, <3>7 DEF Ops
  <2> QED
    BY <2>1, <2>2, <2>3, <2>4 DEF ReadLastCode, ReadRange, Abort
<1> QED
  BY <1>1, <1>3, <1>4, <1>6 DEF CodeInv, Works, Exists, Free

LEMMA AlwaysCodes == Spec => []CodeInv
<1>1. Init => CodeInv
  BY DEF Init, CodeInv, Exists, Free
<1>2. ASSUME Inv, CodeInv, [Next]_vars
      PROVE  CodeInv'
  <2>1. ASSUME NEW w \in Workers, NEW k \in Skus, NEW combo \in Combos,
               NEW price \in Prices, NEW p \in Products,
               Create(w, p, k, combo, price) \/ Update(w, k, combo, price)
        PROVE  CodeInv'
    BY <1>2, <2>1, BeginCodes DEF Create, Update
  <2>2. ASSUME NEW w \in Workers, NEW k \in Skus,
               SoftDelete(w, k) \/ Restore(w, k) \/ ForceDelete(w, k)
        PROVE  CodeInv'
    BY <1>2, <2>2, BeginCodes DEF SoftDelete, Restore, ForceDelete
  <2>3. CASE UNCHANGED vars
    BY <1>2, <2>3 DEF vars, CodeInv, Exists, Free
  <2>4. ASSUME NEW w \in Workers, NEW k \in Skus, NEW combo \in Combos,
               NEW price \in Prices, Update(w, k, combo, price)
        PROVE  CodeInv'
    BY <1>2, <2>4, BeginCodes DEF Update
  <2> QED
    BY <1>2, <2>1, <2>2, <2>3, <2>4, WorkingCodes DEF Next
<1> QED
  BY <1>1, <1>2, AlwaysInv, PTL DEF Spec

-----------------------------------------------------------------------------
(* The theorems *)

\* A handler that had its product to itself commits the price range of the
\* rows it leaves: nobody has touched them since it read them.
THEOREM RangeIsHealed == Spec => RangeHeals
<1>1. ASSUME Inv, NEW w \in Workers, Commit(w), call[w].alone
      PROVE  range'[call[w].product] = RangeOf(sku', call[w].product)
  <2>1. ~Free(w) /\ call[w].pc = "commit" /\ sku' = Applied(w)
    BY <1>1, BusyPc DEF Commit
  <2>2. call[w].range = RangeOf(Applied(w), call[w].product)
    BY <1>1, <2>1 DEF Inv, RangeInv
  <2>3. range'[call[w].product] = call[w].range
    BY <1>1, CommitWorks
  <2> QED
    BY <2>1, <2>2, <2>3
<1>2. Inv /\ [Next]_vars =>
          [\A w \in Workers :
              Commit(w) /\ call[w].alone =>
                  range'[call[w].product] = RangeOf(sku', call[w].product)]_vars
  BY <1>1
<1> QED
  BY <1>2, AlwaysInv, PTL DEF Spec, RangeHeals

\* A handler that had its product to itself gives its SKU attributes that no
\* other SKU of the product has, deleted ones included.
THEOREM NoTwinsAlone == Spec => NoTwins
<1>1. ASSUME Inv, NEW w \in Workers, WriteSku(w) \/ Commit(w),
             call[w].op \in {"create", "update"}, call[w].alone,
             NEW j \in Skus \ {call[w].sku}
      PROVE  sku'[j] = NoSku \/ sku'[j].product # call[w].product
                             \/ sku'[j].combo # call[w].combo
  <2>1. Works(w)
    BY <1>1, WriteSkuWorks, CommitWorks
  <2>2. sku'[j] = sku[j] /\ ~Free(w)
    BY <2>1 DEF Works
  <2>3. Untaken(sku, call[w])
    BY <1>1, <2>2 DEF Inv, TwinInv
  <2> QED
    BY <2>2, <2>3 DEF Untaken
<1>2. Inv /\ [Next]_vars =>
          [\A w \in Workers :
              (WriteSku(w) \/ Commit(w)) /\ call[w].op \in {"create", "update"}
                                        /\ call[w].alone
                  => \A j \in Skus \ {call[w].sku} :
                        sku'[j] = NoSku \/ sku'[j].product # call[w].product
                                        \/ sku'[j].combo # call[w].combo]_vars
  BY <1>1
<1> QED
  BY <1>2, AlwaysInv, PTL DEF Spec, NoTwins

\* The number after the code that comes last is not in use: if it were, the
\* longer or equally long code of that number would come after, unless the
\* number is the first with one digit more.
THEOREM NextCodeIsFree == Spec => []NextCodeFree
<1>1. ASSUME CodeInv, GeneratedCode \in UsedCodes
      PROVE  Digits(GeneratedCode) > Digits(GeneratedCode - 1)
  <2>1. PICK m \in Nat : Last(UsedCodes, m) /\ GeneratedCode = m + 1
    BY <1>1, GeneratedIs
  <2>2. SortsAfter(m, m + 1)
    BY <1>1, <2>1 DEF Last
  <2>3. PICK d \in Nat, e \in Nat : d = Digits(m) /\ e = Digits(m + 1) /\ d <= e
    BY DigitsAre, DigitsGrow
  <2>4. ASSUME d = e PROVE FALSE
    <3>1. Filled(m, d) = m /\ Filled(m + 1, d) = m + 1
      <4>1. d - d = 0
        OBVIOUS
      <4> QED
        BY <2>3, <2>4, <4>1, PowerIs DEF Filled
    <3>2. /\ m + 1 \in Nat /\ d >= Digits(m) /\ d >= Digits(m + 1)
          /\ ~(Digits(m) > Digits(m + 1))
      BY <2>3, <2>4
    <3>3. Filled(m, d) > Filled(m + 1, d) \/ Filled(m, d) = Filled(m + 1, d)
      BY <2>2, <3>2, SortsAfterFilled
    <3> QED
      BY <3>1, <3>3
  <2>5. GeneratedCode - 1 = m
    BY <2>1
  <2> QED
    BY <2>1, <2>3, <2>4, <2>5
<1>2. CodeInv => NextCodeFree
  BY <1>1 DEF NextCodeFree
<1> QED
  BY <1>2, AlwaysCodes, PTL
=============================================================================
