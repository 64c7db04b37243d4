------------------------------ MODULE Catalog ------------------------------
(***************************************************************************)
(* The SKUs of a product, their codes, and the price range each product    *)
(* keeps of them: ProductSkuService.  The range is a cache of an aggregate *)
(* over ProductSKU that every handler recomputes at its end.               *)
(*                                                                         *)
(* The handlers open a transaction, but create and update read and write   *)
(* ProductSKU on other connections: those writes are committed at once and *)
(* stay when the transaction rolls back.  What they do on the transaction  *)
(* itself becomes visible when it commits.                                 *)
(*                                                                         *)
(* A request names the product the SKU belongs to, and a SKU that is       *)
(* removed has no orders, logs or stock: nothing else refers to it.        *)
(***************************************************************************)
EXTENDS Integers, FiniteSetsExt

CONSTANTS Products,   \* Product.id
          Skus,       \* ids of the SKUs that can be created
          Combos,     \* sets of attribute values a SKU can be asked to have
          Prices,     \* selling prices
          Workers,    \* handlers that can be in progress at once
          SeedCodes,  \* numbers of the SKU codes that are there from the start
          Base,       \* a code is 'GDN' and a number in Base (10 in the code)
          Width,      \* padded to Width digits (4 in the code)
          MaxCode     \* bound: the largest code number

ASSUME CatalogAssumption ==
    /\ Prices \subseteq Nat
    /\ SeedCodes \subseteq Nat \ {0} /\ IsFiniteSet(SeedCodes)
    /\ IsFiniteSet(Skus)
    /\ Base \in Nat \ {0, 1}
    /\ Width \in Nat \ {0}
    /\ MaxCode \in Nat

VARIABLES sku,   \* the committed ProductSKU rows
          range, \* priceMin and priceMax of each product
          call   \* the transaction each worker has open

vars == <<sku, range, call>>

NoSku == [code |-> 0]
NoRange == [min |-> 0, max |-> 0, set |-> FALSE]
NoCall == [op |-> "idle", pc |-> "idle"]

Exists(k) == sku[k] # NoSku
Free(w) == call[w] = NoCall

Init ==
    /\ sku = [k \in Skus |-> NoSku]
    /\ range = [p \in Products |-> NoRange]
    /\ call = [w \in Workers |-> NoCall]

-----------------------------------------------------------------------------
(* Codes: findFirst orders the codes as strings.                           *)

UsedCodes == SeedCodes \cup {sku[k].code : k \in {j \in Skus : Exists(j)}}

\* How many numbers have at most d digits.
Power[d \in Nat] == IF d = 0 THEN 1 ELSE Base * Power[d - 1]

\* Digits of the number n in its code.
Digits(n) == Min({d \in Width .. Width + n : n < Power[d]})

\* The code of m comes after the code of n, as a string.
SortsAfter(m, n) ==
    LET d == Max({Digits(m), Digits(n)})
        mm == m * Power[d - Digits(m)]
        nn == n * Power[d - Digits(n)] IN
    mm > nn \/ (mm = nn /\ Digits(m) > Digits(n))

\* Mutant: the new number is the number of codes, plus one.
CountedCode == Cardinality(UsedCodes) + 1

\* generateSKU: one more than the code that sorts last
GeneratedCode ==
    IF UsedCodes = {} THEN 1
    ELSE 1 + CHOOSE m \in UsedCodes :
                 \A n \in UsedCodes \ {m} : SortsAfter(m, n)

-----------------------------------------------------------------------------
(* recalcProductPriceRange                                                 *)

\* The lowest and the highest price of the SKUs that are not deleted.
RangeOf(table, p) ==
    LET live == {table[k].price :
                     k \in {j \in Skus : /\ table[j] # NoSku
                                         /\ table[j].product = p
                                         /\ ~table[j].deleted}} IN
    IF live = {} THEN NoRange
    ELSE [min |-> Min(live), max |-> Max(live), set |-> TRUE]

\* The rows as w's own transaction leaves them: what it wrote on the
\* transaction itself, on top of what is committed.
Applied(w) ==
    LET k == call[w].sku IN
    CASE call[w].op = "create" -> [sku EXCEPT ![k].combo = call[w].combo]
      [] call[w].op = "update" -> sku
      [] call[w].op = "softDelete" -> [sku EXCEPT ![k].deleted = TRUE]
      [] call[w].op = "restore" -> [sku EXCEPT ![k].deleted = FALSE]
      [] call[w].op = "forceDelete" -> [sku EXCEPT ![k] = NoSku]

\* update has nothing left to write on its SKU; the others have, and fail if it
\* is gone.
Standing(w) == call[w].op = "update" \/ Exists(call[w].sku)

\* Mutant: the aggregate is read on another connection.
ReadRangeOutside(w) ==
    /\ call[w].pc = "range"
    /\ Standing(w)
    /\ call' = [call EXCEPT ![w].pc = "commit",
                            ![w].range = RangeOf(sku, call[w].product)]
    /\ UNCHANGED <<sku, range>>

\* The aggregate is read first and written by a second statement.
ReadRange(w) ==
    /\ call[w].pc = "range"
    /\ Standing(w)
    /\ call' = [call EXCEPT ![w].pc = "commit",
                            ![w].range = RangeOf(Applied(w), call[w].product)]
    /\ UNCHANGED <<sku, range>>

Commit(w) ==
    /\ call[w].pc = "commit"
    /\ Standing(w)
    /\ sku' = Applied(w)
    /\ range' = [range EXCEPT ![call[w].product] = call[w].range]
    /\ call' = [call EXCEPT ![w] = NoCall]

\* The transaction fails or times out.  A handler that is refused before it
\* has written anything ends here too.
Abort(w) ==
    /\ ~Free(w)
    /\ call' = [call EXCEPT ![w] = NoCall]
    /\ UNCHANGED <<sku, range>>

-----------------------------------------------------------------------------
(* The handlers                                                            *)

\* alone is no part of the code: it records that no other handler has been
\* in progress on the product since this one began.
Begin(w, op, p, k, combo, price, pc) ==
    LET others == {v \in Workers : ~Free(v) /\ call[v].product = p} IN
    /\ Free(w)
    /\ call' = [v \in Workers |->
           IF v = w THEN [op |-> op, product |-> p, sku |-> k, combo |-> combo,
                          price |-> price, code |-> 0, range |-> NoRange,
                          pc |-> pc, alone |-> others = {}]
           ELSE IF v \in others THEN [call[v] EXCEPT !.alone = FALSE]
           ELSE call[v]]
    /\ UNCHANGED <<sku, range>>

\* Mutant: only SKUs that are not deleted are compared.
TakenByLive(p, combo, k) ==
    \E j \in Skus \ {k} : /\ Exists(j) /\ sku[j].product = p
                          /\ sku[j].combo = combo /\ ~sku[j].deleted

\* Another SKU of the product has the same attributes; deleted ones count.
Taken(p, combo, k) ==
    \E j \in Skus \ {k} : Exists(j) /\ sku[j].product = p /\ sku[j].combo = combo

\* Ids are never given twice.  Here one comes back when no row has it and no
\* request in progress names it any more.
Unused(k) == ~Exists(k) /\ \A v \in Workers : ~Free(v) => call[v].sku # k

\* create: no SKU of the product has the attributes
Create(w, p, k, combo, price) ==
    /\ Unused(k)
    /\ ~Taken(p, combo, k)
    /\ Begin(w, "create", p, k, combo, price, "code")

ReadLastCode(w) ==
    /\ call[w].pc = "code"
    /\ call' = [call EXCEPT ![w].pc = "insert", ![w].code = GeneratedCode]
    /\ UNCHANGED <<sku, range>>

\* The row is committed without its attributes; the code is unique.
InsertSku(w) ==
    /\ call[w].pc = "insert"
    /\ call[w].code \notin UsedCodes
    /\ call[w].code <= MaxCode
    /\ sku' = [sku EXCEPT ![call[w].sku] =
           [product |-> call[w].product, code |-> call[w].code, combo |-> {},
            price |-> call[w].price, deleted |-> FALSE]]
    /\ call' = [call EXCEPT ![w].pc = "range"]
    /\ UNCHANGED range

\* update: no other SKU of the product has the attributes
Update(w, k, combo, price) ==
    /\ Exists(k)
    /\ ~Taken(sku[k].product, combo, k)
    /\ Begin(w, "update", sku[k].product, k, combo, price, "write")

\* Price and attributes are committed at once.
WriteSku(w) ==
    /\ call[w].pc = "write"
    /\ Exists(call[w].sku)
    /\ sku' = [sku EXCEPT ![call[w].sku].price = call[w].price,
                          ![call[w].sku].combo = call[w].combo]
    /\ call' = [call EXCEPT ![w].pc = "range"]
    /\ UNCHANGED range

SoftDelete(w, k) ==
    /\ Exists(k) /\ ~sku[k].deleted
    /\ Begin(w, "softDelete", sku[k].product, k, {}, 0, "range")

Restore(w, k) ==
    /\ Exists(k) /\ sku[k].deleted
    /\ Begin(w, "restore", sku[k].product, k, {}, 0, "range")

ForceDelete(w, k) ==
    /\ Exists(k)
    /\ Begin(w, "forceDelete", sku[k].product, k, {}, 0, "range")

-----------------------------------------------------------------------------
Next ==
    \E w \in Workers :
        \/ \E p \in Products, k \in Skus, combo \in Combos, price \in Prices :
              Create(w, p, k, combo, price)
        \/ \E k \in Skus, combo \in Combos, price \in Prices :
              Update(w, k, combo, price)
        \/ \E k \in Skus : SoftDelete(w, k) \/ Restore(w, k) \/ ForceDelete(w, k)
        \/ ReadLastCode(w) \/ InsertSku(w) \/ WriteSku(w)
        \/ ReadRange(w) \/ Commit(w) \/ Abort(w)

Spec == Init /\ [][Next]_vars

-----------------------------------------------------------------------------
(* Properties *)

\* Whatever failures and races left behind, the next handler that has its
\* product to itself and commits leaves the product with the price range of
\* its SKUs.
RangeHeals ==
    [][\A w \in Workers :
          Commit(w) /\ call[w].alone =>
              range'[call[w].product] = RangeOf(sku', call[w].product)]_vars

\* A handler that has its product to itself gives no SKU the attributes of
\* another one, not of a deleted one either: restoring makes no twins.
NoTwins ==
    [][\A w \in Workers :
          (WriteSku(w) \/ Commit(w)) /\ call[w].op \in {"create", "update"}
                                    /\ call[w].alone
              => \A j \in Skus \ {call[w].sku} :
                    sku'[j] = NoSku \/ sku'[j].product # call[w].product
                                    \/ sku'[j].combo # call[w].combo]_vars

\* The next code is free, whatever was created, removed or left half done,
\* unless it is the first number with one digit more.
NextCodeFree ==
    GeneratedCode \in UsedCodes => Digits(GeneratedCode) > Digits(GeneratedCode - 1)
=============================================================================
