---------------------------- MODULE PagingProofs ----------------------------
(***************************************************************************)
(* Theorems about Paging: the walk goes forward and misses nothing, for    *)
(* any products, page size and history of changes.  And about Lists: how   *)
(* much a walk by page number shows twice or misses, for any table, page   *)
(* size and history of changes, and that a row deleted for good stays      *)
(* gone.                                                                   *)
(***************************************************************************)
EXTENDS Paging, Lists,
        FiniteSetTheorems, SequenceTheorems, WellFoundedInduction, TLAPS

-----------------------------------------------------------------------------
(* Finite sets in order *)

\* A set of subsets of a finite set has a smallest member: what does not hold
\* of every subset has a smallest counterexample.
LEMMA SmallestSubset ==
  ASSUME NEW S, IsFiniteSet(S), NEW C \in SUBSET (SUBSET S), C # {}
  PROVE  \E T \in C : \A U \in C : U \subseteq T => U = T
<1>1. IsWellFoundedOn(StrictSubsetOrdering(S), FiniteSubsetsOf(S))
  BY FS_StrictSubsetOrderingWellFounded
<1>2. IsWellFoundedOn(StrictSubsetOrdering(S), SUBSET S)
  BY <1>1, FS_FiniteSubsetsOfFinite
<1>3. PICK T \in C : \A U \in C : ~ (<<U, T>> \in StrictSubsetOrdering(S))
  BY <1>2, WFMin
<1> QED
  BY <1>3 DEF StrictSubsetOrdering

Transitive(R, S) ==
    \A x, y, z \in S : <<x, y>> \in R /\ <<y, z>> \in R => <<x, z>> \in R
Total(R, S) == \A x, y \in S : x # y => <<x, y>> \in R \/ <<y, x>> \in R
Irreflexive(R, S) == \A x \in S : <<x, x>> \notin R

\* A finite set in total order has a last member.
LEMMA LastMember ==
  ASSUME NEW S, IsFiniteSet(S), S # {}, NEW R, Transitive(R, S), Total(R, S)
  PROVE  \E m \in S : \A x \in S \ {m} : <<x, m>> \in R
<1> DEFINE HasLast(U) == \E m \in U : \A x \in U \ {m} : <<x, m>> \in R
           D == {U \in SUBSET S : U # {} /\ ~ HasLast(U)}
<1>1. D = {}
  <2> SUFFICES ASSUME D # {} PROVE FALSE
    OBVIOUS
  <2>1. PICK U \in D : \A V \in D : V \subseteq U => V = U
    <3>1. D \in SUBSET (SUBSET S)
      OBVIOUS
    <3> HIDE DEF D
    <3> QED
      BY <3>1, SmallestSubset
  <2>2. U \subseteq S /\ ~ HasLast(U)
    OBVIOUS
  <2>3. PICK x \in U : TRUE
    OBVIOUS
  <2>4. U # {x}
    BY <2>2
  <2>5. HasLast(U \ {x})
    <3>1. U \ {x} \subseteq U /\ U \ {x} # U /\ U \ {x} # {} /\ U \ {x} \in SUBSET S
      BY <2>2, <2>3, <2>4
    <3>2. U \ {x} \notin D
      <4> HIDE DEF D
      <4> QED
        BY <2>1, <3>1
    <3> HIDE DEF HasLast
    <3> QED
      BY <3>1, <3>2
  <2>6. PICK m \in U \ {x} : \A y \in (U \ {x}) \ {m} : <<y, m>> \in R
    BY <2>5
  <2>7. CASE <<x, m>> \in R
    <3>1. \A y \in U \ {m} : <<y, m>> \in R
      BY <2>6, <2>7
    <3> QED
      BY <2>2, <2>6, <3>1
  <2>8. CASE <<m, x>> \in R
    <3>1. \A y \in U \ {x} : <<y, x>> \in R
      BY <2>2, <2>6, <2>8 DEF Transitive
    <3> QED
      BY <2>2, <2>3, <3>1
  <2> QED
    BY <2>2, <2>6, <2>7, <2>8 DEF Total
<1> QED
  BY <1>1

Sorted(list, R) == \A i, j \in DOMAIN list : i < j => <<list[i], list[j]>> \in R

\* A finite set in total order can be listed in this order.
LEMMA SortedExists ==
  ASSUME NEW S, IsFiniteSet(S), NEW R, Transitive(R, S), Total(R, S)
  PROVE  \E list \in [1 .. Cardinality(S) -> S] : Sorted(list, R)
<1> DEFINE HasList(U) == \E list \in [1 .. Cardinality(U) -> U] : Sorted(list, R)
           D == {U \in SUBSET S : ~ HasList(U)}
<1>1. D = {}
  <2> SUFFICES ASSUME D # {} PROVE FALSE
    OBVIOUS
  <2>1. PICK U \in D : \A V \in D : V \subseteq U => V = U
    <3>1. D \in SUBSET (SUBSET S)
      OBVIOUS
    <3> HIDE DEF D
    <3> QED
      BY <3>1, SmallestSubset
  <2>2. U \subseteq S /\ ~ HasList(U)
    OBVIOUS
  <2>3. IsFiniteSet(U)
    BY <2>2, FS_Subset
  <2>4. U # {}
    <3>1. Cardinality({}) = 0 /\ 1 .. 0 = {}
      BY FS_EmptySet
    <3>2. HasList({})
      <4> DEFINE none == [i \in 1 .. 0 |-> 0]
      <4>1. none \in [1 .. 0 -> {}] /\ DOMAIN none = {}
        BY <3>1
      <4> HIDE DEF none
      <4> QED
        BY <3>1, <4>1 DEF Sorted
    <3> HIDE DEF HasList
    <3> QED
      BY <2>2, <3>2
  <2>5. Transitive(R, U) /\ Total(R, U)
    BY <2>2 DEF Transitive, Total
  <2>6. PICK m \in U : \A x \in U \ {m} : <<x, m>> \in R
    BY <2>3, <2>4, <2>5, LastMember
  <2>7. HasList(U \ {m})
    <3>1. U \ {m} \subseteq U /\ U \ {m} # U /\ U \ {m} \in SUBSET S
      BY <2>2, <2>6
    <3>2. U \ {m} \notin D
      <4> HIDE DEF D
      <4> QED
        BY <2>1, <3>1
    <3> HIDE DEF HasList
    <3> QED
      BY <3>1, <3>2
  <2>8. PICK n \in Nat : n = Cardinality(U) /\ n - 1 = Cardinality(U \ {m}) /\ n - 1 \in Nat
    <3>1. Cardinality(U \ {m}) \in Nat
      BY <2>3, FS_RemoveElement, FS_CardinalityType
    <3>2. Cardinality(U) \in Nat
      BY <2>3, FS_CardinalityType
    <3>3. Cardinality(U \ {m}) = Cardinality(U) - 1
      BY <2>3, <2>6, FS_RemoveElement
    <3> QED
      BY <3>1, <3>2, <3>3
  <2>9. PICK rest \in [1 .. n - 1 -> U \ {m}] : Sorted(rest, R)
    BY <2>7, <2>8
  <2> DEFINE list == [i \in 1 .. n |-> IF i = n THEN m ELSE rest[i]]
  <2>10. list \in [1 .. n -> U]
    <3>1. \A i \in 1 .. n : i # n => i \in 1 .. n - 1
      BY <2>8
    <3> QED
      BY <2>6, <2>9, <3>1
  <2>11. Sorted(list, R)
    <3> SUFFICES ASSUME NEW i \in 1 .. n, NEW j \in 1 .. n, i < j
                 PROVE  <<list[i], list[j]>> \in R
      BY DEF Sorted
    <3>1. i \in 1 .. n - 1 /\ list[i] = rest[i] /\ rest[i] \in U \ {m}
      BY <2>8, <2>9
    <3>2. CASE j = n
      BY <2>6, <3>1, <3>2
    <3>3. CASE j # n
      <4>1. j \in 1 .. n - 1 /\ list[j] = rest[j]
        BY <2>8, <3>3
      <4> QED
        BY <2>9, <3>1, <4>1 DEF Sorted
    <3> QED
      BY <3>2, <3>3
  <2> HIDE DEF list
  <2>12. HasList(U)
    BY <2>8, <2>10, <2>11
  <2> HIDE DEF HasList
  <2> QED
    BY <2>2, <2>12
<1> QED
  BY <1>1

\* Such a list has every member.
LEMMA SortedIsOnto ==
  ASSUME NEW S, IsFiniteSet(S), NEW R, Irreflexive(R, S),
         NEW list \in [1 .. Cardinality(S) -> S], Sorted(list, R)
  PROVE  \A x \in S : \E i \in 1 .. Cardinality(S) : list[i] = x
<1>1. Cardinality(S) \in Nat
  BY FS_CardinalityType
<1>2. PICK n \in Nat : n = Cardinality(S)
  BY <1>1
<1>3. list \in Injection(1 .. n, S)
  <2> SUFFICES ASSUME NEW i \in 1 .. n, NEW j \in 1 .. n, list[i] = list[j], i # j
               PROVE  FALSE
    BY <1>2 DEF Injection, IsInjective
  <2>1. i < j \/ j < i
    OBVIOUS
  <2>2. <<list[i], list[j]>> \in R \/ <<list[j], list[i]>> \in R
    BY <1>2, <2>1 DEF Sorted
  <2> QED
    BY <1>2, <2>2 DEF Irreflexive
<1>4. Cardinality(1 .. n) = n
  BY FS_Interval
<1>5. list \in Surjection(1 .. n, S)
  BY <1>2, <1>3, <1>4, FS_Injection
<1> QED
  BY <1>2, <1>5 DEF Surjection

-----------------------------------------------------------------------------
(* The list *)

Rows == [id: Ids, created: Nat, price: Nat]

ShopFits ==
    /\ shop \in [Ids -> [live: BOOLEAN, created: Nat, price: Nat]]
    /\ sort \in Sorts \cup {"none"}

\* The order of the list, as a relation.
Order == {p \in Matching \X Matching : Before(p[1], p[2])}

LEMMA MatchingFits ==
    ASSUME ShopFits
    PROVE  /\ Matching \subseteq Rows /\ IsFiniteSet(Matching)
           /\ \A r, q \in Matching : r.id = q.id => r = q
<1>1. \A p \in Ids : Row(p) \in Rows
  BY DEF ShopFits, Row, Rows
<1>2. Matching \subseteq Rows
  BY <1>1 DEF Matching, Listable
<1>3. \A r \in Matching : r = Row(r.id)
  BY DEF Matching, Row
<1>4. IsFiniteSet(Matching)
  <2> DEFINE f == [r \in Matching |-> r.id]
  <2>1. f \in Injection(Matching, Ids)
    <3>1. f \in [Matching -> Ids]
      BY <1>2 DEF Rows
    <3>2. \A r, q \in Matching : f[r] = f[q] => r = q
      BY <1>3
    <3> QED
      BY <3>1, <3>2 DEF Injection, IsInjective
  <2> HIDE DEF f
  <2> QED
    BY <2>1, FS_Injection, PagingAssumption
<1> QED
  BY <1>2, <1>3, <1>4

LEMMA RowFits ==
    ASSUME NEW r \in Rows
    PROVE  r.id \in Nat /\ r.created \in Nat /\ r.price \in Nat
BY PagingAssumption DEF Rows

\* The rows of a list have different ids, and the sort orders them all.
LEMMA OrderIsTotal ==
    ASSUME ShopFits, sort # "none"
    PROVE  Transitive(Order, Matching) /\ Total(Order, Matching) /\ Irreflexive(Order, Matching)
<1>1. \A r \in Matching : r.id \in Nat /\ r.created \in Nat /\ r.price \in Nat
  BY MatchingFits, RowFits
<1>2. \A r, q \in Matching : <<r, q>> \in Order <=> Before(r, q)
  BY DEF Order
<1>3. sort \in Sorts
  BY DEF ShopFits
<1>4. ASSUME NEW x \in Matching, NEW y \in Matching, NEW z \in Matching,
             Before(x, y), Before(y, z)
      PROVE  Before(x, z)
  BY <1>1, <1>4 DEF Before, Cheaper, Known, NoPrice
<1>5. ASSUME NEW x \in Matching, NEW y \in Matching, x # y
      PROVE  Before(x, y) \/ Before(y, x)
  <2>1. x.id # y.id
    BY <1>5, MatchingFits
  <2> QED
    BY <1>1, <1>3, <2>1 DEF Before, Cheaper, Known, NoPrice, Sorts
<1>6. ASSUME NEW x \in Matching, Before(x, x)
      PROVE  FALSE
  BY <1>1, <1>6 DEF Before, Cheaper, Known, NoPrice
<1> QED
  BY <1>2, <1>4, <1>5, <1>6 DEF Transitive, Total, Irreflexive

\* What a query finds: the matching rows, all of them, in order.
LEMMA FoundFits ==
    ASSUME ShopFits, sort # "none"
    PROVE  /\ Found \in Seq(Matching) /\ Len(Found) \in Nat
           /\ DOMAIN Found = 1 .. Len(Found)
           /\ \A i, j \in 1 .. Len(Found) : i < j => Before(Found[i], Found[j])
           /\ \A r \in Matching : \E i \in 1 .. Len(Found) : Found[i] = r
<1> DEFINE N == Cardinality(Matching)
           InOrder(list) == \A i, j \in DOMAIN list : i < j => Before(list[i], list[j])
<1>1. IsFiniteSet(Matching) /\ N \in Nat
  BY MatchingFits, FS_CardinalityType
<1>2. \A list \in [1 .. N -> Matching] : Sorted(list, Order) <=> InOrder(list)
  BY DEF Sorted, Order
<1>3. \E list \in [1 .. N -> Matching] : InOrder(list)
  <2> HIDE DEF InOrder, N
  <2>1. \E list \in [1 .. N -> Matching] : Sorted(list, Order)
    BY <1>1, OrderIsTotal, SortedExists DEF N
  <2> QED
    BY <1>2, <2>1
<1>4. Found \in [1 .. N -> Matching] /\ InOrder(Found)
  BY <1>3 DEF Found
<1>5. \A r \in Matching : \E i \in 1 .. N : Found[i] = r
  <2> HIDE DEF InOrder
  <2>1. Sorted(Found, Order)
    BY <1>2, <1>4
  <2> QED
    BY <1>1, <1>4, <2>1, OrderIsTotal, SortedIsOnto
<1>6. Found \in Seq(Matching) /\ Len(Found) = N /\ DOMAIN Found = 1 .. N
  <2> HIDE DEF N
  <2> QED
    BY <1>1, <1>4
<1> QED
  BY <1>1, <1>4, <1>5, <1>6

Page == IF Len(Found) > Limit THEN SubSeq(Found, 1, Limit) ELSE Found

\* A page: the first of the rows found.
LEMMA PageFits ==
    ASSUME ShopFits, sort # "none"
    PROVE  /\ Page \in Seq(Matching) /\ Len(Page) \in Nat
           /\ Len(Page) = IF Len(Found) > Limit THEN Limit ELSE Len(Found)
           /\ \A i \in 1 .. Len(Page) : i \in 1 .. Len(Found) /\ Page[i] = Found[i]
<1>1. Found \in Seq(Matching) /\ Len(Found) \in Nat /\ Limit \in Nat \ {0}
  BY FoundFits, PagingAssumption
<1>2. CASE Len(Found) > Limit
  <2>1. PICK s \in Seq(Matching) : s = Found
    BY <1>1
  <2>2. 1 \in 1 .. Len(s) + 1 /\ Limit \in 0 .. Len(s)
    BY <1>1, <1>2, <2>1
  <2>3. /\ SubSeq(s, 1, Limit) \in Seq(Matching) /\ Len(SubSeq(s, 1, Limit)) = Limit
        /\ \A i \in 1 .. Limit : SubSeq(s, 1, Limit)[i] = s[i]
    BY <1>1, <1>2, <2>1
  <2> QED
    BY <1>1, <1>2, <2>1, <2>2, <2>3 DEF Page
<1>3. CASE ~ (Len(Found) > Limit)
  BY <1>1, <1>3 DEF Page
<1> QED
  BY <1>2, <1>3

-----------------------------------------------------------------------------
(* The invariant *)

\* The cursor is at the last row of a full page.
AtRow ==
    /\ sort # "none"
    /\ Len(seen) \in Nat \ {0}
    /\ cursor = CursorOf(seen[Len(seen)])
    /\ \E k \in Nat : Len(seen) = k * Limit

CursorFits ==
    /\ seen \in Seq(Rows)
    /\ sort = "none" => cursor = Start /\ stayed = {}
    /\ cursor = Start => seen = <<>>
    /\ cursor = Start \/ cursor = End \/ AtRow

ByPrice(p) == sort = "cheapest" /\ Known(shop[p].price)

Owed ==
    /\ stayed \subseteq Listable
    /\ \A p \in stayed :
          sort = "newest" \/ ByPrice(p) =>
              \/ \E i \in DOMAIN seen : seen[i].id = p
              \/ cursor = Start
              \/ AtRow /\ Seek(Row(p))

Inv == ShopFits /\ CursorFits /\ Owed /\ WalkAdvances

LEMMA CursorsDiffer ==
    /\ Start # End
    /\ \A r : CursorOf(r) # Start /\ CursorOf(r) # End
BY DEF Start, End, CursorOf

LEMMA InitInv == Init => Inv
<1> SUFFICES ASSUME Init
             PROVE  Inv
  OBVIOUS
<1>1. ShopFits
  BY DEF Init, ShopFits, Absent, NoPrice
<1>2. CursorFits
  BY DEF Init, CursorFits
<1>3. Owed /\ WalkAdvances
  BY DEF Init, Owed, WalkAdvances
<1> QED
  BY <1>1, <1>2, <1>3 DEF Inv

\* The client's choice of a sort begins the walk.
LEMMA ChooseKeeps ==
    ASSUME Inv, NEW s \in Sorts, Choose(s)
    PROVE  Inv'
<1>1. /\ sort' = s /\ cursor' = Start /\ seen' = <<>> /\ shop' = shop /\ stayed' = Listable
  BY DEF Choose, Inv, CursorFits
<1>2. s # "none" /\ Start' = Start
  BY DEF Sorts, Start
<1>3. ShopFits' /\ CursorFits'
  BY <1>1, <1>2 DEF Inv, ShopFits, CursorFits
<1>4. Owed'
  BY <1>1, <1>2 DEF Owed, Listable
<1>5. WalkAdvances'
  BY <1>1 DEF WalkAdvances
<1> QED
  BY <1>3, <1>4, <1>5 DEF Inv

-----------------------------------------------------------------------------
(* Other requests: the row of a product changes, and nothing of the walk. *)

LEMMA ChangeKeeps ==
    ASSUME Inv, NEW p \in Ids, NEW item \in [live: BOOLEAN, created: Nat, price: Nat],
           Change(p, item)
    PROVE  Inv'
<1>1. /\ shop' = [shop EXCEPT ![p] = item] /\ stayed' = stayed \ {p}
      /\ sort' = sort /\ cursor' = cursor /\ seen' = seen
  BY DEF Change
<1>2. ShopFits' /\ \A q \in Ids \ {p} : shop'[q] = shop[q]
  BY <1>1 DEF Inv, ShopFits
<1>3. AtRow' = AtRow
  BY <1>1 DEF AtRow, CursorOf
<1>4. CursorFits'
  BY <1>1, <1>3 DEF Inv, CursorFits, Start, End
<1>5. ASSUME NEW q \in stayed'
      PROVE  /\ q \in Listable /\ q \in Listable'
             /\ ByPrice(q)' = ByPrice(q) /\ Row(q)' = Row(q)
  BY <1>1, <1>2 DEF Inv, Owed, Listable, ByPrice, Known, NoPrice, Row
<1>6. Owed'
  <2> SUFFICES ASSUME NEW q \in stayed', (sort = "newest" \/ ByPrice(q))'
               PROVE  (\/ \E i \in DOMAIN seen : seen[i].id = q
                       \/ cursor = Start
                       \/ AtRow /\ Seek(Row(q)))'
    BY <1>5 DEF Owed
  <2>1. \/ \E i \in DOMAIN seen : seen[i].id = q
        \/ cursor = Start
        \/ AtRow /\ Seek(Row(q))
    BY <1>1, <1>5 DEF Inv, Owed
  <2>2. Seek(Row(q))' = Seek(Row(q))
    <3>1. PICK r : r = Row(q)
      OBVIOUS
    <3>2. Row(q)' = r
      BY <1>5, <3>1
    <3> QED
      BY <1>1, <3>1, <3>2 DEF Seek, BeyondKey, AtKey, Known, NoPrice
  <2> QED
    BY <1>1, <1>3, <2>1, <2>2 DEF Start
<1>7. WalkAdvances'
  BY <1>1 DEF Inv, WalkAdvances, PagesEndPriced, Known, NoPrice, Precedes
<1> QED
  BY <1>2, <1>4, <1>6, <1>7 DEF Inv

LEMMA OthersKeep ==
    ASSUME Inv, NEW p \in Ids,
           \/ \E time \in Times : Create(p, time)
           \/ SoftDelete(p)
           \/ Restore(p)
           \/ \E price \in Prices \cup {NoPrice} : Reprice(p, price)
    PROVE  Inv'
<1> DEFINE R == [live: BOOLEAN, created: Nat, price: Nat]
<1>1. shop[p] \in R
  BY DEF Inv, ShopFits
<1>2. ASSUME NEW time \in Times, Create(p, time)
      PROVE  Inv'
  <2>1. [live |-> TRUE, created |-> time, price |-> NoPrice] \in R
    BY PagingAssumption DEF NoPrice
  <2> QED
    BY <1>2, <2>1, ChangeKeeps DEF Create
<1>3. \A b \in BOOLEAN : [shop[p] EXCEPT !.live = b] \in R
  BY <1>1
<1>4. ASSUME NEW price \in Prices \cup {NoPrice}, Reprice(p, price)
      PROVE  Inv'
  <2>1. price \in Nat
    BY PagingAssumption DEF NoPrice
  <2>2. [shop[p] EXCEPT !.price = price] \in R
    BY <1>1, <2>1
  <2> QED
    BY <1>4, <2>2, ChangeKeeps DEF Reprice
<1> HIDE DEF R
<1>5. CASE SoftDelete(p)
  BY <1>3, <1>5, ChangeKeeps DEF SoftDelete, R
<1>6. CASE Restore(p)
  BY <1>3, <1>6, ChangeKeeps DEF Restore, R
<1> QED
  BY <1>2, <1>4, <1>5, <1>6

-----------------------------------------------------------------------------
(* A page *)

LEMMA MultipleOfLimit ==
    ASSUME NEW k \in Nat, NEW m \in Nat \ {0}
    PROVE  (k * m) % m = 0
<1>1. PICK q \in Int, r \in 0 .. m - 1 : k * m = m * q + r /\ (k * m) % m = r
  <2>1. k * m \in Int
    OBVIOUS
  <2>2. ASSUME NEW x \in Int
        PROVE  x = m * (x \div m) + (x % m) /\ x % m \in 0 .. m - 1 /\ x \div m \in Int
    OBVIOUS
  <2> QED
    BY <2>1, <2>2
<1>2. m * (k - q) = r
  BY <1>1
<1>3. \A e \in Int : e >= 1 => m * e >= m
  OBVIOUS
<1>4. \A e \in Int : e <= -1 => m * e <= -m
  OBVIOUS
<1>5. k - q = 0
  BY <1>1, <1>2, <1>3, <1>4
<1> QED
  BY <1>1, <1>2, <1>5

\* The order of the list and of the walk agree, but for unpriced rows.
LEMMA BeforePrecedes ==
    ASSUME NEW r \in Rows, NEW q \in Rows, Before(r, q),
           sort = "newest" \/ (sort = "cheapest" /\ Known(q.price))
    PROVE  Precedes(r, q)
BY RowFits DEF Before, Cheaper, Known, Precedes

LEMMA PrecedesTransitive ==
    ASSUME NEW r \in Rows, NEW q \in Rows, NEW s \in Rows, Precedes(r, q), Precedes(q, s)
    PROVE  Precedes(r, s)
BY RowFits DEF Precedes

\* What is sought after a row comes after it.
LEMMA SeekPrecedes ==
    ASSUME NEW q \in Rows, NEW r \in Rows, cursor = CursorOf(q), Seek(r),
           sort = "newest" \/ sort = "cheapest"
    PROVE  Precedes(q, r)
BY RowFits DEF CursorOf, Seek, BeyondKey, AtKey, Precedes, Known

LEMMA NextPageKeeps ==
    ASSUME Inv, NextPage
    PROVE  Inv'
<1>1. PICK page : page = Page
  OBVIOUS
<1>2. /\ sort # "none" /\ cursor # End
      /\ seen' = seen \o page
      /\ cursor' = IF Len(Found) > Limit THEN CursorOf(page[Limit]) ELSE End
      /\ shop' = shop /\ sort' = sort /\ stayed' = stayed
  BY <1>1 DEF NextPage, Page
<1>3. ShopFits /\ Limit \in Nat \ {0} /\ Matching \subseteq Rows
  BY MatchingFits, PagingAssumption DEF Inv
<1>4. /\ page \in Seq(Matching) /\ Len(page) \in Nat
      /\ Len(page) = IF Len(Found) > Limit THEN Limit ELSE Len(Found)
      /\ \A i \in 1 .. Len(page) : /\ i \in 1 .. Len(Found) /\ page[i] = Found[i]
                                   /\ page[i] \in Matching
  BY <1>1, <1>2, <1>3, PageFits
<1>5. page \in Seq(Rows)
  BY <1>3, <1>4
<1>6. PICK L \in Nat : L = Len(seen)
  BY DEF Inv, CursorFits
<1>7. /\ seen' \in Seq(Rows) /\ Len(seen') = L + Len(page)
      /\ DOMAIN seen = 1 .. L /\ DOMAIN seen' = 1 .. L + Len(page)
      /\ \A i \in 1 .. L : seen'[i] = seen[i] /\ seen[i] \in Rows
      /\ \A i \in 1 .. Len(page) : seen'[L + i] = page[i]
  BY <1>2, <1>5, <1>6 DEF Inv, CursorFits
<1>8. cursor = Start \/ AtRow
  BY <1>2 DEF Inv, CursorFits
<1>9. ShopFits'
  BY <1>2, <1>3 DEF ShopFits
<1>10. \A r : CursorOf(r)' = CursorOf(r)
  BY <1>2 DEF CursorOf
<1>11. Len(Found) > Limit => AtRow'
  <2> SUFFICES ASSUME Len(Found) > Limit
               PROVE  AtRow'
    OBVIOUS
  <2>1. Len(seen') = L + Limit /\ Limit \in 1 .. Len(page) /\ seen'[L + Limit] = page[Limit]
    BY <1>3, <1>4, <1>7
  <2>2. \E k \in Nat : L = k * Limit
    <3>1. CASE cursor = Start
      <4>1. L = 0 * Limit
        BY <1>3, <1>6, <3>1 DEF Inv, CursorFits
      <4> QED
        BY <4>1
    <3>2. CASE AtRow
      BY <1>6, <3>2 DEF AtRow
    <3> QED
      BY <1>8, <3>1, <3>2
  <2>3. PICK k \in Nat : L = k * Limit
    BY <2>2
  <2>4. L + Limit = (k + 1) * Limit /\ k + 1 \in Nat
    BY <1>3, <2>3
  <2>5. cursor' = CursorOf(seen[Len(seen)])'
    <3>1. PICK r : r = page[Limit]
      OBVIOUS
    <3>2. seen'[Len(seen')] = r /\ cursor' = CursorOf(r)
      BY <1>2, <2>1, <3>1
    <3>3. CursorOf(r) = CursorOf(seen[Len(seen)])'
      BY <1>2, <3>2 DEF CursorOf
    <3> QED
      BY <3>2, <3>3
  <2>6. Len(seen') \in Nat \ {0} /\ sort' # "none"
    BY <1>2, <1>3, <2>1
  <2>7. \E j \in Nat : Len(seen') = j * Limit
    BY <2>1, <2>4
  <2> QED
    BY <2>5, <2>6, <2>7 DEF AtRow
<1>12. CursorFits'
  <2>1. cursor' # Start
    BY <1>2, CursorsDiffer
  <2>2. cursor' = End \/ AtRow'
    BY <1>2, <1>11
  <2> QED
    BY <1>2, <1>7, <2>1, <2>2 DEF CursorFits, Start, End
<1>13. Owed'
  <2> SUFFICES ASSUME NEW p \in stayed, sort = "newest" \/ ByPrice(p),
                      ~ \E i \in DOMAIN seen' : seen'[i].id = p
               PROVE  AtRow' /\ Seek(Row(p))'
    BY <1>2 DEF Inv, Owed, Listable, ByPrice, Known, NoPrice
  <2>1. p \in Ids /\ p \in Listable
    BY DEF Inv, Owed, Listable
  <2>2. PICK r : r = Row(p) /\ r.id = p /\ r.price = shop[p].price
    <3>1. Row(p).id = p /\ Row(p).price = shop[p].price
      BY DEF Row
    <3> QED
      BY <3>1
  <2>3. r \in Matching
    <3>1. ~ \E i \in DOMAIN seen : seen[i].id = p
      BY <1>4, <1>7
    <3>2. cursor = Start \/ Seek(r)
      BY <2>2, <3>1 DEF Inv, Owed
    <3> QED
      BY <2>1, <2>2, <3>2 DEF Matching
  <2>4. PICK n \in 1 .. Len(Found) : Found[n] = r
    BY <1>2, <1>3, <2>3, FoundFits
  <2>5. n \notin 1 .. Len(page)
    <3> SUFFICES ASSUME n \in 1 .. Len(page)
                 PROVE  FALSE
      OBVIOUS
    <3>1. L + n \in DOMAIN seen' /\ seen'[L + n] = r
      BY <1>4, <1>7, <2>4
    <3> QED
      BY <2>2, <3>1
  <2>6. Len(Found) > Limit /\ Limit < n /\ Limit \in 1 .. Len(Found)
        /\ Limit \in 1 .. Len(page)
    BY <1>2, <1>3, <1>4, <2>4, <2>5, FoundFits
  <2>7. Before(page[Limit], r)
    BY <1>2, <1>3, <1>4, <2>4, <2>6, FoundFits
  <2>8. PICK q \in Rows : q = page[Limit]
    BY <1>3, <1>4, <2>6
  <2>9. r \in Rows /\ Before(q, r) /\ cursor' = CursorOf(q)
    BY <1>2, <1>3, <2>3, <2>6, <2>7, <2>8
  <2>10. /\ cursor'.id = q.id
         /\ cursor'.key = IF sort = "newest" THEN q.created ELSE q.price
    BY <2>9 DEF CursorOf
  <2>11. Row(p)' = r
    BY <1>2, <2>2 DEF Row
  <2>12. Seek(r)'
    BY <1>2, <2>2, <2>8, <2>9, <2>10, RowFits
       DEF Seek, BeyondKey, AtKey, Before, Cheaper, Known, NoPrice, ByPrice
  <2>13. Seek(Row(p))'
    BY <2>11, <2>12 DEF Seek, BeyondKey, AtKey, Known, NoPrice
  <2> QED
    BY <1>11, <2>6, <2>13
<1>14. WalkAdvances'
  <2> SUFFICES ASSUME sort = "newest" \/ (sort = "cheapest" /\ PagesEndPriced'),
                      NEW i \in DOMAIN seen', NEW j \in DOMAIN seen', i < j,
                      sort = "newest" \/ Known(seen'[j].price)
               PROVE  Precedes(seen[i], seen[j])'
    BY <1>2 DEF WalkAdvances, Known, NoPrice
  <2>1. PICK r, q : r = seen'[i] /\ q = seen'[j]
    OBVIOUS
  <2>2. r \in Rows /\ q \in Rows
    BY <1>7, <2>1
  <2>3. sort = "newest" \/ PagesEndPriced
    BY <1>4, <1>7 DEF PagesEndPriced, Known, NoPrice
  <2>4. Precedes(r, q)
    <3>1. CASE j \in 1 .. L
      <4>1. i \in 1 .. L /\ r = seen[i] /\ q = seen[j]
        BY <1>7, <2>1, <3>1
      <4> QED
        BY <1>7, <2>1, <2>3, <3>1, <4>1 DEF Inv, WalkAdvances
    <3>2. CASE i \in 1 .. L /\ j \notin 1 .. L
      <4>1. PICK n \in 1 .. Len(page) : j = L + n
        <5>1. j - L \in 1 .. Len(page) /\ j = L + (j - L)
          BY <1>4, <1>7, <3>2
        <5> QED
          BY <5>1
      <4>2. q \in Matching
        BY <1>4, <1>7, <2>1, <4>1
      <4>3. AtRow
        <5>1. cursor # Start
          BY <1>6, <3>2 DEF Inv, CursorFits
        <5> QED
          BY <1>8, <5>1
      <4>4. PICK s : s = seen[L]
        OBVIOUS
      <4>5. L \in 1 .. L /\ s \in Rows /\ cursor = CursorOf(s)
        BY <1>6, <1>7, <4>3, <4>4 DEF AtRow
      <4>6. Seek(q)
        BY <4>2, <4>3, CursorsDiffer DEF Matching, AtRow
      <4>7. Precedes(s, q)
        BY <2>2, <4>5, <4>6, SeekPrecedes
      <4>8. CASE i = L
        BY <1>7, <2>1, <4>4, <4>5, <4>7, <4>8
      <4>9. CASE i # L
        <5>1. sort = "newest" \/ Known(s.price)
          <6>1. L % Limit = 0
            BY <1>3, <1>6, <4>3, MultipleOfLimit DEF AtRow
          <6> QED
            BY <1>7, <2>3, <4>4, <4>5, <6>1 DEF PagesEndPriced
        <5>2. i < L /\ r = seen[i]
          BY <1>7, <2>1, <3>2, <4>9
        <5>3. Precedes(r, s)
          BY <1>7, <2>3, <3>2, <4>4, <4>5, <5>1, <5>2 DEF Inv, WalkAdvances
        <5> QED
          BY <2>2, <4>5, <4>7, <5>3, PrecedesTransitive
      <4> QED
        BY <4>8, <4>9
    <3>3. CASE i \notin 1 .. L
      <4>1. PICK m \in 1 .. Len(page) : i = L + m
        <5>1. i - L \in 1 .. Len(page) /\ i = L + (i - L)
          BY <1>4, <1>7, <3>3
        <5> QED
          BY <5>1
      <4>2. PICK n \in 1 .. Len(page) : j = L + n
        <5>1. j - L \in 1 .. Len(page) /\ j = L + (j - L)
          BY <1>4, <1>7, <3>3
        <5> QED
          BY <5>1
      <4>3. m < n /\ r = Found[m] /\ q = Found[n] /\ m \in 1 .. Len(Found) /\ n \in 1 .. Len(Found)
        BY <1>4, <1>7, <2>1, <4>1, <4>2
      <4>4. Before(r, q)
        BY <1>2, <1>3, <4>3, FoundFits
      <4> QED
        BY <2>1, <2>2, <4>4, BeforePrecedes
    <3> QED
      BY <3>1, <3>2, <3>3
  <2> QED
    BY <1>2, <2>1, <2>4 DEF Precedes
<1> QED
  BY <1>9, <1>12, <1>13, <1>14 DEF Inv

LEMMA NextKeeps ==
    ASSUME Inv, [Next]_vars
    PROVE  Inv'
<1>1. CASE UNCHANGED vars
  <2>1. shop' = shop /\ sort' = sort /\ cursor' = cursor /\ seen' = seen /\ stayed' = stayed
    BY <1>1 DEF vars
  <2> QED
    BY <2>1 DEF Inv, ShopFits, CursorFits, AtRow, CursorOf, Start, End, Owed, ByPrice, Known,
                NoPrice, Listable, Row, Seek, BeyondKey, AtKey, WalkAdvances,
                PagesEndPriced, Precedes
<1> QED
  BY <1>1, ChooseKeeps, NextPageKeeps, OthersKeep DEF Next

LEMMA AlwaysInv == Spec => []Inv
BY InitInv, NextKeeps, PTL DEF Spec

-----------------------------------------------------------------------------
(* The theorems about Paging *)

\* Over all pages the newest-first walk goes strictly forward, whatever is
\* created, deleted, restored or repriced meanwhile, and so does the
\* cheapest-first walk if no page ends with a product without price.
THEOREM WalkCorrect == Spec => []WalkAdvances
<1>1. Inv => WalkAdvances
  BY DEF Inv
<1> QED
  BY <1>1, AlwaysInv, PTL

\* A walk that is through has listed every product that stayed as it was.
THEOREM NothingMissed == Spec => []MissesNothing
<1>1. ASSUME Inv
      PROVE  MissesNothing
  <2> SUFFICES ASSUME cursor = End, sort \in {"newest", "cheapest"}, NEW p \in stayed,
                      sort = "newest" \/ Known(shop[p].price)
               PROVE  \E i \in DOMAIN seen : seen[i].id = p
    BY DEF MissesNothing
  <2>1. ~ AtRow /\ cursor # Start
    BY CursorsDiffer DEF AtRow
  <2> QED
    BY <1>1, <2>1 DEF Inv, Owed, ByPrice
<1> QED
  BY <1>1, AlwaysInv, PTL

-----------------------------------------------------------------------------
(* Places in an order *)

\* The members of S that R puts before x, and the members that at least n are
\* put before.
Ahead(R, S, x) == {y \in S : <<y, x>> \in R}
Beyond(R, S, n) == {x \in S : Cardinality(Ahead(R, S, x)) >= n}

Members(f, from, to) == {f[m] : m \in from .. to}

LEMMA AheadFits ==
  ASSUME NEW S, IsFiniteSet(S), NEW R, NEW x
  PROVE  /\ IsFiniteSet(Ahead(R, S, x))
         /\ Cardinality(Ahead(R, S, x)) \in Nat
<1>1. IsFiniteSet(Ahead(R, S, x))
  BY FS_Subset DEF Ahead
<1> QED
  BY <1>1, FS_CardinalityType

\* A smaller set has fewer members ahead.
LEMMA AheadGrows ==
  ASSUME NEW T, IsFiniteSet(T), NEW R, NEW x, NEW y, NEW S,
         Ahead(R, S, x) \subseteq Ahead(R, T, y)
  PROVE  Cardinality(Ahead(R, S, x)) <= Cardinality(Ahead(R, T, y))
BY AheadFits, FS_Subset

LEMMA UpTo ==
  ASSUME NEW n \in Nat
  PROVE  Cardinality(1 .. n) = n /\ IsFiniteSet(1 .. n)
BY FS_Interval

InPlace(list, n, m, R) == \A k \in 1 .. n : k < m <=> <<list[k], list[m]>> \in R

\* In a list of S without repeats, a member that R puts behind the members
\* before it in the list and behind no other one, has its place from them.
LEMMA PlaceInList ==
  ASSUME NEW S, IsFiniteSet(S), NEW n \in Nat, n = Cardinality(S), NEW R,
         NEW list \in Injection(1 .. n, S), NEW m \in 1 .. n,
         InPlace(list, n, m, R)
  PROVE  Cardinality(Ahead(R, S, list[m])) = m - 1
<1>1. Cardinality(1 .. n) = n /\ IsFiniteSet(1 .. n)
  BY FS_Interval
<1>2. list \in Surjection(1 .. n, S)
  BY <1>1, FS_Injection
<1>3. Ahead(R, S, list[m]) = {list[k] : k \in 1 .. m - 1}
  <2>1. ASSUME NEW y \in S, <<y, list[m]>> \in R
        PROVE  \E k \in 1 .. m - 1 : y = list[k]
    <3>1. PICK k \in 1 .. n : list[k] = y
      BY <1>2 DEF Surjection
    <3>2. k < m
      BY <2>1, <3>1 DEF InPlace
    <3> QED
      BY <3>1, <3>2
  <2>2. ASSUME NEW k \in 1 .. m - 1
        PROVE  list[k] \in S /\ <<list[k], list[m]>> \in R
    <3>1. k \in 1 .. n /\ k < m
      OBVIOUS
    <3> QED
      BY <3>1 DEF Injection, InPlace
  <2> QED
    BY <2>1, <2>2 DEF Ahead
<1>4. Cardinality(1 .. m - 1) = m - 1 /\ IsFiniteSet(1 .. m - 1)
  <2>1. m - 1 \in Nat /\ 1 \in Int
    OBVIOUS
  <2>2. PICK d \in Nat : d = m - 1
    BY <2>1
  <2>3. Cardinality(1 .. d) = d /\ IsFiniteSet(1 .. d)
    BY UpTo
  <2> QED
    BY <2>2, <2>3
<1> DEFINE first == [k \in 1 .. m - 1 |-> list[k]]
           T == {list[k] : k \in 1 .. m - 1}
<1>5. first \in Bijection(1 .. m - 1, T)
  <2>1. \A k \in 1 .. m - 1 : k \in 1 .. n
    OBVIOUS
  <2>2. first \in [1 .. m - 1 -> T]
    OBVIOUS
  <2>3. ASSUME NEW k \in 1 .. m - 1, NEW j \in 1 .. m - 1, first[k] = first[j]
        PROVE  k = j
    BY <2>1, <2>3 DEF Injection, IsInjective
  <2>4. \A x \in T : \E k \in 1 .. m - 1 : first[k] = x
    OBVIOUS
  <2> HIDE DEF first, T
  <2> QED
    BY <2>2, <2>3, <2>4 DEF Bijection, Injection, Surjection, IsInjective
<1> HIDE DEF first, T
<1>6. Cardinality(T) = m - 1
  BY <1>4, <1>5, FS_Bijection DEF ExistsBijection
<1> QED
  BY <1>3, <1>6 DEF T

\* So it is in a list in the order of R.
LEMMA PlaceInOrder ==
  ASSUME NEW S, IsFiniteSet(S), NEW R, Irreflexive(R, S), Transitive(R, S),
         NEW c \in Nat, c = Cardinality(S),
         NEW list \in Injection(1 .. c, S), Sorted(list, R), NEW m \in 1 .. c
  PROVE  Cardinality(Ahead(R, S, list[m])) = m - 1
<1>1. ASSUME NEW k \in 1 .. c
      PROVE  k < m <=> <<list[k], list[m]>> \in R
  <2>1. list[k] \in S /\ list[m] \in S /\ DOMAIN list = 1 .. c
    BY DEF Injection
  <2>2. CASE k < m
    BY <2>1, <2>2 DEF Sorted
  <2>3. CASE k = m
    BY <2>1, <2>3 DEF Irreflexive
  <2>4. CASE m < k
    <3>1. <<list[m], list[k]>> \in R
      BY <2>1, <2>4 DEF Sorted
    <3>2. PICK x \in S, y \in S : x = list[m] /\ y = list[k]
      BY <2>1
    <3>3. <<x, x>> \notin R /\ (<<x, y>> \in R /\ <<y, x>> \in R => <<x, x>> \in R)
      BY DEF Irreflexive, Transitive
    <3> QED
      BY <2>4, <3>1, <3>2, <3>3
  <2> QED
    BY <2>2, <2>3, <2>4
<1>2. InPlace(list, c, m, R)
  BY <1>1 DEF InPlace
<1> QED
  BY <1>2, PlaceInList

\* A list in order, and what is beyond its n-th member.
LEMMA BeyondInList ==
  ASSUME NEW S, IsFiniteSet(S), NEW R, Irreflexive(R, S), Transitive(R, S),
         NEW list \in [1 .. Cardinality(S) -> S], Sorted(list, R), NEW n \in Nat
  PROVE  /\ Beyond(R, S, n) = Members(list, n + 1, Cardinality(S))
         /\ list \in Injection(1 .. Cardinality(S), S)
         /\ \A x \in S : \E m \in 1 .. Cardinality(S) : list[m] = x
<1>1. PICK c \in Nat : c = Cardinality(S)
  BY FS_CardinalityType
<1>2. list \in Injection(1 .. c, S)
  <2> SUFFICES ASSUME NEW i \in 1 .. c, NEW j \in 1 .. c, list[i] = list[j], i # j
               PROVE  FALSE
    BY <1>1 DEF Injection, IsInjective
  <2>1. i < j \/ j < i
    OBVIOUS
  <2>2. <<list[i], list[j]>> \in R \/ <<list[j], list[i]>> \in R
    BY <1>1, <2>1 DEF Sorted
  <2> QED
    BY <1>1, <2>2 DEF Irreflexive
<1>3. \A x \in S : \E m \in 1 .. c : list[m] = x
  BY <1>1, SortedIsOnto
<1>4. ASSUME NEW m \in 1 .. c
      PROVE  Cardinality(Ahead(R, S, list[m])) = m - 1
  BY <1>1, <1>2, PlaceInOrder
<1>5. ASSUME NEW x \in Beyond(R, S, n)
      PROVE  x \in {list[m] : m \in n + 1 .. c}
  <2>1. PICK m \in 1 .. c : list[m] = x
    BY <1>3 DEF Beyond
  <2>2. m - 1 >= n
    BY <1>4, <2>1 DEF Beyond
  <2> QED
    BY <2>1, <2>2
<1>6. ASSUME NEW m \in n + 1 .. c
      PROVE  list[m] \in Beyond(R, S, n)
  <2>1. m \in 1 .. c /\ m - 1 >= n
    OBVIOUS
  <2> QED
    BY <1>1, <1>4, <2>1 DEF Beyond
<1> QED
  BY <1>1, <1>2, <1>3, <1>5, <1>6 DEF Members

LEMMA BeyondFits ==
  ASSUME NEW S, IsFiniteSet(S), NEW R, NEW n
  PROVE  /\ Beyond(R, S, n) \subseteq S
         /\ IsFiniteSet(Beyond(R, S, n))
<1>1. Beyond(R, S, n) \subseteq S
  BY DEF Beyond
<1> QED
  BY <1>1, FS_Subset

\* All but n members are beyond the n-th.
LEMMA BeyondCount ==
  ASSUME NEW S, IsFiniteSet(S), NEW R, Irreflexive(R, S), Transitive(R, S),
         Total(R, S), NEW n \in Nat
  PROVE  Beyond(R, S, n) = {} \/ Cardinality(Beyond(R, S, n)) + n <= Cardinality(S)
<1>1. PICK c \in Nat : c = Cardinality(S)
  BY FS_CardinalityType
<1>2. PICK list \in [1 .. c -> S] : Sorted(list, R)
  BY <1>1, SortedExists
<1> DEFINE B == {list[m] : m \in n + 1 .. c}
           last == [m \in n + 1 .. c |-> list[m]]
<1>3. Beyond(R, S, n) = B
  BY <1>1, <1>2, BeyondInList DEF Members
<1>4. CASE n < c
  <2>1. last \in Surjection(n + 1 .. c, B)
    BY DEF Surjection
  <2>2. Cardinality(n + 1 .. c) = c - (n + 1) + 1 /\ IsFiniteSet(n + 1 .. c)
    BY <1>4, FS_Interval
  <2> HIDE DEF B, last
  <2>3. Cardinality(B) <= Cardinality(n + 1 .. c) /\ IsFiniteSet(B)
    BY <2>1, <2>2, FS_Surjection
  <2>4. Cardinality(B) \in Nat
    BY <2>3, FS_CardinalityType
  <2> QED
    BY <1>1, <1>3, <1>4, <2>2, <2>3, <2>4
<1>5. CASE n >= c
  <2>1. n + 1 .. c = {}
    BY <1>5
  <2> QED
    BY <1>3, <2>1
<1> QED
  BY <1>4, <1>5

\* Nobody is ahead of all: no member is beyond the size of the set.
LEMMA NoneBeyondAll ==
  ASSUME NEW S, IsFiniteSet(S), NEW R, Irreflexive(R, S), NEW x \in S
  PROVE  Cardinality(Ahead(R, S, x)) < Cardinality(S)
<1>1. Ahead(R, S, x) \subseteq S /\ x \notin Ahead(R, S, x)
  BY DEF Ahead, Irreflexive
<1>2. Cardinality(S) \in Nat /\ Cardinality(Ahead(R, S, x)) \in Nat
  BY AheadFits, FS_CardinalityType
<1>3. Cardinality(Ahead(R, S, x)) <= Cardinality(S)
        /\ (Cardinality(Ahead(R, S, x)) = Cardinality(S) => Ahead(R, S, x) = S)
  BY <1>1, FS_Subset
<1> QED
  BY <1>1, <1>2, <1>3

\* One more member moves at most one across the n-th place, itself included.
LEMMA OneCrosses ==
  ASSUME NEW S, IsFiniteSet(S), NEW x, x \notin S, NEW T, T = S \cup {x}, NEW R,
         Irreflexive(R, T), Transitive(R, T), Total(R, T), NEW n \in Nat
  PROVE  /\ Beyond(R, S, n) \subseteq Beyond(R, T, n)
         /\ \A i, j \in Beyond(R, T, n) \ Beyond(R, S, n) : i = j
<1>1. IsFiniteSet(T)
  BY FS_AddElement
<1>2. ASSUME NEW i \in Beyond(R, S, n)
      PROVE  i \in Beyond(R, T, n)
  <2>1. Ahead(R, S, i) \subseteq Ahead(R, T, i)
    BY DEF Ahead
  <2>2. Cardinality(Ahead(R, S, i)) <= Cardinality(Ahead(R, T, i))
    BY <1>1, <2>1, AheadGrows
  <2>3. Cardinality(Ahead(R, S, i)) \in Nat /\ Cardinality(Ahead(R, T, i)) \in Nat
    BY <1>1, AheadFits
  <2> QED
    BY <2>2, <2>3 DEF Beyond
<1>3. ASSUME NEW i \in Beyond(R, T, n) \ Beyond(R, S, n),
             NEW j \in Beyond(R, T, n) \ Beyond(R, S, n), <<i, j>> \in R
      PROVE  FALSE
  <2>1. i \in T /\ j \in T
    BY DEF Beyond
  <2>2. /\ Cardinality(Ahead(R, T, i)) \in Nat /\ Cardinality(Ahead(R, T, j)) \in Nat
        /\ Cardinality(Ahead(R, S, i)) \in Nat /\ Cardinality(Ahead(R, S, j)) \in Nat
        /\ IsFiniteSet(Ahead(R, S, j)) /\ IsFiniteSet(Ahead(R, T, i))
        /\ IsFiniteSet(Ahead(R, T, j))
    BY <1>1, AheadFits
  <2>3. CASE j = x
    <3>1. i \in S
      BY <1>3, <2>1, <2>3 DEF Irreflexive
    <3>2. <<x, i>> \notin R
      BY <1>3, <2>1, <2>3 DEF Irreflexive, Transitive
    <3>3. Ahead(R, T, i) = Ahead(R, S, i)
      BY <3>2 DEF Ahead
    <3> QED
      BY <3>1, <3>3 DEF Beyond
  <2>4. CASE j # x
    <3>1. j \in S /\ Cardinality(Ahead(R, S, j)) < n
      BY <2>1, <2>2, <2>4 DEF Beyond
    <3>2. /\ Ahead(R, T, i) \subseteq Ahead(R, T, j)
          /\ i \in Ahead(R, T, j) /\ i \notin Ahead(R, T, i)
      BY <1>3, <2>1 DEF Ahead, Irreflexive, Transitive
    <3>3. Cardinality(Ahead(R, T, j)) >= n + 1
      <4>1. /\ Cardinality(Ahead(R, T, i)) <= Cardinality(Ahead(R, T, j))
            /\ (Cardinality(Ahead(R, T, i)) = Cardinality(Ahead(R, T, j))
                    => Ahead(R, T, i) = Ahead(R, T, j))
        BY <2>2, <3>2, FS_Subset
      <4>2. Cardinality(Ahead(R, T, i)) >= n
        BY DEF Beyond
      <4> QED
        BY <2>2, <3>2, <4>1, <4>2
    <3>4. Cardinality(Ahead(R, T, j)) <= Cardinality(Ahead(R, S, j)) + 1
      <4>1. Ahead(R, T, j) \subseteq Ahead(R, S, j) \cup {x}
        BY DEF Ahead
      <4>2. /\ IsFiniteSet(Ahead(R, S, j) \cup {x})
            /\ Cardinality(Ahead(R, S, j) \cup {x}) <= Cardinality(Ahead(R, S, j)) + 1
        <5>1. x \notin Ahead(R, S, j)
          BY DEF Ahead
        <5>2. PICK A : A = Ahead(R, S, j)
          OBVIOUS
        <5>3. IsFiniteSet(A) /\ x \notin A /\ Cardinality(A) \in Nat
          BY <2>2, <5>1, <5>2
        <5>4. IsFiniteSet(A \cup {x}) /\ Cardinality(A \cup {x}) = Cardinality(A) + 1
          BY <5>3, FS_AddElement
        <5> QED
          BY <5>2, <5>3, <5>4
      <4>3. Cardinality(Ahead(R, T, j)) <= Cardinality(Ahead(R, S, j) \cup {x})
              /\ Cardinality(Ahead(R, S, j) \cup {x}) \in Nat
        BY <4>1, <4>2, FS_Subset, FS_CardinalityType
      <4> QED
        BY <2>2, <4>2, <4>3
    <3> QED
      BY <2>2, <3>1, <3>3, <3>4
  <2> QED
    BY <2>3, <2>4
<1> QED
  BY <1>2, <1>3 DEF Beyond, Total

\* Only the order among the members counts.
LEMMA BeyondSame ==
  ASSUME NEW S, NEW R, NEW Q, NEW n,
         \A x, y \in S : <<x, y>> \in R <=> <<x, y>> \in Q
  PROVE  Beyond(R, S, n) = Beyond(Q, S, n)
<1>1. \A x \in S : Ahead(R, S, x) = Ahead(Q, S, x)
  BY DEF Ahead
<1> QED
  BY <1>1 DEF Beyond

-----------------------------------------------------------------------------
(* The table and the walk by page number *)

SomeRows == {NotYet, Gone} \cup [exists: {TRUE}, created: Nat, out: BOOLEAN]
SomeCalls == {NoCall} \cup [op: {"toggle"}, id: Keys, out: BOOLEAN]
SomeLists == {list \in [sort: {"created_id", "created", "none"}, shown: {"in", "all"},
                        counted: {"in", "all"}] :
                 list.counted = "in" => list.shown = "in"}
SomeWalks == [at: {"page", "end"}, list: SomeLists, perPage: Nat, page: Nat \ {0},
              seen: Seq(Keys), fetched: BOOLEAN, total: Nat \cup {Unknown},
              stayed: SUBSET Keys, came: Nat, went: Nat]

TableFits ==
    /\ row \in [Keys -> SomeRows]
    /\ call \in [Workers -> SomeCalls]

\* The rows of the list, and the places that the pages fetched so far stand for.
Listed == RowsOf(row, walk.list.shown)
Walked == walk.perPage * (IF walk.fetched THEN walk.page ELSE walk.page - 1)

\* What stayed is in the list; the list has grown since it was counted by no
\* more rows than came; and at the end the count was walked through.
TurnsFit ==
    /\ walk.stayed \subseteq Listed
    /\ walk.total # Unknown => Cardinality(Listed) <= walk.total + walk.came
    /\ walk.at = "end" => /\ walk.fetched = TRUE /\ walk.total # Unknown
                          /\ walk.total <= walk.page * walk.perPage

\* Pairs of keys in the order of the lists with a tie-breaker, and of those
\* that are sorted by createdAt alone.
NewestFirst(table) ==
    {p \in Keys \X Keys : \/ table[p[1]].created > table[p[2]].created
                          \/ /\ table[p[1]].created = table[p[2]].created
                             /\ p[1] > p[2]}
ByTime(table) == {p \in Keys \X Keys : table[p[1]].created > table[p[2]].created}

\* With a tie-breaker: of the places walked, no more rows that stayed were not
\* seen than rows went; of those to come, no more were seen before than came,
\* less those repeated already.
SlipsWithin(kept, ahead, shown, repeats, came, went) ==
    /\ Cardinality((kept \ ahead) \ shown) <= went
    /\ repeats + Cardinality(ahead \cap shown) <= came
SlipsFit ==
    walk.list.sort = "created_id" =>
        SlipsWithin(walk.stayed, Beyond(NewestFirst(row), Listed, Walked), Shown,
                    Repeats, walk.came, walk.went)

\* Without one, if nothing came or went: each row of the places walked was
\* seen, unless another has its time.
TiesFit ==
    walk.list.sort = "created" /\ walk.came + walk.went = 0 =>
        /\ walk.stayed = Listed
        /\ \A i \in Listed \ Beyond(ByTime(row), Listed, Walked) :
              i \in Shown \/ \E j \in Listed \ {i} : row[j].created = row[i].created

WalkFits == walk # NoWalk => walk \in SomeWalks /\ TurnsFit /\ SlipsFit /\ TiesFit

ListInv == TableFits /\ WalkFits

LEMMA ListsFit == Paged \cup Whole \subseteq SomeLists
<1>1. /\ \A by \in {"created_id", "created", "none"} : List(by, "in", "in") \in SomeLists
      /\ \A by \in {"created", "none"} : List(by, "in", "all") \in SomeLists
      /\ List("none", "all", "all") \in SomeLists
  BY DEF List, SomeLists
<1> USE <1>1 DEF Orders, ShopProducts, StatusHistory, ReturnRequests, Adjustments, Stocks,
      AdminProducts, Imports, Exports, Categories, Attributes, AttributeValues,
      Warehouses, PaymentMethods, ProductsOfCategory
<1>2. Imports \subseteq SomeLists /\ Exports \subseteq SomeLists
  OBVIOUS
<1>3. {Orders, ShopProducts, StatusHistory, ReturnRequests, Adjustments, Stocks,
       AdminProducts} \subseteq SomeLists
  OBVIOUS
<1>4. Whole \subseteq SomeLists
  BY DEF Whole
<1> QED
  BY <1>2, <1>3, <1>4 DEF Paged

LEMMA ListBegins == ListInit => ListInv
BY DEF ListInit, ListInv, TableFits, WalkFits, SomeRows, SomeCalls

LEMMA KeysFit == IsFiniteSet(Keys) /\ Keys \subseteq Nat /\ PageSize \in Nat \ {0}
BY ListsAssumption

LEMMA RowsFinite ==
    ASSUME NEW table, NEW which
    PROVE  /\ RowsOf(table, which) \subseteq Keys
           /\ IsFiniteSet(RowsOf(table, which))
           /\ Cardinality(RowsOf(table, which)) \in Nat
<1>1. RowsOf(table, which) \subseteq Keys
  BY DEF RowsOf
<1>2. IsFiniteSet(RowsOf(table, which))
  BY <1>1, KeysFit, FS_Subset
<1> QED
  BY <1>1, <1>2, FS_CardinalityType

LEMMA RowsAre ==
    ASSUME NEW table \in [Keys -> SomeRows], NEW i \in Keys, table[i].exists
    PROVE  table[i] \in [exists: {TRUE}, created: Nat, out: BOOLEAN]
<1>1. table[i] \in SomeRows
  OBVIOUS
<1>2. ~NotYet.exists /\ ~Gone.exists
  BY DEF NotYet, Gone
<1>3. table[i] # NotYet /\ table[i] # Gone
  BY <1>2
<1> QED
  BY <1>1, <1>3 DEF SomeRows

LEMMA OrdersFit ==
    ASSUME NEW table \in [Keys -> SomeRows], NEW which
    PROVE  LET S == RowsOf(table, which) IN
           /\ Irreflexive(NewestFirst(table), S) /\ Transitive(NewestFirst(table), S)
           /\ Total(NewestFirst(table), S)
           /\ Irreflexive(ByTime(table), S)
<1> DEFINE S == RowsOf(table, which)
<1>1. \A i \in S : i \in Nat /\ i \in Keys /\ table[i].created \in Nat
  BY RowsAre, KeysFit DEF RowsOf
<1>2. \A i, j \in S : /\ <<i, j>> \in NewestFirst(table) <=>
                            \/ table[i].created > table[j].created
                            \/ table[i].created = table[j].created /\ i > j
                      /\ <<i, j>> \in ByTime(table) <=> table[i].created > table[j].created
  BY <1>1 DEF NewestFirst, ByTime
<1> HIDE DEF S
<1>3. Irreflexive(NewestFirst(table), S) /\ Irreflexive(ByTime(table), S)
  BY <1>1, <1>2 DEF Irreflexive
<1>4. Total(NewestFirst(table), S)
  BY <1>1, <1>2 DEF Total
<1>5. Transitive(NewestFirst(table), S)
  <2> SUFFICES ASSUME NEW x \in S, NEW y \in S, NEW z \in S,
                      <<x, y>> \in NewestFirst(table), <<y, z>> \in NewestFirst(table)
               PROVE  <<x, z>> \in NewestFirst(table)
    BY DEF Transitive
  <2>1. PICK a \in Nat, b \in Nat, c \in Nat :
            a = table[x].created /\ b = table[y].created /\ c = table[z].created
    BY <1>1
  <2>2. x \in Nat /\ y \in Nat /\ z \in Nat
    BY <1>1
  <2>3. (a > b \/ (a = b /\ x > y)) /\ (b > c \/ (b = c /\ y > z))
    BY <1>2, <2>1
  <2>4. a > c \/ (a = c /\ x > z)
    BY <2>2, <2>3
  <2> QED
    BY <1>2, <2>1, <2>4
<1> QED
  BY <1>3, <1>4, <1>5 DEF S

\* What was shown is finite, and no longer than the list of what was seen.
LEMMA ShownFits ==
    ASSUME NEW s \in Seq(Keys)
    PROVE  LET T == {s[n] : n \in DOMAIN s} IN
           /\ T \subseteq Keys /\ IsFiniteSet(T) /\ Cardinality(T) \in Nat
           /\ Len(s) \in Nat
<1>1. {s[n] : n \in DOMAIN s} \subseteq Keys
  BY LenProperties
<1> QED
  BY <1>1, KeysFit, FS_Subset, FS_CardinalityType, LenProperties

LEMMA WalkedFits ==
    ASSUME walk \in SomeWalks
    PROVE  Walked \in Nat
<1>1. PICK k \in Nat : k = IF walk.fetched THEN walk.page ELSE walk.page - 1
  <2>1. walk.page \in Nat \ {0}
    BY DEF SomeWalks
  <2> QED
    BY <2>1
<1>2. walk.perPage \in Nat
  BY DEF SomeWalks
<1>3. PICK p \in Nat : p = walk.perPage
  BY <1>2
<1>4. p * k \in Nat
  OBVIOUS
<1> QED
  BY <1>1, <1>3, <1>4 DEF Walked

\* A walk is one of SomeWalks, and is not none.
LEMMA WalkIs == \A w \in SomeWalks : w # NoWalk
BY DEF SomeWalks, NoWalk

-----------------------------------------------------------------------------
(* The steps of a walk, but for the rows of a page *)

LEMMA AllBeyondNone ==
    ASSUME NEW S, IsFiniteSet(S), NEW R
    PROVE  Beyond(R, S, 0) = S
BY AheadFits DEF Beyond

LEMMA BeginKeeps ==
    ASSUME ListInv, NEW list \in SomeLists, NEW perPage \in Nat, Begin(list, perPage)
    PROVE  ListInv'
<1>1. walk' = [at |-> "page", list |-> list, perPage |-> perPage, page |-> 1,
               seen |-> <<>>, fetched |-> FALSE, total |-> Unknown,
               stayed |-> RowsOf(row, list.shown), came |-> 0, went |-> 0]
      /\ UNCHANGED <<row, call>>
  BY DEF Begin
<1>2. /\ walk'.list = list /\ walk'.perPage = perPage /\ walk'.page = 1
      /\ walk'.seen = <<>> /\ walk'.fetched = FALSE /\ walk'.total = Unknown
      /\ walk'.stayed = RowsOf(row, list.shown) /\ walk'.came = 0 /\ walk'.went = 0
      /\ walk'.at = "page"
  BY <1>1
<1>3. TableFits'
  BY <1>1 DEF ListInv, TableFits
<1>4. (walk \in SomeWalks)'
  <2>1. <<>> \in Seq(Keys)
    BY EmptySeq
  <2>2. RowsOf(row, list.shown) \in SUBSET Keys
    BY RowsFinite
  <2> QED
    BY <1>1, <2>1, <2>2 DEF SomeWalks
<1>5. Listed' = RowsOf(row, list.shown) /\ Walked' = 0
  <2>1. Listed' = RowsOf(row, list.shown)
    BY <1>1, <1>2 DEF Listed, RowsOf
  <2>2. Walked' = perPage * (1 - 1)
    BY <1>2 DEF Walked
  <2>3. perPage * 0 = 0
    OBVIOUS
  <2> QED
    BY <2>1, <2>2, <2>3
<1>6. Shown' = {} /\ Repeats' = 0
  <2>1. Shown' = {}
    BY <1>2 DEF Shown
  <2>2. Len(<<>>) = 0 /\ Cardinality({}) = 0
    BY FS_EmptySet, EmptySeq
  <2> QED
    BY <1>2, <2>1, <2>2 DEF Repeats
<1>7. PICK S : S = RowsOf(row, list.shown) /\ IsFiniteSet(S)
  BY RowsFinite
<1>8. Beyond(NewestFirst(row'), S, 0) = S /\ Beyond(ByTime(row'), S, 0) = S
  BY <1>7, AllBeyondNone
<1>9. TurnsFit'
  BY <1>2, <1>5 DEF TurnsFit
<1>10. SlipsFit'
  <2>1. Beyond(NewestFirst(row), Listed, Walked)' = S
    BY <1>5, <1>7, <1>8 DEF NewestFirst
  <2>2. (S \ S) \ {} = {} /\ S \cap {} = {} /\ Cardinality({}) = 0
    BY FS_EmptySet
  <2>3. (walk.stayed \ Beyond(NewestFirst(row), Listed, Walked))' = S \ S
    BY <1>2, <1>7, <2>1
  <2>4. Cardinality(((walk.stayed \ Beyond(NewestFirst(row), Listed, Walked)) \ Shown)')
          <= walk'.went
    <3>1. ((walk.stayed \ Beyond(NewestFirst(row), Listed, Walked)) \ Shown)' = {}
      BY <1>6, <2>2, <2>3
    <3>2. Cardinality(((walk.stayed \ Beyond(NewestFirst(row), Listed, Walked)) \ Shown)') = 0
      BY <2>2, <3>1, Zenon
    <3> QED
      BY <1>2, <3>2
  <2>5. Repeats' + Cardinality((Beyond(NewestFirst(row), Listed, Walked) \cap Shown)')
          <= walk'.came
    BY <1>2, <1>6, <2>1, <2>2
  <2> QED
    BY <2>4, <2>5 DEF SlipsFit, SlipsWithin
<1>11. TiesFit'
  <2>1. Beyond(ByTime(row), Listed, Walked)' = S
    BY <1>5, <1>7, <1>8 DEF ByTime
  <2> QED
    BY <1>2, <1>5, <1>7, <2>1 DEF TiesFit
<1> QED
  BY <1>3, <1>4, <1>9, <1>10, <1>11 DEF ListInv, WalkFits

\* A step that only counts or turns the page.
LEMMA CountingKeeps ==
    ASSUME ListInv, walk # NoWalk, UNCHANGED <<row, call>>, walk' \in SomeWalks,
           /\ walk'.list = walk.list /\ walk'.seen = walk.seen
           /\ walk'.stayed = walk.stayed /\ walk'.came = walk.came
           /\ walk'.went = walk.went,
           Walked' = Walked, TurnsFit'
    PROVE  ListInv'
<1>1. /\ Listed' = Listed /\ Shown' = Shown /\ Repeats' = Repeats
      /\ NewestFirst(row') = NewestFirst(row) /\ ByTime(row') = ByTime(row)
  BY DEF Listed, Shown, Repeats, NewestFirst, ByTime, RowsOf
<1>2. SlipsFit' /\ TiesFit'
  <2>1. SlipsFit /\ TiesFit
    BY DEF ListInv, WalkFits
  <2>2. SlipsFit'
    BY <1>1, <2>1 DEF SlipsFit
  <2>3. TiesFit'
    BY <1>1, <2>1 DEF TiesFit
  <2> QED
    BY <2>2, <2>3
<1> QED
  BY <1>2 DEF ListInv, WalkFits, TableFits

LEMMA FetchTotalKeeps == ListInv /\ FetchTotal => ListInv'
<1> SUFFICES ASSUME ListInv, FetchTotal PROVE ListInv'
  OBVIOUS
<1>1. walk # NoWalk /\ walk.at = "page" /\ walk.total = Unknown
      /\ UNCHANGED <<row, call>>
  BY DEF FetchTotal, NoWalk
<1>2. walk \in SomeWalks /\ TurnsFit
  BY <1>1 DEF ListInv, WalkFits
<1>3. PICK n \in Nat : /\ n = Cardinality(RowsOf(row, walk.list.counted))
                       /\ walk' = [walk EXCEPT !.total = n]
  BY RowsFinite DEF FetchTotal
<1>4. /\ walk' \in SomeWalks
      /\ walk'.list = walk.list /\ walk'.seen = walk.seen /\ walk'.at = walk.at
      /\ walk'.stayed = walk.stayed /\ walk'.came = walk.came
      /\ walk'.went = walk.went /\ walk'.page = walk.page
      /\ walk'.perPage = walk.perPage /\ walk'.fetched = walk.fetched
      /\ walk'.total = n
  BY <1>2, <1>3 DEF SomeWalks
<1>5. Walked' = Walked /\ Listed' = Listed
  BY <1>1, <1>4 DEF Walked, Listed, RowsOf
<1>6. Cardinality(Listed) <= n + walk.came
  <2>1. walk.list \in SomeLists /\ walk.came \in Nat
    BY <1>2 DEF SomeWalks
  <2>2. Listed \subseteq RowsOf(row, walk.list.counted)
    BY <2>1 DEF SomeLists, Listed, RowsOf
  <2>3. Cardinality(Listed) <= n /\ Cardinality(Listed) \in Nat
    BY <1>3, <2>2, RowsFinite, FS_Subset DEF Listed
  <2> QED
    BY <2>1, <2>3
<1>7. TurnsFit'
  BY <1>1, <1>2, <1>4, <1>5, <1>6 DEF TurnsFit
<1> QED
  BY <1>1, <1>4, <1>5, <1>7, CountingKeeps

LEMMA TurnPageKeeps == ListInv /\ TurnPage => ListInv'
<1> SUFFICES ASSUME ListInv, TurnPage PROVE ListInv'
  OBVIOUS
<1>1. /\ walk # NoWalk /\ walk.at = "page" /\ walk.total # Unknown
      /\ walk.fetched /\ UNCHANGED <<row, call>>
  BY DEF TurnPage, NoWalk
<1>2. walk \in SomeWalks /\ TurnsFit
  BY <1>1 DEF ListInv, WalkFits
<1>3. /\ walk.page \in Nat \ {0} /\ walk.total \in Nat /\ walk.perPage \in Nat
      /\ walk.fetched = TRUE
  BY <1>1, <1>2 DEF SomeWalks
<1>4. CASE HasNextPage
  <2>1. walk' = [walk EXCEPT !.page = @ + 1, !.fetched = FALSE, !.total = Unknown]
    BY <1>4 DEF TurnPage
  <2>2. PICK k \in Nat \ {0} : k = walk.page + 1
    BY <1>3
  <2>3. /\ walk' \in SomeWalks
        /\ walk'.list = walk.list /\ walk'.seen = walk.seen /\ walk'.at = "page"
        /\ walk'.stayed = walk.stayed /\ walk'.came = walk.came
        /\ walk'.went = walk.went /\ walk'.page = k
        /\ walk'.perPage = walk.perPage /\ walk'.fetched = FALSE
        /\ walk'.total = Unknown
    BY <1>1, <1>2, <2>1, <2>2 DEF SomeWalks
  <2>4. Walked' = Walked
    <3>1. k - 1 = walk.page
      BY <1>3, <2>2
    <3> QED
      BY <1>3, <2>3, <3>1 DEF Walked
  <2>5. Listed' = Listed
    BY <1>1, <2>3 DEF Listed, RowsOf
  <2>6. TurnsFit'
    BY <1>2, <2>3, <2>5 DEF TurnsFit
  <2> QED
    BY <1>1, <2>3, <2>4, <2>6, CountingKeeps
<1>5. CASE ~HasNextPage
  <2>1. walk' = [walk EXCEPT !.at = "end"]
    BY <1>5 DEF TurnPage
  <2>2. /\ walk' \in SomeWalks
        /\ walk'.list = walk.list /\ walk'.seen = walk.seen /\ walk'.at = "end"
        /\ walk'.stayed = walk.stayed /\ walk'.came = walk.came
        /\ walk'.went = walk.went /\ walk'.page = walk.page
        /\ walk'.perPage = walk.perPage /\ walk'.fetched = walk.fetched
        /\ walk'.total = walk.total
    BY <1>2, <2>1 DEF SomeWalks
  <2>3. Walked' = Walked /\ Listed' = Listed
    BY <1>1, <2>2 DEF Walked, Listed, RowsOf
  <2>4. walk.total <= walk.page * walk.perPage
    <3>1. PICK n \in Int : n = walk.page * walk.perPage
      BY <1>3
    <3> QED
      BY <1>3, <1>5, <3>1 DEF HasNextPage
  <2>5. TurnsFit'
    <3>1. walk'.stayed \subseteq Listed'
      BY <1>2, <2>2, <2>3 DEF TurnsFit
    <3>2. Cardinality(Listed') <= walk'.total + walk'.came
      BY <1>1, <1>2, <2>2, <2>3 DEF TurnsFit
    <3>3. walk'.fetched = TRUE /\ walk'.total # Unknown
      BY <1>1, <1>3, <2>2
    <3>4. walk'.total <= walk'.page * walk'.perPage
      BY <2>2, <2>4
    <3> QED
      BY <3>1, <3>2, <3>3, <3>4 DEF TurnsFit
  <2> QED
    BY <1>1, <2>2, <2>3, <2>5, CountingKeeps
<1> QED
  BY <1>4, <1>5

LEMMA LeaveKeeps == ListInv /\ Leave => ListInv'
BY DEF ListInv, TableFits, WalkFits, Leave

\* A step that leaves the table and the walk alone.
LEMMA CallsAside ==
    ASSUME ListInv, UNCHANGED <<row, walk>>, call' \in [Workers -> SomeCalls]
    PROVE  ListInv'
<1>1. /\ Listed' = Listed /\ Shown' = Shown /\ Repeats' = Repeats /\ Walked' = Walked
      /\ NewestFirst(row)' = NewestFirst(row) /\ ByTime(row)' = ByTime(row)
  BY DEF Listed, Shown, Repeats, NewestFirst, ByTime, RowsOf, Walked
<1>2. TurnsFit' = TurnsFit /\ SlipsFit' = SlipsFit /\ TiesFit' = TiesFit
  BY <1>1 DEF TurnsFit, SlipsFit, TiesFit
<1> QED
  BY <1>2 DEF ListInv, WalkFits, TableFits

LEMMA FindKeeps ==
    ASSUME ListInv, NEW w \in Workers, NEW i \in Keys, NEW out \in BOOLEAN, Find(w, i, out)
    PROVE  ListInv'
<1>1. /\ call' = [call EXCEPT ![w] = [op |-> "toggle", id |-> i, out |-> out]]
      /\ UNCHANGED <<row, walk>>
  BY DEF Find
<1>2. call' \in [Workers -> SomeCalls]
  BY <1>1 DEF ListInv, TableFits, SomeCalls
<1> QED
  BY <1>1, <1>2, CallsAside

-----------------------------------------------------------------------------
(* The table changes *)

AtMostOne(D) == \A i, j \in D : i = j

LEMMA OneMore ==
    ASSUME NEW U, IsFiniteSet(U), NEW D, AtMostOne(D), NEW V, V \subseteq U \cup D
    PROVE  Cardinality(V) <= Cardinality(U) + 1
<1>1. Cardinality(U) \in Nat
  BY FS_CardinalityType
<1>2. CASE D \subseteq U
  <2>1. V \subseteq U
    BY <1>2
  <2>2. Cardinality(V) <= Cardinality(U) /\ IsFiniteSet(V)
    BY <2>1, FS_Subset
  <2>3. Cardinality(V) \in Nat
    BY <2>2, FS_CardinalityType
  <2> QED
    BY <1>1, <2>2, <2>3
<1>3. CASE ~(D \subseteq U)
  <2>1. PICK d \in D : d \notin U
    BY <1>3
  <2>2. PICK T : T = U \cup {d}
    OBVIOUS
  <2>3. IsFiniteSet(T) /\ Cardinality(T) = Cardinality(U) + 1
    BY <2>1, <2>2, FS_AddElement
  <2>4. V \subseteq T
    BY <2>1, <2>2 DEF AtMostOne
  <2>5. Cardinality(V) <= Cardinality(T)
    BY <2>3, <2>4, FS_Subset
  <2> QED
    BY <2>3, <2>5
<1> QED
  BY <1>2, <1>3

\* What a row that comes or goes does to the rows not seen and those seen early.
LEMMA SlipsWhenOneComes ==
    ASSUME NEW kept, IsFiniteSet(kept), NEW met, IsFiniteSet(met),
           NEW A, NEW B, A \subseteq B, AtMostOne(B \ A),
           NEW repeats \in Int, NEW came \in Nat, NEW went \in Nat,
           SlipsWithin(kept, A, met, repeats, came, went)
    PROVE  SlipsWithin(kept, B, met, repeats, came + 1, went)
<1>1. /\ IsFiniteSet((kept \ A) \ met) /\ IsFiniteSet((kept \ B) \ met)
      /\ IsFiniteSet(A \cap met) /\ IsFiniteSet(B \cap met)
  <2>1. /\ (kept \ A) \ met \subseteq kept /\ (kept \ B) \ met \subseteq kept
        /\ A \cap met \subseteq met /\ B \cap met \subseteq met
    OBVIOUS
  <2> QED
    BY <2>1, FS_Subset
<1>2. (kept \ B) \ met \subseteq (kept \ A) \ met
  OBVIOUS
<1>3. B \cap met \subseteq (A \cap met) \cup (B \ A)
  OBVIOUS
<1>4. Cardinality((kept \ B) \ met) <= Cardinality((kept \ A) \ met)
  BY <1>1, <1>2, FS_Subset
<1>5. Cardinality(B \cap met) <= Cardinality(A \cap met) + 1
  BY <1>1, <1>3, OneMore
<1>6. PICK a, b, c, d \in Nat : /\ a = Cardinality((kept \ A) \ met)
                                /\ b = Cardinality((kept \ B) \ met)
                                /\ c = Cardinality(A \cap met)
                                /\ d = Cardinality(B \cap met)
  BY <1>1, FS_CardinalityType
<1>7. a <= went /\ repeats + c <= came /\ b <= a /\ d <= c + 1
  BY <1>4, <1>5, <1>6 DEF SlipsWithin
<1>8. b <= went /\ repeats + d <= came + 1
  BY <1>7
<1> QED
  BY <1>6, <1>8 DEF SlipsWithin

LEMMA SlipsWhenOneGoes ==
    ASSUME NEW kept, IsFiniteSet(kept), NEW met, IsFiniteSet(met), NEW M,
           NEW A, NEW B, B \subseteq A, AtMostOne(A \ B),
           NEW repeats \in Int, NEW came \in Nat, NEW went \in Nat,
           SlipsWithin(kept, A, met, repeats, came, went)
    PROVE  SlipsWithin(kept \cap M, B, met, repeats, came, went + 1)
<1>1. /\ IsFiniteSet((kept \ A) \ met) /\ IsFiniteSet(((kept \cap M) \ B) \ met)
      /\ IsFiniteSet(A \cap met) /\ IsFiniteSet(B \cap met)
  <2>1. /\ (kept \ A) \ met \subseteq kept /\ ((kept \cap M) \ B) \ met \subseteq kept
        /\ A \cap met \subseteq met /\ B \cap met \subseteq met
    OBVIOUS
  <2> QED
    BY <2>1, FS_Subset
<1>2. ((kept \cap M) \ B) \ met \subseteq ((kept \ A) \ met) \cup (A \ B)
  OBVIOUS
<1>3. B \cap met \subseteq A \cap met
  OBVIOUS
<1>4. Cardinality(((kept \cap M) \ B) \ met) <= Cardinality((kept \ A) \ met) + 1
  BY <1>1, <1>2, OneMore
<1>5. Cardinality(B \cap met) <= Cardinality(A \cap met)
  BY <1>1, <1>3, FS_Subset
<1>6. PICK a, b, c, d \in Nat : /\ a = Cardinality((kept \ A) \ met)
                                /\ b = Cardinality(((kept \cap M) \ B) \ met)
                                /\ c = Cardinality(A \cap met)
                                /\ d = Cardinality(B \cap met)
  BY <1>1, FS_CardinalityType
<1>7. a <= went /\ repeats + c <= came /\ b <= a + 1 /\ d <= c
  BY <1>4, <1>5, <1>6 DEF SlipsWithin
<1>8. b <= went + 1 /\ repeats + d <= came
  BY <1>7
<1> QED
  BY <1>6, <1>8 DEF SlipsWithin

\* Rows that keep their times keep their order.
LEMMA SameOrder ==
    ASSUME NEW table, NEW then, NEW S \in SUBSET Keys, NEW n,
           \A j \in S : then[j].created = table[j].created
    PROVE  /\ Beyond(NewestFirst(then), S, n) = Beyond(NewestFirst(table), S, n)
           /\ Beyond(ByTime(then), S, n) = Beyond(ByTime(table), S, n)
<1>1. \A x, y \in S : /\ <<x, y>> \in NewestFirst(then) <=> <<x, y>> \in NewestFirst(table)
                      /\ <<x, y>> \in ByTime(then) <=> <<x, y>> \in ByTime(table)
  BY DEF NewestFirst, ByTime
<1> QED
  BY <1>1, BeyondSame

\* The walk beside a change of its list.
LEMMA PutMoves ==
    ASSUME NEW i \in Keys, NEW r, Put(i, r), walk # NoWalk, walk \in SomeWalks,
           NEW old, old = Listed, NEW new, new = RowsOf(row', walk.list.shown)
    PROVE  /\ row' = [row EXCEPT ![i] = r]
           /\ walk' = [walk EXCEPT !.stayed = @ \cap new,
                                   !.came = @ + Cardinality(new \ old),
                                   !.went = @ + Cardinality(old \ new)]
           /\ walk' \in SomeWalks /\ walk' # NoWalk
           /\ walk'.list = walk.list /\ walk'.seen = walk.seen /\ walk'.at = walk.at
           /\ walk'.page = walk.page /\ walk'.perPage = walk.perPage
           /\ walk'.fetched = walk.fetched /\ walk'.total = walk.total
           /\ walk'.stayed = walk.stayed \cap new
           /\ walk'.came = walk.came + Cardinality(new \ old)
           /\ walk'.went = walk.went + Cardinality(old \ new)
           /\ Listed' = new /\ Walked' = Walked /\ Shown' = Shown /\ Repeats' = Repeats
<1>1. /\ row' = [row EXCEPT ![i] = r]
      /\ walk' = [walk EXCEPT !.stayed = @ \cap new,
                              !.came = @ + Cardinality(new \ old),
                              !.went = @ + Cardinality(old \ new)]
  BY DEF Put, Listed
<1>2. PICK c \in Nat, g \in Nat : c = Cardinality(new \ old) /\ g = Cardinality(old \ new)
  <2>1. /\ IsFiniteSet(old) /\ IsFiniteSet(new)
        /\ new \ old \subseteq new /\ old \ new \subseteq old
    BY RowsFinite DEF Listed
  <2>2. IsFiniteSet(new \ old) /\ IsFiniteSet(old \ new)
    BY <2>1, FS_Subset
  <2> QED
    BY <2>2, FS_CardinalityType
<1>3. walk.stayed \in SUBSET Keys /\ walk.came \in Nat /\ walk.went \in Nat
  BY DEF SomeWalks
<1>7. PICK t \in SUBSET Keys, m \in Nat, n \in Nat :
          /\ t = walk.stayed \cap new /\ m = walk.came + c /\ n = walk.went + g
  <2>1. /\ walk.stayed \cap new \in SUBSET Keys
        /\ walk.came + c \in Nat /\ walk.went + g \in Nat
    BY <1>3
  <2> QED
    BY <2>1
<1>8. walk' = [walk EXCEPT !.stayed = t, !.came = m, !.went = n]
  BY <1>1, <1>2, <1>7
<1>4. /\ walk' \in SomeWalks
      /\ walk'.list = walk.list /\ walk'.seen = walk.seen /\ walk'.at = walk.at
      /\ walk'.page = walk.page /\ walk'.perPage = walk.perPage
      /\ walk'.fetched = walk.fetched /\ walk'.total = walk.total
      /\ walk'.stayed = t /\ walk'.came = m /\ walk'.went = n
  BY <1>8 DEF SomeWalks
<1>5. walk' # NoWalk
  BY <1>4, WalkIs
<1>6. Listed' = new /\ Walked' = Walked /\ Shown' = Shown /\ Repeats' = Repeats
  <2>1. Listed' = RowsOf(row', walk.list.shown)
    BY <1>4 DEF Listed, RowsOf
  <2>2. Walked' = Walked
    BY <1>4 DEF Walked
  <2>3. Shown' = Shown /\ Repeats' = Repeats
    BY <1>4 DEF Shown, Repeats
  <2> QED
    BY <2>1, <2>2, <2>3
<1> QED
  BY <1>1, <1>2, <1>4, <1>5, <1>6, <1>7

LEMMA PutKeeps ==
    ASSUME ListInv, NEW i \in Keys, NEW r \in SomeRows,
           row[i].exists /\ r.exists => r.created = row[i].created,
           Put(i, r), call' \in [Workers -> SomeCalls]
    PROVE  ListInv'
<1>1. row \in [Keys -> SomeRows] /\ row' = [row EXCEPT ![i] = r]
  BY DEF ListInv, TableFits, Put
<1>2. TableFits'
  BY <1>1 DEF TableFits
<1>3. CASE walk = NoWalk
  BY <1>2, <1>3 DEF Put, ListInv, WalkFits
<1>4. CASE walk # NoWalk
  <2>1. walk \in SomeWalks /\ TurnsFit /\ SlipsFit /\ TiesFit
    BY <1>4 DEF ListInv, WalkFits
  <2>2. PICK old, new : old = Listed /\ new = RowsOf(row', walk.list.shown)
    OBVIOUS
  <2>3. /\ row' \in [Keys -> SomeRows]
        /\ \/ new = old
           \/ i \notin old /\ new = old \cup {i}
           \/ i \notin new /\ old = new \cup {i}
        /\ \A j \in old \cap new : row'[j].created = row[j].created
    <3>1. /\ row' \in [Keys -> SomeRows] /\ row'[i] = r
          /\ \A j \in Keys \ {i} : row'[j] = row[j]
      BY <1>1
    <3>2. new \ {i} = old \ {i} /\ new \subseteq Keys /\ old \subseteq Keys
      BY <2>2, <3>1 DEF Listed, RowsOf
    <3>3. ASSUME NEW j \in old \cap new
          PROVE  row'[j].created = row[j].created
      <4>1. CASE j = i
        BY <2>2, <3>1, <4>1 DEF Listed, RowsOf
      <4>2. CASE j # i
        BY <3>1, <3>2, <4>2
      <4> QED
        BY <4>1, <4>2
    <3>4. \/ new = old
          \/ i \notin old /\ new = old \cup {i}
          \/ i \notin new /\ old = new \cup {i}
      BY <3>2
    <3> QED
      BY <3>1, <3>3, <3>4
  <2>4. /\ walk' \in SomeWalks /\ walk' # NoWalk
        /\ walk'.list = walk.list /\ walk'.seen = walk.seen /\ walk'.at = walk.at
        /\ walk'.page = walk.page /\ walk'.perPage = walk.perPage
        /\ walk'.fetched = walk.fetched /\ walk'.total = walk.total
        /\ walk'.stayed = walk.stayed \cap new
        /\ walk'.came = walk.came + Cardinality(new \ old)
        /\ walk'.went = walk.went + Cardinality(old \ new)
        /\ Listed' = new /\ Walked' = Walked /\ Shown' = Shown /\ Repeats' = Repeats
    BY <1>4, <2>1, <2>2, PutMoves
  <2>5. /\ old \subseteq Keys /\ new \subseteq Keys
        /\ IsFiniteSet(old) /\ IsFiniteSet(new)
        /\ Cardinality(old) \in Nat /\ Cardinality(new) \in Nat
    BY <2>2, RowsFinite DEF Listed
  <2>6. /\ walk.stayed \subseteq old
        /\ walk.total # Unknown => Cardinality(old) <= walk.total + walk.came
    BY <2>1, <2>2 DEF TurnsFit
  <2>7. walk.came \in Nat /\ walk.went \in Nat /\ walk.total \in Int
    BY <2>1 DEF SomeWalks, Unknown
  <2>8. Walked \in Nat
    BY <2>1, WalkedFits
  <2>9. /\ IsFiniteSet(walk.stayed)
        /\ IsFiniteSet(Shown) /\ Repeats \in Int
    <3>1. walk.stayed \subseteq Keys /\ walk.seen \in Seq(Keys)
      BY <2>1 DEF SomeWalks
    <3>2. IsFiniteSet(Shown) /\ Cardinality(Shown) \in Nat /\ Len(walk.seen) \in Nat
      BY <3>1, ShownFits DEF Shown
    <3> QED
      BY <3>1, <3>2, KeysFit, FS_Subset DEF Repeats
  <2>10. /\ walk'.stayed \subseteq new
         /\ walk'.at = "end" => /\ walk'.fetched = TRUE /\ walk'.total # Unknown
                                /\ walk'.total <= walk'.page * walk'.perPage
    BY <2>1, <2>4 DEF TurnsFit
  <2>11. TurnsFit' /\ SlipsFit' /\ TiesFit'
    <3>1. CASE new = old
      <4>1. Cardinality(new \ old) = 0 /\ Cardinality(old \ new) = 0
        BY <3>1, FS_EmptySet
      <4>2. walk'.stayed = walk.stayed /\ walk'.came = walk.came /\ walk'.went = walk.went
        BY <2>4, <2>6, <2>7, <3>1, <4>1
      <4>3. \A j \in old : row'[j].created = row[j].created
        BY <2>3, <3>1
      <4>4. /\ Beyond(NewestFirst(row'), old, Walked) = Beyond(NewestFirst(row), old, Walked)
            /\ Beyond(ByTime(row'), old, Walked) = Beyond(ByTime(row), old, Walked)
        BY <2>5, <4>3, SameOrder
      <4>5. TurnsFit'
        BY <2>4, <2>6, <2>10, <3>1, <4>2 DEF TurnsFit
      <4>6. SlipsFit'
        BY <2>1, <2>2, <2>4, <3>1, <4>2, <4>4 DEF SlipsFit
      <4>7. TiesFit'
        BY <2>1, <2>2, <2>4, <3>1, <4>2, <4>3, <4>4 DEF TiesFit
      <4> QED
        BY <4>5, <4>6, <4>7
    <3>2. CASE i \notin old /\ new = old \cup {i}
      <4>1. new \ old = {i} /\ old \ new = {} /\ walk.stayed \cap new = walk.stayed
        BY <2>6, <3>2
      <4>2. walk'.came = walk.came + 1 /\ walk'.went = walk.went /\ walk'.stayed = walk.stayed
        <5>1. Cardinality(new \ old) = 1 /\ Cardinality(old \ new) = 0
          BY <4>1, FS_EmptySet, FS_Singleton
        <5> QED
          BY <2>4, <2>7, <4>1, <5>1
      <4>3. Cardinality(new) = Cardinality(old) + 1
        BY <2>5, <3>2, FS_AddElement
      <4>4. TurnsFit'
        <5>1. walk'.total # Unknown => Cardinality(new) <= walk'.total + walk'.came
          BY <2>4, <2>5, <2>6, <2>7, <4>2, <4>3
        <5> QED
          BY <2>4, <2>10, <5>1 DEF TurnsFit
      <4>5. PICK A, B : /\ A = Beyond(NewestFirst(row'), old, Walked)
                        /\ B = Beyond(NewestFirst(row'), new, Walked)
        OBVIOUS
      <4>6. A = Beyond(NewestFirst(row), old, Walked)
        BY <2>3, <2>5, <3>2, <4>5, SameOrder
      <4>7. A \subseteq B /\ AtMostOne(B \ A)
        <5>1. /\ Irreflexive(NewestFirst(row'), new) /\ Transitive(NewestFirst(row'), new)
              /\ Total(NewestFirst(row'), new)
          BY <2>2, <2>3, OrdersFit
        <5>2. /\ Beyond(NewestFirst(row'), old, Walked) \subseteq Beyond(NewestFirst(row'), new, Walked)
              /\ \A x, y \in Beyond(NewestFirst(row'), new, Walked)
                            \ Beyond(NewestFirst(row'), old, Walked) : x = y
          BY <2>5, <2>8, <3>2, <5>1, OneCrosses, ZenonT(30)
        <5> QED
          BY <4>5, <5>2 DEF AtMostOne
      <4>8. SlipsFit'
        <5> SUFFICES ASSUME walk.list.sort = "created_id"
                     PROVE  SlipsWithin(walk.stayed, B, Shown, Repeats, walk.came + 1, walk.went)
          BY <2>4, <4>2, <4>5 DEF SlipsFit
        <5>1. SlipsWithin(walk.stayed, A, Shown, Repeats, walk.came, walk.went)
          BY <2>1, <2>2, <4>6 DEF SlipsFit
        <5> QED
          BY <2>7, <2>9, <4>7, <5>1, SlipsWhenOneComes
      <4>9. TiesFit'
        BY <2>7, <4>2 DEF TiesFit
      <4> QED
        BY <4>4, <4>8, <4>9
    <3>3. CASE i \notin new /\ old = new \cup {i}
      <4>1. old \ new = {i} /\ new \ old = {}
        BY <3>3
      <4>2. walk'.came = walk.came /\ walk'.went = walk.went + 1
        <5>1. Cardinality(old \ new) = 1 /\ Cardinality(new \ old) = 0
          BY <4>1, FS_EmptySet, FS_Singleton
        <5> QED
          BY <2>4, <2>7, <5>1
      <4>3. Cardinality(old) = Cardinality(new) + 1
        BY <2>5, <3>3, FS_AddElement
      <4>4. TurnsFit'
        <5>1. walk'.total # Unknown => Cardinality(new) <= walk'.total + walk'.came
          BY <2>4, <2>5, <2>6, <2>7, <4>2, <4>3
        <5> QED
          BY <2>4, <2>10, <5>1 DEF TurnsFit
      <4>5. PICK A, B : /\ A = Beyond(NewestFirst(row), old, Walked)
                        /\ B = Beyond(NewestFirst(row), new, Walked)
        OBVIOUS
      <4>6. B = Beyond(NewestFirst(row'), new, Walked)
        BY <2>3, <2>5, <3>3, <4>5, SameOrder
      <4>7. B \subseteq A /\ AtMostOne(A \ B)
        <5>1. /\ Irreflexive(NewestFirst(row), old) /\ Transitive(NewestFirst(row), old)
              /\ Total(NewestFirst(row), old)
          BY <1>1, <2>2, OrdersFit DEF Listed
        <5>2. /\ Beyond(NewestFirst(row), new, Walked) \subseteq Beyond(NewestFirst(row), old, Walked)
              /\ \A x, y \in Beyond(NewestFirst(row), old, Walked)
                            \ Beyond(NewestFirst(row), new, Walked) : x = y
          BY <2>5, <2>8, <3>3, <5>1, OneCrosses, ZenonT(30)
        <5> QED
          BY <4>5, <5>2 DEF AtMostOne
      <4>8. SlipsFit'
        <5> SUFFICES ASSUME walk.list.sort = "created_id"
                     PROVE  SlipsWithin(walk.stayed \cap new, B, Shown, Repeats, walk.came, walk.went + 1)
          BY <2>4, <4>2, <4>6 DEF SlipsFit
        <5>1. SlipsWithin(walk.stayed, A, Shown, Repeats, walk.came, walk.went)
          BY <2>1, <2>2, <4>5 DEF SlipsFit
        <5> QED
          BY <2>7, <2>9, <4>7, <5>1, SlipsWhenOneGoes
      <4>9. TiesFit'
        BY <2>7, <4>2 DEF TiesFit
      <4> QED
        BY <4>4, <4>8, <4>9
    <3> QED
      BY <2>3, <3>1, <3>2, <3>3
  <2> QED
    BY <1>2, <2>4, <2>11 DEF ListInv, WalkFits
<1> QED
  BY <1>3, <1>4

-----------------------------------------------------------------------------
(* The rows of a page *)

LEMMA SmallerOfTwo ==
    ASSUME NEW x \in Int, NEW y \in Int
    PROVE  Min({x, y}) = IF x <= y THEN x ELSE y
<1> DEFINE least == IF x <= y THEN x ELSE y
<1>1. least \in {x, y} /\ \A e \in {x, y} : least <= e
  OBVIOUS
<1>2. \A d \in {x, y} : (\A e \in {x, y} : d <= e) => d = least
  OBVIOUS
<1> HIDE DEF least
<1>3. Min({x, y}) = CHOOSE d \in {x, y} : \A e \in {x, y} : d <= e
  BY DEF Min
<1> QED
  BY <1>1, <1>2, <1>3 DEF least

RowsIn(s) == {s[n] : n \in DOMAIN s}
Follows(t, s, l, u, c) == \A k \in 1 .. l + c : t[k] = IF k <= l THEN s[k] ELSE u[k - l]
Copies(u, c, a, skip) == \A i \in 1 .. c : u[i] = a[skip + i]

\* What is in a sequence of l members followed by c others.
LEMMA MembersJoin ==
    ASSUME NEW l \in Nat, NEW c \in Nat, NEW s, NEW u, NEW t, Follows(t, s, l, u, c)
    PROVE  Members(t, 1, l + c) = Members(s, 1, l) \cup Members(u, 1, c)
<1>1. ASSUME NEW k \in 1 .. l + c
      PROVE  (\E j \in 1 .. l : t[k] = s[j]) \/ (\E i \in 1 .. c : t[k] = u[i])
  <2>1. CASE k <= l
    <3>1. k \in 1 .. l /\ t[k] = s[k]
      BY <2>1 DEF Follows
    <3> QED
      BY <3>1
  <2>2. CASE k > l
    <3>1. k - l \in 1 .. c /\ t[k] = u[k - l]
      BY <2>2 DEF Follows
    <3> QED
      BY <3>1
  <2> QED
    BY <2>1, <2>2
<1>2. ASSUME NEW j \in 1 .. l
      PROVE  j \in 1 .. l + c /\ t[j] = s[j]
  <2>1. j \in 1 .. l + c /\ j <= l
    OBVIOUS
  <2> QED
    BY <2>1 DEF Follows
<1>3. ASSUME NEW i \in 1 .. c
      PROVE  \E k \in 1 .. l + c : t[k] = u[i]
  <2>1. l + i \in 1 .. l + c /\ ~(l + i <= l) /\ (l + i) - l = i
    OBVIOUS
  <2>2. t[l + i] = u[i]
    BY <2>1 DEF Follows
  <2> QED
    BY <2>1, <2>2
<1> QED
  BY <1>1, <1>2, <1>3 DEF Members

\* Members skip + 1 to skip + c of a list without repeats.
LEMMA MembersOfPage ==
    ASSUME NEW S, NEW n \in Nat, NEW a \in Injection(1 .. n, S),
           NEW skip \in Nat, NEW c \in Nat, skip + c <= n,
           NEW u, Copies(u, c, a, skip)
    PROVE  /\ Members(u, 1, c) = Members(a, skip + 1, skip + c)
           /\ Cardinality(Members(u, 1, c)) = c
<1> DEFINE F == Members(u, 1, c)
<1>1. Members(u, 1, c) = Members(a, skip + 1, skip + c)
  <2>1. ASSUME NEW x \in Members(a, skip + 1, skip + c)
        PROVE  x \in Members(u, 1, c)
    <3>1. PICK m \in skip + 1 .. skip + c : x = a[m]
      BY DEF Members
    <3>2. m - skip \in 1 .. c /\ skip + (m - skip) = m
      OBVIOUS
    <3> QED
      BY <3>1, <3>2 DEF Members, Copies
  <2>2. ASSUME NEW x \in Members(u, 1, c)
        PROVE  x \in Members(a, skip + 1, skip + c)
    <3>1. PICK i \in 1 .. c : x = u[i]
      BY DEF Members
    <3>2. skip + i \in skip + 1 .. skip + c
      OBVIOUS
    <3> QED
      BY <3>1, <3>2 DEF Members, Copies
  <2> QED
    BY <2>1, <2>2
<1>2. Cardinality(1 .. c) = c /\ IsFiniteSet(1 .. c)
  BY UpTo
<1> DEFINE f == [i \in 1 .. c |-> u[i]]
<1>3. ASSUME NEW i \in 1 .. c, NEW j \in 1 .. c, u[i] = u[j]
      PROVE  i = j
  <2>1. skip + i \in 1 .. n /\ skip + j \in 1 .. n
    OBVIOUS
  <2>2. a[skip + i] = a[skip + j]
    BY <1>3 DEF Copies
  <2>3. skip + i = skip + j
    BY <2>1, <2>2 DEF Injection, IsInjective
  <2> QED
    BY <2>3
<1>4. f \in [1 .. c -> F] /\ \A x \in F : \E i \in 1 .. c : f[i] = x
  BY DEF Members
<1>5. \A i, j \in 1 .. c : f[i] = f[j] => i = j
  BY <1>3
<1> HIDE DEF f, F
<1>6. f \in Bijection(1 .. c, F)
  BY <1>4, <1>5 DEF Bijection, Injection, Surjection, IsInjective
<1>7. Cardinality(F) = c
  BY <1>2, <1>6, FS_Bijection DEF ExistsBijection
<1> QED
  BY <1>1, <1>7 DEF F

\* The members of a page, taken from a list.
LEMMA PageOfList ==
    ASSUME NEW n \in Nat, NEW a, \A m \in 1 .. n : a[m] \in Keys,
           NEW skip \in Nat, NEW hi \in 0 .. n
    PROVE  \E c \in Nat : LET u == SubSeq(a, skip + 1, hi) IN
              /\ u \in Seq(Keys) /\ Len(u) = c /\ DOMAIN u = 1 .. c
              /\ \A i \in 1 .. c : u[i] = a[skip + i]
              /\ skip + 1 .. skip + c = skip + 1 .. hi
              /\ c > 0 => skip + c <= n
<1>1. PICK c \in Nat : c = IF skip + 1 <= hi THEN hi - (skip + 1) + 1 ELSE 0
  <2>1. skip + 1 <= hi => hi - (skip + 1) + 1 \in Nat
    OBVIOUS
  <2> QED
    BY <2>1
<1>2. PICK u : u = SubSeq(a, skip + 1, hi)
  OBVIOUS
<1>3. \A m \in skip + 1 .. hi : a[m] \in Keys
  OBVIOUS
<1>4. /\ u \in Seq(Keys)
      /\ Len(u) = IF skip + 1 <= hi THEN hi - (skip + 1) + 1 ELSE 0
      /\ \A i \in 1 .. hi - (skip + 1) + 1 : u[i] = a[skip + 1 + i - 1]
  BY <1>2, <1>3, SubSeqProperties
<1>5. \A i \in 1 .. c : i \in 1 .. hi - (skip + 1) + 1 /\ skip + 1 + i - 1 = skip + i
  BY <1>1
<1>6. u \in Seq(Keys) /\ Len(u) = c /\ DOMAIN u = 1 .. c
  BY <1>1, <1>4, LenProperties
<1>7. \A i \in 1 .. c : u[i] = a[skip + i]
  BY <1>4, <1>5
<1>8. /\ skip + 1 .. skip + c = skip + 1 .. hi
      /\ c > 0 => skip + c <= n
  BY <1>1
<1> QED
  BY <1>2, <1>6, <1>7, <1>8

Grown(t, s, F) == /\ t \in Seq(Keys) /\ RowsIn(t) = RowsIn(s) \cup F
                  /\ Len(t) = Len(s) + Cardinality(F)
WithRows(s, a, skip, hi) == s \o SubSeq(a, skip + 1, hi)

\* Rows skip + 1 to hi of a list without repeats are added to what was seen.
LEMMA SeenGrows ==
    ASSUME NEW s \in Seq(Keys), NEW n \in Nat, NEW a \in Injection(1 .. n, Keys),
           NEW skip \in Nat, NEW hi \in 0 .. n,
           NEW t, t = WithRows(s, a, skip, hi)
    PROVE  Grown(t, s, Members(a, skip + 1, hi))
<1>1. \A m \in 1 .. n : a[m] \in Keys
  BY DEF Injection
<1>2. PICK u : u = SubSeq(a, skip + 1, hi)
  OBVIOUS
<1>3. PICK c \in Nat :
          /\ u \in Seq(Keys) /\ Len(u) = c /\ DOMAIN u = 1 .. c
          /\ \A i \in 1 .. c : u[i] = a[skip + i]
          /\ skip + 1 .. skip + c = skip + 1 .. hi
          /\ c > 0 => skip + c <= n
  <2>1. \E c \in Nat : LET v == SubSeq(a, skip + 1, hi) IN
              /\ v \in Seq(Keys) /\ Len(v) = c /\ DOMAIN v = 1 .. c
              /\ \A i \in 1 .. c : v[i] = a[skip + i]
              /\ skip + 1 .. skip + c = skip + 1 .. hi
              /\ c > 0 => skip + c <= n
    BY <1>1, PageOfList
  <2> QED
    BY <1>2, <2>1
<1>4. Members(u, 1, c) = Members(a, skip + 1, hi) /\ Cardinality(Members(u, 1, c)) = c
  <2>1. CASE c > 0
    <3>1. /\ Members(u, 1, c) = Members(a, skip + 1, skip + c)
          /\ Cardinality(Members(u, 1, c)) = c
      <4>1. c > 0 => skip + c <= n
        BY <1>3
      <4>2. skip + c <= n /\ Copies(u, c, a, skip)
        BY <1>3, <2>1, <4>1 DEF Copies
      <4> QED
        BY <4>2, MembersOfPage
    <3>2. Members(a, skip + 1, skip + c) = Members(a, skip + 1, hi)
      BY <1>3 DEF Members
    <3> QED
      BY <3>1, <3>2
  <2>2. CASE c = 0
    <3>1. skip + 1 .. hi = {} /\ 1 .. c = {}
      BY <1>3, <2>2
    <3>2. Members(u, 1, c) = {} /\ Members(a, skip + 1, hi) = {}
      BY <3>1 DEF Members
    <3>3. Cardinality(Members(u, 1, c)) = 0
      BY <3>2, FS_EmptySet, Zenon
    <3> QED
      BY <2>2, <3>2, <3>3
  <2> QED
    BY <2>1, <2>2
<1>5. PICK l \in Nat : l = Len(s) /\ DOMAIN s = 1 .. l
  BY LenProperties
<1>6. /\ t \in Seq(Keys) /\ Len(t) = l + c
      /\ \A k \in 1 .. l + c : t[k] = IF k <= l THEN s[k] ELSE u[k - l]
  <2>1. t = s \o u
    BY <1>2 DEF WithRows
  <2>2. /\ s \o u \in Seq(Keys) /\ Len(s \o u) = Len(s) + Len(u)
        /\ \A k \in 1 .. Len(s) + Len(u) :
              (s \o u)[k] = IF k <= Len(s) THEN s[k] ELSE u[k - Len(s)]
    BY <1>3, ConcatProperties
  <2> QED
    BY <1>3, <1>5, <2>1, <2>2
<1>7. DOMAIN t = 1 .. l + c
  BY <1>6, LenProperties
<1>8. Members(t, 1, l + c) = Members(s, 1, l) \cup Members(u, 1, c)
  <2>1. Follows(t, s, l, u, c)
    BY <1>6 DEF Follows
  <2> QED
    BY <2>1, MembersJoin
<1>9. RowsIn(t) = Members(t, 1, l + c) /\ RowsIn(s) = Members(s, 1, l)
  BY <1>5, <1>7, Zenon DEF Members, RowsIn
<1> QED
  BY <1>4, <1>5, <1>6, <1>8, <1>9 DEF Grown

\* Repeats after a page of rows F.
LEMMA RepeatsGrow ==
    ASSUME NEW met, IsFiniteSet(met), NEW F, IsFiniteSet(F), NEW l \in Nat
    PROVE  (l + Cardinality(F)) - Cardinality(met \cup F)
                = (l - Cardinality(met)) + Cardinality(met \cap F)
<1>1. IsFiniteSet(met \cap F) /\ IsFiniteSet(met \cup F)
  <2>1. met \cap F \subseteq met
    OBVIOUS
  <2> QED
    BY <2>1, FS_Subset, FS_Union
<1>2. Cardinality(met \cup F) = Cardinality(met) + Cardinality(F) - Cardinality(met \cap F)
  BY FS_Union
<1>3. PICK a, b, c, d \in Nat : /\ a = Cardinality(met) /\ b = Cardinality(F)
                                /\ c = Cardinality(met \cap F)
                                /\ d = Cardinality(met \cup F)
  BY <1>1, FS_CardinalityType
<1>4. d = a + b - c
  BY <1>2, <1>3
<1>5. (l + b) - d = (l - a) + c
  BY <1>4
<1> QED
  BY <1>3, <1>5

Splits(A, B, F) == A = B \cup F /\ B \cap F = {}

\* The members of a list without repeats from place k + 1 on are those of a page
\* and those behind it.
LEMMA PageSplits ==
    ASSUME NEW n \in Nat, NEW a, \A l, m \in 1 .. n : l < m => a[l] # a[m],
           NEW k \in Nat, NEW p \in Nat, NEW hi, hi = IF k + p <= n THEN k + p ELSE n
    PROVE  Splits(Members(a, k + 1, n), Members(a, k + p + 1, n), Members(a, k + 1, hi))
<1> DEFINE A == Members(a, k + 1, n)
           B == Members(a, k + p + 1, n)
           F == Members(a, k + 1, hi)
<1>1. ASSUME NEW x \in A PROVE x \in B \/ x \in F
  <2>1. PICK m \in k + 1 .. n : x = a[m]
    BY DEF Members
  <2>2. m \in k + 1 .. hi \/ m \in k + p + 1 .. n
    OBVIOUS
  <2> QED
    BY <2>1, <2>2 DEF Members
<1>2. ASSUME NEW x \in B PROVE x \in A
  <2>1. PICK m \in k + p + 1 .. n : x = a[m]
    BY DEF Members
  <2>2. m \in k + 1 .. n
    OBVIOUS
  <2> QED
    BY <2>1, <2>2 DEF Members
<1>3. ASSUME NEW x \in F PROVE x \in A
  <2>1. PICK m \in k + 1 .. hi : x = a[m]
    BY DEF Members
  <2>2. m \in k + 1 .. n
    OBVIOUS
  <2> QED
    BY <2>1, <2>2 DEF Members
<1>4. ASSUME NEW x \in B, x \in F PROVE FALSE
  <2>1. PICK m \in k + p + 1 .. n : x = a[m]
    BY DEF Members
  <2>2. PICK l \in k + 1 .. hi : x = a[l]
    BY <1>4 DEF Members
  <2>3. l \in 1 .. n /\ m \in 1 .. n /\ l < m
    OBVIOUS
  <2> QED
    BY <2>1, <2>2, <2>3
<1> HIDE DEF A, B, F
<1>5. Splits(A, B, F)
  BY <1>1, <1>2, <1>3, <1>4 DEF Splits
<1> QED
  BY <1>5 DEF A, B, F

\* The rows beyond are those of the page and those beyond it.
LEMMA SlipsOfPage ==
    ASSUME NEW kept, IsFiniteSet(kept), NEW met, IsFiniteSet(met),
           NEW A, NEW B, NEW F, Splits(A, B, F),
           NEW repeats \in Int, NEW came \in Nat, NEW went \in Nat,
           SlipsWithin(kept, A, met, repeats, came, went)
    PROVE  SlipsWithin(kept, B, met \cup F, repeats + Cardinality(met \cap F), came, went)
<1>1. (kept \ B) \ (met \cup F) = (kept \ A) \ met
  BY DEF Splits
<1>2. PICK V, W : V = met \cap F /\ W = B \cap met
  OBVIOUS
<1>3. IsFiniteSet(V) /\ IsFiniteSet(W)
  <2>1. V \subseteq met /\ W \subseteq met
    BY <1>2
  <2> QED
    BY <2>1, FS_Subset
<1>4. V \cap W = {} /\ V \cup W = A \cap met /\ B \cap (met \cup F) = W
  BY <1>2 DEF Splits
<1>5. Cardinality(V \cup W) = Cardinality(V) + Cardinality(W) - Cardinality(V \cap W)
  BY <1>3, FS_Union
<1>6. Cardinality(V \cap W) = 0
  BY <1>4, FS_EmptySet, Zenon
<1>7. PICK v \in Nat, w \in Nat : v = Cardinality(V) /\ w = Cardinality(W)
  BY <1>3, FS_CardinalityType
<1>8. Cardinality(A \cap met) = v + w - 0
  BY <1>4, <1>5, <1>6, <1>7
<1>9. (repeats + v) + w <= came
  BY <1>8 DEF SlipsWithin
<1>10. (repeats + Cardinality(met \cap F)) + Cardinality(B \cap (met \cup F)) <= came
  BY <1>2, <1>4, <1>7, <1>9
<1>11. Cardinality((kept \ B) \ (met \cup F)) <= went
  BY <1>1 DEF SlipsWithin
<1> QED
  BY <1>10, <1>11 DEF SlipsWithin

\* The database returns each row of the list once.
LEMMA ArrangementFits ==
    ASSUME NEW S, IsFiniteSet(S), NEW n \in Nat, n = Cardinality(S), NEW order,
           NEW a \in Arrangements(S, order)
    PROVE  /\ a \in Injection(1 .. n, S) /\ Len(a) = n
           /\ \A x \in S : \E m \in 1 .. n : a[m] = x
           /\ \A l, m \in 1 .. n : l < m => a[l] # a[m] /\ ~SortsBefore(order, a[m], a[l])
<1>1. /\ a \in [1 .. n -> S] /\ DOMAIN a = 1 .. n
      /\ \A l, m \in 1 .. n : l < m => a[l] # a[m] /\ ~SortsBefore(order, a[m], a[l])
  BY DEF Arrangements
<1>2. a \in Injection(1 .. n, S)
  <2> SUFFICES ASSUME NEW i \in 1 .. n, NEW j \in 1 .. n, a[i] = a[j], i # j
               PROVE  FALSE
    BY <1>1 DEF Injection, IsInjective
  <2>1. i < j \/ j < i
    OBVIOUS
  <2> QED
    BY <1>1, <2>1
<1>3. Cardinality(1 .. n) = n /\ IsFiniteSet(1 .. n)
  BY UpTo
<1>4. a \in Surjection(1 .. n, S)
  BY <1>2, <1>3, FS_Injection
<1>5. Len(a) = n
  <2>1. a \in Seq(S)
    BY <1>1, SeqDef
  <2>2. PICK l \in Nat : l = Len(a) /\ DOMAIN a = 1 .. l
    BY <2>1, LenProperties
  <2>3. 1 .. l = 1 .. n
    BY <1>1, <2>2
  <2>4. Cardinality(1 .. l) = l
    BY UpTo
  <2> QED
    BY <1>3, <2>2, <2>3, <2>4
<1> QED
  BY <1>1, <1>2, <1>4, <1>5 DEF Surjection

\* What a page adds to the walk: members Walked + 1 to
\* PageEnd(n) of an arrangement a of
\* the n rows of the list.
Arranged(a, n) ==
    /\ n \in Nat /\ n = Cardinality(Listed) /\ a \in Injection(1 .. n, Listed)
    /\ \A x \in Listed : \E m \in 1 .. n : a[m] = x
    /\ \A l, m \in 1 .. n : l < m => a[l] # a[m] /\ ~SortsBefore(walk.list.sort, a[m], a[l])
PageEnd(n) == IF Walked + walk.perPage <= n THEN Walked + walk.perPage ELSE n
NextRows(a, n) == Members(a, Walked + 1, PageEnd(n))
PageAdds(F) ==
    /\ walk \in SomeWalks /\ walk' \in SomeWalks /\ walk.at = "page" /\ walk'.at = "page"
    /\ walk'.list = walk.list /\ walk'.perPage = walk.perPage
    /\ walk'.page = walk.page /\ walk'.fetched = TRUE
    /\ walk'.total = walk.total /\ walk'.stayed = walk.stayed
    /\ walk'.came = walk.came /\ walk'.went = walk.went
    /\ Walked' = Walked + walk.perPage
    /\ Shown' = Shown \cup F
    /\ Len(walk'.seen) = Len(walk.seen) + Cardinality(F)

LEMMA FetchMoves ==
    ASSUME ListInv, FetchRows
    PROVE  \E n, a :
              /\ Arranged(a, n)
              /\ PageAdds(NextRows(a, n))
<1>1. walk \in SomeWalks /\ walk.at = "page" /\ walk.fetched = FALSE
  <2>1. walk.at = "page" /\ walk # NoWalk /\ ~walk.fetched
    BY DEF FetchRows, NoWalk
  <2>2. walk \in SomeWalks
    BY <2>1 DEF ListInv, WalkFits
  <2>3. walk.fetched \in BOOLEAN
    BY <2>2 DEF SomeWalks
  <2> QED
    BY <2>1, <2>2, <2>3
<1>2. PICK k \in Nat, p \in Nat, g \in Nat \ {0} :
          k = Walked /\ p = walk.perPage /\ g = walk.page /\ k = p * (g - 1)
  <2>1. walk.perPage \in Nat /\ walk.page \in Nat \ {0} /\ Walked \in Nat
    BY <1>1, WalkedFits DEF SomeWalks
  <2>2. Walked = walk.perPage * (walk.page - 1)
    BY <1>1 DEF Walked
  <2> QED
    BY <2>1, <2>2
<1>3. PICK n \in Nat : n = Cardinality(Listed) /\ IsFiniteSet(Listed) /\ Listed \subseteq Keys
  BY RowsFinite DEF Listed
<1>4. PICK a \in Arrangements(Listed, walk.list.sort) :
          walk' = [walk EXCEPT !.fetched = TRUE,
              !.seen = @ \o SubSeq(a, ((walk.page - 1) * walk.perPage) + 1,
                          Min({((walk.page - 1) * walk.perPage) + walk.perPage, Len(a)}))]
  BY DEF FetchRows, Listed
<1>5. /\ a \in Injection(1 .. n, Listed) /\ Len(a) = n
      /\ \A x \in Listed : \E m \in 1 .. n : a[m] = x
      /\ \A l, m \in 1 .. n :
            l < m => a[l] # a[m] /\ ~SortsBefore(walk.list.sort, a[m], a[l])
  BY <1>3, ArrangementFits
<1>6. PICK hi \in 0 .. n : hi = IF k + p <= n THEN k + p ELSE n
  <2>1. (IF k + p <= n THEN k + p ELSE n) \in 0 .. n
    OBVIOUS
  <2> QED
    BY <2>1
<1>7. (walk.page - 1) * walk.perPage = k
  <2>1. (g - 1) * p = p * (g - 1)
    OBVIOUS
  <2> QED
    BY <1>2, <2>1
<1>8. Min({k + p, n}) = hi
  BY <1>6, SmallerOfTwo
<1>9. PICK t : t = WithRows(walk.seen, a, k, hi)
  OBVIOUS
<1>10. walk' = [walk EXCEPT !.fetched = TRUE, !.seen = t]
  BY <1>2, <1>4, <1>5, <1>7, <1>8, <1>9 DEF WithRows
<1>11. walk.seen \in Seq(Keys)
  BY <1>1 DEF SomeWalks
<1>12. a \in Injection(1 .. n, Keys)
  BY <1>3, <1>5 DEF Injection
<1>13. Grown(t, walk.seen, Members(a, k + 1, hi))
  BY <1>9, <1>11, <1>12, SeenGrows
<1>14. /\ walk' \in SomeWalks /\ walk'.at = "page" /\ walk'.seen = t
       /\ walk'.list = walk.list /\ walk'.perPage = walk.perPage
       /\ walk'.page = walk.page /\ walk'.fetched = TRUE
       /\ walk'.total = walk.total /\ walk'.stayed = walk.stayed
       /\ walk'.came = walk.came /\ walk'.went = walk.went
  <2>1. t \in Seq(Keys)
    BY <1>13 DEF Grown
  <2> QED
    BY <1>1, <1>10, <2>1 DEF SomeWalks
<1>15. Walked' = Walked + walk.perPage
  <2>1. Walked' = p * g
    BY <1>2, <1>14 DEF Walked
  <2>2. p * g = p * (g - 1) + p
    OBVIOUS
  <2> QED
    BY <1>2, <2>1, <2>2
<1>16. Shown' = Shown \cup Members(a, k + 1, hi)
  <2>1. Shown' = RowsIn(t) /\ Shown = RowsIn(walk.seen)
    BY <1>14 DEF Shown, RowsIn
  <2> QED
    BY <1>13, <2>1 DEF Grown
<1>17. Arranged(a, n)
  BY <1>3, <1>5 DEF Arranged
<1>18. PageAdds(Members(a, k + 1, hi))
  BY <1>1, <1>2, <1>13, <1>14, <1>15, <1>16 DEF PageAdds, Grown
<1>19. hi = PageEnd(n)
  BY <1>2, <1>6 DEF PageEnd
<1>20. Members(a, k + 1, hi) = NextRows(a, n)
  BY <1>2, <1>19 DEF NextRows
<1> QED
  BY <1>17, <1>18, <1>20

\* With a tie-breaker the page holds the next rows in order.
LEMMA FetchKeepsSlips ==
    ASSUME ListInv, UNCHANGED row, NEW n, NEW a, Arranged(a, n),
           NEW F, F = NextRows(a, n), PageAdds(F)
    PROVE  SlipsFit'
<1> SUFFICES ASSUME walk.list.sort = "created_id"
             PROVE  SlipsFit'
  BY DEF SlipsFit, PageAdds
<1>1. /\ n \in Nat /\ n = Cardinality(Listed) /\ a \in Injection(1 .. n, Listed)
      /\ \A l, m \in 1 .. n : l < m => a[l] # a[m] /\ ~SortsBefore("created_id", a[m], a[l])
  BY DEF Arranged
<1>2. /\ walk \in SomeWalks /\ walk # NoWalk /\ SlipsFit
      /\ walk.perPage \in Nat /\ walk.came \in Nat /\ walk.went \in Nat
      /\ walk.stayed \subseteq Keys /\ walk.seen \in Seq(Keys)
  <2>1. walk \in SomeWalks
    BY DEF PageAdds
  <2> QED
    BY <2>1, WalkIs DEF ListInv, WalkFits, SomeWalks
<1>3. PICK k \in Nat, p \in Nat : k = Walked /\ p = walk.perPage
  BY <1>2, WalkedFits
<1>4. PICK L : L = Listed /\ L \subseteq Keys /\ IsFiniteSet(L)
  BY RowsFinite DEF Listed
<1>5. PICK R : /\ R = NewestFirst(row)
               /\ Irreflexive(R, L) /\ Transitive(R, L) /\ Total(R, L)
  <2>1. row \in [Keys -> SomeRows]
    BY DEF ListInv, TableFits
  <2> QED
    BY <1>4, <2>1, OrdersFit DEF Listed
<1>6. a \in [1 .. n -> L] /\ Sorted(a, R)
  <2>1. a \in [1 .. n -> L] /\ DOMAIN a = 1 .. n
    BY <1>1, <1>4 DEF Injection
  <2>2. ASSUME NEW l \in 1 .. n, NEW m \in 1 .. n, l < m
        PROVE  <<a[l], a[m]>> \in R
    <3>1. PICK i \in L, j \in L : i = a[l] /\ j = a[m]
      BY <2>1
    <3>2. i # j /\ ~SortsBefore("created_id", j, i)
      BY <1>1, <2>2, <3>1
    <3>3. <<j, i>> \notin R
      BY <1>5, <3>2 DEF SortsBefore, NewestFirst
    <3> QED
      BY <1>5, <3>1, <3>2, <3>3 DEF Total
  <2> QED
    BY <2>1, <2>2 DEF Sorted
<1>7. PICK A, B : A = Beyond(R, L, k) /\ B = Beyond(R, L, k + p)
  OBVIOUS
<1>8. A = Members(a, k + 1, n) /\ B = Members(a, k + p + 1, n)
  <2>1. k + p \in Nat
    OBVIOUS
  <2>2. Beyond(R, L, k) = Members(a, k + 1, n)
    BY <1>1, <1>4, <1>5, <1>6, BeyondInList
  <2>3. Beyond(R, L, k + p) = Members(a, k + p + 1, n)
    BY <1>1, <1>4, <1>5, <1>6, <2>1, BeyondInList
  <2> QED
    BY <1>7, <2>2, <2>3
<1>10. Splits(A, B, F)
  <2>1. PICK hi : F = Members(a, k + 1, hi) /\ hi = IF k + p <= n THEN k + p ELSE n
    BY <1>3 DEF PageEnd, NextRows
  <2>2. \A l, m \in 1 .. n : l < m => a[l] # a[m]
    BY <1>1
  <2>3. Splits(Members(a, k + 1, n), Members(a, k + p + 1, n), Members(a, k + 1, hi))
    BY <1>1, <2>1, <2>2, PageSplits
  <2> QED
    BY <1>8, <2>1, <2>3
<1>12. IsFiniteSet(F)
  <2>1. F \subseteq L
    BY <1>4, <1>7, <1>10, BeyondFits DEF Splits
  <2> QED
    BY <1>4, <2>1, FS_Subset
<1>13. IsFiniteSet(Shown) /\ IsFiniteSet(walk.stayed) /\ Cardinality(Shown) \in Nat
       /\ Len(walk.seen) \in Nat
  <2>1. IsFiniteSet(walk.stayed)
    BY <1>2, KeysFit, FS_Subset
  <2>2. IsFiniteSet(Shown) /\ Cardinality(Shown) \in Nat /\ Len(walk.seen) \in Nat
    BY <1>2, ShownFits DEF Shown
  <2> QED
    BY <2>1, <2>2
<1>14. SlipsWithin(walk.stayed, A, Shown, Repeats, walk.came, walk.went)
  BY <1>2, <1>3, <1>4, <1>5, <1>7 DEF SlipsFit
<1>15. Repeats \in Int
  <2>1. PICK i \in Nat, j \in Nat : i = Len(walk.seen) /\ j = Cardinality(Shown)
    BY <1>13
  <2> QED
    BY <2>1 DEF Repeats
<1>16. SlipsWithin(walk.stayed, B, Shown \cup F, Repeats + Cardinality(Shown \cap F),
                   walk.came, walk.went)
  BY <1>2, <1>10, <1>13, <1>14, <1>15, SlipsOfPage
<1>17. Repeats' = Repeats + Cardinality(Shown \cap F)
  <2>1. PICK l \in Nat : l = Len(walk.seen)
    BY <1>13
  <2>2. (l + Cardinality(F)) - Cardinality(Shown \cup F)
          = (l - Cardinality(Shown)) + Cardinality(Shown \cap F)
    BY <1>12, <1>13, RepeatsGrow
  <2>3. Shown' = Shown \cup F /\ Len(walk'.seen) = l + Cardinality(F)
    BY <2>1 DEF PageAdds
  <2>4. Repeats' = (l + Cardinality(F)) - Cardinality(Shown \cup F)
    BY <2>3, Zenon DEF Repeats
  <2> QED
    BY <2>1, <2>2, <2>4 DEF Repeats
<1>18. Beyond(NewestFirst(row), Listed, Walked)' = B
  <2>1. Walked' = k + p
    BY <1>3 DEF PageAdds
  <2>2. Listed' = L
    BY <1>4 DEF PageAdds, Listed, RowsOf
  <2>3. NewestFirst(row)' = R
    BY <1>5 DEF NewestFirst
  <2> QED
    BY <1>7, <2>1, <2>2, <2>3
<1>19. /\ walk'.stayed = walk.stayed /\ walk'.came = walk.came /\ walk'.went = walk.went
       /\ Shown' = Shown \cup F
  BY DEF PageAdds
<1> QED
  BY <1>16, <1>17, <1>18, <1>19, Zenon DEF SlipsFit

\* Without a tie-breaker the page holds the next rows among those with a time of
\* their own.
LEMMA FetchKeepsTies ==
    ASSUME ListInv, UNCHANGED row, NEW n, NEW a, Arranged(a, n),
           NEW F, F = NextRows(a, n), PageAdds(F)
    PROVE  TiesFit'
<1>1. /\ walk'.list = walk.list /\ walk'.stayed = walk.stayed /\ walk'.came = walk.came
      /\ walk'.went = walk.went /\ Shown' = Shown \cup F /\ Walked' = Walked + walk.perPage
      /\ Listed' = Listed
  <2>1. walk'.list = walk.list
    BY DEF PageAdds
  <2> QED
    BY <2>1 DEF PageAdds, Listed, RowsOf
<1>2. walk \in SomeWalks /\ walk # NoWalk /\ TiesFit /\ walk.perPage \in Nat
  <2>1. walk \in SomeWalks
    BY DEF PageAdds
  <2> QED
    BY <2>1, WalkIs DEF ListInv, WalkFits, SomeWalks
<1>3. PICK k \in Nat, p \in Nat : k = Walked /\ p = walk.perPage
  BY <1>2, WalkedFits
<1>4. PICK L : L = Listed /\ L \subseteq Keys /\ IsFiniteSet(L)
  BY RowsFinite DEF Listed
<1>5. /\ n \in Nat /\ n = Cardinality(L) /\ a \in Injection(1 .. n, L)
      /\ \A x \in L : \E m \in 1 .. n : a[m] = x
      /\ \A l, m \in 1 .. n : l < m => a[l] # a[m] /\ ~SortsBefore(walk.list.sort, a[m], a[l])
  BY <1>4 DEF Arranged
<1>6. \A m \in 1 .. n : a[m] \in L
  BY <1>5 DEF Injection
<1>7. /\ \A j \in L : row[j].created \in Nat
      /\ Irreflexive(ByTime(row), L)
  <2>1. row \in [Keys -> SomeRows]
    BY DEF ListInv, TableFits
  <2>2. \A j \in L : j \in Keys /\ row[j].exists
    BY <1>4 DEF Listed, RowsOf
  <2>3. \A j \in L : row[j].created \in Nat
    BY <2>1, <2>2, RowsAre
  <2> QED
    BY <1>4, <2>1, <2>3, OrdersFit DEF Listed
<1>8. ASSUME walk.list.sort = "created", walk.came + walk.went = 0,
             NEW i \in L, i \notin Beyond(ByTime(row), L, k + p),
             \A j \in L \ {i} : row[j].created # row[i].created
      PROVE  i \in Shown \cup F
  <2>1. PICK m \in 1 .. n : a[m] = i
    BY <1>5
  <2>2. ASSUME NEW l \in 1 .. n
        PROVE  l < m <=> <<a[l], a[m]>> \in ByTime(row)
    <3>1. PICK j \in L : j = a[l]
      BY <1>6
    <3>2. PICK s \in Nat, t \in Nat : s = row[j].created /\ t = row[i].created
      BY <1>7
    <3>3. <<j, i>> \in ByTime(row) <=> s > t
      BY <1>4, <3>2 DEF ByTime
    <3>4. j # i => s # t
      BY <1>8, <3>2
    <3>5. l < m => j # i /\ ~(t > s)
      BY <1>5, <1>8, <2>1, <3>1, <3>2 DEF SortsBefore
    <3>6. m < l => ~(s > t)
      BY <1>5, <1>8, <2>1, <3>1, <3>2 DEF SortsBefore
    <3>7. l = m => j = i
      BY <2>1, <3>1
    <3>8. l < m => s > t
      BY <3>4, <3>5
    <3>9. ~(l < m) => ~(s > t)
      <4>1. ~(l < m) => l = m \/ m < l
        OBVIOUS
      <4>2. l = m => ~(s > t)
        BY <3>2, <3>7
      <4> QED
        BY <3>6, <4>1, <4>2
    <3>10. l < m <=> s > t
      BY <3>8, <3>9
    <3> QED
      BY <2>1, <3>1, <3>3, <3>10
  <2>3. Cardinality(Ahead(ByTime(row), L, i)) = m - 1
    <3>1. InPlace(a, n, m, ByTime(row))
      BY <2>2 DEF InPlace
    <3>2. Cardinality(Ahead(ByTime(row), L, a[m])) = m - 1
      BY <1>4, <1>5, <3>1, PlaceInList
    <3> QED
      BY <2>1, <3>2
  <2>4. m - 1 < k + p
    BY <1>8, <2>3 DEF Beyond
  <2>5. CASE m - 1 < k
    <3>1. i \notin Beyond(ByTime(row), L, k)
      BY <2>3, <2>5 DEF Beyond
    <3>2. i \in Shown
      BY <1>2, <1>3, <1>4, <1>8, <3>1 DEF TiesFit
    <3> QED
      BY <3>2
  <2>6. CASE m - 1 >= k
    <3>1. PICK hi : F = Members(a, k + 1, hi) /\ hi = IF k + p <= n THEN k + p ELSE n
      BY <1>3 DEF PageEnd, NextRows
    <3>2. m \in k + 1 .. hi
      BY <1>5, <2>4, <2>6, <3>1
    <3> QED
      BY <2>1, <3>1, <3>2 DEF Members
  <2> QED
    BY <2>5, <2>6
<1>9. Beyond(ByTime(row), Listed, Walked)' = Beyond(ByTime(row), L, k + p)
  <2>1. ByTime(row)' = ByTime(row)
    BY DEF ByTime
  <2> QED
    BY <1>1, <1>3, <1>4, <2>1
<1>10. \A j : row'[j] = row[j]
  OBVIOUS
<1> SUFFICES ASSUME walk.list.sort = "created", walk.came + walk.went = 0
             PROVE  /\ walk.stayed = Listed
                    /\ \A i \in L \ Beyond(ByTime(row), L, k + p) :
                          i \in Shown \cup F \/ \E j \in L \ {i} : row[j].created = row[i].created
  BY <1>1, <1>4, <1>9, <1>10 DEF TiesFit
<1>11. walk.stayed = Listed
  BY <1>2 DEF TiesFit
<1> QED
  BY <1>8, <1>11

LEMMA FetchRowsKeeps == ListInv /\ FetchRows => ListInv'
<1> SUFFICES ASSUME ListInv, FetchRows PROVE ListInv'
  OBVIOUS
<1>1. UNCHANGED <<row, call>>
  BY DEF FetchRows
<1>2. PICK n, a : Arranged(a, n) /\ PageAdds(NextRows(a, n))
  BY FetchMoves
<1>3. SlipsFit' /\ TiesFit'
  BY <1>1, <1>2, FetchKeepsSlips, FetchKeepsTies
<1>4. walk \in SomeWalks /\ walk # NoWalk /\ walk' \in SomeWalks /\ walk' # NoWalk
  BY <1>2, WalkIs DEF PageAdds
<1>5. TurnsFit'
  <2>1. /\ walk'.list = walk.list /\ walk'.stayed = walk.stayed /\ walk'.came = walk.came
        /\ walk'.total = walk.total /\ walk'.at = "page"
    BY <1>2 DEF PageAdds
  <2>2. Listed' = Listed
    BY <1>1, <2>1 DEF Listed, RowsOf
  <2>3. TurnsFit
    BY <1>4 DEF ListInv, WalkFits
  <2> QED
    BY <2>1, <2>2, <2>3 DEF TurnsFit
<1> QED
  BY <1>1, <1>3, <1>4, <1>5 DEF ListInv, WalkFits, TableFits

-----------------------------------------------------------------------------
(* What a walk by page number has shown, after each step *)

LEMMA CreateRowKeeps ==
    ASSUME ListInv, NEW i \in Keys, NEW t \in Moments, CreateRow(i, t)
    PROVE  ListInv'
<1>1. row[i] = NotYet /\ Put(i, NewRow(t, FALSE)) /\ call' = call
  BY DEF CreateRow
<1>2. NewRow(t, FALSE) \in SomeRows
  BY ListsAssumption DEF NewRow, SomeRows
<1>3. ~row[i].exists
  BY <1>1 DEF NotYet
<1>4. call' \in [Workers -> SomeCalls]
  BY <1>1 DEF ListInv, TableFits
<1> QED
  BY <1>1, <1>2, <1>3, <1>4, PutKeeps

LEMMA HideKeeps ==
    ASSUME ListInv, NEW i \in Keys, row[i].exists, NEW out \in BOOLEAN,
           Put(i, [row[i] EXCEPT !.out = out]), call' \in [Workers -> SomeCalls]
    PROVE  ListInv'
<1>1. row[i] \in [exists: {TRUE}, created: Nat, out: BOOLEAN]
  BY RowsAre DEF ListInv, TableFits
<1>2. PICK r : r = [row[i] EXCEPT !.out = out]
  OBVIOUS
<1>3. r \in SomeRows /\ r.created = row[i].created
  BY <1>1, <1>2 DEF SomeRows
<1> QED
  BY <1>2, <1>3, PutKeeps

LEMMA UpdateKeeps ==
    ASSUME ListInv, NEW i \in Keys, Update(i)
    PROVE  ListInv'
<1>1. row[i].exists /\ Put(i, [row[i] EXCEPT !.out = ~row[i].out]) /\ call' = call
  BY DEF Update
<1>2. (~row[i].out) \in BOOLEAN
  OBVIOUS
<1>3. call' \in [Workers -> SomeCalls]
  BY <1>1 DEF ListInv, TableFits
<1> QED
  BY <1>1, <1>2, <1>3, HideKeeps

LEMMA ForceDeleteKeeps ==
    ASSUME ListInv, NEW i \in Keys, ForceDelete(i)
    PROVE  ListInv'
<1>1. Put(i, Gone) /\ call' = call
  BY DEF ForceDelete
<1>2. Gone \in SomeRows /\ ~Gone.exists
  BY DEF Gone, SomeRows
<1>3. call' \in [Workers -> SomeCalls]
  BY <1>1 DEF ListInv, TableFits
<1> QED
  BY <1>1, <1>2, <1>3, PutKeeps

LEMMA ToggleKeeps ==
    ASSUME ListInv, NEW w \in Workers, Toggle(w)
    PROVE  ListInv'
<1>1. /\ call \in [Workers -> SomeCalls] /\ call[w] # NoCall
      /\ call' = [call EXCEPT ![w] = NoCall]
  BY DEF Toggle, ListInv, TableFits
<1>2. call[w].id \in Keys /\ call[w].out \in BOOLEAN
  BY <1>1 DEF SomeCalls
<1>3. call' \in [Workers -> SomeCalls]
  BY <1>1 DEF SomeCalls
<1>4. CASE row[call[w].id].exists
  <2>1. Put(call[w].id, [row[call[w].id] EXCEPT !.out = call[w].out])
    BY <1>4 DEF Toggle
  <2> QED
    BY <1>2, <1>3, <1>4, <2>1, HideKeeps
<1>5. CASE ~row[call[w].id].exists
  <2>1. UNCHANGED <<row, walk>>
    BY <1>5 DEF Toggle
  <2> QED
    BY <1>3, <2>1, CallsAside
<1> QED
  BY <1>4, <1>5

LEMMA ListNextKeeps == ListInv /\ [ListNext]_listVars => ListInv'
<1> SUFFICES ASSUME ListInv, [ListNext]_listVars PROVE ListInv'
  OBVIOUS
<1>1. CASE UNCHANGED listVars
  <2>1. UNCHANGED <<row, walk>> /\ call' \in [Workers -> SomeCalls]
    BY <1>1 DEF listVars, ListInv, TableFits
  <2> QED
    BY <2>1, CallsAside
<1>2. ASSUME NEW list \in Paged, Begin(list, PageSize) PROVE ListInv'
  BY <1>2, ListsFit, KeysFit, BeginKeeps
<1>3. ASSUME NEW list \in Whole, Begin(list, Cardinality(Keys)) PROVE ListInv'
  BY <1>3, ListsFit, KeysFit, FS_CardinalityType, BeginKeeps
<1>4. CASE FetchRows
  BY <1>4, FetchRowsKeeps
<1>5. CASE FetchTotal
  BY <1>5, FetchTotalKeeps
<1>6. CASE TurnPage
  BY <1>6, TurnPageKeeps
<1>7. CASE Leave
  BY <1>7, LeaveKeeps
<1>8. ASSUME NEW i \in Keys, NEW t \in Moments, CreateRow(i, t) PROVE ListInv'
  BY <1>8, CreateRowKeeps
<1>9. ASSUME NEW i \in Keys, Update(i) \/ ForceDelete(i) PROVE ListInv'
  BY <1>9, UpdateKeeps, ForceDeleteKeeps
<1>10. ASSUME NEW w \in Workers, NEW i \in Keys, SoftDeleteRow(w, i) \/ RestoreRow(w, i)
       PROVE  ListInv'
  BY <1>10, FindKeeps DEF SoftDeleteRow, RestoreRow
<1>11. ASSUME NEW w \in Workers, Toggle(w) PROVE ListInv'
  BY <1>11, ToggleKeeps
<1> QED
  BY <1>1, <1>2, <1>3, <1>4, <1>5, <1>6, <1>7, <1>8, <1>9, <1>10, <1>11 DEF ListNext

LEMMA AlwaysListInv == ListSpec => []ListInv
<1>1. ListInit => ListInv
  BY ListBegins
<1>2. ListInv /\ [ListNext]_listVars => ListInv'
  BY ListNextKeeps
<1> QED
  BY <1>1, <1>2, PTL DEF ListSpec

-----------------------------------------------------------------------------
(* What a walk shows *)

\* At the end nothing is beyond the places walked but rows that came unnoticed.
LEMMA EndOfWalk ==
    ASSUME ListInv, walk.at = "end"
    PROVE  /\ walk \in SomeWalks /\ TurnsFit /\ SlipsFit /\ TiesFit
           /\ Walked \in Nat /\ Cardinality(Listed) \in Nat
           /\ Cardinality(Listed) <= Walked + walk.came
<1>1. walk # NoWalk
  BY DEF NoWalk
<1>2. walk \in SomeWalks /\ TurnsFit /\ SlipsFit /\ TiesFit
  BY <1>1 DEF ListInv, WalkFits
<1>3. Cardinality(Listed) \in Nat
  BY RowsFinite DEF Listed
<1>4. /\ walk.page \in Nat /\ walk.perPage \in Nat /\ walk.came \in Nat
      /\ walk.fetched = TRUE /\ walk.total \in Nat
  BY <1>2 DEF SomeWalks, TurnsFit
<1>5. PICK g \in Nat, p \in Nat, c \in Nat, t \in Nat, n \in Nat :
          /\ g = walk.page /\ p = walk.perPage /\ c = walk.came /\ t = walk.total
          /\ n = Cardinality(Listed)
  BY <1>3, <1>4
<1>6. PICK q \in Nat : q = g * p /\ q = p * g
  <2>1. g * p \in Nat /\ g * p = p * g
    OBVIOUS
  <2> QED
    BY <2>1
<1>7. Walked = q
  BY <1>4, <1>5, <1>6 DEF Walked
<1>8. n <= t + c /\ t <= q
  BY <1>2, <1>5, <1>6 DEF TurnsFit
<1>9. n <= q + c
  BY <1>8
<1> QED
  BY <1>2, <1>3, <1>5, <1>7, <1>9

LEMMA SlipsAtEnd == ListInv => SlipsBounded
<1> SUFFICES ASSUME ListInv, Ended("created_id")
             PROVE  Cardinality(Missed) <= walk.came + walk.went /\ Repeats <= walk.came
  BY DEF SlipsBounded
<1>1. walk.at = "end" /\ walk.list.sort = "created_id"
  BY DEF Ended
<1>2. /\ walk \in SomeWalks /\ SlipsFit /\ Walked \in Nat
      /\ Cardinality(Listed) <= Walked + walk.came
  BY <1>1, EndOfWalk
<1>3. PICK c \in Nat, g \in Nat, k \in Nat : c = walk.came /\ g = walk.went /\ k = Walked
  BY <1>2 DEF SomeWalks
<1>4. walk.stayed \in SUBSET Keys /\ walk.seen \in Seq(Keys)
  BY <1>2 DEF SomeWalks
<1>5. PICK L, R : L = Listed /\ R = NewestFirst(row)
  OBVIOUS
<1>6. /\ IsFiniteSet(L) /\ Cardinality(L) \in Nat
      /\ Irreflexive(R, L) /\ Transitive(R, L) /\ Total(R, L)
  <2>1. row \in [Keys -> SomeRows]
    BY DEF ListInv, TableFits
  <2> QED
    BY <1>5, <2>1, RowsFinite, OrdersFit DEF Listed
<1>7. PICK B : B = Beyond(R, L, k)
  OBVIOUS
<1>8. IsFiniteSet(B) /\ Cardinality(B) \in Nat
  BY <1>6, <1>7, BeyondFits, FS_CardinalityType
<1>9. Cardinality(B) <= c
  <2>1. B = {} \/ Cardinality(B) + k <= Cardinality(L)
    BY <1>3, <1>6, <1>7, BeyondCount
  <2>2. CASE B = {}
    <3>1. Cardinality(B) = 0
      BY <2>2, FS_EmptySet, Zenon
    <3> QED
      BY <3>1
  <2>3. CASE Cardinality(B) + k <= Cardinality(L)
    <3>1. PICK b \in Nat, n \in Nat : b = Cardinality(B) /\ n = Cardinality(L)
      BY <1>6, <1>8
    <3>2. b + k <= n /\ n <= k + c
      BY <1>2, <1>3, <1>5, <2>3, <3>1
    <3>3. b <= c
      BY <3>2
    <3> QED
      BY <3>1, <3>3
  <2> QED
    BY <2>1, <2>2, <2>3
<1>10. SlipsWithin(walk.stayed, B, Shown, Repeats, c, g)
  BY <1>1, <1>2, <1>3, <1>5, <1>7 DEF SlipsFit
<1>11. IsFiniteSet(Shown) /\ Cardinality(Shown) \in Nat /\ Len(walk.seen) \in Nat
  BY <1>4, ShownFits DEF Shown
<1>12. Cardinality(Missed) <= c + g
  <2>1. PICK U, M : U = (walk.stayed \ B) \ Shown /\ M = walk.stayed \ Shown
    OBVIOUS
  <2>2. IsFiniteSet(U)
    <3>1. U \subseteq Keys
      BY <1>4, <2>1
    <3> QED
      BY <3>1, KeysFit, FS_Subset
  <2>3. M \subseteq U \cup B
    BY <2>1
  <2>4. /\ IsFiniteSet(U \cup B) /\ IsFiniteSet(U \cap B)
        /\ Cardinality(U \cup B) = Cardinality(U) + Cardinality(B) - Cardinality(U \cap B)
    <3>1. U \cap B \subseteq U
      OBVIOUS
    <3> QED
      BY <1>8, <2>2, <3>1, FS_Union, FS_Subset
  <2>5. Cardinality(M) <= Cardinality(U \cup B) /\ IsFiniteSet(M)
    BY <2>3, <2>4, FS_Subset
  <2>6. PICK u, b, i, j, m \in Nat : /\ u = Cardinality(U) /\ b = Cardinality(B)
                                    /\ i = Cardinality(U \cap B) /\ j = Cardinality(U \cup B)
                                    /\ m = Cardinality(M)
    BY <1>8, <2>2, <2>4, <2>5, FS_CardinalityType
  <2>7. j = u + b - i /\ m <= j /\ u <= g /\ b <= c
    BY <1>9, <1>10, <2>1, <2>4, <2>5, <2>6 DEF SlipsWithin
  <2>8. m <= c + g
    BY <2>7
  <2>9. Missed = M
    BY <2>1 DEF Missed
  <2> QED
    BY <2>6, <2>8, <2>9
<1>13. Repeats <= c
  <2>1. IsFiniteSet(B \cap Shown)
    <3>1. B \cap Shown \subseteq Shown
      OBVIOUS
    <3> QED
      BY <1>11, <3>1, FS_Subset
  <2>2. PICK d \in Nat : d = Cardinality(B \cap Shown)
    BY <2>1, FS_CardinalityType
  <2>3. PICK r \in Int : r = Repeats
    BY <1>11 DEF Repeats
  <2>4. r + d <= c
    BY <1>10, <2>2, <2>3 DEF SlipsWithin
  <2>5. r <= c
    BY <2>4
  <2> QED
    BY <2>3, <2>5
<1> QED
  BY <1>3, <1>12, <1>13

LEMMA TiesAtEnd == ListInv => OnlyTiesSlip
<1> SUFFICES ASSUME ListInv, Ended("created"), walk.came + walk.went = 0, NEW i \in Missed
             PROVE  \E j \in walk.stayed \ {i} : row[j].created = row[i].created
  BY DEF OnlyTiesSlip
<1>1. walk.at = "end" /\ walk.list.sort = "created"
  BY DEF Ended
<1>2. /\ walk \in SomeWalks /\ TiesFit /\ Walked \in Nat
      /\ Cardinality(Listed) \in Nat /\ Cardinality(Listed) <= Walked + walk.came
  BY <1>1, EndOfWalk
<1>3. Cardinality(Listed) <= Walked
  <2>1. walk.came \in Nat /\ walk.went \in Nat
    BY <1>2 DEF SomeWalks
  <2>2. walk.came = 0
    BY <2>1
  <2> QED
    BY <1>2, <2>2
<1>4. i \in Listed /\ i \notin Shown
  BY <1>1, <1>2 DEF TiesFit, Missed
<1>5. i \notin Beyond(ByTime(row), Listed, Walked)
  <2>1. Irreflexive(ByTime(row), Listed) /\ IsFiniteSet(Listed)
    <3>1. row \in [Keys -> SomeRows]
      BY DEF ListInv, TableFits
    <3> QED
      BY <3>1, OrdersFit, RowsFinite DEF Listed
  <2>2. PICK L, n : L = Listed /\ n = Cardinality(Ahead(ByTime(row), L, i))
    OBVIOUS
  <2>3. n < Cardinality(L) /\ n \in Nat
    BY <1>4, <2>1, <2>2, NoneBeyondAll, AheadFits
  <2>4. ~(n >= Walked)
    BY <1>2, <1>3, <2>2, <2>3
  <2> QED
    BY <2>2, <2>4 DEF Beyond
<1> QED
  BY <1>1, <1>2, <1>4, <1>5 DEF TiesFit

-----------------------------------------------------------------------------
(* The theorems about Lists *)

\* A walk through a list with a tie-breaker shows a row twice no more often than
\* rows came, and misses a row that stayed no more often than rows came or went,
\* for any table, page size and history of changes.
THEOREM SlipsCorrect == ListSpec => []SlipsBounded
<1>1. ListInv => SlipsBounded
  BY SlipsAtEnd
<1> QED
  BY <1>1, AlwaysListInv, PTL

\* In a list that is sorted by createdAt alone, a walk beside which nothing
\* happened misses only rows that share their time with another one.
THEOREM TiesCorrect == ListSpec => []OnlyTiesSlip
<1>1. ListInv => OnlyTiesSlip
  BY TiesAtEnd
<1> QED
  BY <1>1, AlwaysListInv, PTL

\* Soft delete, restore and update look for a row that exists; none of them
\* brings back one that was deleted for good.
LEMMA GoneStays ==
    ASSUME ListInv, [ListNext]_listVars, NEW i \in Keys, row[i] = Gone
    PROVE  row'[i] = Gone
<1>1. row \in [Keys -> SomeRows]
  BY DEF ListInv, TableFits
<1>2. ~row[i].exists /\ row[i] # NotYet
  BY DEF Gone, NotYet
<1>3. ASSUME NEW j \in Keys, NEW r, Put(j, r), j # i
      PROVE  row'[i] = Gone
  <2>1. row' = [row EXCEPT ![j] = r]
    BY <1>3 DEF Put
  <2> QED
    BY <1>1, <1>3, <2>1
<1>4. CASE UNCHANGED row
  BY <1>4
<1>5. ASSUME NEW j \in Keys, NEW t \in Moments, CreateRow(j, t) PROVE row'[i] = Gone
  <2>1. row[j] = NotYet /\ Put(j, NewRow(t, FALSE))
    BY <1>5 DEF CreateRow
  <2> QED
    BY <1>2, <1>3, <2>1
<1>6. ASSUME NEW j \in Keys, Update(j) PROVE row'[i] = Gone
  <2>1. row[j].exists /\ Put(j, [row[j] EXCEPT !.out = ~row[j].out])
    BY <1>6 DEF Update
  <2> QED
    BY <1>2, <1>3, <2>1
<1>7. ASSUME NEW j \in Keys, ForceDelete(j) PROVE row'[i] = Gone
  <2>1. row' = [row EXCEPT ![j] = Gone]
    BY <1>7 DEF ForceDelete, Put
  <2> QED
    BY <1>1, <2>1
<1>8. ASSUME NEW w \in Workers, Toggle(w) PROVE row'[i] = Gone
  <2>1. PICK j \in Keys : j = call[w].id
    <3>1. call \in [Workers -> SomeCalls] /\ call[w] # NoCall
      BY <1>8 DEF ListInv, TableFits, Toggle
    <3> QED
      BY <3>1 DEF SomeCalls
  <2>2. CASE row[j].exists
    <3>1. Put(j, [row[j] EXCEPT !.out = call[w].out])
      BY <1>8, <2>1, <2>2 DEF Toggle
    <3> QED
      BY <1>2, <1>3, <2>2, <3>1
  <2>3. CASE ~row[j].exists
    BY <1>4, <1>8, <2>1, <2>3 DEF Toggle
  <2> QED
    BY <2>2, <2>3
<1>9. CASE UNCHANGED listVars
  BY <1>9 DEF listVars
<1>10. ASSUME NEW list, NEW perPage, Begin(list, perPage) PROVE row'[i] = Gone
  BY <1>10 DEF Begin
<1>11. CASE FetchRows \/ FetchTotal \/ TurnPage \/ Leave
  BY <1>11 DEF FetchRows, FetchTotal, TurnPage, Leave
<1>12. ASSUME NEW w \in Workers, NEW j \in Keys, SoftDeleteRow(w, j) \/ RestoreRow(w, j)
       PROVE  row'[i] = Gone
  BY <1>12 DEF SoftDeleteRow, RestoreRow, Find
<1> QED
  BY <1>5, <1>6, <1>7, <1>8, <1>9, <1>10, <1>11, <1>12 DEF ListNext

\* A row deleted for good stays gone, whatever the soft deletes and restores
\* beside it had read before.
THEOREM GoneCorrect == ListSpec => GoneForGood
<1>1. ListInv /\ [ListNext]_listVars => [\A i \in Keys : row[i] = Gone => row'[i] = Gone]_row
  BY GoneStays
<1> QED
  BY <1>1, AlwaysListInv, PTL DEF ListSpec, GoneForGood
=============================================================================
