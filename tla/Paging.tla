------------------------------- MODULE Paging -------------------------------
(***************************************************************************)
(* A client walks through a list page by page, with the cursor of each     *)
(* page as the start of the next, while other requests change the list:    *)
(* ProductService.search and getProductsByCategorySlug, sorted by newest   *)
(* or by price, and NotificationsService.getNotifications, which lists a   *)
(* user's notifications as "newest" does.  Over HTTP a list of products    *)
(* always has an order (BaseQueryDto gives "desc" where the client gives   *)
(* none), so that products come by price, dearest first by default, and    *)
(* only notifications come newest first; the services sort in all ways.    *)
(*                                                                         *)
(* A page is one query.  The cursor holds the sort key and the id of the   *)
(* page's last row, and the next query seeks the rows after it.  A product *)
(* without SKUs for sale has no price, a NULL in the database: NULLs sort  *)
(* after all prices (and before them in descending order), and no          *)
(* comparison with a NULL is true.                                         *)
(***************************************************************************)
EXTENDS Integers, Sequences, FiniteSets

CONSTANTS Ids,        \* Product.id
          Times,      \* Product.createdAt
          Prices,     \* Product.priceMin
          Limit,      \* rows of a page
          MaxListed   \* bound: the client gives up after this many rows

ASSUME PagingAssumption ==
    /\ Ids \subseteq Nat /\ IsFiniteSet(Ids)
    /\ Times \subseteq Nat
    /\ Prices \subseteq Nat \ {0}
    /\ Limit \in Nat \ {0}
    /\ MaxListed \in Nat

VARIABLES shop,   \* the products; absent ones are not created yet
          sort,   \* the sort the client has chosen, "none" before
          cursor, \* the last page's nextCursor
          seen,   \* the rows of all pages so far, as they were listed
          stayed  \* the products that were listable and unchanged since the
                  \* walk began (no part of the code)

vars == <<shop, sort, cursor, seen, stayed>>

NoPrice == 0
Sorts == {"newest", "cheapest", "dearest"}
Absent == [live |-> FALSE, created |-> 0, price |-> NoPrice]

\* Cursors: no cursor yet, no more pages, or the key and the id of a row
Start == [kind |-> "start"]
End == [kind |-> "end"]

Init ==
    /\ shop = [p \in Ids |-> Absent]
    /\ sort = "none"
    /\ cursor = Start
    /\ seen = <<>>
    /\ stayed = {}

-----------------------------------------------------------------------------
(* The query: baseWhere, seekWhere, orderBy                                *)

Listable == {p \in Ids : shop[p].live}
Row(p) == [id |-> p, created |-> shop[p].created, price |-> shop[p].price]

Known(price) == price # NoPrice

BeyondKey(r) ==
    \/ sort = "newest" /\ r.created < cursor.key
    \/ sort = "cheapest" /\ Known(r.price) /\ r.price > cursor.key
    \/ sort = "dearest" /\ Known(r.price) /\ r.price < cursor.key

AtKey(r) ==
    IF sort = "newest" THEN r.created = cursor.key
    ELSE Known(r.price) /\ r.price = cursor.key

\* Mutants: no id in the seek; ties are all kept; a seek for prices only.
SeekKeyOnly(r) == BeyondKey(r)
SeekInclusive(r) == BeyondKey(r) \/ AtKey(r)
SeekPriceOnly(r) == sort = "newest" \/ BeyondKey(r)

\* seekWhere: the id is compared the way the key is
Seek(r) ==
    \/ BeyondKey(r)
    \/ AtKey(r) /\ IF sort = "cheapest" THEN r.id > cursor.id ELSE r.id < cursor.id

Cheaper(r, q) ==
    Known(r.price) /\ (r.price < q.price \/ ~Known(q.price))

\* orderBy: r is listed before q
Before(r, q) ==
    \/ /\ sort = "newest"
       /\ r.created > q.created \/ (r.created = q.created /\ r.id > q.id)
    \/ /\ sort = "cheapest"
       /\ Cheaper(r, q) \/ (r.price = q.price /\ r.id < q.id)
    \/ /\ sort = "dearest"
       /\ Cheaper(q, r) \/ (r.price = q.price /\ r.id < q.id)

Matching == {r \in {Row(p) : p \in Listable} : cursor = Start \/ Seek(r)}

Found ==
    CHOOSE list \in [1 .. Cardinality(Matching) -> Matching] :
        \A i, j \in DOMAIN list : i < j => Before(list[i], list[j])

\* Number(null) is 0: the cursor of a row without price has the price 0.
CursorOf(r) ==
    [kind |-> "row", id |-> r.id,
     key |-> IF sort = "newest" THEN r.created ELSE r.price]

-----------------------------------------------------------------------------
(* The client *)

Choose(s) ==
    /\ sort = "none"
    /\ sort' = s
    /\ stayed' = Listable
    /\ UNCHANGED <<shop, cursor, seen>>

\* One row more than the page is fetched, to see whether there is a next page.
NextPage ==
    /\ sort # "none"
    /\ cursor # End
    /\ Len(seen) < MaxListed
    /\ LET more == Len(Found) > Limit
           page == IF more THEN SubSeq(Found, 1, Limit) ELSE Found IN
       /\ seen' = seen \o page
       /\ cursor' = IF more THEN CursorOf(page[Limit]) ELSE End
    /\ UNCHANGED <<shop, sort, stayed>>

-----------------------------------------------------------------------------
(* Other requests *)

Change(p, row) ==
    /\ shop' = [shop EXCEPT ![p] = row]
    /\ stayed' = stayed \ {p}
    /\ UNCHANGED <<sort, cursor, seen>>

\* ProductService.create: without price; transactions may commit in another
\* order than their createdAt.
Create(p, time) ==
    /\ shop[p] = Absent
    /\ Change(p, [live |-> TRUE, created |-> time, price |-> NoPrice])

SoftDelete(p) == shop[p].live /\ Change(p, [shop[p] EXCEPT !.live = FALSE])

Restore(p) ==
    /\ shop[p] # Absent
    /\ ~shop[p].live
    /\ Change(p, [shop[p] EXCEPT !.live = TRUE])

\* recalcProductPriceRange
Reprice(p, price) ==
    /\ shop[p] # Absent
    /\ shop[p].price # price
    /\ Change(p, [shop[p] EXCEPT !.price = price])

Next ==
    \/ \E s \in Sorts : Choose(s)
    \/ NextPage
    \/ \E p \in Ids :
          \/ \E time \in Times : Create(p, time)
          \/ SoftDelete(p)
          \/ Restore(p)
          \/ \E price \in Prices \cup {NoPrice} : Reprice(p, price)

Spec == Init /\ [][Next]_vars

\* The client goes on asking for pages.
FairSpec == Spec /\ WF_vars(NextPage)

-----------------------------------------------------------------------------
(* Properties *)

\* No page ends with a product without price.
PagesEndPriced == \A i \in DOMAIN seen : i % Limit = 0 => Known(seen[i].price)

\* Row r comes strictly before row q, by the key of the sort and then the id.
Precedes(r, q) ==
    IF sort = "newest"
    THEN r.created > q.created \/ (r.created = q.created /\ r.id > q.id)
    ELSE r.price < q.price \/ (r.price = q.price /\ r.id < q.id)

\* Over all pages the newest-first walk goes strictly forward, whatever is
\* created, deleted, restored or repriced meanwhile: no product comes twice.
\* So does the cheapest-first walk among the priced products, as long as no
\* page ends with a product without price.
WalkAdvances ==
    sort = "newest" \/ (sort = "cheapest" /\ PagesEndPriced) =>
        \A i, j \in DOMAIN seen :
            i < j /\ (sort = "newest" \/ Known(seen[j].price))
                => Precedes(seen[i], seen[j])

\* A walk that is through has listed every product that was there, unchanged,
\* all the time; the cheapest-first walk, every one that has a price.
MissesNothing ==
    cursor = End /\ sort \in {"newest", "cheapest"} =>
        \A p \in stayed :
            sort = "newest" \/ Known(shop[p].price) => \E i \in DOMAIN seen : seen[i].id = p

\* A client that goes on asking gets through the newest-first list, although
\* the list changes all the time.
WalkEnds == sort = "newest" ~> cursor = End
=============================================================================
