------------------------------- MODULE Lists -------------------------------
(***************************************************************************)
(* A client walks through a list by page number while rows come, go and    *)
(* change beside it: the admin's tables, the shop's product list and the   *)
(* reference data, and the soft deletion and restoring of their rows.      *)
(* (The lists with a cursor are in module Paging.)                         *)
(*                                                                         *)
(* A page is two queries, one for its rows (skip, take) and one for the    *)
(* total; they see the table at two moments, also where they are given to  *)
(* $transaction together.  The total tells the client whether there is a   *)
(* next page.  Rows that compare equal come in any order, and in another   *)
(* one the next time.                                                      *)
(*                                                                         *)
(* One table stands for each list's own.  A row that is out is one the     *)
(* filters of the request do not let through: it is soft-deleted, or has a *)
(* status the request did not ask for, or is outside of its dates.  The    *)
(* direction of the sort is left out: ascending is the mirror image.       *)
(***************************************************************************)
EXTENDS Integers, Sequences, FiniteSets, FiniteSetsExt

CONSTANTS Keys,     \* the table's primary keys
          Moments,  \* createdAt
          Workers,  \* soft deletes and restores in progress at once
          PageSize, \* rows of a page
          MaxMoves  \* bound: changes of the table during a walk

ASSUME ListsAssumption ==
    /\ Keys \subseteq Nat /\ IsFiniteSet(Keys)
    /\ Moments \subseteq Nat
    /\ {PageSize, MaxMoves} \subseteq Nat \ {0}

VARIABLES
    row,  \* by id: its createdAt and whether it is out; or why there is none
    call, \* the soft delete or restore each worker is at
    walk  \* the client's walk

listVars == <<row, call, walk>>

NotYet == [exists |-> FALSE, used |-> FALSE]
Gone == [exists |-> FALSE, used |-> TRUE]
NoCall == [op |-> "idle"]
NoWalk == [at |-> "none"]

ListInit ==
    /\ row = [i \in Keys |-> NotYet]
    /\ call = [w \in Workers |-> NoCall]
    /\ walk = NoWalk

-----------------------------------------------------------------------------
(* The lists: the fields that order the rows, whether rows that are out    *)
(* are shown, and whether they are counted                                 *)

List(sort, shown, counted) ==
    [sort |-> sort, shown |-> shown, counted |-> counted]

\* Orders, and products when they are sorted by createdAt, have a tie-breaker.
Orders == List("created_id", "in", "in")
ShopProducts == List("created_id", "in", "in")
StatusHistory == List("created", "in", "in")
ReturnRequests == List("created", "in", "in")
Adjustments == List("created", "in", "in")
Stocks == List("created", "in", "in")
AdminProducts == List("created", "in", "in")

\* The sort of these is the client's to choose: without one there is none.
Imports == {List(sort, "in", "in") : sort \in {"created", "none"}}
Exports == {List(sort, "in", "in") : sort \in {"created", "none"}}

Paged == {Orders, ShopProducts, StatusHistory, ReturnRequests, Adjustments,
          Stocks, AdminProducts} \cup Imports \cup Exports

\* These come in one page; the first three count the deleted rows as well, the
\* others (and the admin's view of the first three) show them too.
Categories == List("created", "in", "all")
Attributes == List("none", "in", "all")
AttributeValues == List("none", "in", "all")
Warehouses == List("none", "all", "all")
PaymentMethods == List("none", "all", "all")
ProductsOfCategory == List("none", "all", "all")

Whole == {Categories, Attributes, AttributeValues, Warehouses, PaymentMethods,
          ProductsOfCategory}

\* Of the rows of a table, those of a list
RowsOf(table, which) ==
    {i \in Keys : table[i].exists /\ (which = "in" => ~table[i].out)}

\* Mutant: the tie-breaker is dropped.
SortsBeforeInTime(sort, i, j) == sort # "none" /\ row[i].created > row[j].created

SortsBefore(sort, i, j) ==
    CASE sort = "created_id" -> \/ row[i].created > row[j].created
                                \/ row[i].created = row[j].created /\ i > j
      [] sort = "created" -> row[i].created > row[j].created
      [] sort = "none" -> FALSE

\* The orders in which the database may return the rows of S.
Arrangements(S, sort) ==
    {a \in [1 .. Cardinality(S) -> S] :
        \A m, n \in DOMAIN a :
            m < n => a[m] # a[n] /\ ~SortsBefore(sort, a[n], a[m])}

-----------------------------------------------------------------------------
(* The walk                                                                *)

Unknown == -1

\* perPage: PageSize, or the whole table.  The history of the walk: the rows
\* shown at every moment of it, and the rows that came and went.
Begin(list, perPage) ==
    /\ walk = NoWalk
    /\ walk' = [at |-> "page", list |-> list, perPage |-> perPage, page |-> 1,
                seen |-> <<>>, fetched |-> FALSE, total |-> Unknown,
                stayed |-> RowsOf(row, list.shown), came |-> 0, went |-> 0]
    /\ UNCHANGED <<row, call>>

FetchRows ==
    LET skip == (walk.page - 1) * walk.perPage IN
    /\ walk.at = "page"
    /\ ~walk.fetched
    /\ \E a \in Arrangements(RowsOf(row, walk.list.shown), walk.list.sort) :
          walk' = [walk EXCEPT !.fetched = TRUE,
              !.seen = @ \o SubSeq(a, skip + 1, Min({skip + walk.perPage, Len(a)}))]
    /\ UNCHANGED <<row, call>>

FetchTotal ==
    /\ walk.at = "page"
    /\ walk.total = Unknown
    /\ walk' = [walk EXCEPT !.total = Cardinality(RowsOf(row, walk.list.counted))]
    /\ UNCHANGED <<row, call>>

\* Mutant: one page short.
HasPageAfterNext == (walk.page + 1) * walk.perPage < walk.total

HasNextPage == walk.page * walk.perPage < walk.total

TurnPage ==
    /\ walk.at = "page"
    /\ walk.fetched
    /\ walk.total # Unknown
    /\ walk' = IF HasNextPage
               THEN [walk EXCEPT !.page = @ + 1, !.fetched = FALSE, !.total = Unknown]
               ELSE [walk EXCEPT !.at = "end"]
    /\ UNCHANGED <<row, call>>

Leave == walk.at = "end" /\ walk' = NoWalk /\ UNCHANGED <<row, call>>

-----------------------------------------------------------------------------
(* The table changes                                                       *)

\* Row i becomes r; during a walk this is a move of the list.
Put(i, r) ==
    /\ row' = [row EXCEPT ![i] = r]
    /\ IF walk = NoWalk THEN UNCHANGED walk
       ELSE LET old == RowsOf(row, walk.list.shown)
                new == RowsOf(row', walk.list.shown) IN
            /\ walk.came + walk.went < MaxMoves
            /\ walk' = [walk EXCEPT !.stayed = @ \cap new,
                                    !.came = @ + Cardinality(new \ old),
                                    !.went = @ + Cardinality(old \ new)]

NewRow(t, out) == [exists |-> TRUE, created |-> t, out |-> out]

CreateRow(i, t) ==
    /\ row[i] = NotYet
    /\ Put(i, NewRow(t, FALSE))
    /\ UNCHANGED call

\* update, updateIsVisible, or a change of status
Update(i) ==
    /\ row[i].exists
    /\ Put(i, [row[i] EXCEPT !.out = ~@])
    /\ UNCHANGED call

\* The database refuses to delete a row that others refer to; the product's
\* handler counts them first.  Payment methods are deleted like this only.
ForceDelete(i) ==
    /\ row[i].exists
    /\ Put(i, Gone)
    /\ UNCHANGED call

\* softDelete and restore: look for the row in the other condition, ...
Find(w, i, out) ==
    /\ call[w] = NoCall
    /\ row[i].exists
    /\ row[i].out = ~out
    /\ call' = [call EXCEPT ![w] = [op |-> "toggle", id |-> i, out |-> out]]
    /\ UNCHANGED <<row, walk>>

SoftDeleteRow(w, i) == Find(w, i, TRUE)
RestoreRow(w, i) == Find(w, i, FALSE)

\* Mutant: the row is put back if it is gone.
UpsertToggle(w) ==
    /\ call[w] # NoCall
    /\ Put(call[w].id, NewRow(Max(Moments), call[w].out))
    /\ call' = [call EXCEPT ![w] = NoCall]

\* ... and write it by its id; the request fails if it is gone by now.
Toggle(w) ==
    /\ call[w] # NoCall
    /\ LET i == call[w].id IN
       IF row[i].exists THEN Put(i, [row[i] EXCEPT !.out = call[w].out])
       ELSE UNCHANGED <<row, walk>>
    /\ call' = [call EXCEPT ![w] = NoCall]

ListNext ==
    \/ \E list \in Paged : Begin(list, PageSize)
    \/ \E list \in Whole : Begin(list, Cardinality(Keys))
    \/ FetchRows
    \/ FetchTotal
    \/ TurnPage
    \/ Leave
    \/ \E i \in Keys, t \in Moments : CreateRow(i, t)
    \/ \E i \in Keys : Update(i) \/ ForceDelete(i)
    \/ \E w \in Workers, i \in Keys : SoftDeleteRow(w, i) \/ RestoreRow(w, i)
    \/ \E w \in Workers : Toggle(w)

ListSpec == ListInit /\ [][ListNext]_listVars

-----------------------------------------------------------------------------
(* Properties *)

Shown == {walk.seen[n] : n \in DOMAIN walk.seen}
Missed == walk.stayed \ Shown
Repeats == Len(walk.seen) - Cardinality(Shown)
Ended(sort) == walk.at = "end" /\ walk.list.sort = sort

\* In a list with a tie-breaker a walk shows a row twice no more often than
\* rows came, and misses a row that was there all the time no more often than
\* rows came or went: one that comes between the two queries of a page moves
\* the last row to a page the client is told there is not.  A walk beside
\* which nothing happened shows every row once.
SlipsBounded ==
    Ended("created_id") =>
        /\ Cardinality(Missed) <= walk.came + walk.went
        /\ Repeats <= walk.came

\* Without a tie-breaker a walk may slip where nothing happened, but then
\* only over rows of one time that more than one row has.
OnlyTiesSlip ==
    Ended("created") /\ walk.came + walk.went = 0 =>
        \A i \in Missed : \E j \in walk.stayed \ {i} :
            row[j].created = row[i].created

\* A row that was deleted for good does not come back, although soft delete
\* and restore look at it before they write it.
GoneForGood == [][\A i \in Keys : row[i] = Gone => row'[i] = Gone]_row
=============================================================================
