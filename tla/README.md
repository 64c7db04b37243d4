# geardn-server in TLA+

Models, checks and proofs for geardn-server, the NestJS back end of a web shop
(paths below are relative to the repository; `src/src/modules/` is written
`modules/`). The server keeps its state in PostgreSQL through Prisma
(READ COMMITTED, Prisma's default there), queues work with BullMQ on Redis, and
runs in one or more instances. Almost every interesting question about it is
what several requests, cron runs and queue workers do to the same rows.

## Layout

| module | what it is |
|---|---|
| `StockLogs` | the vocabulary of the warehouse paperwork: log rows, codes, cells (SKU, warehouse) |
| `StockBook` | abstract: a stock-moving request posts all its rows and movements at once, or nothing |
| `Fulfillment` | the order and return handlers, statement by statement; implements `StockBook` |
| `Inventory` | the paperwork admins write by hand, and unit costs, beside shipments and returns |
| `Checkout` | the cart, the order it becomes, the edits of the order |
| `EventDelivery` | abstract: every committed event becomes one notification |
| `Outbox` | poller, queue, workers, crashes; implements `EventDelivery` if nothing fails |
| `Inbox` | one admin's notifications and badge |
| `Catalog` | SKUs, their codes and the cached price range of a product |
| `Paging` | cursor pagination of a list that changes between the pages |
| `Lists` | lists with page numbers, soft deletion and restoring |
| `Reports` | statistics and the customer's list of orders, statement by statement |
| `Accounts` | sign-up, sign-in, refresh and sign-out of one browser |
| `MC...` | the instances of these for TLC (`Outbox` and `Paging` need none) |
| `FulfillmentProofs`, `InventoryProofs`, `CheckoutProofs`, `OutboxProofs`, `InboxProofs`, `CatalogProofs`, `PagingProofs`, `AccountsProofs` | theorems about the module in their name; `PagingProofs` is about `Lists` as well, `InventoryProofs` about `Reports` (both need sums over finite sets) |

Check a run with `tlc -config <cfg> <module>`, a proof with `tlapm <module>.tla`.

## Inventory of the system

State is the set of tables in `prisma/schema.prisma`, the BullMQ queue, one
Redis channel and the cookies of the browsers. In memory there is nothing that
survives a request except a flag of the realtime controller.

| component | state | operations that change it | correct if | module |
|---|---|---|---|---|
| Orders (`order/order.service.ts`) | Order, OrderItem, OrderStatusHistory | create, update, updateStatus, confirmShipment, cancelOrder, updateDeliveryFailed | the status moves along the table of transitions; the history tells it; goods leave once; what is announced happened; what leaves is what the items say | `Fulfillment`, `Checkout` |
| Return requests (`order-return-request/`) | OrderReturnRequest, OrderReturnItem | updateStatus, completeReturnRequest; opened by the orders | closed means restocked | `Fulfillment` |
| Stock and paperwork (`import-log/`, `export-log/`, `adjustment-log/`) | Stock, ExportLog(Item), ImportLog(Item), AdjustmentLog(Item) | shipments, returns, manual import / export / adjustment | quantities are what the logs say; codes are unique and gapless; costs are averages of prices | `Fulfillment`, `Inventory` |
| Outbox (`outbox/`, `notification/notification.processor.ts`) | Outbox, queue `outbox-sync`, Notification, NotificationRecipient | poller run every 5 s, queue worker | each committed event is notified, once, eventually | `Outbox` |
| Notifications (`notification/notification.service.ts`) | readAt, lastSeenNotificationsAt | markSeen, markRead, markAllRead | nothing unseen or unread is counted as seen or read | `Inbox` |
| Realtime (`realtime/`) | a `subscribed` flag, Redis channel | publish, SSE stream | connected admins get what is published | as the last step of `Outbox` |
| SKU catalogue (`product-sku/`) | ProductSKU, its attributes, Product.priceMin/Max | create, update, softDelete, restore, forceDelete | codes unique, no two SKUs of a product alike, range = min/max of the live SKUs | `Catalog` |
| Products (`product/`) | Product | create, update, updateIsVisible, softDelete, restore, forceDelete | a list walked page by page shows everything once | `Paging`, `Lists` |
| Cart (`cart/`) | Cart, CartItem | add, update, sync, syncReload, remove, clear | no more than the customer asked for; an order takes what it ordered out | `Checkout` |
| Statistics (`statistics/`) | none | - | the figures of one answer speak of the same orders | `Reports` |
| Auth, users (`auth/`, `admin-auth/`, `user/`) | User, cookies | sign-up, login, Google, refresh, logout | one account per Google id; a session ends | `Accounts` |
| Categories, attributes, warehouses, payment methods | one row each | create, update, softDelete, restore, forceDelete | what is deleted stays deleted; lists show everything once | `Lists` |

Interactions. `OrderService.create` and `cancelOrder` write Outbox rows in their
transactions; the poller reads them and fills the queue; the processor writes
notifications and publishes them; the inbox lists them; the realtime controller
forwards them. `confirmShipment`, `completeReturnRequest` and the manual logs meet
in Stock and in the numbering of the logs. `create` removes cart items after its
transaction. `update` changes the items a shipment reads. SKU handlers write the
price range the product lists sort by. Statistics read completedAt, which
updateStatus sets, and the categories of products.

What is hard: two handlers on one order (all checks are reads of a READ COMMITTED
transaction, nothing locks the row first); codes numbered from counts; handlers
that write on a connection outside their transaction, or run none; the three
places where work crosses from the database to Redis; pages of a changing list;
values cached from an aggregate; reports of several statements; answers that
reach a browser late. There are no tests in the repository. `PROJECT.json` lists
each of these hazards at its line with the properties that watch it.

How the modules fit together. `Fulfillment` proves that a shipment or a return
shows in the stock and its paperwork as one posting (`StockBook`); `Inventory`
uses it, and takes each as one step beside the manual handlers. `Checkout` takes
the part of the order handlers that `Fulfillment` keeps fixed, the items. `Outbox`
ends where a notification is written; `Inbox` begins there, with the transaction
that writes it. `Reports` looks at the orders that `Fulfillment` moves.

## How the code is translated

*Transactions.* Under READ COMMITTED each statement sees what is committed when
it starts. A statement that reads something the handler decides on is a step;
the writes of a transaction become visible together when it commits and are one
step with the commit (a row stays locked from its write to the commit, so no
other writer gets in between). Between reads and commit, anything of any other
handler can happen. Every open transaction can abort at any step, which stands
for a later guard, a unique violation, a deadlock, the timeout, a lost
connection and a crash of the server alike: all of them roll back. A request
that is refused before it writes is no step. Waiting for a lock is not modelled:
the model has every behaviour of the program and some more, which is the safe
side for invariants, and no counterexample below needs the extra ones.

*Without a transaction* (the cart, the accounts, the SKU rows written through
`this.prisma`) every statement commits by itself; a request may stop after any of
them, and what it wrote stays.

*Data.* In `Fulfillment` and `Inventory` an order is one quantity per SKU; `Checkout`
has its items one by one. Names, prices of items, notes and users are
left out unless a property tells them apart. The date in a reference code is left
out: behaviours lie within one day, the scope of the numbering. Properties about
what a customer asked for or a screen has shown need history variables; each is
marked "history" where it is declared and no guard reads one.

### Fulfillment

| model | code |
|---|---|
| `status`, `completed`, `history` | Order.status, Order.completedAt is set, OrderStatusHistory rows |
| `itemWh` | OrderItem.warehouseId |
| `returns` | the order's OrderReturnRequest (unique per order) with type, status, approvedById / completedAt set |
| `stock`, `exportLogs`, `importLogs` | Stock.quantity; log rows with code number, order, warehouse, items |
| `outbox` | Outbox rows |
| `call[w]` | the transaction a handler has open: what it read, cells still to check, rows inserted |
| `CreateOrder`, `CancelOrder`, `FailDelivery`, `UpdateReturn` | `create`, `cancelOrder`, `updateDeliveryFailed`, return `updateStatus`: one step each, since they decide on nothing they read |
| `ReadStatus`, `CommitStatus` | `updateStatus` |
| `ReadPendingOrder`, `CheckStock`, `DraftExport`, `CommitShipment` | `confirmShipment`: read and check; the loop over the mapping; one export log per warehouse; the rest and the commit |
| `ReadReturn`, `CheckStock`, `DraftImport`, `CommitReturn` | `completeReturnRequest` |
| `Abort` | a rollback |

The clients' `oldStatus` is any status the order has had (`Seen`): a client may be
behind, but does not invent one. A mapping is a set of cells; a SKU may be mapped
to two warehouses, in which case the code ships it twice, and so does the model.
A mapping that names the same cell twice is not modelled.

Assumed: the body of `PATCH /orders/:id` has only the fields `UpdateOrderDto`
declares, none of which is status or completedAt. `ValidationPipe` runs without a
whitelist (`main.ts:48`) and `update` spreads what is left of the body
(`order.service.ts:406`, `502-505`), so that a client that adds `status` changes it
without a history row; nothing of a history could then be promised.

### Inventory

`Ship` and `Return` are the postings of the order handlers, each in one step although
the code looks at the stock or at the request first and writes later: nothing
said of this module depends on what happens in between, and `Fulfillment` has the
two apart. A return's code is any number a count of the export logs, old or new,
can have given it. A manual
import is numbered (`BeginImport`), averages the cost of one item after the
other from rows it reads without a lock (`ImportItem`) and commits increments
together with the costs it computed (`CommitImport`). Unit costs are exact
fractions; the column rounds them. `BeginAdjustment` / `CommitAdjustment` set
quantities absolutely. A manual export is numbered and then always fails: it
writes `costPrice`, a column `ExportLogItem` does not have, so `Abort` is its only
next step. One warehouse: a request names one, and warehouses share only the
numbering.

### Checkout

`cart[s]` is the CartItem row of a SKU with its id, `items` the OrderItem rows. What a
client sends is a sequence of entries, in which a SKU may come twice: `create`
makes an item of each entry, so an item's id is its SKU, the edit that inserted
it (0 for `create`) and the entry; an edit keeps the last entry of a SKU (`Wanted`).
Cart handlers look for a row (`FindRow`) and write it by id (`WriteItem`); the
cleanup at the end of `create` is the same loop, after the order is committed.
An edit reads the items before its transaction (`BeginEdit`), and writes, deletes
and inserts by what it read (`CommitEdit`); where several items of one SKU exist,
a Map keeps the last and `find` takes the first, in an order the query leaves
open (`OnePerSku`). `ReadOrder` / `ShipOrder` are `confirmShipment` as far as it
reads items: of the SKUs the client maps to warehouses, which may be fewer than
the order's, it takes the first item each; a SKU mapped twice takes the same
item again, so that one quantity says it all. `asked`, `edition` and the `upTo` of a request are history. A Cart
row is left out: a handler that finds none is refused, or makes one and goes on.

### Outbox

`run[i][r]` is the r-th overlapping run of the poller in instance i with its batch
in memory; `ReadBatch`, `MarkBatch`, `AddJob` are its awaits. `queue`, `job`, `stalls`
and `Recover` are BullMQ, modelled from how the code uses it (the queue's defaults:
one attempt, finished jobs kept, a stalled job put back once): external in the map.
`CreateNotice`, `Publish`, `MarkProcessed` are the awaits of `process`. `RunFails`,
`ProcessFails` and `Crash` are the faults, at most `MaxFaults` in a behaviour. A job
counts as stalled only when its worker is gone: a worker that is alive renews its
lock.

### Inbox

A notification gets its createdAt when its statement begins (`BeginNote`) and is
seen when it commits (`CommitNote`), with any request of the admin in between.
`getStats` reads `lastSeen` and then counts twice. `known` is what a screen has
shown (published or listed): `markRead` names ids from it. createdAt is the
database's clock and lastSeen the server's (`new Date()`,
`notification.service.ts:129`); the model assumes that they agree. `before` remembers what
was written or in progress at the last markSeen and markAllRead.

### Catalog

`sku` holds the committed rows, `range` the price range of each product, `call[w]` the
open transaction. What `create` and `update` write through `this.prisma` changes `sku`
at once (`InsertSku`, `WriteSku`); what a handler writes through `tx` is `Applied` at its
commit, and `ReadRange` reads the rows with it. `alone` is a history variable: no
other handler was in progress on the product since this one began. Codes are
numbers with a width and a base (`Power`, `Digits`); the model sorts them as strings. Ids are given
by a sequence: `Create` takes one that no row has and no request in progress
names (`Unused`); without the second part a request could meet a new row under
the id of the one it read, which the program's sequence rules out.

Assumed: a request to update a SKU names the product the SKU belongs to; a SKU
that is removed has no history (the counts of forceDelete are 0) - the other case
is refused and changes nothing.

### Paging

One client walks one list. `NextPage` is one query; everything else is other
requests. The services sort by newest or by price; over HTTP a product list always
has an order ('desc' unless the client says otherwise, `base-query.dto.ts:12`), and
an order means by price (`product.service.ts:119`, `367`). So what is said of
newest-first is met by `getNotifications` alone, whose query is the same. A NULL priceMin is `NoPrice`: no comparison with it is true, it sorts
last ascending and first descending, and a cursor made of it says price 0
(`+null`). `seen` collects the pages, `stayed` the products that were listable and
unchanged since the walk began.

### Lists

One table stands for each list's own. A list is what orders its rows (`sort`),
whether rows that are out (soft-deleted, hidden, outside the filters) are shown,
and whether they are counted; `Paged` and `Whole` name every list of the services
with these three read off its query. `FetchRows` and `FetchTotal` are the two
queries of a page, at two moments: `$transaction([...])` of Prisma runs them in
one READ COMMITTED transaction, which gives each its own snapshot. The total tells
the client whether to turn the page. Rows that compare equal come in any order,
each time (`Arrangements`). softDelete and restore read a row (`Find`) and write it
by id (`Toggle`).

### Reports

`orders` holds status, createdAt and completedAt. An order may be placed with a
completedAt of the client's choice (`Place`), and `Advance` is any handler that
writes the status: `updateStatus` and `confirmShipment` by what they read, which may
be a status the order has left; `cancelOrder` and `updateDeliveryFailed` whatever it
is. `sent` and `confirmed` are history, the completedAt of the beginning and whether
the order was ever confirmed, and say what a handler may have read. Reports of one statement are
operators on it; those of several (`Statements`, ordered by `After`) are run
statement by statement, with orders, products and categories changing between.
Time is parts of a day; `Month` is the range of dates the overview computes from
the server's local time and hands on as UTC dates; `Days` walks from day to day at
the time of day of its start, as fillMissingDates does. `Sale[o]` is what never
changes of an order. `UIStatus` and the filters of getUserPurchases are here too.

### Accounts

`users` are the User rows, none is ever deleted; `jar` the two cookies of one
browser. Sign-up and the Google sign-in look (`SignUp`, `Google`, `LookByEmail`) and
then write (`CreateUser`, `Link`, `CreateGoogle`) in another statement; the unique
e-mail and Google id refuse the second of two. A sign-up may carry a Google id: the body is
not cut to the form's fields (`user.service.ts:23-27`). `Ask` is the browser sending
the refresh cookie it has, `Refresh` the server verifying and signing, any time
later, and `Receive` the browser storing the answer, possibly after other answers.
`underway` and `returned` are history: the refreshes in progress when the browser
last signed in or out, and the answers of other sessions that came since. Both ends of a
token's life, of its JWT and of its cookie, are one `expires`, the earlier of the
two: after a Google sign-in the refresh cookie lives as long as the access cookie.

## What is checked

| run | bounds | states | shows |
|---|---|---|---|
| `fulfil_race` | 1 order of 2 units, 2 warehouses (3 and 1 units), 2 concurrent handlers, 3 history rows | 1.4 M | what survives any interleaving of two handlers |
| `stale_status` | the same | - | what does not: see below |
| `inventory` | 2 SKUs (one with stock), 2 handlers, 4 log rows | 1.2 M | what stale costs and counts do to stock and codes |
| `checkout` | 2 SKUs, 2 requests at a time, 4 in all, quantities 1 and 2, lists of one SKU, two, and one twice | 1.2 M | the quantities of cart, order and shipment |
| `outbox_clean` | 2 events, 2 instances with 2 overlapping runs, batches of 2, no fault | 0.34 M | one notification each, eventually |
| `outbox_faults` | 2 events, 2 instances, 3 faults | 0.34 M | how much is lost or repeated, and that jobs end |
| `inbox` | 3 notifications, pages of 1, 3 moments | 1.2 M | what the badge leaves out |
| `catalog` | 1 product, 3 SKUs, 2 attribute sets, 2 prices, 2 handlers | 0.6 M | codes, range and twins under races and rollbacks |
| `paging` | 3 products, 2 times, 2 prices, pages of 2, 3 rows listed at most before the client stops | 1.2 M | the walks neither repeat nor miss, and end |
| `lists` | 3 ids, 2 times, pages of 1, 2 changes in a walk | 2.2 M | how far a walk can slip |
| `reports` | 2 orders, 1 product, 2 categories, 3 moments over two days and two months, one date a client may send; one order changes while a report is made | 0.7 M | how far the figures of one answer can be apart |
| `accounts` | 2 e-mails, 2 Google ids, 2 requests at a time, lives 1 and 2, 4 moments | 2.8 M | accounts and sessions under late answers |

**fulfil_race.** `HistoryTellsStatus`: the newest history row is the order's status
although a stale `updateStatus` may commit after others. `DeliveredHasCompletion`:
statistics rely on it; the decision to set completedAt comes from a stale read,
and it holds because completedAt is never cleared. `ExportCodesDense`: codes come
from counts that others make stale, uniqueness turns every collision into a
rollback, and what remains has no gap. `ReturnsWaitForExports`: return codes count
the *export* logs, so returns can only be written as shipments go on.
`AnnouncedOnce`: events and the changes they announce. `ClosedMeansRestocked`: rows
written by one handler about what another did. `ShipmentsBoundedByWorkers`: an
order confirmed by n handlers at once is shipped up to n times - the race is
real - but never later on. `NeverPendingAgain`: no race reopens an order.
`RefinesStockBook`: seen from the stock and its paperwork, every request is one
atomic posting. Two handlers are enough for every pairwise race; two warehouses
for a request that drafts two logs; three history rows for an order that is
moved, raced and moved again.

**inventory.** `QuantityFollowsPaperwork`: quantities are incremented in place, so
they are what the logs say although costs come from stale rows; an adjustment
overwrites them. `CostWithinPrices`: an average of a stale row is still an average
of prices paid, until a quantity below 0 weighs it. `ImportsBlockedOnlyByReturns`
and `AdjustmentsWaitForExports`: which numbering blocks which. Four log rows let a
return and a shipment come before and between two manual requests; the requests
name one SKU twice, and one whose row is missing.

**checkout.** Overlapping cart requests do lose additions and do bring back
quantities lowered meanwhile; `NeverMoreThanAsked` bounds what they can invent.
`OrderedRowsLeave`: the cleanup takes the rows that were ordered, not rows added
since. `ItemsBoundedByEditors`: an order that lists a SKU twice has two items of it,
and overlapping edits leave several where there was none; the two do not add up.
`ShippedAsOrdered`: of each SKU that is shipped, the quantity of one of its items, if
no edit came after the read - if one did, the code ships what the order no longer
says. Four requests are two
overlapping pairs: an order and an addition, an edit and a shipment.

**outbox_clean, outbox_faults.** `DeliversOnce`: `Outbox` implements `EventDelivery`,
liveness included; exactly-once rests on the jobId, not on the mark. With faults,
events do get lost; `LossBounded` says how many a fault can cost. Duplicates need
a stalled job (`NoticesBoundedByStalls`), and every job ends (`JobsEnd`).

**inbox.** `UncountedWasThere`: a note that commits late may be left out of the badge
although no list has shown it - but only if it was in progress when the admin
opened the inbox. `UnknownStaysUnread`: such a note still counts as unread.

**catalog.** `RangeHeals`: races and rollbacks do leave a wrong price range (it is
aggregated in one statement and written in another); the next handler that has
the product to itself repairs it. `NoTwins`: the duplicate check is sound for such a
handler, and counts deleted SKUs so that a restore makes no twin. `NextCodeFree`: a
half-done or forced deletion never blocks the next code, except where codes
outgrow their padding. Binary codes of two digits reach that point with the
fourth code, as decimal codes of four digits do with the ten-thousandth; width and
base are constants and the comparison is the same. Codes above `MaxCode` = 4 are cut off.

**paging.** Three products in pages of two give a second page, equal keys on a page
border and products without price. `WalkAdvances` is stated on the rows as they
were listed; its proviso `PagesEndPriced` leaves out the cheapest-first walk that
starts over after a page that ends with a product without price. `MissesNothing`
holds of products nobody touched. `MaxListed` = 3 stops the client once that many
rows are listed; newest-first ends before, `WalkEnds`.

**lists.** `SlipsBounded`: with a tie-breaker a walk repeats at most one row for each
that came, and misses at most one for each that came or went. `OnlyTiesSlip`: without
one it can slip over rows of equal time even where nothing happened; lists without
any order have no such bound, and none is stated. `GoneForGood`: the check before
the write of restore is stale, the write by id is what refuses. Pages of one row
make every row a page border. One soft delete or restore is in progress at a time:
the lists do not tell two from one.

**reports.** `DaysAddUp`: the days of a range add up to the range, except that a
range which starts later in its day than it ends has no last day.
`FiguresAgree`: the statements of one answer disagree only about the orders that
changed meanwhile (and one moment that both months contain). Such an order may be
missing from all of them or counted by several: pending, delivered and then
canceled, it is in three figures of one summary. Each bound is tight. `SalesKept`: the
ranking of categories loses an item only if its product moved while it was made.
`RangesDifferAtTheirEnds`: item sums go by createdAt and order sums by completedAt;
exactly which orders are in one and not in the other, unless the client dated
their completion, and what the daily figures, listed by createdAt, leave out. The clock spans the last
day of one month and the first of the next, in a time zone ahead of UTC. The
constraint `Narrow` lets one order change in a report, any number of times, and only
in `getOrderStats` beside another order: the figures and their bounds are sums over
the orders, and orders do not touch each other. For more of them there are the
theorems `AgreeCorrect` and `SalesCorrect`.

**accounts.** `SameAccount`: overlapping Google sign-ins do not part an id from its
account. `SessionEnds`: refreshes at the edge of a refresh token's life do not chain.
`OldSessionFades`: the answer of a refresh can bring back a session the browser has
left, at whatever time the server signed it, but no more often than refreshes
were under way when the browser left. Two
tabs are enough for every overlap of two answers, lives of 1 and 2 in four moments
for a token to be refreshed, outlive its refresh token and end.

### What the code's own words say and the program does not do

`stale_status` is a run that TLC finishes with a counterexample to `ChecksHold`:
"Order status is outdated" (`modules/order/order.service.ts:525`) is meant to stop a
client that is behind, but the status can change between the check and the write,
and a canceled order goes to PROCESSING.

Other places where the code does something its words or its reader would not
expect; they are in the models as the code has them, and the properties are
stated so as to hold beside them:

- "Not enough stock" compares with 0 (`order.service.ts:641`): with 1 unit, an
  order of 2 ships and the stock is -1.
- A return is COMPLETED by its status update without goods
  (`order-return-request.service.ts:139`); `ClosedMeansRestocked` is about completedAt.
- An order that lists a SKU twice has two items of it (`order.service.ts:97-134`), and
  a later edit or shipment sees one of them.
- A mapping that leaves out some of the order's SKUs ships the others, and the
  order goes to PROCESSING all the same (`order.service.ts:573-655`).
- A completedAt the client sends with an order is stored as it is, before the
  order's own time or in the future (`create-order.dto.ts:63-65`,
  `order.service.ts:135`), and `updateStatus` keeps it on delivery.
- `cancelOrder` and `updateDeliveryFailed` write from any status
  (`order.service.ts:769-771`, `834-836`): a delivered order can be canceled.
- Outbox rows are marked PROCESSED before they are queued
  (`outbox.poller.ts:26-28`); a crash in between loses the event.
- The last SKU code is found in string order (`product-sku.service.ts:19`): GDN9999
  comes after GDN10000.
- By price descending, ids of equal prices are listed upwards and sought
  downwards (`product.service.ts:162`): products are skipped, so `WalkAdvances` and
  `MissesNothing` say nothing of that sort.
- The overview's last day of the month can be missing (`DaysAddUp`,
  `statistic.service.ts:178`), and getUserPurchases lists everything for a type
  without a filter of its own.
- `ExportLogService.create` always fails; `clearCartItems` of a customer without a
  cart passes an undefined cartId to deleteMany (`cart.service.ts:427`), which
  Prisma reads as no filter. Neither is a state the models reach further.

## Fairness

Only `Outbox` and `Paging` have liveness properties. In `Outbox` weak fairness of each
run, of each worker and of `Recover`: the cron fires every 5 s whatever happened
before, awaits settle, a BullMQ worker fetches a job whenever it is free, and the
stalled check is periodic. Weak fairness is enough because nothing disables a
step of a run or a worker but the step itself or one of the finitely many faults,
and a waiting job stays in a queue that every worker serves in order. No fairness
is assumed of events being raised or of faults. In `Paging` the client asks for the
next page (weak fairness of `NextPage`); this is the client's, not the server's, and
`WalkEnds` says what it gets for it.

## Symmetry and deadlock

`fulfil_race`, `inventory`, `checkout`, `catalog`, `inbox`, `reports` and `accounts` use
symmetry of handlers, and of the SKUs, rows or ids that nothing tells apart; none
of them checks liveness. `stale_status` uses none, so that its trace names the
handlers. Only `catalog` and `paging` check for deadlock: the bounds of the others
really end their behaviours (history or log rows used up, requests spent, all
events notified, the clock at its end).

## What is proved

Each theorem is of its module's specification, for every value of the constants
that satisfies the assumptions of the module: any number of handlers, orders,
SKUs, warehouses, events, notifications, products, rows, accounts and any bound.
The assumptions say that constants have their types and that the sets which are
counted or summed over (`Workers`, `Skus`, a mapping, the runs of an instance, the
keys of a table, the codes a catalogue starts with, the orders and moments of the
reports) are finite.

| theorem | property | inductive invariant |
|---|---|---|
| `TypeCorrect` | `TypeOK` | `Typed` (drafts are finite, or counting them means nothing) and `CompletesReturn` (a return being completed exists, or its type would be unknown) |
| `HistoryCorrect` | `HistoryTellsStatus` | `HistoryInv`: also, an order that does not exist has no history |
| `CompletionCorrect` | `DeliveredHasCompletion` | with `StatusCallInv`: an `updateStatus` on its way to DELIVERED will set completedAt or the order has one already |
| `NotReopened` | `NeverPendingAgain` | `StatusCallInv`: no call in progress has PENDING as its goal |
| `AnnouncementsCorrect` | `AnnouncedOnce` | itself, with `StatusCallInv` and `ConfirmsOrder`: no write of a status creates an order |
| `ImplementsStockBook` | `RefinesStockBook` | `DraftsInv`: the rows a transaction has inserted are exactly those of its order and mapping, one per warehouse, with distinct codes |
| `ExportCodesCorrect` | `ExportCodesDense` | `ConfirmCodes`: the codes a shipment has drafted are at most what its count of the logs, its own included, gives now |
| `ReturnsWait` | `ReturnsWaitForExports` | `ImportInv` and `CompleteCodes`: the codes of returns, written and drafted, are distinct and at most one more than the number of export logs |
| `ClosedCorrect` | `ClosedMeansRestocked` | itself, with `DraftsInv`: a completion commits at least one row, all of its own order |
| `ShipmentsCorrect` | `ShipmentsBoundedByWorkers` | `ShipmentInv`: shipments written plus shipments in progress are at most the workers, and there are none before an order leaves PENDING |
| `ImportCodes` | `ImportsBlockedOnlyByReturns` | `CallsOK`: a code drawn is at most one more than the count is by now |
| `AdjustmentCodes` | `AdjustmentsWaitForExports` | `CallsOK` and `AdjustCodes`, which gives the bound by counting distinct codes |
| `QuantityCorrect` | `QuantityFollowsPaperwork` | `Book`: a cell's quantity is what it began with, plus the imports, minus the exports, unless adjusted; an import in progress will add exactly the units of the items it has seen; the next export code is unused |
| `CostCorrect` | `CostWithinPrices` | the same bounds for the costs an import in progress has computed, of a SKU whose quantity was never below 0 |
| `NoticesCorrect`, `OnePlaceCorrect` | `NoticesBoundedByStalls` | `OnePlace`: a waiting job is in the queue once and with no worker, an active one with at most one; `UntoldOwesOne`: a worker that has not written yet has a notice to spare |
| `LossCorrect` | `LossBounded` | rows marked but not queued are in the memory of a run; only `RunFails` and `Crash` drop them, and no more than an instance's runs hold |
| `ImplementsDelivery` | the safety half of `DeliversOnce`, if `MaxFaults` = 0 | the same: without a fault nothing is dropped and no job stalls, so that each notice is the first |
| `CartBounded` | `NeverMoreThanAsked` | `CartInv`: what a loop has read is within the bound as well, and the bound only grows |
| `OrderedRowsGo` | `OrderedRowsLeave` | `CartInv`: ids never exceed the last one given, and a row `create` did not find is younger than its order |
| `ShipmentFits` | `ShippedAsOrdered` | `OrderInv`: what a shipment has picked are items of the order as long as the edition is the one it read (`ConfirmsOK`, `ShippedOK`) |
| `EditorsBound` | `ItemsBoundedByEditors` | `EditorInv`: while an item of `create` is left no edit has inserted one; otherwise the items of a SKU plus the edits that will insert one are at most the workers |
| `RangeIsHealed` | `RangeHeals` | `RangeInv`: a handler that is alone computed the range of the rows it will leave |
| `NoTwinsAlone` | `NoTwins` | `TwinInv`: no other SKU of its product has the attributes a handler that is alone was asked for |
| `NextCodeIsFree` | `NextCodeFree` | `CodeInv`: codes are numbers, those of the rows and those a handler has drawn; the string order of codes is total, so that one sorts last, and numbers with more digits are larger |
| `WalkCorrect` | `WalkAdvances` | `CursorFits`: the cursor is the last row of the last page, or the walk has ended |
| `NothingMissed` | `MissesNothing` | `Owed`: a product that stayed as it was is listed or lies beyond the cursor |
| `SlipsCorrect` | `SlipsBounded` | `SlipsFit`: of the places walked no more rows are unseen than went, in those to come no more are seen than came |
| `TiesCorrect` | `OnlyTiesSlip` | `TiesFit`: of the rows with a time of their own, those in the places walked are seen and those to come are not |
| `GoneCorrect` | `GoneForGood` | `TableFits`: a row in the call of a worker is one of the table's |
| `DaysCorrect` | `DaysAddUp` | `ShopTyped`: a delivered order has a completedAt, of whatever date; on it rests that the moments of a range fall on its listed days or on the last day it lost (`OnDaysOrLost`) |
| `EndsCorrect` | `RangesDifferAtTheirEnds` | `ShopTyped` again: a completedAt other than the one sent was set after the order was created; the days listed have the orders placed on them, and the rest of the range's were placed on a day before or after (`ByDayPlaced`, `DailyAndOthers`) |
| `SalesCorrect` | `SalesKept` | `RankingFits`: of a product that did not move, the category found is its category now, which cannot have been deleted |
| `AgreeCorrect` | `FiguresAgree` | `FigureFits`: each result is the sum over some set of orders, and outside the changed orders that set is what the figure would count now (`IsCounted`); so several such sets overlap only in the changed orders (`Outside`, `Together`) |
| `BadgeHonest` | `UncountedWasThere` | `SeenInv`: the same of the notes in progress, which have the createdAt of their beginning; and lastSeen is not ahead of the clock |
| `UnknownCounts` | `UnknownStaysUnread` | `ReadInv`: itself, that no note is read before it is written, and that none of those markAllRead found goes away |
| `SessionsEnd`, `OldSessionsFade` | `SessionEnds`, `OldSessionFades` | `SessionInv`: the tokens in the cookies and in requests on their way end within their session's bounds (`JarSound`, `CallsSound`); answers of other sessions that came, and refreshes of them still under way, are together no more than were under way at the last sign-in or sign-out (`Counted`) |
| `AccountsKept` | `SameAccount` | `AccountInv`: the row of the account a Google id signed in to has that id (`Owns`), also the row a request in progress has found; ids are unique |

The argument for the codes: let n logs be committed, with codes 1..n, and let a
shipment commit k logs. Each code was a count plus one, and counts only grow, so
none is above n + k (`ConfirmCodes`). They are distinct (`DraftsInv`), and the unique
key keeps them out of 1..n. That leaves k distinct numbers among n+1..n+k, hence
all of them (`CodesFill`). For returns the count does not include their own rows, so
the same bound leaves room for n + 1 codes in all: a rule nobody wrote down
about how returns depend on shipments. Adjustments follow it too.

Two bounds come from counting handlers rather than rows. A handler that found an
order PENDING, or a SKU without an item, is one of finitely many, and gives up
its place when it writes; nobody gets a place once the order has left PENDING,
or the SKU has an item. So rows and places together never grow beyond the
handlers (`ShipmentInv`, `EditorInv`). Such an argument holds for any number of
rows, which is what a bounded run cannot show.

Walks by page number are proved about without saying which order the database
chose. A row's place is the number of rows before it; one row that comes or goes
moves at most one other across a given place (`OneCrosses`). So a page border that
was right is off by at most one after each change, in a direction that depends on
whether the row came or went, which is the bound of `SlipsFit`. Turning the page
keeps it, and at the end the total says that no place is left. Where rows tie,
only those with a time of their own have one place in every arrangement
(`TiesFit`). Walks with a cursor need no counting: the cursor is a row, and what is
beyond it does not depend on what changed before it.

The reports are proved about through the orders behind a number. A result is
remembered as a set of orders that it is the sum over, which the model does not
keep but the invariant says exists; two such sets then differ only inside the
orders that changed, so that the two sums differ by no more than the sum over
those (`SumWithin`), for any order of the statements. Nothing is assumed of how an
order that changed moved: it may be in all of the sets or in none. That the days add up is the
rearrangement of a sum by groups (`SumOfGroups`) and the arithmetic of midnights:
each moment of a range has a listed day unless its day is the last and the range
begins later in its day than it ends (`DayIsListed`).

Delivery counts what is owed: each event is new, marked in a run's memory, in
the queue, with a worker or noticed. `OnePlace` is what makes a stalled job the only
one that is done twice.

Induction over data is beyond the prover. Where a proof needs it, it takes a
smallest counterexample instead: a smallest set among the subsets of a finite
one (`SmallestSubset`), or a least number. In this way sums over a finite set
(what a request imports of a SKU, what a log says of it) change by the value of
the member that changes, the codes of a catalogue have a last one, and rows can
be ranked. Recursive functions (`Power`, sums) are first shown to exist.

Every proof is by lemmas that say what a step can do to the part of the state
concerned (such as `OrderChange`, `CallChange`, `LogChange`, `EventChange`,
`ReturnChange`), one that the invariant is kept, and the temporal step.

Only model-checked: liveness (`JobsEnd`, `WalkEnds`, and that `DeliversOnce` delivers
at all). It is beyond the prover, which has no support for ENABLED, on which
fairness rests. Every other property of the passing runs is stated by a theorem.

## What is not modelled

- Firebase uploads, the province lookups, Google Analytics, response shaping and
  seed data: input and output without state of the server's own.
- The stock summary, growth rates, shares, sorting and the quantities sold of each
  product in the statistics: arithmetic on one snapshot. Changes to the items of an
  order once placed, as far as reports see them.
- Reference codes across days and time zones: the date comes from one zone and
  the count from the server's local day, so numbers of a date can start again and
  the unique key refuses the log (`modules/order/order.service.ts:682`); no rule
  over days survives that could be stated.
- The connection pool (`modules/product-sku/product-sku.service.ts:63`): create needs
  two connections at once. In `Catalog` such a handler is one that may abort.
- Attributes of a cart row's product, guest carts kept by the client, the
  creation of the Cart row.
- The SSE stream beyond what is published to it.

## Plan

Done, in this order: `StockLogs`, `StockBook`, `Fulfillment` and its proofs;
`EventDelivery`, `Outbox`; `Catalog`; `Paging`; `Inventory`; `Checkout`; `Reports`; `Lists`;
`Inbox`; `Accounts`; theorems about every component, of all their safety properties.

What could follow: a second admin and the client's time-outs in `Inbox`; the
property of a walk by falling price that the code does keep, beside the one it
does not.
