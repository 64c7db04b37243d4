------------------------------ MODULE Reports ------------------------------
(***************************************************************************)
(* What the dashboard and the customer's order list are told about the     *)
(* orders: StatisticsService, StatisticsController.getDashboardOverview    *)
(* and OrderService.getUserPurchases.                                      *)
(*                                                                         *)
(* A report is made of statements, each of which sees the tables of its    *)
(* own moment; those of a Promise.all come in any order.  Orders are       *)
(* placed and change status in between, products change category and empty *)
(* categories are deleted.  No handler writes Order.isDeleted, so the      *)
(* filters on it let every order through.                                  *)
(*                                                                         *)
(* Time is counted in parts of a day from a midnight of UTC, months have   *)
(* MonthDays days, and the server's clock is Offset parts ahead of UTC.    *)
(* Left out: sorting, the cut to the best few, percentages, the quantities *)
(* sold of each product, and changes to the items of an order once it is   *)
(* placed.                                                                 *)
(***************************************************************************)
EXTENDS Integers, FiniteSets, FiniteSetsExt

CONSTANTS Orders,     \* Order.id, orders of one customer, each of one item
          Sale,       \* Sale[o]: the order's totalPrice, and its item's
                      \* product, quantity, sellingPrice and unitCost
          Products,   \* Product.id
          Categories, \* Category.id
          Offset,     \* the server's time zone
          DayLength,  \* parts of a day
          MonthDays,  \* days of a month
          Clock,      \* bound: the moments of a behaviour
          Dates,      \* bound: the completedAt a client sends with an order
          Kinds,      \* the reports asked for
          Ranges,     \* bound: the ranges of getOrderStats, [from, to]
          Types       \* the types of purchases a customer asks for

ASSUME ReportsAssumption ==
    /\ Sale \in [Orders -> [total: Nat, product: Products, qty: Nat \ {0},
                            price: Nat, cost: Nat]]
    /\ {DayLength, MonthDays} \subseteq Nat \ {0}
    /\ Offset \in -DayLength .. DayLength
    /\ IsFiniteSet(Orders)
    /\ Clock \subseteq Nat /\ Clock # {} /\ IsFiniteSet(Clock)
    /\ Clock = Min(Clock) .. Max(Clock)
    /\ Dates \subseteq Nat
    /\ Ranges \subseteq [from : Int, to : Int]
    /\ Types \subseteq {"PENDING", "PROCESSING", "SHIPPED", "DELIVERED", "CANCELED",
                       "OTHER"}

VARIABLES
    now,        \* the server's clock
    orders,     \* Order rows: status, createdAt, completedAt; and for history
                \* the completedAt sent at first, and whether the order was
                \* ever confirmed
    categoryOf, \* Product.categoryId
    categories, \* Category rows
    report      \* the report in progress

tables == <<orders, categoryOf, categories>>
reportVars == <<now, tables, report>>

Never == -1
NotPlaced == [status |-> "NONE", created |-> Never, completed |-> Never,
              sent |-> Never, confirmed |-> FALSE]
NoReport == [kind |-> "none"]

ReportInit ==
    /\ now = Min(Clock)
    /\ orders = [o \in Orders |-> NotPlaced]
    /\ categoryOf \in [Products -> Categories]
    /\ categories = Categories
    /\ report = NoReport

Sum(f, S) == SumFunctionOnSet(f, S)
In(statuses) == {o \in Orders : orders[o].status \in statuses}

-----------------------------------------------------------------------------
(* Ranges of time                                                          *)

Midnight(t) == (t \div DayLength) * DayLength
Between(t, from, to) == from <= t /\ t <= to

MonthLength == DayLength * MonthDays
MonthStart(local) == (local \div MonthLength) * MonthLength

\* The dates, in UTC, of the local month's first and last moments; a date
\* given as the end of a range means the beginning of that day.
Month(start, offset) ==
    [from |-> Midnight(start - offset),
     to |-> Midnight(start + MonthLength - 1 - offset)]

ThisMonth == Month(MonthStart(now + Offset), Offset)
LastMonth == Month(MonthStart(now + Offset) - MonthLength, Offset)

\* buildOrderWhereClause and buildOrderItemWhereClause
Completed(from, to) ==
    {o \in In({"DELIVERED"}) : Between(orders[o].completed, from, to)}

\* Mutant: whatever has become of the order.
SoldItemsOfAll(from, to) ==
    {o \in Orders : orders[o] # NotPlaced /\ Between(orders[o].created, from, to)}

SoldItems(from, to) ==
    {o \in In({"DELIVERED"}) : Between(orders[o].created, from, to)}

\* Mutant: orders are put on the day they were placed.
DayPlaced(o) == Midnight(orders[o].created)

DayOf(o) == Midnight(orders[o].completed)

\* fillMissingDates: from day to day, at the time of day of from
Days(from, to) ==
    {Midnight(t) : t \in {u \in from .. to : (u - from) % DayLength = 0}}

-----------------------------------------------------------------------------
(* Reports of one statement: a figure, or figures by day                   *)

Revenue == [o \in Orders |-> Sale[o].total]
Profit == [o \in Orders |-> Sale[o].total - Sale[o].cost * Sale[o].qty]
ItemProfit == [o \in Orders |-> (Sale[o].price - Sale[o].cost) * Sale[o].qty]
One == [o \in Orders |-> 1]

\* getRevenueStats and getProfitStats
RevenueStats(from, to) == Sum(Revenue, Completed(from, to))
ProfitStats(from, to) == Sum(Profit, Completed(from, to))

\* getRevenueProfitStats, and its totals
ByDay(figure, from, to) ==
    [d \in Days(from, to) |->
        Sum(figure, {o \in Completed(from, to) : DayOf(o) = d})]
DayTotal(figure, from, to) ==
    Sum(ByDay(figure, from, to), Days(from, to))

\* getDailyStats: days of createdAt, of a range of completedAt
DailyStats(from, to) ==
    [d \in Days(from, to) |->
        Sum(Revenue, {o \in Completed(from, to) : DayPlaced(o) = d})]

-----------------------------------------------------------------------------
(* The statements of the other reports, by the names of their results, and *)
(* what each waits for                                                     *)

Statements ==
    [orderStats |-> {"days", "count"},
     orderSummary |-> {"delivered", "pending", "canceled", "canceledMonth",
                       "deliveredMonth", "deliveredLast"},
     revenueSummary |-> {"current", "previous", "month", "total"},
     bestCategories |-> {"items", "products", "names"},
     purchases |-> {"page", "light", "all"}]

After ==
    [q \in UNION {Statements[k] : k \in DOMAIN Statements} |->
        CASE q = "products" -> {"items"}
          [] q = "names" -> {"items", "products"}
          [] q \in {"light", "all"} -> {"page"}
          [] OTHER -> {}]

Ended == {"CANCELED", "DELIVERY_FAILED"}
Pending == {"PENDING", "PROCESSING", "SHIPPED"}
Statuses == Ended \cup Pending \cup {"DELIVERED"}
UIStatus(status) == IF status \in Ended THEN "CANCELED" ELSE status

\* Mutant: the orders placed in the range.
CountPlaced(range) == Cardinality(SoldItems(range.from, range.to))

CountOf(range) == Cardinality(Completed(range.from, range.to))

\* getUserPurchases: a type without a filter of its own lists everything.
PageOf(type) ==
    CASE type = "CANCELED" -> In(Ended)
      [] type = "OTHER" -> In(Statuses)
      [] OTHER -> In({type})

Names(found) == {c \in categories : \E p \in DOMAIN found : found[p] = c}

Result(q) ==
    LET args == report.args
        month == args.this
        last == args.last IN
    CASE q = "days" -> DayTotal(One, args.from, args.to)
      [] q = "count" -> CountOf(args)
      [] q = "delivered" -> Cardinality(In({"DELIVERED"}))
      [] q = "pending" -> Cardinality(In(Pending))
      [] q = "canceled" -> Cardinality(In(Ended))
      [] q = "canceledMonth" -> Cardinality(
             {o \in In(Ended) : Between(orders[o].created, month.from, month.to)})
      [] q = "deliveredMonth" -> CountOf(month)
      [] q = "deliveredLast" -> CountOf(last)
      [] q = "current" -> DayTotal(Revenue, month.from, month.to)
      [] q = "previous" -> DayTotal(Revenue, last.from, last.to)
      [] q = "month" -> RevenueStats(month.from, month.to)
      [] q = "total" -> [revenue |-> Sum(Revenue, In({"DELIVERED"})),
                         profit |-> Sum(ItemProfit, In({"DELIVERED"}))]
      [] q = "items" -> SoldItems(args.from, args.to)
      [] q = "products" -> [p \in {Sale[o].product : o \in report.got["items"]} |->
                               categoryOf[p]]
      [] q = "names" -> Names(report.got["products"])
      [] q = "page" -> Cardinality(PageOf(args.type))
      [] q = "light" -> [u \in {UIStatus(t) : t \in Statuses} |->
                            Cardinality({o \in In(Statuses) :
                                            UIStatus(orders[o].status) = u})]
      [] q = "all" -> Cardinality(In(Statuses))

Ask(kind, args) ==
    /\ report = NoReport
    /\ kind \in Kinds
    /\ report' = [kind |-> kind, args |-> args, got |-> [q \in {} |-> 0],
                  changed |-> {}, moved |-> {}]
    /\ UNCHANGED <<now, tables>>

\* The ranges asked for, and the types of purchases
AskOrderStats(range) == Ask("orderStats", range)
AskPurchases(type) == Ask("purchases", [type |-> type])

\* Both summaries
AskSummary(kind) == Ask(kind, [this |-> ThisMonth, last |-> LastMonth])

\* The overview: from the date of some days ago to this moment
AskCategories ==
    Ask("bestCategories", [from |-> Midnight(now) - MonthLength, to |-> now])

Left == Statements[report.kind] \ DOMAIN report.got
Complete == report # NoReport /\ Left = {}

Run(q) ==
    /\ report # NoReport
    /\ q \in Left
    /\ After[q] \subseteq DOMAIN report.got
    /\ report' = [report EXCEPT !.got =
           [r \in DOMAIN @ \cup {q} |-> IF r = q THEN Result(q) ELSE @[r]]]
    /\ UNCHANGED <<now, tables>>

Respond == Complete /\ report' = NoReport /\ UNCHANGED <<now, tables>>

-----------------------------------------------------------------------------
(* Meanwhile                                                               *)

\* History: the orders that change while a report is under way.
Touch(o) ==
    report' = IF report = NoReport THEN report
              ELSE [report EXCEPT !.changed = @ \cup {o}]

\* A client may send the time of completion, whatever it is, with the order.
Place(o, sent) ==
    /\ orders[o] = NotPlaced
    /\ orders' = [orders EXCEPT ![o] =
           [status |-> "PENDING", created |-> now, completed |-> sent,
            sent |-> sent, confirmed |-> FALSE]]
    /\ Touch(o)
    /\ UNCHANGED <<now, categoryOf, categories>>

\* ALLOWED_STATUS_TRANSITIONS
Allowed(status) ==
    CASE status = "PENDING" -> {"PROCESSING", "CANCELED"}
      [] status = "PROCESSING" -> {"SHIPPED", "DELIVERED", "CANCELED"}
      [] status = "SHIPPED" -> {"DELIVERED", "DELIVERY_FAILED"}
      [] status = "DELIVERY_FAILED" -> {"CANCELED"}
      [] OTHER -> {}

\* updateStatus and confirmShipment check the status they read, which another
\* handler may have changed since: it is the present one, or one the order
\* had before (those not named here allow nothing that these do not).
StatusesRead(o) ==
    {"PENDING", orders[o].status} \cup
        (IF orders[o].confirmed THEN {"PROCESSING"} ELSE {})

\* cancelOrder and updateDeliveryFailed check nothing.  (A second return request
\* of an order, which its unique key refuses, is not told apart here.)
Follows(o, status) ==
    \/ status \in Ended
    \/ \E read \in StatusesRead(o) : status \in Allowed(read)

\* updateStatus sets completedAt on delivery, if it read that it is not set.
Advance(o, status, read) ==
    /\ orders[o] # NotPlaced
    /\ Follows(o, status)
    /\ read \in {orders[o].sent, orders[o].completed}
    /\ orders' = [orders EXCEPT ![o].status = status,
           ![o].confirmed = @ \/ status = "PROCESSING",
           ![o].completed = IF status = "DELIVERED" /\ read = Never THEN now ELSE @]
    /\ Touch(o)
    /\ UNCHANGED <<now, categoryOf, categories>>

MoveProduct(p, c) ==
    /\ c \in categories \ {categoryOf[p]}
    /\ categoryOf' = [categoryOf EXCEPT ![p] = c]
    /\ report' = IF report.kind # "bestCategories" THEN report
                 ELSE [report EXCEPT !.moved = @ \cup {p}]
    /\ UNCHANGED <<now, orders, categories>>

\* Mutant: the row is deleted whatever refers to it.
DeleteAnyCategory(c) ==
    /\ c \in categories
    /\ categories' = categories \ {c}
    /\ UNCHANGED <<now, orders, categoryOf, report>>

\* A category that a product still refers to cannot be deleted.
DeleteCategory(c) ==
    /\ c \in categories \ {categoryOf[p] : p \in Products}
    /\ categories' = categories \ {c}
    /\ UNCHANGED <<now, orders, categoryOf, report>>

Tick ==
    /\ now + 1 \in Clock
    /\ now' = now + 1
    /\ UNCHANGED <<tables, report>>

Asked ==
    \/ \E range \in Ranges : AskOrderStats(range)
    \/ \E kind \in {"orderSummary", "revenueSummary"} : AskSummary(kind)
    \/ \E type \in Types : AskPurchases(type)
    \/ AskCategories

ReportNext ==
    \/ Asked
    \/ \E q \in DOMAIN After : Run(q)
    \/ Respond
    \/ \E o \in Orders, sent \in Dates \cup {Never} : Place(o, sent)
    \/ \E o \in Orders, status \in Statuses, read \in Clock \cup Dates \cup {Never} :
          Advance(o, status, read)
    \/ \E p \in Products, c \in Categories : MoveProduct(p, c)
    \/ \E c \in Categories : DeleteCategory(c)
    \/ Tick

ReportSpec == ReportInit /\ [][ReportNext]_reportVars

-----------------------------------------------------------------------------
(* Properties *)

\* The answers of one statement depend on the tables alone: it is enough to
\* look at them while no other report is under way.
Quiet == report = NoReport

\* The figures by day add up to the figures of the whole range, for revenue
\* and for profit, unless the range begins later in its day than it ends:
\* then its last day is not listed, and what was completed on it is lost.
DaysAddUp ==
    Quiet => \A from, to \in Clock : from <= to =>
        LET lost == {o \in Completed(from, to) :
                        /\ (from % DayLength) > (to % DayLength)
                        /\ DayOf(o) = Midnight(to)} IN
        /\ DayTotal(Revenue, from, to) + Sum(Revenue, lost) = RevenueStats(from, to)
        /\ DayTotal(Profit, from, to) + Sum(Profit, lost) = ProfitStats(from, to)

\* Two figures of one answer, which different statements computed, disagree
\* only about the orders that changed while the report was made: each of these
\* may be missed by one statement and counted by several others.  (Both months
\* count the orders of the moment they share.)
FiguresAgree ==
    Complete =>
    LET got == report.got
        args == report.args
        slack == Cardinality(report.changed)
        money == Sum(Revenue, report.changed)
        Near(n, m, d) == n \in m - d .. m + d IN
    /\ report.kind = "orderStats" /\ args.from % DayLength <= args.to % DayLength =>
           Near(got["days"], got["count"], slack)
    /\ report.kind = "orderSummary" =>
           /\ got["deliveredMonth"] + got["deliveredLast"] <=
                  got["delivered"] + 2 * slack
                  + Cardinality({o \in Orders : orders[o].completed = args.this.from})
           /\ got["canceledMonth"] <= got["canceled"] + slack
           /\ LET counted == got["delivered"] + got["pending"] + got["canceled"]
                  placed == Cardinality(In(Statuses)) IN
              counted \in placed - slack .. placed + 2 * slack
    /\ report.kind = "revenueSummary" =>
           /\ Near(got["current"], got["month"], money)
           /\ got["month"] <= got["total"].revenue + money
    /\ report.kind = "purchases" =>
           /\ Near(Sum(got["light"], DOMAIN got["light"]), got["all"], slack)
           /\ args.type # "OTHER" => Near(got["page"], got["light"][args.type], slack)

\* The ranking of categories leaves out an item that was sold only if its
\* product moved to another category while the ranking was made.
SalesKept ==
    Complete /\ report.kind = "bestCategories" =>
        \A o \in report.got["items"] :
            \/ report.got["products"][Sale[o].product] \in report.got["names"]
            \/ Sale[o].product \in report.moved

\* An order counts among the products sold in a range, but not in its
\* revenue, only if it was completed after the range, and the other way round
\* only if it was placed before the range, except when the client itself sent
\* the date of completion.  The daily figures of the range add up to its
\* revenue without the orders placed on a day before or after it.
RangesDifferAtTheirEnds ==
    Quiet => \A from, to \in Clock : from % DayLength = 0 =>
        LET sold == SoldItems(from, to)
            completed == Completed(from, to)
            before == {o \in completed : orders[o].created < from}
            after == {o \in completed : Midnight(orders[o].created) > Midnight(to)} IN
        /\ \A o \in sold \ completed :
              orders[o].sent = Never => orders[o].completed > to
        /\ \A o \in completed \ sold : orders[o].sent = Never => o \in before
        /\ from <= to => Sum(DailyStats(from, to), Days(from, to))
               + Sum(Revenue, before) + Sum(Revenue, after) = RevenueStats(from, to)
=============================================================================
