----------------------------- MODULE Analytics -----------------------------
(***************************************************************************)
(* One request to the consolidated dashboard (getAggregate of              *)
(* MarketplaceAnalyticsService and the response built from it).  Every     *)
(* part of the answer is a statement of its own, on whatever connection    *)
(* the pool gives it: the statements of one part follow each other, those  *)
(* of different parts run in any order, and a synchronisation may commit   *)
(* orders between any two of them.  The legacy endpoint of a single        *)
(* Mercado Livre account (MercadoLivreOrdersKpiService) computes the same  *)
(* figures from the same rows.  Money is in cents.                         *)
(***************************************************************************)
EXTENDS CalendarDays, FiniteSetsExt

CONSTANTS
    AnalyticsAccounts,  \* accounts, records [id, marketplace, connected, synced]
    FirstOrders,        \* rows of marketplace_orders with their items, at first
    NewOrders,          \* rows that a synchronisation may write
    Scopes,             \* filters of a request
    PanelSets,          \* bound: the parts of the answer a request asks for
    TopLimit,           \* TOP_RANKING_LIMIT and FULL_RANKING_LIMIT
    NoSku,              \* an item without a seller SKU
    MaxCommits          \* bound: rows written while the request is served

ASSUME AnalyticsAssumption == TopLimit \in Nat \ {0} /\ MaxCommits \in Nat

\* the columns of marketplace_accounts and their primary key
ASSUME AccountsAssumption ==
    /\ IsFiniteSet(AnalyticsAccounts)
    /\ \A a \in AnalyticsAccounts : a.connected \in BOOLEAN /\ a.synced \in BOOLEAN
    /\ \A a, b \in AnalyticsAccounts : a.id = b.id => a = b

\* what parseDateOnlyStrict, the comparison of the dates and
\* parseLogisticsScopeFilter let through
ASSUME ScopesAssumption ==
    /\ Scopes # {} /\ PanelSets # {}
    /\ \A s \in Scopes :
          /\ s.from \in Int /\ s.to \in Int /\ s.from <= s.to /\ s.allTime \in BOOLEAN
          /\ s.logistics \in {"ALL", "FULL", "NON_FULL"}

VARIABLES
    orderTable,     \* marketplace_orders with marketplace_order_items
    filter,      \* the filter of the request
    panels,     \* the parts asked for
    answer,     \* the result of each statement that ended
    commits,    \* rows written so far
    disturbed   \* whether one was written between two statements

analyticsVars == <<orderTable, filter, panels, answer, commits, disturbed>>

-----------------------------------------------------------------------------
(* The statements, as functions of the rows they see. *)

SumOver(rows, F(_)) == SumFunctionOnSet([r \in rows |-> F(r)], rows)

IsPaid(o) == o.status = "paid"
IsCancelled(o) == o.status = "cancelled"
IsGrossSale(o) == IsPaid(o) \/ (IsCancelled(o) /\ o.amount > 0)

\* the WHERE of the statements: account, window and logistics class
Select(rows, accounts, w, classes) ==
    {o \in rows : /\ o.account \in accounts /\ w[1] <= o.at /\ o.at < w[2]
                  /\ o.class \in classes}

\* the rows of the join with marketplace_order_items
ItemRows(rows) == UNION {{[order |-> o, item |-> i] : i \in o.items} : o \in rows}

AmountOf(rows) == SumOver(rows, LAMBDA o : o.amount)
UnitsOf(rows) == SumOver(ItemRows(rows), LAMBDA r : r.item.units)
ValueOf(itemRows) == SumOver(itemRows, LAMBDA r : r.item.units * r.item.price)

Where(rows, Test(_)) == {o \in rows : Test(o)}

OrderTotals(rows) ==
    [revenue |-> AmountOf(Where(rows, IsPaid)),
     orders |-> Cardinality(Where(rows, IsPaid)),
     cancelled |-> Cardinality(Where(rows, IsCancelled)),
     cancelledRevenue |-> AmountOf(Where(rows, IsCancelled)),
     salesRevenue |-> AmountOf(Where(rows, IsGrossSale)),
     salesOrders |-> Cardinality(Where(rows, IsGrossSale))]

\* UPPER(TRIM(seller_sku)), or marketplace, account and listing without one
Product(r) ==
    IF r.item.sku # NoSku THEN <<"sku", r.item.sku.name>>
    ELSE <<"fallback", r.order.account, r.item.listing>>

Products(itemRows) == {Product(r) : r \in itemRows}

ItemTotals(rows) ==
    [units |-> UnitsOf(Where(rows, IsPaid)),
     itemsRevenue |-> ValueOf(ItemRows(Where(rows, IsPaid))),
     products |-> Cardinality(Products(ItemRows(Where(rows, IsPaid)))),
     cancelledUnits |-> UnitsOf(Where(rows, IsCancelled)),
     salesUnits |-> UnitsOf(Where(rows, IsGrossSale))]

CurrenciesOf(rows) == {o.currency : o \in Where(rows, IsPaid)}

DayIndex(at, w) == (at - w[1]) \div DayLength

\* a point for each listed day; a row of another index is dropped
OrderSeries(rows, w) ==
    [k \in DOMAIN DaysInWindow(w[1], w[2]) |->
        LET ofDay == {o \in rows : DayIndex(o.at, w) = k - 1}
        IN  [revenue |-> AmountOf(Where(ofDay, IsPaid)),
             orders |-> Cardinality(Where(ofDay, IsPaid)),
             cancelled |-> Cardinality(Where(ofDay, IsCancelled))]]

UnitSeries(rows, w) ==
    [k \in DOMAIN DaysInWindow(w[1], w[2]) |->
        UnitsOf({o \in rows : IsPaid(o) /\ DayIndex(o.at, w) = k - 1})]

\* The first TopLimit of the entries in the order of a rank, which may be any
\* of them among entries of one rank.
TopOf(entries) ==
    {top \in SUBSET entries :
        /\ Cardinality(top) = IF Cardinality(entries) < TopLimit
                              THEN Cardinality(entries) ELSE TopLimit
        /\ \A e \in top, f \in entries \ top : e.rank >= f.rank}

RankedBy(itemRows, Key(_)) ==
    {LET ofKey == {r \in itemRows : Key(r) = k}
     IN  [key |-> k, rank |-> ValueOf(ofKey), revenue |-> ValueOf(ofKey),
          units |-> SumOver(ofKey, LAMBDA r : r.item.units)] :
        k \in {Key(r) : r \in itemRows}}

\* fetchTopProductsBySku and fetchTopListings
SkuRanking(rows) == RankedBy(ItemRows(Where(rows, IsPaid)), Product)
ListingRanking(rows) ==
    RankedBy(ItemRows(Where(rows, IsPaid)), LAMBDA r : <<r.order.account, r.item.listing>>)

\* fetchFullRankingBySku: SUM ... FILTER is NULL for a product without a gross
\* sale, and a descending order of PostgreSQL puts NULL before every value.
NullRank == 1000000
FullRanking(rows) ==
    {LET ofKey == {r \in ItemRows(rows) : Product(r) = k}
         sold == {r \in ofKey : IsGrossSale(r.order)}
     IN  [key |-> k, rank |-> IF sold = {} THEN NullRank ELSE ValueOf(sold),
          revenue |-> ValueOf(sold), units |-> SumOver(sold, LAMBDA r : r.item.units)] :
        k \in Products(ItemRows({o \in rows : IsPaid(o) \/ IsCancelled(o)}))}

Classes == {"FULL", "SELLER", "UNKNOWN"}

\* The columns of the rows, and the unique index of the orders.
ASSUME OrdersAssumption ==
    /\ IsFiniteSet(FirstOrders \cup NewOrders)
    /\ \A o \in FirstOrders \cup NewOrders :
          /\ o.at \in Int /\ o.amount \in Nat /\ o.class \in Classes
          /\ IsFiniteSet(o.items)
          /\ \A i \in o.items : i.units \in Nat /\ i.price \in Nat
    /\ \A o, p \in FirstOrders : o.id = p.id => o = p

\* Mutant of Groups: what is not Full is taken for sold without Full.
GroupsOfTwo(g) ==
    CASE g = "full" -> {"FULL"} [] g = "nonFull" -> {"SELLER", "UNKNOWN"}
      [] g = "unknown" -> {"UNKNOWN"} [] g = "total" -> Classes
Groups(g) ==
    CASE g = "full" -> {"FULL"} [] g = "nonFull" -> {"SELLER"}
      [] g = "unknown" -> {"UNKNOWN"} [] g = "total" -> Classes
GroupNames == {"full", "nonFull", "unknown", "total"}

ByGroup(rows, Totals(_)) ==
    [g \in GroupNames |-> Totals({o \in rows : o.class \in Groups(g)})]

-----------------------------------------------------------------------------
(* The request. *)

\* Mutant of ClassesOf: without Full means every class but Full.
ClassesOfRest(s) ==
    CASE s.logistics = "ALL" -> Classes [] s.logistics = "FULL" -> {"FULL"}
      [] s.logistics = "NON_FULL" -> Classes \ {"FULL"}
\* classificationValuesForScope
ClassesOf(s) ==
    CASE s.logistics = "ALL" -> Classes [] s.logistics = "FULL" -> {"FULL"}
      [] s.logistics = "NON_FULL" -> {"SELLER"}

\* parseMarketplaceFilter, parseLogisticsScopeFilter,
\* assertLogisticsScopeRequiresMercadoLivre and assertNoAccountMarketplaceConflict
Accepted(s) ==
    /\ s.marketplace \in {"ALL"} \cup {a.marketplace : a \in AnalyticsAccounts}
    /\ s.logistics # "ALL" => s.marketplace = "MERCADO_LIVRE"
    /\ \A a \in AnalyticsAccounts :
          a.id = s.account => s.marketplace \in {"ALL", a.marketplace}

HasHistory(a) == a.synced \/ \E o \in orderTable : o.account = a.id

\* classifyAccount: none for an account that was never of use
Availability(a, hasHistory) ==
    CASE a.connected /\ hasHistory -> {"AVAILABLE"}
      [] a.connected /\ ~hasHistory -> {"CONNECTED_NO_DATA"}
      [] ~a.connected /\ hasHistory -> {"HISTORICAL_ONLY"}
      [] OTHER -> {}

HasProvenData(availability) == availability \in {"AVAILABLE", "HISTORICAL_ONLY"}

ClassifiedAccounts(history) == {a \in AnalyticsAccounts : Availability(a, a \in history) # {}}
ScopedAccounts(history) ==
    {a \in ClassifiedAccounts(history) : /\ filter.marketplace \in {"ALL", a.marketplace}
                                 /\ filter.account \in {"ANY", a.id}}
Ids(accounts) == {a.id : a \in accounts}

\* bestAvailability, of the accounts of the filter
Proven == \E a \in ScopedAccounts(answer.history) :
              \E v \in Availability(a, a \in answer.history) : HasProvenData(v)

\* resolveAllTimeWindow and fetchOrderDateRange, with the days of the request
\* when the filter has no order
AllTimeWindow(rows) ==
    LET instants == {o.at : o \in rows}
    IN  IF instants = {} THEN <<InstantOf(filter.to), InstantOf(filter.to)>>
        ELSE <<Min(instants), Max(instants) + DayLength>>

\* resolveKpiPeriod
CurrentWindow ==
    IF filter.allTime THEN answer.range ELSE <<InstantOf(filter.from), InstantOf(filter.to + 1)>>
PreviousWindow ==
    <<InstantOf(filter.from - DaysInclusive(filter.from, filter.to)), InstantOf(filter.from)>>

\* the rows that a statement of the filter sees
SeenRows(w, classes) == Select(orderTable, Ids(ScopedAccounts(answer.history)), w, classes)
SeenInScope == SeenRows(CurrentWindow, ClassesOf(filter))
SeenBefore == SeenRows(PreviousWindow, ClassesOf(filter))
SeenOfAccount(a) == Select(orderTable, {a.id}, CurrentWindow, Classes)

Panels == {"totals", "previous", "series", "skus", "listings", "groups", "fullSeries",
           "fullRanking"}

\* the statements of each part, in their order
Statements(panel) ==
    CASE panel = "totals" -> <<"currency", "totals", "totalItems">>
      [] panel = "previous" -> <<"previousCurrency", "previousTotals", "previousItems">>
      [] panel = "groups" -> <<"groups", "groupItems">>
      [] OTHER -> <<panel>>

\* The statements of the accounts come first, and decide whether the rest runs.
Beginning == IF filter.allTime THEN {"history", "range"} ELSE {"history"}
AccountPart == {"accountOrders", "accountItems"}
Answered(q) == q \in DOMAIN answer
AllAnswered(queries) == queries \subseteq DOMAIN answer

Reply(q, value) ==
    /\ answer' = [k \in DOMAIN answer \cup {q} |-> IF k = q THEN value ELSE answer[k]]
    /\ UNCHANGED <<orderTable, filter, panels, commits, disturbed>>

\* whether the statements of a part are being sent
Open(panel) ==
    /\ panel \in panels
    /\ ~(panel = "previous" /\ filter.allTime)
    /\ AllAnswered(AccountPart) /\ Proven
    /\ ~Answered("mismatch")

MayAsk(panel, k) ==
    /\ Open(panel)
    /\ k \in DOMAIN Statements(panel)
    /\ ~Answered(Statements(panel)[k])
    /\ \A j \in 1..(k - 1) : Answered(Statements(panel)[j])

\* fetchHasHistoryMap, after findAll
AskHistory ==
    /\ Accepted(filter) /\ ~Answered("history")
    /\ Reply("history", {a \in AnalyticsAccounts : HasHistory(a)})

AskRange ==
    /\ filter.allTime /\ Answered("history") /\ ~Answered("range")
    /\ Reply("range", AllTimeWindow(
                {o \in orderTable : o.account \in Ids(ScopedAccounts(answer.history))}))

\* fetchAccountTotals
AskAccountOrders ==
    /\ AllAnswered(Beginning) /\ ~Answered("accountOrders")
    /\ Reply("accountOrders",
             [a \in ClassifiedAccounts(answer.history) |-> OrderTotals(SeenOfAccount(a))])

AskAccountItems ==
    /\ AllAnswered(Beginning) /\ ~Answered("accountItems")
    /\ Reply("accountItems",
             [a \in ClassifiedAccounts(answer.history) |->
                 UnitsOf(Where(SeenOfAccount(a), IsPaid))])

Mixed(currencies) == Cardinality(currencies) > 1

\* assertSingleCurrencyOrThrow, of either window: the request fails
AskCurrency(panel) ==
    /\ panel \in {"totals", "previous"} /\ MayAsk(panel, 1)
    /\ LET found == CurrenciesOf(IF panel = "totals" THEN SeenInScope ELSE SeenBefore)
       IN  Reply(IF Mixed(found) THEN "mismatch" ELSE Statements(panel)[1], found)

\* fetchPeriodTotals
AskTotals(panel) ==
    /\ panel \in {"totals", "previous"} /\ MayAsk(panel, 2)
    /\ Reply(Statements(panel)[2],
             OrderTotals(IF panel = "totals" THEN SeenInScope ELSE SeenBefore))

AskTotalItems(panel) ==
    /\ panel \in {"totals", "previous"} /\ MayAsk(panel, 3)
    /\ Reply(Statements(panel)[3], ItemTotals(IF panel = "totals" THEN SeenInScope ELSE SeenBefore))

\* fetchDailySeries and fetchFullDailySeries: the orders and the units are two
\* statements sent at once, whose points are joined by their index
SeriesRows(panel) ==
    IF panel = "series" THEN SeenInScope ELSE SeenRows(CurrentWindow, {"FULL"})
SeriesPanels == {"series", "fullSeries"}
UnitsKey(panel) == IF panel = "series" THEN "seriesUnits" ELSE "fullSeriesUnits"

AskSeries(panel) ==
    /\ panel \in SeriesPanels /\ MayAsk(panel, 1)
    /\ Reply(panel, [days |-> DaysInWindow(CurrentWindow[1], CurrentWindow[2]),
                     orders |-> OrderSeries(SeriesRows(panel), CurrentWindow)])

AskSeriesUnits(panel) ==
    /\ panel \in SeriesPanels /\ Open(panel) /\ ~Answered(UnitsKey(panel))
    /\ Reply(UnitsKey(panel), UnitSeries(SeriesRows(panel), CurrentWindow))

AskRanking(panel) ==
    /\ panel \in {"skus", "listings", "fullRanking"} /\ MayAsk(panel, 1)
    /\ \E top \in TopOf(CASE panel = "skus" -> SkuRanking(SeenInScope)
                          [] panel = "listings" -> ListingRanking(SeenInScope)
                          [] OTHER -> FullRanking(SeenRows(CurrentWindow, {"FULL"}))) :
          Reply(panel, top)

\* fetchLogisticsBreakdown: every group in one statement, whatever the
\* logistics filter of the request
AskGroups ==
    /\ MayAsk("groups", 1)
    /\ Reply("groups", ByGroup(SeenRows(CurrentWindow, Classes), OrderTotals))

AskGroupItems ==
    /\ MayAsk("groups", 2)
    /\ Reply("groupItems", ByGroup(SeenRows(CurrentWindow, Classes), ItemTotals))

\* A synchronisation writes an order (persistOrders, committed).
CommitOrder ==
    /\ commits < MaxCommits
    /\ \E o \in NewOrders \ orderTable : orderTable' = {p \in orderTable : p.id # o.id} \cup {o}
    /\ commits' = commits + 1
    /\ disturbed' = (disturbed \/ DOMAIN answer # {})
    /\ UNCHANGED <<filter, panels, answer>>

AnalyticsInit ==
    /\ orderTable = FirstOrders /\ filter \in Scopes /\ panels \in PanelSets
    /\ answer = <<>> /\ commits = 0 /\ disturbed = FALSE

AnalyticsNext ==
    \/ AskHistory
    \/ AskRange
    \/ AskAccountOrders
    \/ AskAccountItems
    \/ \E p \in Panels : AskCurrency(p)
    \/ \E p \in Panels : AskTotals(p)
    \/ \E p \in Panels : AskTotalItems(p)
    \/ \E p \in Panels : AskSeries(p)
    \/ \E p \in Panels : AskSeriesUnits(p)
    \/ \E p \in Panels : AskRanking(p)
    \/ AskGroups
    \/ AskGroupItems
    \/ CommitOrder

AnalyticsSpec == AnalyticsInit /\ [][AnalyticsNext]_analyticsVars

-----------------------------------------------------------------------------
(* The response. *)

\* shareOf, in tenths of a percent and rounded half up
ShareOf(part, total) ==
    IF total = 0 THEN 0 ELSE (2000 * part + total) \div (2 * total)

SkuShares == {ShareOf(e.units, answer.totalItems.units) : e \in answer.skus}
FullShares == {ShareOf(e.units, answer.groupItems["full"].salesUnits) : e \in answer.fullRanking}

\* hasGroupData: the summary of a group is absent rather than zero
HasGroupData(g) == answer.groups[g].salesOrders > 0 \/ answer.groups[g].cancelled > 0

\* computeFullCoverage of the paid and cancelled orders
RawOrderCount(g) == answer.groups[g].orders + answer.groups[g].cancelled
FullCoverage ==
    LET classified == RawOrderCount("full") + RawOrderCount("nonFull")
        unclassified == RawOrderCount("unknown")
    IN  CASE classified = 0 -> "unknown"
          [] classified > 0 /\ unclassified = 0 -> "complete"
          [] OTHER -> "partial"

\* sumAccountTotals, of the accounts with proven data
ProvenAccounts ==
    {a \in ScopedAccounts(answer.history) :
        \E v \in Availability(a, a \in answer.history) : HasProvenData(v)}

\* pickBestDay: none without a sale
BestDays ==
    {k \in DOMAIN answer.series.orders :
        /\ answer.series.orders[k].revenue > 0
        /\ \A j \in DOMAIN answer.series.orders :
              /\ answer.series.orders[j].revenue <= answer.series.orders[k].revenue
              /\ j < k => answer.series.orders[j].revenue < answer.series.orders[k].revenue}

-----------------------------------------------------------------------------
(* The legacy endpoint, computePeriodSummary: no join with the accounts and *)
(* a SKU that is trimmed but keeps its case.                               *)

LegacyProduct(r) ==
    IF r.item.sku # NoSku THEN <<"sku", r.item.sku>> ELSE <<"fallback", r.item.listing>>

LegacySummary(rows, account, w) ==
    LET seen == {o \in rows : o.account = account /\ w[1] <= o.at /\ o.at < w[2]}
        paid == Where(seen, IsPaid)
    IN  [revenue |-> AmountOf(paid), orders |-> Cardinality(paid),
         cancelled |-> Cardinality(Where(seen, IsCancelled)), units |-> UnitsOf(paid),
         itemsRevenue |-> ValueOf(ItemRows(paid)),
         products |-> Cardinality({LegacyProduct(r) : r \in ItemRows(paid)})]

-----------------------------------------------------------------------------
AnalyticsTypeOK ==
    /\ orderTable \subseteq FirstOrders \cup NewOrders
    /\ \A o, p \in orderTable : o.id = p.id => o = p
    /\ filter \in Scopes /\ panels \in PanelSets
    /\ commits \in 0..MaxCommits /\ disturbed \in BOOLEAN

\* Full, without Full and not classified always add up to the total, in every
\* figure and also while orders are written, and a group without orders is
\* told from one whose figures are zero.
GroupsPartition ==
    /\ Answered("groups") =>
          /\ \A f \in DOMAIN answer.groups["total"] :
                answer.groups["total"][f] =
                    answer.groups["full"][f] + answer.groups["nonFull"][f]
                        + answer.groups["unknown"][f]
          /\ FullCoverage = "complete" => ~HasGroupData("unknown")
          /\ HasGroupData("total") <=> \E g \in GroupNames \ {"total"} : HasGroupData(g)
    /\ Answered("groupItems") =>
          \A f \in {"units", "itemsRevenue", "cancelledUnits", "salesUnits"} :
              answer.groupItems["total"][f] = answer.groupItems["full"][f]
                  + answer.groupItems["nonFull"][f] + answer.groupItems["unknown"][f]

SeriesAddsUp(panel, revenue, orders) ==
    LET points == answer[panel].orders
    IN  /\ SumOver(DOMAIN points, LAMBDA k : points[k].revenue) = revenue
        /\ SumOver(DOMAIN points, LAMBDA k : points[k].orders) = orders

UnitsAddUp(key, units) == SumOver(DOMAIN answer[key], LAMBDA k : answer[key][k]) = units

\* When nothing was written while it was served, the parts of an answer agree
\* although each comes from a statement of its own: the points of the series
\* add up to the totals, the accounts of the filter to its revenue, the
\* logistics group to what the logistics filter shows, no product has more than
\* all the units, and the legacy endpoint shows the same figures.
QuietAnswerAddsUp ==
    ~disturbed /\ Answered("totalItems") =>
        /\ Answered("series") => SeriesAddsUp("series", answer.totals.revenue, answer.totals.orders)
        /\ Answered("groups") =>
              LET g == CASE filter.logistics = "ALL" -> "total"
                         [] filter.logistics = "FULL" -> "full"
                         [] OTHER -> "nonFull"
              IN  answer.groups[g] = answer.totals
        /\ Answered("groups") /\ Answered("fullSeries") =>
              LET full == answer.groups["full"]
              IN  SeriesAddsUp("fullSeries", full.revenue, full.orders)
        /\ Answered("seriesUnits") => UnitsAddUp("seriesUnits", answer.totalItems.units)
        /\ Answered("groupItems") /\ Answered("fullSeriesUnits") =>
              UnitsAddUp("fullSeriesUnits", answer.groupItems["full"].units)
        /\ Answered("skus") => \A s \in SkuShares : s \in 0..1000
        /\ Answered("groupItems") /\ Answered("fullRanking") => \A s \in FullShares : s \in 0..1000
        /\ filter.logistics = "ALL" =>
              /\ answer.totals.revenue =
                     SumOver(ProvenAccounts, LAMBDA a : answer.accountOrders[a].revenue)
              /\ answer.totalItems.units =
                     SumOver(ProvenAccounts, LAMBDA a : answer.accountItems[a])
        /\ \A a \in ScopedAccounts(answer.history) :
              ScopedAccounts(answer.history) = {a} /\ filter.logistics = "ALL" =>
                  LET legacy == LegacySummary(orderTable, a.id, CurrentWindow)
                  IN  /\ \A f \in {"revenue", "orders", "cancelled"} : legacy[f] = answer.totals[f]
                      /\ \A f \in {"units", "itemsRevenue"} : legacy[f] = answer.totalItems[f]
                      /\ legacy.products >= answer.totalItems.products

\* The revenue of an answer that nothing disturbed is a sum of one currency.
OneCurrencyPerAnswer ==
    ~disturbed /\ Answered("totals") => Cardinality(CurrenciesOf(SeenInScope)) <= 1

\* A point of the daily series holds the sales of the day of São Paulo it is
\* labelled with, and the best day is one of them.
SeriesByCalendarDay ==
    ~disturbed /\ ~filter.allTime /\ Answered("series") =>
        /\ \A k \in DOMAIN answer.series.days :
              answer.series.orders[k].revenue =
                  AmountOf({o \in SeenInScope : IsPaid(o) /\ DayOf(o.at) = answer.series.days[k]})
        /\ (BestDays = {}) <=> (AmountOf(Where(SeenInScope, IsPaid)) = 0)

\* The same of a request for all the time.
AllTimeSeriesByCalendarDay ==
    ~disturbed /\ filter.allTime /\ Answered("series") =>
        \A k \in DOMAIN answer.series.days :
            answer.series.orders[k].revenue =
                AmountOf({o \in SeenInScope : IsPaid(o) /\ DayOf(o.at) = answer.series.days[k]})

\* An answer is typed, its groups are a partition, and its revenue and its days
\* are what they are labelled with.
AnalyticsInv ==
    /\ AnalyticsTypeOK
    /\ GroupsPartition
    /\ OneCurrencyPerAnswer
    /\ SeriesByCalendarDay
=============================================================================
