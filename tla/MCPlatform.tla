----------------------------- MODULE MCPlatform -----------------------------
(***************************************************************************)
(* Small instances of the components that share no state with each other,  *)
(* for one run of TLC: "part" says which component the behaviour is about, *)
(* and the variables of the others stay as they are.                       *)
(***************************************************************************)
EXTENDS Sessions, AmazonTokens, OrderStore, OrderFetch, AutoSync, RenewalBatch, Dashboard,
        SyncPage, SyncBatch, Periods, Shipments, OrderMapping, Analytics, DataCoverage

CONSTANTS o1, o2, \* orders
          Parts   \* the components of the run

VARIABLE part

-----------------------------------------------------------------------------
(* Values of the constants. *)

\* an event of an equal date and one without date, for each of two orders
MCStamps == (o1 :> <<1, 2, 2>>) @@ (o2 :> <<1, 0, 2>>)
MCShortStamps == (o1 :> <<1, 2>>) @@ (o2 :> <<1, 1>>)

\* a short month, and dates of two months that may not exist
MCMonths == <<4, 3, 3>>
MCTexts == {[month |-> 1, day |-> 4]} \cup [month : {2}, day : {2, 3, 4}]

\* 4.5 and 0.03: an amount with one decimal, and one that does not divide
MCAmounts == {[whole |-> 4, digits |-> <<5>>], [whole |-> 0, digits |-> <<0, 3>>]}

Sku(name, case) == [name |-> name, case |-> case]
Item(listing, sku, units, price) ==
    [listing |-> listing, sku |-> sku, units |-> units, price |-> price]
MCAccounts ==
    {[id |-> "ml", marketplace |-> "MERCADO_LIVRE", connected |-> TRUE, synced |-> TRUE],
     [id |-> "az", marketplace |-> "AMAZON", connected |-> FALSE, synced |-> FALSE]}

\* one SKU in two spellings, an item without SKU, and orders on two days
FullOrder ==
    [id |-> "p1", account |-> "ml", at |-> 9, status |-> "paid", amount |-> 4, currency |-> "BRL",
     class |-> "FULL", items |-> {Item("l1", Sku("A", "upper"), 2, 2)}]
OpenOrder ==
    [id |-> "p2", account |-> "ml", at |-> 10, status |-> "paid", amount |-> 7, currency |-> "BRL",
     class |-> "UNKNOWN", items |-> {Item("l2", Sku("A", "lower"), 1, 3), Item("l3", NoSku, 2, 2)}]
MCFirst == {FullOrder, OpenOrder}

\* a cancellation, a classification, an order in dollars and one of no value
MCNew ==
    {[FullOrder EXCEPT !.status = "cancelled"], [OpenOrder EXCEPT !.class = "SELLER"],
     [id |-> "p3", account |-> "az", at |-> 12, status |-> "paid", amount |-> 5,
      currency |-> "USD", class |-> "SELLER", items |-> {Item("l4", Sku("B", "upper"), 1, 5)}],
     [id |-> "p4", account |-> "ml", at |-> 13, status |-> "cancelled", amount |-> 0,
      currency |-> "BRL", class |-> "FULL", items |-> {Item("l4", Sku("B", "upper"), 1, 5)}]}

Filter(marketplace, account, logistics, allTime) ==
    [marketplace |-> marketplace, account |-> account, logistics |-> logistics,
     allTime |-> allTime, from |-> 2, to |-> 3]
MCScopes ==
    {Filter("ALL", "ANY", "ALL", FALSE), Filter("MERCADO_LIVRE", "ml", "NON_FULL", FALSE),
     Filter("MERCADO_LIVRE", "ANY", "FULL", FALSE), Filter("ALL", "ml", "ALL", TRUE),
     Filter("AMAZON", "ANY", "ALL", FALSE), Filter("ALL", "ANY", "FULL", FALSE)}
MCPanels ==
    {{"totals", "series", "skus"}, {"totals", "groups", "fullRanking"},
     {"totals", "previous", "listings"}, {"totals", "groups", "fullSeries"}}

-----------------------------------------------------------------------------
(* The components at rest. *)

FetchAtRest ==
    /\ pages = <<0>>
    /\ fetch = [market |-> "AMAZON", page |-> 1, got |-> {}, retries |-> 0, renewals |-> 0,
                result |-> "whole"]

CycleAtRest == CycleInit /\ \A i \in CycleInstances : cycle[i] = Disabled

DashboardAtRest == DashboardInit /\ scope = [view |-> BadView, account |-> NoShop]

SyncPageAtRest ==
    /\ job = [a \in PanelAccounts |-> NoJob]
    /\ shown = job
    /\ loadErrors = [a \in PanelAccounts |-> FALSE]
    /\ reads = [a \in PanelAccounts |-> {}]
    /\ action = [a \in PanelAccounts |-> NoClick]
    /\ outdated = [a \in PanelAccounts |-> FALSE]
    /\ clicks = 0 /\ chunks = 0 /\ pageFaults = 0

ShipmentsAtRest ==
    /\ shipmentOf = [i \in Positions |-> NoShipment]
    /\ logisticType = [s \in ShipmentIds |-> "fulfillment"]
    /\ next = 1
    /\ resolved = [s \in ShipmentIds |-> "none"]
    /\ lookups = <<>>
    /\ classes = [i \in Positions |-> "none"]

SomeOrder == CHOOSE r \in RawOrders : TRUE
MappingAtRest == raw = SomeOrder /\ mapped = NotMapped("none")

AnalyticsAtRest ==
    /\ orderTable = FirstOrders
    /\ filter = (CHOOSE s \in Scopes : TRUE) /\ panels = (CHOOSE p \in PanelSets : TRUE)
    /\ answer = <<>> /\ commits = 0 /\ disturbed = FALSE

PlatformInit ==
    /\ part \in Parts
    /\ SessionsInit /\ AmazonInit /\ StoreInit /\ BatchInit /\ SyncBatchInit /\ PeriodsInit
    /\ succeeded = [s \in Sources |-> {}]
    /\ IF part = "fetch" THEN FetchInit ELSE FetchAtRest
    /\ IF part = "cycle" THEN CycleInit ELSE CycleAtRest
    /\ IF part = "dashboard" THEN DashboardInit ELSE DashboardAtRest
    /\ IF part = "panels" THEN SyncPageInit ELSE SyncPageAtRest
    /\ IF part = "shipments" THEN ShipmentsInit ELSE ShipmentsAtRest
    /\ IF part = "mapping" THEN MappingInit ELSE MappingAtRest
    /\ IF part = "analytics" THEN AnalyticsInit ELSE AnalyticsAtRest

-----------------------------------------------------------------------------
marketVars == <<authVars, amzVars, storeVars, fetchVars>>
schedulerVars == <<cycleVars, batchVars>>
pageVars == <<dashboardVars, syncPageVars, syncBatchVars>>
figureVars == <<periodVars, shipmentVars, mappingVars, analyticsVars, succeeded>>

SessionsMoves == /\ SessionsNext
             /\ UNCHANGED <<amzVars, storeVars, fetchVars, schedulerVars, pageVars, figureVars>>
AmazonMoves == /\ AmazonNext
           /\ UNCHANGED <<authVars, storeVars, fetchVars, schedulerVars, pageVars, figureVars>>
StoreMoves == /\ StoreNext
          /\ UNCHANGED <<authVars, amzVars, fetchVars, schedulerVars, pageVars, figureVars>>
FetchMoves == /\ FetchNext
          /\ UNCHANGED <<authVars, amzVars, storeVars, schedulerVars, pageVars, figureVars>>
CycleMoves == CycleNext /\ UNCHANGED <<marketVars, batchVars, pageVars, figureVars>>
BatchMoves == BatchNext /\ UNCHANGED <<marketVars, cycleVars, pageVars, figureVars>>
DashboardMoves ==
    /\ DashboardNext
    /\ UNCHANGED <<marketVars, schedulerVars, syncPageVars, syncBatchVars, figureVars>>
SyncPageMoves ==
    /\ SyncPageNext
    /\ UNCHANGED <<marketVars, schedulerVars, dashboardVars, syncBatchVars, figureVars>>
SyncBatchMoves ==
    /\ SyncBatchNext
    /\ UNCHANGED <<marketVars, schedulerVars, dashboardVars, syncPageVars, figureVars>>
PeriodsMoves ==
    /\ PeriodsNext
    /\ UNCHANGED <<marketVars, schedulerVars, pageVars, shipmentVars, mappingVars, analyticsVars,
                   succeeded>>
ShipmentsMoves ==
    /\ ShipmentsNext
    /\ UNCHANGED <<marketVars, schedulerVars, pageVars, periodVars, mappingVars, analyticsVars,
                   succeeded>>
MappingMoves ==
    /\ MapOrder
    /\ UNCHANGED <<marketVars, schedulerVars, pageVars, periodVars, shipmentVars, analyticsVars,
                   succeeded>>
AnalyticsMoves ==
    /\ AnalyticsNext
    /\ UNCHANGED <<marketVars, schedulerVars, pageVars, periodVars, shipmentVars, mappingVars,
                   succeeded>>
CoverageMoves ==
    /\ Next
    /\ UNCHANGED <<marketVars, schedulerVars, pageVars, periodVars, shipmentVars, mappingVars,
                   analyticsVars>>

PlatformNext ==
    /\ \/ part = "sessions" /\ SessionsMoves
       \/ part = "amazon" /\ AmazonMoves
       \/ part = "store" /\ StoreMoves
       \/ part = "fetch" /\ FetchMoves
       \/ part = "cycle" /\ CycleMoves
       \/ part = "batch" /\ BatchMoves
       \/ part = "dashboard" /\ DashboardMoves
       \/ part = "panels" /\ SyncPageMoves
       \/ part = "all_rows" /\ SyncBatchMoves
       \/ part = "periods" /\ PeriodsMoves
       \/ part = "shipments" /\ ShipmentsMoves
       \/ part = "mapping" /\ MappingMoves
       \/ part = "analytics" /\ AnalyticsMoves
       \/ part = "coverage" /\ CoverageMoves
    /\ UNCHANGED part

platformVars == <<part, marketVars, schedulerVars, pageVars, figureVars>>

PlatformSpec == PlatformInit /\ [][PlatformNext]_platformVars


-----------------------------------------------------------------------------
(* The scheduler's cycle is typed and one at a time, and the batch of      *)
(* renewals holds distinct accounts and no more than its size.             *)
ScheduleInv ==
    /\ part = "cycle" => CycleInv
    /\ part = "batch" => BatchTypeOK

(* The pages ask for whole days, and their state keeps its type.           *)
PagesInv ==
    /\ part = "periods" => PeriodsInv
    /\ part = "dashboard" => DashboardTypeOK
    /\ part = "panels" => SyncPageTypeOK
    /\ part = "all_rows" => SyncBatchTypeOK

(* What the dashboards say of a period is what the runs covered.           *)
CoverageTold == part = "coverage" => CoverageInv
=============================================================================
