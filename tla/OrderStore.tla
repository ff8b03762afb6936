----------------------------- MODULE OrderStore -----------------------------
(***************************************************************************)
(* persistOrders of MarketplaceOrdersPersistenceService: a lot of fetched  *)
(* orders is written in one transaction, each order by an INSERT ... ON    *)
(* CONFLICT DO UPDATE guarded by marketplace_last_updated and followed by  *)
(* the replacement of its items.  Synchronisations of the same account may *)
(* overlap (a stale run is recovered while its call goes on), so several   *)
(* lots are written at a time; PostgreSQL makes a writer wait for the      *)
(* transaction that holds the row and breaks a circle of waiting writers.  *)
(***************************************************************************)
EXTENDS Naturals, Sequences, FiniteSets, Functions

CONSTANTS
    StoredOrders,   \* external ids of orders of one account
    Writers,        \* synchronisations that write at a time
    MaxEvents,      \* bound: states an order goes through at the provider
    StampOf,        \* per order and state: the last_updated it comes with, 0 for none
    MaxLots,        \* bound: lots that are written
    MaxStoreFaults  \* bound: failing statements and broken connections

ASSUME StoreAssumption ==
    /\ IsFiniteSet(StoredOrders)
    /\ MaxEvents \in Nat \ {0}
    /\ StampOf \in [StoredOrders -> [1..MaxEvents -> Nat]]
    /\ MaxLots \in Nat
    /\ MaxStoreFaults \in Nat

VARIABLES
    latest,       \* at the provider: the last event of each order
    storedRows,       \* rows of marketplace_orders with their items, as committed
    writer,       \* the transaction of each synchronisation
    createdTotal, \* ordersCreated, summed over the results of the lots
    lots,         \* lots begun
    storeFaults

storeVars == <<latest, storedRows, writer, createdTotal, lots, storeFaults>>

Events == 1..MaxEvents
Stamps == {0} \cup UNION {Range(StampOf[o]) : o \in StoredOrders}
Logistics == {"UNKNOWN", "FULL"}

\* stamp: marketplace_last_updated, 0 for NULL; event: which state of the order
\* the columns hold; items: which one the rows of marketplace_order_items hold,
\* 0 when there are none
OrderRow ==
    [stamp : Stamps, event : 0..MaxEvents, items : 0..MaxEvents, logistics : Logistics]
NoOrderRow == [stamp |-> 0, event |-> 0, items |-> 0, logistics |-> "UNKNOWN"]

FetchedOrder == [id : StoredOrders, event : Events, stamp : Stamps, logistics : Logistics]

\* lot: what is still to be written; written: rows locked and not yet committed
NoLot == [lot |-> <<>>, written |-> <<>>, created |-> 0, active |-> FALSE]
Locked(t) == DOMAIN writer[t].written

\* Every variable of the order store keeps its type.
StoreTypeOK ==
    /\ latest \in [StoredOrders -> Events]
    /\ storedRows \in [StoredOrders -> OrderRow]
    /\ \A t \in Writers :
           /\ Range(writer[t].lot) \subseteq FetchedOrder
           /\ Locked(t) \subseteq StoredOrders
           /\ Range(writer[t].written) \subseteq OrderRow
           /\ writer[t].created \in 0..Cardinality(StoredOrders)
    /\ createdTotal \in 0..Cardinality(StoredOrders)
    /\ lots \in 0..MaxLots
    /\ storeFaults \in 0..MaxStoreFaults

StoreInit ==
    /\ latest = [o \in StoredOrders |-> 1]
    /\ storedRows = [o \in StoredOrders |-> NoOrderRow]
    /\ writer = [t \in Writers |-> NoLot]
    /\ createdTotal = 0
    /\ lots = 0
    /\ storeFaults = 0

-----------------------------------------------------------------------------
(* What a synchronisation hands to persistOrders: orders in the sequence   *)
(* of the provider's pages, each at its state when the page was read; the  *)
(* lookup of the shipment may have failed.                                 *)

Sequences1(S) == {q \in UNION {[1..n -> S] : n \in 1..Cardinality(S)} : IsInjective(q)}

Fetched(o, known) ==
    [id |-> o, event |-> latest[o], stamp |-> StampOf[o][latest[o]],
     logistics |-> IF o \in known THEN "FULL" ELSE "UNKNOWN"]

BeginLot(t) ==
    /\ ~writer[t].active
    /\ lots < MaxLots
    /\ lots' = lots + 1
    /\ \E q \in Sequences1(StoredOrders) : \E known \in SUBSET Range(q) :
           writer' = [writer EXCEPT ![t] =
               [NoLot EXCEPT !.active = TRUE,
                             !.lot = [i \in DOMAIN q |-> Fetched(q[i], known)]]]
    /\ UNCHANGED <<latest, storedRows, createdTotal, storeFaults>>

ProviderUpdates(o) ==
    /\ latest[o] < MaxEvents
    /\ latest' = [latest EXCEPT ![o] = @ + 1]
    /\ UNCHANGED <<storedRows, writer, createdTotal, lots, storeFaults>>

-----------------------------------------------------------------------------
(* The statements of a transaction.                                        *)

\* the row of order o as transaction t sees it
SeenBy(t, o) == IF o \in Locked(t) THEN writer[t].written[o] ELSE storedRows[o]

Exists(row) == row.event # 0

\* Mutant of Accepts: the dates are not compared.
AcceptsAny(row, order) == TRUE

\* the WHERE of DO UPDATE; it does not apply to a fresh row
Accepts(row, order) ==
    \/ ~Exists(row)
    \/ row.stamp = 0
    \/ order.stamp = 0
    \/ order.stamp >= row.stamp

\* the CASE that keeps a known logistics_classification
KeptLogistics(row, order) ==
    IF order.logistics = "UNKNOWN" THEN row.logistics ELSE order.logistics

\* Mutant of UpsertedRow: the items are replaced although the row was refused.
UpsertedItemsAnyway(row, order) ==
    IF Accepts(row, order)
    THEN [stamp |-> order.stamp, event |-> order.event, items |-> order.event,
          logistics |-> KeptLogistics(row, order)]
    ELSE [row EXCEPT !.items = order.event]

\* an accepted order replaces the columns and then all items; a refused one
\* leaves both
UpsertedRow(row, order) ==
    IF Accepts(row, order)
    THEN [stamp |-> order.stamp, event |-> order.event, items |-> order.event,
          logistics |-> KeptLogistics(row, order)]
    ELSE row

Blocked(t, o) == \E u \in Writers \ {t} : o \in Locked(u)

WriteOrder(t) ==
    /\ writer[t].lot # <<>>
    /\ LET order == Head(writer[t].lot)
           o == order.id
           row == SeenBy(t, o)
       IN  /\ ~Blocked(t, o)
           /\ writer' = [writer EXCEPT
                  ![t].lot = Tail(@),
                  ![t].written = [p \in Locked(t) \cup {o} |->
                      IF p = o THEN UpsertedRow(row, order) ELSE @[p]],
                  ![t].created = IF Exists(row) THEN @ ELSE @ + 1]
    /\ UNCHANGED <<latest, storedRows, createdTotal, lots, storeFaults>>

CommitLot(t) ==
    /\ writer[t].active /\ writer[t].lot = <<>>
    /\ storedRows' = [o \in StoredOrders |-> SeenBy(t, o)]
    /\ createdTotal' = createdTotal + writer[t].created
    /\ writer' = [writer EXCEPT ![t] = NoLot]
    /\ UNCHANGED <<latest, lots, storeFaults>>

\* the catch and finally blocks: ROLLBACK, and the connection goes back
Rollback(t) == writer' = [writer EXCEPT ![t] = NoLot]

LotStatementFails(t) ==
    /\ writer[t].active
    /\ storeFaults < MaxStoreFaults
    /\ storeFaults' = storeFaults + 1
    /\ Rollback(t)
    /\ UNCHANGED <<latest, storedRows, createdTotal, lots>>

WaitsFor(t) ==
    {u \in Writers \ {t} : writer[t].lot # <<>> /\ Head(writer[t].lot).id \in Locked(u)}

\* PostgreSQL aborts one of the transactions that wait on each other
DeadlockVictim(t) ==
    /\ \E u \in WaitsFor(t) : t \in WaitsFor(u)
    /\ Rollback(t)
    /\ UNCHANGED <<latest, storedRows, createdTotal, lots, storeFaults>>

WriterStep(t) ==
    \/ WriteOrder(t)
    \/ CommitLot(t)
    \/ DeadlockVictim(t)

StoreNext ==
    \/ \E t \in Writers : BeginLot(t)
    \/ \E t \in Writers : WriterStep(t)
    \/ \E t \in Writers : LotStatementFails(t)
    \/ \E o \in StoredOrders : ProviderUpdates(o)

\* the database answers each statement
StoreFairness == \A t \in Writers : WF_storeVars(WriterStep(t))

StoreSpec == StoreInit /\ [][StoreNext]_storeVars

-----------------------------------------------------------------------------
(* The items of an order are those of the state its columns show: not when *)
(* an old event is refused, two lots meet, or a lot fails half-way.        *)
ItemsMatchOrder == \A o \in StoredOrders : storedRows[o].items = storedRows[o].event

(* Whatever order lots are written in, a dated state never gives way to    *)
(* one with an older date, and a known logistics classification is kept    *)
(* (comment at marketplace-orders-persistence.service.ts:271-289).         *)
StoreNeverRegresses ==
    [][\A o \in StoredOrders :
          /\ storedRows'[o].stamp = 0 \/ storedRows'[o].stamp >= storedRows[o].stamp
          /\ storedRows[o].logistics # "UNKNOWN" => storedRows'[o].logistics = storedRows[o].logistics
      ]_storeVars

(* Each order is counted as created by exactly one lot: the counters of    *)
(* the sync_runs add up to the rows of the table.                          *)
CreatedOnce == createdTotal = Cardinality({o \in StoredOrders : Exists(storedRows[o])})

(* What the lots leave in the table is coherent: types, items and counters. *)
StoreInv == StoreTypeOK /\ ItemsMatchOrder /\ CreatedOnce

(* Every lot is committed or rolled back, also when two of them meet the   *)
(* same orders in opposite sequences.                                      *)
LotsEnd == \A t \in Writers : []<>(~writer[t].active)
=============================================================================
