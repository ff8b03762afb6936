----------------------------- MODULE Shipments -----------------------------
(***************************************************************************)
(* classifyLogistics of mercado-livre-orders-sync.service.ts: before the   *)
(* orders of a synchronisation are stored, the shipment of each is looked  *)
(* up, one lookup for the orders of one shipment, up to a cap; a lookup    *)
(* that fails leaves its orders without classification.                    *)
(***************************************************************************)
EXTENDS ProviderAnswers, Sequences, FiniteSets

CONSTANTS
    FetchedOrders,    \* number of orders of the synchronisation
    ShipmentIds,
    NoShipment,       \* an order without shipment
    MaxLookups        \* MAX_SHIPMENT_LOOKUPS_PER_SYNC

ASSUME ShipmentsAssumption ==
    /\ FetchedOrders \in Nat /\ MaxLookups \in Nat
    /\ NoShipment \notin ShipmentIds

VARIABLES
    shipmentOf,   \* shipment of each fetched order
    logisticType, \* logistic_type of each shipment at Mercado Envios
    next,         \* the order the loop has come to
    resolved,     \* classificationByShipmentId, "none" where there is no entry
    lookups,      \* history: the shipments looked up, in order
    classes       \* logisticsClassification of the orders

shipmentVars == <<shipmentOf, logisticType, next, resolved, lookups, classes>>

Positions == 1..FetchedOrders
LogisticTypes == {"fulfillment", "self_service", "not_known_yet"}
LogisticClasses == {"MARKETPLACE_FULFILLED", "SELLER_FULFILLED", "UNKNOWN"}

\* classifyLogisticType; drop_off, cross_docking and xd_drop_off are like self_service
ClassOf(type) ==
    CASE type = "fulfillment" -> "MARKETPLACE_FULFILLED"
      [] type = "self_service" -> "SELLER_FULFILLED"
      [] OTHER -> "UNKNOWN"

ShipmentsInit ==
    /\ shipmentOf \in [Positions -> ShipmentIds \cup {NoShipment}]
    /\ logisticType \in [ShipmentIds -> LogisticTypes]
    /\ next = 1
    /\ resolved = [s \in ShipmentIds |-> "none"]
    /\ lookups = <<>>
    /\ classes = [i \in Positions |-> "none"]

InLoop == next \in Positions
Here == shipmentOf[next]

GoOn(class) ==
    /\ classes' = [classes EXCEPT ![next] = class]
    /\ next' = next + 1

\* an order without shipment, or of a shipment past the cap, is left for the
\* ??= of the second loop
SkipOrder ==
    /\ InLoop
    /\ \/ Here = NoShipment
       \/ Here # NoShipment /\ resolved[Here] = "none" /\ Len(lookups) >= MaxLookups
    /\ GoOn("UNKNOWN")
    /\ UNCHANGED <<shipmentOf, logisticType, resolved, lookups>>

ReuseLookup ==
    /\ InLoop /\ Here # NoShipment /\ resolved[Here] # "none"
    /\ GoOn(resolved[Here])
    /\ UNCHANGED <<shipmentOf, logisticType, resolved, lookups>>

\* Mutant of Remembered: a failed lookup is not kept.
RememberedIfKnown(class) ==
    IF class = "UNKNOWN" THEN resolved ELSE [resolved EXCEPT ![Here] = class]

\* classificationByShipmentId.set
Remembered(class) == [resolved EXCEPT ![Here] = class]

\* fetchShipment; an outcome other than success is the type null
LookUpShipment ==
    /\ InLoop /\ Here # NoShipment /\ resolved[Here] = "none" /\ Len(lookups) < MaxLookups
    /\ lookups' = Append(lookups, Here)
    /\ \E outcome \in {ShipmentOutcome(a) : a \in HttpAnswer} :
           LET class == IF outcome = "success" THEN ClassOf(logisticType[Here]) ELSE "UNKNOWN"
           IN  resolved' = Remembered(class) /\ GoOn(class)
    /\ UNCHANGED <<shipmentOf, logisticType>>

ShipmentsNext ==
    \/ SkipOrder
    \/ ReuseLookup
    \/ LookUpShipment

ShipmentsSpec == ShipmentsInit /\ [][ShipmentsNext]_shipmentVars

-----------------------------------------------------------------------------
ShipmentsTypeOK ==
    /\ next \in 1..(FetchedOrders + 1)
    /\ resolved \in [ShipmentIds -> LogisticClasses \cup {"none"}]
    /\ classes \in [Positions -> LogisticClasses \cup {"none"}]
    /\ lookups \in Seq(ShipmentIds)

\* Flex is never counted as Full: a class other than UNKNOWN is that of the
\* order's own shipment, whichever lookups failed or were left out.
NeverWronglyFull ==
    \A i \in 1..(next - 1) :
        \/ classes[i] = "UNKNOWN"
        \/ /\ classes[i] = "MARKETPLACE_FULFILLED"
           /\ logisticType[shipmentOf[i]] = "fulfillment"
        \/ /\ classes[i] = "SELLER_FULFILLED"
           /\ logisticType[shipmentOf[i]] = "self_service"

\* The orders of one shipment, as those of a pack, come out alike, and cost one
\* lookup together: not one that failed for the first and succeeded for the
\* second, nor one that was past the cap only for some.
PacksStayTogether ==
    /\ Len(lookups) <= MaxLookups
    /\ \A i, j \in DOMAIN lookups : i # j => lookups[i] # lookups[j]
    /\ \A i, j \in 1..(next - 1) :
           (shipmentOf[i] = shipmentOf[j] /\ shipmentOf[i] # NoShipment) => classes[i] = classes[j]

\* The lookups are typed, never call an order Full that is not, and treat the
\* orders of one pack alike.
ShipmentsInv == ShipmentsTypeOK /\ NeverWronglyFull /\ PacksStayTogether
=============================================================================
