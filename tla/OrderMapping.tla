---------------------------- MODULE OrderMapping ----------------------------
(***************************************************************************)
(* mapAmazonOrder: how an order of Amazon, already valid in structure,     *)
(* becomes the row and the items that are stored, or is put in quarantine; *)
(* and the money of both marketplaces on its way from the text of a        *)
(* provider through a numeric(14,2) column to the cents the dashboards add *)
(* up.  An amount is the pair of its whole part and its digits after the   *)
(* point, as in "4.5" = [whole |-> 4, digits |-> <<5>>].                   *)
(***************************************************************************)
EXTENDS Naturals, Sequences, SequencesExt

CONSTANTS
    OrderAmounts,      \* amounts an order of Amazon may carry
    OrderCurrencies,
    OrderQuantities,   \* quantityOrdered of an item
    AmazonStatuses,    \* fulfillmentStatus of an order
    MaxItems,          \* bound: items of an order
    MaxCents           \* bound: amounts whose texts are compared

Digits == 0..9

\* DECIMAL_AMOUNT_PATTERN: at most two digits after the point
Amounts == [whole : Nat, digits : UNION {[1..n -> Digits] : n \in 0..2}]

ASSUME MappingAssumption ==
    /\ OrderAmounts \subseteq Amounts
    /\ OrderQuantities \subseteq Nat \ {0}
    /\ AmazonStatuses \subseteq {"UNSHIPPED", "PARTIALLY_SHIPPED", "SHIPPED", "CANCELLED", "PENDING",
                                 "PENDING_AVAILABILITY", "INVOICE_UNCONFIRMED", "UNFULFILLABLE"}
    /\ {MaxItems, MaxCents} \subseteq Nat

VARIABLES
    raw,      \* an order of the provider
    mapped    \* what mapAmazonOrder makes of it

mappingVars == <<raw, mapped>>

-----------------------------------------------------------------------------
(* Money. *)

\* Mutant of Padded: the missing digit is put before the one that is there.
PaddedLeft(digits) ==
    IF Len(digits) = 1 THEN <<0>> \o digits ELSE SubSeq(digits \o <<0, 0>>, 1, 2)

\* padEnd(2, '0'), and (digits + '00').slice(0, 2)
Padded(digits) == SubSeq(digits \o <<0, 0>>, 1, 2)

\* decimalAmountToCents of Amazon, decimalStringToCents of the dashboards
ToCents(amount) ==
    LET d == Padded(amount.digits) IN amount.whole * 100 + d[1] * 10 + d[2]

\* centsToDecimalAmount and centsToDecimalString
ToAmount(cents) ==
    [whole |-> cents \div 100, digits |-> <<(cents % 100) \div 10, cents % 10>>]

\* what a numeric(14,2) column makes of a text of at most two decimals
Stored(amount) ==
    LET d == amount.digits
    IN  [amount EXCEPT !.digits =
            CASE Len(d) = 0 -> <<0, 0>> [] Len(d) = 1 -> <<d[1], 0>> [] Len(d) = 2 -> d]

\* divideCents: the average, rounded to the nearest cent
AverageCents(cents, count) ==
    IF count = 0 THEN 0 ELSE (2 * cents + count) \div (2 * count)

Zero == [whole |-> 0, digits |-> <<0, 0>>]

-----------------------------------------------------------------------------
(* Orders of Amazon. *)

NoMoney == [amount |-> Zero, currency |-> "none"]
Monies == [amount : OrderAmounts, currency : OrderCurrencies] \cup {NoMoney}
RawItems == [quantity : OrderQuantities, subtotal : Monies, unitPrice : Monies]
RawOrders ==
    [status : AmazonStatuses, allowed : BOOLEAN, grandTotal : Monies,
     items : UNION {[1..n -> RawItems] : n \in 0..MaxItems}]

\* mapAmazonOrderStatusToCanonical
Canonical(status) ==
    CASE status \in {"UNSHIPPED", "PARTIALLY_SHIPPED", "SHIPPED"} -> "paid"
      [] status = "CANCELLED" -> "cancelled"
      [] status = "UNFULFILLABLE" -> "unfulfillable"
      [] OTHER -> "pending"

Paid(order) == Canonical(order.status) = "paid"

\* (item.itemSubtotal ?? item.unitPrice)?.currencyCode
ItemCurrency(item) ==
    IF item.subtotal # NoMoney THEN item.subtotal.currency ELSE item.unitPrice.currency

\* resolveOrderCurrency: of the total, or of the first item that has one
OrderCurrency(order) ==
    LET priced == {i \in DOMAIN order.items : ItemCurrency(order.items[i]) # "none"}
    IN  IF order.grandTotal # NoMoney THEN order.grandTotal.currency
        ELSE IF priced = {} THEN "none" ELSE ItemCurrency(order.items[Min(priced)])

\* Mutant of Divisible: the unit price is rounded down.
DivisibleRounding(item) == TRUE
Divisible(item) == ToCents(item.subtotal.amount) % item.quantity = 0

\* why an item cannot be mapped, "ok" when it can: mapPaidOrderItem and
\* mapNonPaidOrderItem
ItemVerdict(order, item) ==
    LET currency == OrderCurrency(order) IN
    IF Paid(order)
    THEN CASE item.subtotal = NoMoney -> "MISSING_ITEM_PROCEEDS"
           [] item.subtotal # NoMoney /\ item.subtotal.currency # currency -> "CURRENCY_MISMATCH"
           [] OTHER -> IF Divisible(item) THEN "ok" ELSE "ITEM_SUBTOTAL_NOT_DIVISIBLE"
    ELSE IF item.unitPrice = NoMoney \/ item.unitPrice.currency = currency
         THEN "ok" ELSE "CURRENCY_MISMATCH"

MappedItem(order, item) ==
    [quantity |-> item.quantity,
     currency |-> OrderCurrency(order),
     unitPrice |-> IF Paid(order) THEN ToAmount(ToCents(item.subtotal.amount) \div item.quantity)
                   ELSE item.unitPrice.amount]

MappedOrder(order) ==
    [verdict |-> "ok", status |-> Canonical(order.status), currency |-> OrderCurrency(order),
     total |-> order.grandTotal.amount,
     items |-> [i \in DOMAIN order.items |-> MappedItem(order, order.items[i])]]

NotMapped(verdict) ==
    [verdict |-> verdict, status |-> "none", currency |-> "none", total |-> Zero, items |-> <<>>]

\* the checks of mapAmazonOrder in their order; items are mapped one by one,
\* and the first that cannot be puts the order in quarantine
Outcome(order) ==
    LET bad == {i \in DOMAIN order.items : ItemVerdict(order, order.items[i]) # "ok"}
    IN  CASE ~order.allowed -> NotMapped("MARKETPLACE_NOT_ALLOWED")
          [] order.allowed /\ Paid(order) /\ order.grandTotal = NoMoney ->
                 NotMapped("MISSING_GRAND_TOTAL")
          [] order.allowed /\ ~Paid(order) /\ OrderCurrency(order) = "none" ->
                 NotMapped("MISSING_CURRENCY")
          [] OTHER -> IF bad = {} THEN MappedOrder(order)
                       ELSE NotMapped(ItemVerdict(order, order.items[Min(bad)]))

MappingInit ==
    /\ raw \in RawOrders
    /\ mapped = NotMapped("none")

MapOrder ==
    /\ mapped.verdict = "none"
    /\ mapped' = Outcome(raw)
    /\ UNCHANGED raw

MappingSpec == MappingInit /\ [][MapOrder]_mappingVars

-----------------------------------------------------------------------------
MappingTypeOK ==
    /\ mapped.status \in {"none", "paid", "cancelled", "pending", "unfulfillable"}
    /\ Len(mapped.items) <= MaxItems

\* cents of an amount once stored and read by a dashboard
ReadCents(amount) == ToCents(Stored(amount))

\* The revenue the dashboards add up for a paid order of Amazon, quantity times
\* unit price of each item as stored, is to the cent the proceeds Amazon
\* reported for the item, all in the currency of the order; an order for which
\* it could not be is not stored at all.
RevenueIsProceeds ==
    mapped.status = "paid" =>
        /\ ReadCents(mapped.total) = ToCents(raw.grandTotal.amount)
        /\ \A i \in DOMAIN raw.items :
               LET item == mapped.items[i] IN
               /\ item.quantity * ReadCents(item.unitPrice) = ToCents(raw.items[i].subtotal.amount)
               /\ {item.currency, mapped.currency} = {raw.items[i].subtotal.currency}

\* Up to a bound, every way an amount may be written, with none, one or two
\* decimals, is the same number of cents before it is stored and after, and an
\* average is within half a cent of the exact one.
MoneyIsExact ==
    /\ \A cents \in 0..MaxCents :
           /\ ToCents(ToAmount(cents)) = cents
           /\ cents % 10 = 0 => ToCents([ToAmount(cents) EXCEPT !.digits = <<@[1]>>]) = cents
           /\ cents % 100 = 0 => ToCents([ToAmount(cents) EXCEPT !.digits = <<>>]) = cents
    /\ \A whole \in 0..1, digits \in {<<>>} \cup {<<d>> : d \in Digits} \cup (Digits \X Digits) :
           LET amount == [whole |-> whole, digits |-> digits]
           IN  ReadCents(amount) = ToCents(amount)
    /\ \A cents \in 0..MaxCents, count \in 1..7 :
           LET twice == 2 * AverageCents(cents, count) * count
           IN  twice <= 2 * cents + count /\ 2 * cents <= twice + count

\* What is mapped is typed, and money keeps its value whatever it is written like.
MappingInv == MappingTypeOK /\ MoneyIsExact
=============================================================================
