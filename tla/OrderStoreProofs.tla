-------------------------- MODULE OrderStoreProofs --------------------------
(***************************************************************************)
(* Proofs about the lots of orders, for any orders, synchronisations and   *)
(* dates of the provider.                                                  *)
(***************************************************************************)
EXTENDS OrderStore, SequenceTheorems, FiniteSetTheorems, TLAPS

\* The types without their bounds.
LooseRow == [stamp : Nat, event : Nat, items : Nat, logistics : Logistics]
LotOrder == [id : StoredOrders, event : Nat \ {0}, stamp : Nat, logistics : Logistics]
Lots == Seq(LotOrder)
Copies == UNION {[S -> LooseRow] : S \in SUBSET StoredOrders}
Writer == [lot : Lots, written : Copies, created : Nat, active : BOOLEAN]
Shape ==
    /\ latest \in [StoredOrders -> Events]
    /\ storedRows \in [StoredOrders -> LooseRow]
    /\ writer \in [Writers -> Writer]

\* Items belong to the state of the row; a row that is not there has no date.
Coherent(row) == row.items = row.event /\ (row.event = 0 => row.stamp = 0)

\* What StoreNeverRegresses says of one row.
Follows(row, later) ==
    /\ later.stamp = 0 \/ later.stamp >= row.stamp
    /\ row.logistics # "UNKNOWN" => later.logistics = row.logistics

\* A lot names each order once, and none it has written already.
OnceInLot(w) ==
    /\ \A i \in 1..Len(w.lot) : w.lot[i].id \notin DOMAIN w.written
    /\ \A i, j \in 1..Len(w.lot) : w.lot[i].id = w.lot[j].id => i = j

\* A row is locked by one transaction at a time.
OneHolder == \A t, u \in Writers : t # u => Locked(t) \cap Locked(u) = {}

\* What a transaction has written follows the committed row it locks.
Ahead ==
    \A t \in Writers : \A o \in Locked(t) :
        Coherent(writer[t].written[o]) /\ Follows(storedRows[o], writer[t].written[o])

StoreIInv ==
    /\ Shape
    /\ \A o \in StoredOrders : Coherent(storedRows[o])
    /\ \A t \in Writers : OnceInLot(writer[t])
    /\ OneHolder
    /\ Ahead

(* An upsert keeps a row coherent and never takes it back.                 *)
LEMMA UpsertFollows ==
    ASSUME NEW row \in LooseRow, NEW order \in LotOrder, Coherent(row)
    PROVE  /\ UpsertedRow(row, order) \in LooseRow
           /\ Coherent(UpsertedRow(row, order))
           /\ Follows(row, UpsertedRow(row, order))
  <1>1. CASE Accepts(row, order)
    BY <1>1 DEF UpsertedRow, KeptLogistics, LooseRow, LotOrder, Coherent, Follows, Accepts,
                Exists, Logistics
  <1>2. CASE ~Accepts(row, order)
    BY <1>2 DEF UpsertedRow, LooseRow, Coherent, Follows
  <1> QED BY <1>1, <1>2

(* A fetched order has the date of its event.                              *)
LEMMA FetchedType ==
    ASSUME Shape, NEW o \in StoredOrders, NEW known
    PROVE  Fetched(o, known) \in LotOrder /\ Fetched(o, known).id = o
  <1>1. latest[o] \in 1..MaxEvents  BY DEF Shape, Events
  <1>2. StampOf[o][latest[o]] \in Nat  BY <1>1, StoreAssumption
  <1>3. latest[o] \in Nat \ {0}  BY <1>1, StoreAssumption
  <1> QED BY <1>2, <1>3 DEF Fetched, LotOrder, Logistics

(* A transaction at rest has nothing to write and holds no lock.           *)
LEMMA NoLotType ==
    /\ NoLot \in Writer
    /\ DOMAIN NoLot.written = {}
    /\ OnceInLot(NoLot)
  <1>1. <<>> \in Lots /\ Len(<<>>) = 0  BY DEF Lots
  <1>2. <<>> \in Copies /\ DOMAIN <<>> = {}
    <2>1. <<>> \in [{} -> LooseRow]  OBVIOUS
    <2> QED BY <2>1 DEF Copies
  <1>3. NoLot.lot = <<>> /\ NoLot.written = <<>>  BY DEF NoLot
  <1> DEFINE L == Lots
             C == Copies
  <1>4. <<>> \in L /\ <<>> \in C  BY <1>1, <1>2
  <1> HIDE DEF L, C
  <1>5. NoLot \in [lot : L, written : C, created : Nat, active : BOOLEAN]
    BY <1>4 DEF NoLot
  <1>6. OnceInLot(NoLot)  BY <1>1, <1>3 DEF OnceInLot
  <1> QED BY <1>2, <1>3, <1>5, <1>6 DEF Writer, L, C

(* The locks and copies of a transaction.                                  *)
LEMMA WriterFields ==
    ASSUME Shape, NEW t \in Writers
    PROVE  /\ writer[t] \in Writer
           /\ writer[t].lot \in Lots /\ writer[t].written \in Copies
           /\ Locked(t) \subseteq StoredOrders
           /\ \A o \in Locked(t) : writer[t].written[o] \in LooseRow
  <1>1. writer[t] \in Writer  BY DEF Shape
  <1> DEFINE L == Lots
             C == Copies
  <1>2. writer[t] \in [lot : L, written : C, created : Nat, active : BOOLEAN]
    BY <1>1 DEF Writer
  <1> HIDE DEF L, C
  <1>3. writer[t].lot \in L /\ writer[t].written \in C  BY <1>2
  <1>4. PICK S \in SUBSET StoredOrders : writer[t].written \in [S -> LooseRow]
    BY <1>3 DEF C, Copies
  <1> QED BY <1>1, <1>3, <1>4 DEF L, C, Locked

(* A step of one transaction that keeps the table keeps the invariant when *)
(* the new transaction is sound and locks no row of another.               *)
LEMMA OneWriterMoves ==
    ASSUME StoreIInv, NEW t \in Writers, NEW w \in Writer,
           writer' = [writer EXCEPT ![t] = w],
           storedRows' = storedRows, latest' = latest,
           OnceInLot(w),
           \A u \in Writers \ {t} : DOMAIN w.written \cap Locked(u) = {},
           \A o \in DOMAIN w.written :
               Coherent(w.written[o]) /\ Follows(storedRows[o], w.written[o])
    PROVE  StoreIInv'
  <1>1. writer' \in [Writers -> Writer]  BY DEF StoreIInv, Shape
  <1>2. Shape'  BY <1>1 DEF StoreIInv, Shape
  <1>3. writer'[t] = w /\ \A u \in Writers \ {t} : writer'[u] = writer[u]
    BY DEF StoreIInv, Shape
  <1>4. \A u \in Writers : OnceInLot(writer'[u])  BY <1>3 DEF StoreIInv
  <1>5. OneHolder'  BY <1>3 DEF StoreIInv, OneHolder, Locked
  <1>6. Ahead'  BY <1>3 DEF StoreIInv, Ahead, Locked
  <1>7. \A o \in StoredOrders : Coherent(storedRows'[o])  BY DEF StoreIInv
  <1>8. (\A u \in Writers : OnceInLot(writer[u]))'  BY <1>4 DEF OnceInLot
  <1>9. (\A o \in StoredOrders : Coherent(storedRows[o]))'  BY <1>7 DEF Coherent
  <1> QED BY <1>2, <1>5, <1>6, <1>8, <1>9 DEF StoreIInv

(* Nothing is stored, and no transaction is open, at the beginning.        *)
THEOREM StoreInitially == StoreInit => StoreIInv
  <1> SUFFICES ASSUME StoreInit PROVE StoreIInv  OBVIOUS
  <1>1. \A t \in Writers : writer[t] = NoLot  BY DEF StoreInit
  <1>2. \A o \in StoredOrders : storedRows[o] = NoOrderRow  BY DEF StoreInit
  <1>3. NoOrderRow \in LooseRow /\ Coherent(NoOrderRow)
    BY DEF NoOrderRow, LooseRow, Coherent, Logistics
  <1>4. Shape
    <2>1. latest \in [StoredOrders -> Events]
      BY StoreAssumption DEF StoreInit, Events
    <2>2. storedRows \in [StoredOrders -> LooseRow]  BY <1>3 DEF StoreInit
    <2>3. writer \in [Writers -> Writer]  BY NoLotType DEF StoreInit
    <2> QED BY <2>1, <2>2, <2>3 DEF Shape
  <1>5. \A t \in Writers : OnceInLot(writer[t]) /\ Locked(t) = {}
    BY <1>1, NoLotType DEF Locked
  <1> QED BY <1>2, <1>3, <1>4, <1>5 DEF StoreIInv, OneHolder, Ahead

(* The records the steps of a transaction write.                           *)
LEMMA OpenedLot ==
    ASSUME NEW L, NEW C, NEW N, NEW B,
           NEW x \in [lot : L, written : C, created : N, active : B],
           NEW l \in L, NEW yes \in B, NEW y, y = [x EXCEPT !.active = yes, !.lot = l]
    PROVE  /\ y \in [lot : L, written : C, created : N, active : B]
           /\ y.lot = l /\ y.written = x.written
  OBVIOUS

LEMMA MovedLot ==
    ASSUME NEW L, NEW C, NEW N, NEW B,
           NEW x \in [lot : L, written : C, created : N, active : B],
           NEW l \in L, NEW c \in C, NEW n \in N,
           NEW y, y = [x EXCEPT !.lot = l, !.written = c, !.created = n]
    PROVE  /\ y \in [lot : L, written : C, created : N, active : B]
           /\ y.lot = l /\ y.written = c /\ y.created = n
  OBVIOUS

LEMMA MovedWriter ==
    ASSUME NEW W, NEW R, NEW t \in W, NEW f \in [W -> R], NEW l, NEW c, NEW n
    PROVE  [f EXCEPT ![t].lot = l, ![t].written = c, ![t].created = n]
           = [f EXCEPT ![t] = [f[t] EXCEPT !.lot = l, !.written = c, !.created = n]]
  OBVIOUS

(* A lot begins with the pages of the provider and without locks.          *)
LEMMA BeginKeeps ==
    ASSUME StoreIInv, NEW t \in Writers, BeginLot(t)
    PROVE  StoreIInv'
  <1>0. PICK q \in Sequences1(StoredOrders) : \E known \in SUBSET Range(q) :
           writer' = [writer EXCEPT ![t] =
               [NoLot EXCEPT !.active = TRUE,
                             !.lot = [i \in DOMAIN q |-> Fetched(q[i], known)]]]
    BY DEF BeginLot
  <1>1. PICK known \in SUBSET Range(q) :
           writer' = [writer EXCEPT ![t] =
               [NoLot EXCEPT !.active = TRUE,
                             !.lot = [i \in DOMAIN q |-> Fetched(q[i], known)]]]
    BY <1>0
  <1>2. PICK n \in Nat : q \in [1..n -> StoredOrders]
    <2>1. Cardinality(StoredOrders) \in Nat  BY StoreAssumption, FS_CardinalityType
    <2> QED BY <2>1 DEF Sequences1
  <1>3. IsInjective(q)  BY DEF Sequences1
  <1> DEFINE lot == [i \in DOMAIN q |-> Fetched(q[i], known)]
             w == [NoLot EXCEPT !.active = TRUE, !.lot = lot]
  <1>4. lot \in [1..n -> LotOrder] /\ \A i \in 1..n : lot[i].id = q[i]
    BY <1>2, FetchedType DEF StoreIInv
  <1>5. lot \in Lots /\ Len(lot) = n
    BY <1>2, <1>4, SeqDef DEF Lots
  <1>6. NoLot.written = <<>>  BY DEF NoLot
  <1>7. <<>> \in Copies /\ DOMAIN <<>> = {}
    <2>1. <<>> \in [{} -> LooseRow]  OBVIOUS
    <2> QED BY <2>1 DEF Copies
  <1> HIDE DEF lot
  <1>8. w \in Writer /\ w.lot = lot /\ w.written = <<>>
    <2> DEFINE L == Lots
               C == Copies
               N == Nat
               B == BOOLEAN
               yes == TRUE
    <2>1. lot \in L /\ yes \in B  BY <1>5
    <2>2. NoLot \in [lot : L, written : C, created : N, active : B]
      BY NoLotType DEF Writer
    <2>3. w = [NoLot EXCEPT !.active = yes, !.lot = lot]  OBVIOUS
    <2> HIDE DEF L, C, N, B, yes, w
    <2>4. /\ w \in [lot : L, written : C, created : N, active : B]
          /\ w.lot = lot /\ w.written = NoLot.written
      BY <2>1, <2>2, <2>3, OpenedLot
    <2> QED BY <1>6, <2>4 DEF L, C, N, B, Writer
  <1> HIDE DEF w
  <1>9. OnceInLot(w)
    BY <1>2, <1>3, <1>4, <1>5, <1>7, <1>8 DEF OnceInLot, IsInjective
  <1>10. writer' = [writer EXCEPT ![t] = w]  BY <1>1 DEF w, lot
  <1>11. storedRows' = storedRows /\ latest' = latest  BY DEF BeginLot
  <1> QED BY <1>7, <1>8, <1>9, <1>10, <1>11, OneWriterMoves

(* An order is written on the committed row, which no other transaction    *)
(* holds: what the statement leaves in the transaction.                    *)
LEMMA WriteWrites ==
    ASSUME StoreIInv, NEW t \in Writers, WriteOrder(t)
    PROVE  LET lot == writer[t].lot
               order == Head(lot)
               o == order.id
               row == storedRows[o]
               w == writer'[t]
           IN  /\ order \in LotOrder /\ order = lot[1] /\ Len(lot) \in Nat /\ Len(lot) >= 1
               /\ Len(Tail(lot)) = Len(lot) - 1
               /\ \A i \in 1..Len(Tail(lot)) : Tail(lot)[i] = lot[i + 1]
               /\ o \in StoredOrders /\ o \notin Locked(t)
               /\ row \in LooseRow /\ Coherent(row)
               /\ writer' = [writer EXCEPT ![t] = w] /\ w \in Writer
               /\ w.lot = Tail(lot) /\ DOMAIN w.written = Locked(t) \cup {o}
               /\ w.written[o] = UpsertedRow(row, order)
               /\ \A p \in Locked(t) : w.written[p] = writer[t].written[p]
               /\ w.created = IF Exists(row) THEN writer[t].created ELSE writer[t].created + 1
  <1> DEFINE lot == writer[t].lot
             copies == writer[t].written
             order == Head(lot)
             o == order.id
             row == SeenBy(t, o)
             after == [p \in Locked(t) \cup {o} |->
                          IF p = o THEN UpsertedRow(row, order) ELSE copies[p]]
             n == IF Exists(row) THEN writer[t].created ELSE writer[t].created + 1
             w == [writer[t] EXCEPT !.lot = Tail(lot), !.written = after, !.created = n]
  <1>1. /\ lot \in Lots /\ copies \in Copies /\ writer[t] \in Writer
        /\ Locked(t) \subseteq StoredOrders /\ \A p \in Locked(t) : copies[p] \in LooseRow
    BY WriterFields DEF StoreIInv
  <1>2. lot # <<>>  BY DEF WriteOrder
  <1>3. /\ order \in LotOrder /\ Tail(lot) \in Lots /\ Len(Tail(lot)) = Len(lot) - 1
        /\ \A i \in 1..Len(Tail(lot)) : Tail(lot)[i] = lot[i + 1]
        /\ order = lot[1] /\ Len(lot) \in Nat /\ Len(lot) >= 1
    <2> DEFINE S == LotOrder
    <2>1. lot \in Seq(S)  BY <1>1 DEF Lots
    <2> HIDE DEF S
    <2>2. /\ order \in S /\ Tail(lot) \in Seq(S) /\ Len(Tail(lot)) = Len(lot) - 1
          /\ \A i \in 1..Len(Tail(lot)) : Tail(lot)[i] = lot[i + 1]
      BY <1>2, <2>1, HeadTailProperties
    <2>3. order = lot[1] /\ Len(lot) \in Nat /\ Len(lot) >= 1
      BY <1>2, <2>1
    <2> QED BY <2>2, <2>3 DEF S, Lots
  <1>4. o \in StoredOrders /\ o \notin Locked(t)
    BY <1>3 DEF LotOrder, StoreIInv, OnceInLot, Locked
  <1>5. row = storedRows[o] /\ row \in LooseRow /\ Coherent(row)
    BY <1>4 DEF SeenBy, StoreIInv, Shape
  <1>6. UpsertedRow(row, order) \in LooseRow
    BY <1>3, <1>5, UpsertFollows
  <1>7. after \in Copies /\ DOMAIN after = Locked(t) \cup {o}
        /\ \A p \in DOMAIN after : after[p] = IF p = o THEN UpsertedRow(row, order) ELSE copies[p]
    BY <1>1, <1>4, <1>6 DEF Copies
  <1>8. writer' = [writer EXCEPT ![t] = w]
    <2> HIDE DEF after, n
    <2>1. writer' = [writer EXCEPT ![t].lot = Tail(lot), ![t].written = after, ![t].created = n]
      BY DEF WriteOrder, after, n
    <2>2. writer \in [Writers -> Writer]  BY DEF StoreIInv, Shape
    <2> QED BY <2>1, <2>2, MovedWriter
  <1>9. w \in Writer /\ w.lot = Tail(lot) /\ w.written = after /\ w.created = n
    <2> DEFINE L == Lots
               C == Copies
               N == Nat
               B == BOOLEAN
               x == writer[t]
               l == Tail(lot)
    <2>1. l \in L /\ after \in C  BY <1>3, <1>7
    <2>2. n \in N  BY <1>1 DEF Writer
    <2>3. x \in [lot : L, written : C, created : N, active : B]  BY <1>1 DEF Writer
    <2>4. w = [x EXCEPT !.lot = l, !.written = after, !.created = n]  OBVIOUS
    <2> HIDE DEF L, C, N, B, x, l, n, after, w
    <2>5. /\ w \in [lot : L, written : C, created : N, active : B]
          /\ w.lot = l /\ w.written = after /\ w.created = n
      BY <2>1, <2>2, <2>3, <2>4, MovedLot
    <2> QED BY <2>5 DEF Writer, L, C, N, B, l
  <1>10. n = IF Exists(storedRows[o]) THEN writer[t].created ELSE writer[t].created + 1
    BY <1>5
  <1> HIDE DEF w, after, n
  <1>11. writer'[t] = w  BY <1>8 DEF StoreIInv, Shape
  <1> QED BY <1>3, <1>4, <1>5, <1>7, <1>8, <1>9, <1>10, <1>11

LEMMA WriteKeeps ==
    ASSUME StoreIInv, NEW t \in Writers, WriteOrder(t)
    PROVE  StoreIInv'
  <1> DEFINE lot == writer[t].lot
             order == Head(lot)
             o == order.id
             row == storedRows[o]
             w == writer'[t]
  <1>1. /\ order \in LotOrder /\ order = lot[1] /\ Len(lot) \in Nat /\ Len(lot) >= 1
        /\ Len(Tail(lot)) = Len(lot) - 1
        /\ \A i \in 1..Len(Tail(lot)) : Tail(lot)[i] = lot[i + 1]
        /\ o \in StoredOrders /\ o \notin Locked(t)
        /\ row \in LooseRow /\ Coherent(row)
        /\ writer' = [writer EXCEPT ![t] = w] /\ w \in Writer
        /\ w.lot = Tail(lot) /\ DOMAIN w.written = Locked(t) \cup {o}
        /\ w.written[o] = UpsertedRow(row, order)
        /\ \A p \in Locked(t) : w.written[p] = writer[t].written[p]
    BY WriteWrites
  <1>2. Coherent(UpsertedRow(row, order)) /\ Follows(row, UpsertedRow(row, order))
    BY <1>1, UpsertFollows
  <1>3. ~Blocked(t, o) /\ storedRows' = storedRows /\ latest' = latest  BY DEF WriteOrder
  <1>4. OnceInLot(writer[t])  BY DEF StoreIInv
  <1> HIDE DEF w, order, row, o
  <1>5. OnceInLot(w)
    <2>1. o = lot[1].id  BY <1>1 DEF o
    <2>2. /\ \A i \in 1..Len(lot) : lot[i].id \notin Locked(t)
          /\ \A i, j \in 1..Len(lot) : lot[i].id = lot[j].id => i = j
      BY <1>4 DEF OnceInLot, Locked
    <2> HIDE DEF lot
    <2>3. \A i \in 1..Len(w.lot) :
             i + 1 \in 1..Len(lot) /\ w.lot[i] = lot[i + 1] /\ i + 1 # 1 /\ 1 \in 1..Len(lot)
      BY <1>1
    <2> QED BY <1>1, <2>1, <2>2, <2>3 DEF OnceInLot
  <1>6. \A u \in Writers \ {t} : DOMAIN w.written \cap Locked(u) = {}
    BY <1>1, <1>3 DEF Blocked, StoreIInv, OneHolder
  <1>7. \A p \in DOMAIN w.written :
            Coherent(w.written[p]) /\ Follows(storedRows[p], w.written[p])
    BY <1>1, <1>2 DEF StoreIInv, Ahead, row
  <1> QED BY <1>1, <1>3, <1>5, <1>6, <1>7, OneWriterMoves

(* A commit copies what was written to the table, all of it together, and  *)
(* takes no row back.                                                      *)
LEMMA CommitKeeps ==
    ASSUME StoreIInv, NEW t \in Writers, CommitLot(t)
    PROVE  StoreIInv' /\ \A o \in StoredOrders : Follows(storedRows[o], storedRows'[o])
  <1>1. \A o \in StoredOrders : storedRows'[o] = SeenBy(t, o)  BY DEF CommitLot
  <1>2. \A o \in StoredOrders :
           /\ storedRows'[o] \in LooseRow /\ Coherent(storedRows'[o])
           /\ Follows(storedRows[o], storedRows'[o])
    <2> TAKE o \in StoredOrders
    <2>1. storedRows[o] \in LooseRow /\ Coherent(storedRows[o])
      BY DEF StoreIInv, Shape
    <2>2. CASE o \in Locked(t)
      <3>1. storedRows'[o] = writer[t].written[o]  BY <1>1, <2>2 DEF SeenBy
      <3>2. storedRows'[o] \in LooseRow  BY <2>2, <3>1, WriterFields DEF StoreIInv
      <3> QED BY <2>2, <3>1, <3>2 DEF StoreIInv, Ahead
    <2>3. CASE o \notin Locked(t)
      <3>1. storedRows'[o] = storedRows[o]  BY <1>1, <2>3 DEF SeenBy
      <3>2. storedRows[o].stamp \in Nat  BY <2>1 DEF LooseRow
      <3> QED BY <2>1, <3>1, <3>2 DEF Follows
    <2> QED BY <2>2, <2>3
  <1>3. storedRows' \in [StoredOrders -> LooseRow]  BY <1>2 DEF CommitLot
  <1>4. writer'[t] = NoLot /\ \A u \in Writers \ {t} : writer'[u] = writer[u]
    BY DEF CommitLot, StoreIInv, Shape
  <1>5. Shape'
    BY <1>3, NoLotType DEF CommitLot, StoreIInv, Shape
  <1>6. \A u \in Writers : OnceInLot(writer'[u])
    BY <1>4, NoLotType DEF StoreIInv
  <1>7. Locked(t)' = {}  BY <1>4, NoLotType DEF Locked
  <1>8. \A u \in Writers \ {t} : Locked(u)' = Locked(u)  BY <1>4 DEF Locked
  <1>9. OneHolder'  BY <1>7, <1>8 DEF StoreIInv, OneHolder
  <1>10. Ahead'
    <2> SUFFICES ASSUME NEW u \in Writers, NEW o \in Locked(u)'
                 PROVE  /\ Coherent(writer'[u].written[o])
                        /\ Follows(storedRows'[o], writer'[u].written[o])
      BY DEF Ahead, Coherent, Follows
    <2>1. u # t /\ o \in Locked(u) /\ writer'[u] = writer[u]  BY <1>4, <1>7, <1>8
    <2>2. o \in StoredOrders /\ o \notin Locked(t)
      BY <2>1, WriterFields DEF StoreIInv, OneHolder
    <2>3. storedRows'[o] = storedRows[o]  BY <1>1, <2>2 DEF SeenBy
    <2> QED BY <2>1, <2>3 DEF StoreIInv, Ahead
  <1>11. (\A u \in Writers : OnceInLot(writer[u]))'  BY <1>6 DEF OnceInLot
  <1>12. (\A o \in StoredOrders : Coherent(storedRows[o]))'  BY <1>2 DEF Coherent
  <1> QED BY <1>2, <1>5, <1>9, <1>10, <1>11, <1>12 DEF StoreIInv

(* A transaction that is rolled back leaves nothing behind.                *)
LEMMA RollbackKeeps ==
    ASSUME StoreIInv, NEW t \in Writers, Rollback(t), storedRows' = storedRows,
           latest' = latest
    PROVE  StoreIInv'
  <1>1. writer' = [writer EXCEPT ![t] = NoLot]  BY DEF Rollback
  <1> QED BY <1>1, NoLotType, OneWriterMoves

(* Every step keeps the invariant and takes no row back.                   *)
THEOREM StoreStep ==
    StoreIInv /\ [StoreNext]_storeVars
        => StoreIInv' /\ \A o \in StoredOrders : Follows(storedRows[o], storedRows'[o])
  <1> SUFFICES ASSUME StoreIInv, [StoreNext]_storeVars
               PROVE  /\ StoreIInv'
                      /\ \A o \in StoredOrders : Follows(storedRows[o], storedRows'[o])
    OBVIOUS
  <1>1. storedRows' = storedRows
           => \A o \in StoredOrders : Follows(storedRows[o], storedRows'[o])
    BY DEF StoreIInv, Shape, LooseRow, Follows
  <1>2. ASSUME NEW t \in Writers, BeginLot(t)
        PROVE  StoreIInv' /\ storedRows' = storedRows
    BY <1>2, BeginKeeps DEF BeginLot
  <1>3. ASSUME NEW t \in Writers, WriteOrder(t)
        PROVE  StoreIInv' /\ storedRows' = storedRows
    BY <1>3, WriteKeeps DEF WriteOrder
  <1>4. ASSUME NEW t \in Writers, CommitLot(t)
        PROVE  /\ StoreIInv'
               /\ \A o \in StoredOrders : Follows(storedRows[o], storedRows'[o])
    BY <1>4, CommitKeeps
  <1>5. ASSUME NEW t \in Writers, DeadlockVictim(t) \/ LotStatementFails(t)
        PROVE  StoreIInv' /\ storedRows' = storedRows
    BY <1>5, RollbackKeeps DEF DeadlockVictim, LotStatementFails
  <1>6. ASSUME NEW o \in StoredOrders, ProviderUpdates(o)
        PROVE  StoreIInv' /\ storedRows' = storedRows
    <2>1. latest' = [latest EXCEPT ![o] = latest[o] + 1] /\ latest[o] < MaxEvents
      BY <1>6 DEF ProviderUpdates
    <2>2. latest' \in [StoredOrders -> Events]
      BY <2>1, StoreAssumption DEF StoreIInv, Shape, Events
    <2> QED BY <1>6, <2>2
            DEF ProviderUpdates, StoreIInv, Shape, OneHolder, Ahead, Locked, OnceInLot,
                Coherent, Follows
  <1>7. CASE UNCHANGED storeVars
    BY <1>1, <1>7 DEF storeVars, StoreIInv, Shape, OneHolder, Ahead, Locked, OnceInLot,
                      Coherent, Follows
  <1> QED BY <1>1, <1>2, <1>3, <1>4, <1>5, <1>6, <1>7 DEF StoreNext, WriterStep

(* What the lots write is coherent and locked by one of them at a time.    *)
THEOREM StoreTheorem == StoreSpec => []StoreIInv
  <1>1. StoreIInv /\ [StoreNext]_storeVars => StoreIInv'  BY StoreStep
  <1> QED BY StoreInitially, <1>1, PTL DEF StoreSpec

(* The items of an order are those of the state its columns show, for any  *)
(* number of synchronisations that overlap, fail or wait for each other    *)
(* (persistOrders).                                                        *)
THEOREM ItemsTheorem == StoreSpec => []ItemsMatchOrder
  <1>1. StoreIInv => ItemsMatchOrder  BY DEF StoreIInv, Coherent, ItemsMatchOrder
  <1> QED BY <1>1, StoreTheorem, PTL

(* A dated state never gives way to an older one, whatever order the lots  *)
(* of overlapping synchronisations are written and committed in.           *)
THEOREM NeverRegressesTheorem == StoreSpec => StoreNeverRegresses
  <1>1. StoreIInv /\ [StoreNext]_storeVars
           => [\A o \in StoredOrders :
                 /\ storedRows'[o].stamp = 0 \/ storedRows'[o].stamp >= storedRows[o].stamp
                 /\ storedRows[o].logistics # "UNKNOWN"
                       => storedRows'[o].logistics = storedRows[o].logistics]_storeVars
    BY StoreStep DEF Follows
  <1> QED BY <1>1, StoreTheorem, PTL DEF StoreSpec, StoreNeverRegresses

-----------------------------------------------------------------------------
(* The types with their bounds, and the counters: what a transaction has   *)
(* counted are the rows it has locked that the table does not have yet, so *)
(* a commit adds to ordersCreated exactly the rows it adds to the table.   *)

Fresh(t) == {o \in Locked(t) : ~Exists(storedRows[o])}
Existing == {o \in StoredOrders : Exists(storedRows[o])}

\* What a transaction may hold.
SoundWriter(w) ==
    /\ Range(w.lot) \subseteq FetchedOrder
    /\ \A o \in DOMAIN w.written : w.written[o] \in OrderRow /\ Exists(w.written[o])
    /\ w.created = Cardinality({o \in DOMAIN w.written : ~Exists(storedRows[o])})

CountInv ==
    /\ StoreIInv
    /\ \A o \in StoredOrders : storedRows[o] \in OrderRow
    /\ \A t \in Writers : SoundWriter(writer[t])
    /\ createdTotal = Cardinality(Existing)
    /\ lots \in 0..MaxLots
    /\ storeFaults \in 0..MaxStoreFaults

(* The orders of an account are finitely many, and so are the rows of a    *)
(* transaction.                                                            *)
LEMMA SmallSets ==
    ASSUME NEW S \in SUBSET StoredOrders
    PROVE  IsFiniteSet(S) /\ Cardinality(S) \in Nat /\ Cardinality(S) <= Cardinality(StoredOrders)
  <1>1. IsFiniteSet(StoredOrders)  BY StoreAssumption
  <1> QED BY <1>1, FS_Subset, FS_CardinalityType

(* An upsert leaves a row of the table.                                    *)
LEMMA UpsertStores ==
    ASSUME NEW row \in OrderRow, NEW order \in FetchedOrder
    PROVE  UpsertedRow(row, order) \in OrderRow /\ Exists(UpsertedRow(row, order))
  <1>1. order.event \in 0..MaxEvents /\ order.event # 0
    BY StoreAssumption DEF FetchedOrder, Events
  <1>2. CASE Accepts(row, order)
    <2>1. KeptLogistics(row, order) \in Logistics
      BY DEF KeptLogistics, OrderRow, FetchedOrder
    <2> QED BY <1>1, <1>2, <2>1 DEF UpsertedRow, OrderRow, FetchedOrder, Exists
  <1>3. CASE ~Accepts(row, order)
    BY <1>3 DEF UpsertedRow, Accepts
  <1> QED BY <1>2, <1>3

(* A step of one transaction that keeps the table keeps the counters when  *)
(* the new transaction is sound.                                           *)
LEMMA OneWriterCounts ==
    ASSUME CountInv, StoreIInv', NEW t \in Writers, NEW w, SoundWriter(w),
           writer' = [writer EXCEPT ![t] = w],
           UNCHANGED <<storedRows, createdTotal>>,
           lots' \in 0..MaxLots, storeFaults' \in 0..MaxStoreFaults
    PROVE  CountInv'
  <1>1. \A u \in Writers : writer'[u] = w \/ writer'[u] = writer[u]
    BY DEF CountInv, StoreIInv, Shape
  <1>2. \A u \in Writers : SoundWriter(writer[u])'
    <2> TAKE u \in Writers
    <2>1. SoundWriter(writer'[u])  BY <1>1 DEF CountInv
    <2> QED BY <2>1 DEF SoundWriter
  <1>3. Existing' = Existing  BY DEF Existing
  <1> QED BY <1>2, <1>3 DEF CountInv

LEMMA NoLotCounts == SoundWriter(NoLot)
  <1>1. DOMAIN NoLot.written = {} /\ Range(NoLot.lot) = {} /\ NoLot.created = 0
    BY NoLotType DEF NoLot, Range
  <1>2. {o \in DOMAIN NoLot.written : ~Exists(storedRows[o])} = {}  BY <1>1
  <1>3. Cardinality({}) = 0  BY FS_EmptySet
  <1> QED BY <1>1, <1>2, <1>3 DEF SoundWriter

(* A lot is fetched with the dates of the provider.                        *)
LEMMA BeginCounts ==
    ASSUME CountInv, StoreIInv', NEW t \in Writers, BeginLot(t)
    PROVE  CountInv'
  <1>0. PICK q \in Sequences1(StoredOrders) : \E known \in SUBSET Range(q) :
           writer' = [writer EXCEPT ![t] =
               [NoLot EXCEPT !.active = TRUE,
                             !.lot = [i \in DOMAIN q |-> Fetched(q[i], known)]]]
    BY DEF BeginLot
  <1>1. PICK known \in SUBSET Range(q) :
           writer' = [writer EXCEPT ![t] =
               [NoLot EXCEPT !.active = TRUE,
                             !.lot = [i \in DOMAIN q |-> Fetched(q[i], known)]]]
    BY <1>0
  <1>2. PICK n \in Nat : q \in [1..n -> StoredOrders]
    <2>1. Cardinality(StoredOrders) \in Nat  BY StoreAssumption, FS_CardinalityType
    <2> QED BY <2>1 DEF Sequences1
  <1> DEFINE lot == [i \in DOMAIN q |-> Fetched(q[i], known)]
             w == [NoLot EXCEPT !.active = TRUE, !.lot = lot]
  <1>3. \A i \in DOMAIN q : Fetched(q[i], known) \in FetchedOrder
    <2> TAKE i \in DOMAIN q
    <2>1. q[i] \in StoredOrders  BY <1>2
    <2>2. latest[q[i]] \in 1..MaxEvents  BY <2>1 DEF CountInv, StoreIInv, Shape, Events
    <2>3. StampOf[q[i]][latest[q[i]]] \in Range(StampOf[q[i]])
      BY <2>1, <2>2, StoreAssumption DEF Range
    <2>4. StampOf[q[i]][latest[q[i]]] \in Stamps  BY <2>1, <2>3 DEF Stamps
    <2> QED BY <2>1, <2>2, <2>4 DEF Fetched, FetchedOrder, Events, Logistics
  <1>4. Range(lot) \subseteq FetchedOrder  BY <1>3 DEF Range
  <1>5. w.lot = lot /\ w.written = NoLot.written /\ w.created = NoLot.created
    <2> HIDE DEF lot
    <2> QED BY DEF NoLot
  <1> HIDE DEF lot
  <1>6. SoundWriter(w)
    <2> HIDE DEF w
    <2> QED BY <1>4, <1>5, NoLotCounts DEF SoundWriter
  <1>7. writer' = [writer EXCEPT ![t] = w]  BY <1>1 DEF lot
  <1> HIDE DEF w
  <1>8. lots' \in 0..MaxLots /\ storeFaults' \in 0..MaxStoreFaults
        /\ UNCHANGED <<storedRows, createdTotal>>
    BY StoreAssumption DEF BeginLot, CountInv
  <1> QED BY <1>6, <1>7, <1>8, OneWriterCounts

(* A write counts the row when the table does not have it.                 *)
LEMMA WriteCounts ==
    ASSUME CountInv, StoreIInv', NEW t \in Writers, WriteOrder(t)
    PROVE  CountInv'
  <1> DEFINE lot == writer[t].lot
             order == Head(lot)
             o == order.id
             row == storedRows[o]
             w == writer'[t]
             new == {p \in DOMAIN w.written : ~Exists(storedRows[p])}
  <1>0. StoreIInv /\ SoundWriter(writer[t])  BY DEF CountInv
  <1>1. /\ order = lot[1] /\ Len(lot) \in Nat /\ Len(lot) >= 1
        /\ Len(Tail(lot)) = Len(lot) - 1
        /\ \A i \in 1..Len(Tail(lot)) : Tail(lot)[i] = lot[i + 1]
        /\ o \in StoredOrders /\ o \notin Locked(t)
        /\ writer' = [writer EXCEPT ![t] = w] /\ w \in Writer
        /\ w.lot = Tail(lot) /\ DOMAIN w.written = Locked(t) \cup {o}
        /\ w.written[o] = UpsertedRow(row, order)
        /\ \A p \in Locked(t) : w.written[p] = writer[t].written[p]
        /\ w.created = IF Exists(row) THEN writer[t].created ELSE writer[t].created + 1
    BY <1>0, WriteWrites
  <1>2. /\ DOMAIN lot = 1..Len(lot) /\ DOMAIN Tail(lot) = 1..Len(Tail(lot))
    <2>1. lot \in Lots /\ w.lot \in Lots
      <3> DEFINE L == Lots
                 C == Copies
      <3>1. w \in [lot : L, written : C, created : Nat, active : BOOLEAN]
        BY <1>1 DEF Writer
      <3> HIDE DEF L, C, w
      <3>2. w.lot \in L  BY <3>1
      <3> QED BY <1>0, <3>2, WriterFields DEF StoreIInv, L
    <2> QED BY <1>1, <2>1 DEF Lots
  <1>3. order \in FetchedOrder /\ Range(Tail(lot)) \subseteq FetchedOrder
    <2>1. Range(lot) \subseteq FetchedOrder  BY <1>0 DEF SoundWriter
    <2>2. \A i \in DOMAIN lot : lot[i] \in FetchedOrder  BY <2>1 DEF Range
    <2> HIDE DEF lot
    <2>3. 1 \in DOMAIN lot /\ \A i \in DOMAIN Tail(lot) : i + 1 \in DOMAIN lot
      BY <1>1, <1>2
    <2>4. order = lot[1] /\ \A i \in DOMAIN Tail(lot) : Tail(lot)[i] = lot[i + 1]
      BY <1>1, <1>2
    <2> QED BY <2>2, <2>3, <2>4 DEF Range
  <1>4. UpsertedRow(row, order) \in OrderRow /\ Exists(UpsertedRow(row, order))
    BY <1>1, <1>3, UpsertStores DEF CountInv
  <1>5. writer[t].created = Cardinality(Fresh(t)) /\ IsFiniteSet(Fresh(t))
        /\ Cardinality(Fresh(t)) \in Nat
    <2>1. Fresh(t) \subseteq StoredOrders  BY <1>0, WriterFields DEF Fresh, StoreIInv
    <2> QED BY <1>0, <2>1, SmallSets DEF SoundWriter, Fresh, Locked
  <1>6. w.created = Cardinality(new)
    <2>1. CASE Exists(row)
      <3>1. new = Fresh(t)  BY <1>1, <2>1 DEF Fresh
      <3> HIDE DEF new, w, row
      <3> QED BY <1>1, <1>5, <2>1, <3>1
    <2>2. CASE ~Exists(row)
      <3>1. new = Fresh(t) \cup {o} /\ o \notin Fresh(t)  BY <1>1, <2>2 DEF Fresh
      <3> HIDE DEF new, w, row, o
      <3>2. Cardinality(Fresh(t) \cup {o}) = Cardinality(Fresh(t)) + 1
        BY <1>5, <3>1, FS_AddElement
      <3> QED BY <1>1, <1>5, <2>2, <3>1, <3>2
    <2> QED BY <2>1, <2>2
  <1> HIDE DEF w, row, order, o
  <1>7. \A p \in DOMAIN w.written : w.written[p] \in OrderRow /\ Exists(w.written[p])
    BY <1>0, <1>1, <1>4 DEF SoundWriter, Locked
  <1>8. SoundWriter(w)  BY <1>1, <1>3, <1>6, <1>7 DEF SoundWriter
  <1>9. UNCHANGED <<storedRows, createdTotal, lots, storeFaults>>  BY DEF WriteOrder
  <1> QED BY <1>1, <1>8, <1>9, OneWriterCounts DEF CountInv

(* A commit adds the fresh rows to the table and their number to the sum;  *)
(* what the other transactions hold is not among them.                     *)
LEMMA CommitCounts ==
    ASSUME CountInv, StoreIInv', NEW t \in Writers, CommitLot(t)
    PROVE  CountInv'
  <1>0. StoreIInv /\ SoundWriter(writer[t])  BY DEF CountInv
  <1>1. /\ storedRows' = [o \in StoredOrders |-> SeenBy(t, o)]
        /\ createdTotal' = createdTotal + writer[t].created
        /\ UNCHANGED <<lots, storeFaults>>
    BY DEF CommitLot
  <1>2. writer'[t] = NoLot /\ \A u \in Writers \ {t} : writer'[u] = writer[u]
    BY <1>0 DEF CommitLot, StoreIInv, Shape
  <1>3. Locked(t) \subseteq StoredOrders  BY <1>0, WriterFields DEF StoreIInv
  <1>4. \A o \in StoredOrders :
           /\ storedRows'[o] \in OrderRow
           /\ o \notin Locked(t) => storedRows'[o] = storedRows[o]
           /\ o \in Locked(t) => Exists(storedRows'[o])
    BY <1>0, <1>1 DEF SeenBy, SoundWriter, Locked, CountInv
  <1>5. Existing' = Existing \cup Fresh(t) /\ Existing \cap Fresh(t) = {}
    BY <1>3, <1>4 DEF Existing, Fresh
  <1>6. createdTotal' = Cardinality(Existing')
    <2>1. writer[t].created = Cardinality(Fresh(t))  BY <1>0 DEF SoundWriter, Fresh, Locked
    <2>2. createdTotal = Cardinality(Existing)  BY DEF CountInv
    <2>3. /\ IsFiniteSet(Existing) /\ IsFiniteSet(Fresh(t))
          /\ Cardinality(Existing) \in Nat /\ Cardinality(Fresh(t)) \in Nat
      BY <1>3, SmallSets DEF Existing, Fresh
    <2>4. Cardinality(Existing \cap Fresh(t)) = 0  BY <1>5, FS_EmptySet
    <2>5. Cardinality(Existing \cup Fresh(t))
             = Cardinality(Existing) + Cardinality(Fresh(t))
                   - Cardinality(Existing \cap Fresh(t))
      BY <2>3, FS_Union
    <2> QED BY <1>1, <1>5, <2>1, <2>2, <2>3, <2>4, <2>5
  <1>7. \A u \in Writers : SoundWriter(writer[u])'
    <2> TAKE u \in Writers
    <2>1. CASE u = t
      <3>1. SoundWriter(NoLot)'
        <4>1. DOMAIN NoLot.written = {} /\ Range(NoLot.lot) = {} /\ NoLot.created = 0
          BY NoLotType DEF NoLot, Range
        <4>2. {o \in DOMAIN NoLot.written : ~Exists(storedRows'[o])} = {}  BY <4>1
        <4>3. Cardinality({}) = 0  BY FS_EmptySet
        <4> QED BY <4>1, <4>2, <4>3 DEF SoundWriter
      <3> QED BY <1>2, <2>1, <3>1 DEF SoundWriter
    <2>2. CASE u # t
      <3>1. writer'[u] = writer[u] /\ SoundWriter(writer[u])  BY <1>2, <2>2 DEF CountInv
      <3>2. \A o \in Locked(u) : storedRows'[o] = storedRows[o]
        <4> TAKE o \in Locked(u)
        <4>1. o \in StoredOrders /\ o \notin Locked(t)
          BY <1>0, <2>2, WriterFields DEF StoreIInv, OneHolder
        <4> QED BY <1>4, <4>1
      <3>3. {o \in DOMAIN writer[u].written : ~Exists(storedRows'[o])}
               = {o \in DOMAIN writer[u].written : ~Exists(storedRows[o])}
        BY <3>2 DEF Locked
      <3> QED BY <3>1, <3>3 DEF SoundWriter
    <2> QED BY <2>1, <2>2
  <1> QED BY <1>1, <1>4, <1>6, <1>7 DEF CountInv

LEMMA RollbackCounts ==
    ASSUME CountInv, StoreIInv', NEW t \in Writers, Rollback(t),
           UNCHANGED <<storedRows, createdTotal>>,
           lots' \in 0..MaxLots, storeFaults' \in 0..MaxStoreFaults
    PROVE  CountInv'
  BY NoLotCounts, OneWriterCounts DEF Rollback

LEMMA CountStep == CountInv /\ [StoreNext]_storeVars => CountInv'
  <1> SUFFICES ASSUME CountInv, [StoreNext]_storeVars PROVE CountInv'  OBVIOUS
  <1>0. StoreIInv'  BY StoreStep DEF CountInv
  <1>1. ASSUME NEW t \in Writers, BeginLot(t) PROVE CountInv'  BY <1>0, <1>1, BeginCounts
  <1>2. ASSUME NEW t \in Writers, WriteOrder(t) PROVE CountInv'  BY <1>0, <1>2, WriteCounts
  <1>3. ASSUME NEW t \in Writers, CommitLot(t) PROVE CountInv'  BY <1>0, <1>3, CommitCounts
  <1>4. ASSUME NEW t \in Writers, DeadlockVictim(t) \/ LotStatementFails(t) PROVE CountInv'
    <2>1. /\ Rollback(t) /\ UNCHANGED <<storedRows, createdTotal, lots>>
          /\ storeFaults' \in 0..MaxStoreFaults
      BY <1>4, StoreAssumption DEF DeadlockVictim, LotStatementFails, CountInv
    <2> QED BY <1>0, <2>1, RollbackCounts DEF CountInv
  <1>5. ASSUME (\E o \in StoredOrders : ProviderUpdates(o)) \/ UNCHANGED storeVars PROVE CountInv'
    <2>1. UNCHANGED <<storedRows, writer, createdTotal, lots, storeFaults>>
      BY <1>5 DEF ProviderUpdates, storeVars
    <2> QED BY <1>0, <2>1 DEF CountInv, SoundWriter, Existing
  <1> QED BY <1>1, <1>2, <1>3, <1>4, <1>5 DEF StoreNext, WriterStep

(* The counters of the lots add up to the rows of the table, and types and *)
(* items are coherent, for any orders, dates, overlapping synchronisations *)
(* and failures: no order is counted twice, and none is missed.            *)
THEOREM StoreInvTheorem == StoreSpec => []StoreInv
  <1>1. StoreInit => CountInv
    <2> SUFFICES ASSUME StoreInit PROVE CountInv  OBVIOUS
    <2>1. \A o \in StoredOrders : storedRows[o] = NoOrderRow  BY DEF StoreInit
    <2>2. NoOrderRow \in OrderRow /\ ~Exists(NoOrderRow)
      <3>1. 0 \in Stamps  BY DEF Stamps
      <3>2. 0 \in 0..MaxEvents /\ "UNKNOWN" \in Logistics  BY StoreAssumption DEF Logistics
      <3> QED BY <3>1, <3>2 DEF NoOrderRow, OrderRow, Exists
    <2>3. Existing = {}  BY <2>1, <2>2 DEF Existing
    <2>4. Cardinality({}) = 0  BY FS_EmptySet
    <2>5. \A t \in Writers : SoundWriter(writer[t])  BY NoLotCounts DEF StoreInit
    <2>6. 0 \in 0..MaxLots /\ 0 \in 0..MaxStoreFaults  BY StoreAssumption
    <2> QED BY <2>1, <2>2, <2>3, <2>4, <2>5, <2>6, StoreInitially DEF CountInv, StoreInit
  <1>2. CountInv => StoreInv
    <2> SUFFICES ASSUME CountInv PROVE StoreInv  OBVIOUS
    <2>0. StoreIInv  BY DEF CountInv
    <2>1. ItemsMatchOrder  BY <2>0 DEF StoreIInv, Coherent, ItemsMatchOrder
    <2>2. CreatedOnce  BY DEF CountInv, Existing, CreatedOnce
    <2>3. createdTotal \in 0..Cardinality(StoredOrders)
      <3>1. /\ Cardinality(Existing) \in Nat /\ Cardinality(Existing) <= Cardinality(StoredOrders)
            /\ Cardinality(StoredOrders) \in Nat
        BY SmallSets DEF Existing
      <3> QED BY <3>1 DEF CountInv
    <2>4. ASSUME NEW t \in Writers
          PROVE  /\ Range(writer[t].lot) \subseteq FetchedOrder
                 /\ Locked(t) \subseteq StoredOrders
                 /\ Range(writer[t].written) \subseteq OrderRow
                 /\ writer[t].created \in 0..Cardinality(StoredOrders)
      <3>1. SoundWriter(writer[t]) /\ Locked(t) \subseteq StoredOrders
        BY <2>0, WriterFields DEF CountInv, StoreIInv
      <3>2. Range(writer[t].written) \subseteq OrderRow  BY <3>1 DEF SoundWriter, Range
      <3>3. /\ Cardinality(Fresh(t)) \in Nat /\ Cardinality(Fresh(t)) <= Cardinality(StoredOrders)
            /\ Cardinality(StoredOrders) \in Nat
        BY <3>1, SmallSets DEF Fresh
      <3>4. writer[t].created = Cardinality(Fresh(t))  BY <3>1 DEF SoundWriter, Fresh, Locked
      <3> QED BY <3>1, <3>2, <3>3, <3>4 DEF SoundWriter
    <2>5. latest \in [StoredOrders -> Events] /\ storedRows \in [StoredOrders -> OrderRow]
      BY <2>0 DEF CountInv, StoreIInv, Shape
    <2>6. StoreTypeOK  BY <2>3, <2>4, <2>5 DEF StoreTypeOK, CountInv
    <2> QED BY <2>1, <2>2, <2>6 DEF StoreInv
  <1> QED BY <1>1, <1>2, CountStep, PTL DEF StoreSpec

=============================================================================
