--------------------------- MODULE PlatformProofs ---------------------------
(***************************************************************************)
(* Proofs about the components of MCPlatform: the automatic cycle and the  *)
(* renewal batch, the sessions, a synchronisation between its statements   *)
(* (fetch, shipments, mapping), the pages, the coverage the dashboards     *)
(* report, and what the joint run says of them.                            *)
(***************************************************************************)
EXTENDS MCPlatform, CoverageProofs, AnalyticsProofs, FiniteSetTheorems, SequenceTheorems, TLAPS

\* While no lock connection broke and no instance crashed, who is past
\* tryAcquire holds the lock of the cycle.
HoldersPhases == {"listing", "looping", "syncing", "releasing"}
HolderHasLock ==
    cycleFaults = 0 =>
        \A i \in CycleInstances : cycle[i].phase \in HoldersPhases => cycleLock = i

CycleIInv == CycleTypeOK /\ HolderHasLock

-----------------------------------------------------------------------------
(* Moving an instance to another phase keeps it typed.                     *)
LEMMA CycleMovesTyped ==
    ASSUME NEW x \in Cycle, NEW phase, NEW todo \in SUBSET SyncedAccounts,
           NEW at \in SUBSET SyncedAccounts,
           phase \in {"off", "idle", "recovering", "locking", "listing", "looping", "syncing",
                      "releasing"}
    PROVE  /\ [x EXCEPT !.phase = phase] \in Cycle
           /\ [x EXCEPT !.todo = todo] \in Cycle
           /\ [x EXCEPT !.phase = phase, !.todo = todo] \in Cycle
           /\ [x EXCEPT !.phase = phase, !.at = at] \in Cycle
           /\ [x EXCEPT !.phase = phase, !.todo = todo, !.at = at] \in Cycle
  BY DEF Cycle

(* Before the timers fire nobody is in a cycle.                            *)
LEMMA CycleInitially == CycleInit => CycleIInv
  <1> SUFFICES ASSUME CycleInit PROVE CycleIInv
    OBVIOUS
  <1>1. CycleTypeOK
    BY CycleAssumption DEF CycleInit, CycleTypeOK, RowOwners, Cycle, NoCycle, Disabled
  <1>2. HolderHasLock
    BY DEF CycleInit, HolderHasLock, HoldersPhases, NoCycle, Disabled
  <1> QED BY <1>1, <1>2 DEF CycleIInv

(* The step of one instance: only an instance that finds the lock free     *)
(* passes tryAcquire, and only the holder gives the lock back.             *)
LEMMA CycleStepKeeps ==
    ASSUME CycleIInv, NEW i \in CycleInstances, CycleStep(i)
    PROVE  CycleIInv'
  <1> USE CycleAssumption DEF Enter, EndCycle, HoldersPhases
  <1>0. /\ cycle \in [CycleInstances -> Cycle] /\ cycle[i] \in Cycle
        /\ runningRow \in [SyncedAccounts -> RowOwners]
        /\ linked \in SUBSET SyncedAccounts /\ cycle[i].todo \subseteq SyncedAccounts
        /\ i \in RowOwners /\ NoInstance \in RowOwners
        /\ i # NoInstance
    BY DEF CycleIInv, CycleTypeOK, Cycle, RowOwners
  <1>n. NoCycle \in Cycle /\ NoCycle.phase = "idle"
    BY DEF NoCycle, Cycle
  <1>c. cycleFaults' = cycleFaults /\ linked' = linked
    BY DEF CycleStep, TimerFires, RecoverStale, AcquireCycleLock, SkipCycle, ListAccounts,
           BeginAccount, EndAccount, EndLoop, ReleaseCycleLock
  <1>l. \/ cycleLock' = cycleLock
        \/ cycleLock = NoInstance /\ cycleLock' = i
        \/ cycleLock = i /\ cycleLock' = NoInstance /\ cycle[i].phase = "releasing"
    BY DEF CycleStep, TimerFires, RecoverStale, AcquireCycleLock, SkipCycle, ListAccounts,
           BeginAccount, EndAccount, EndLoop, ReleaseCycleLock, CycleLockFree
  <1>r. runningRow' \in [SyncedAccounts -> RowOwners]
    BY <1>0 DEF CycleStep, TimerFires, RecoverStale, AcquireCycleLock, SkipCycle, ListAccounts,
           BeginAccount, EndAccount, EndLoop, ReleaseCycleLock
  <1>1. PICK x \in Cycle :
            /\ cycle' = [cycle EXCEPT ![i] = x]
            /\ x.phase \in HoldersPhases =>
                  \/ cycleLock' = i
                  \/ cycle[i].phase \in HoldersPhases /\ cycleLock' = cycleLock
    <2>1. CASE TimerFires(i)
      <3>1. [cycle[i] EXCEPT !.phase = "recovering"] \in Cycle
        BY <1>0, CycleMovesTyped
      <3> QED BY <1>0, <2>1, <3>1 DEF TimerFires, Cycle
    <2>2. CASE RecoverStale(i)
      <3>1. [cycle[i] EXCEPT !.phase = "locking"] \in Cycle
        BY <1>0, CycleMovesTyped
      <3> QED BY <1>0, <2>2, <3>1 DEF RecoverStale, Cycle
    <2>3. CASE AcquireCycleLock(i)
      <3>1. [cycle[i] EXCEPT !.phase = "listing"] \in Cycle
        BY <1>0, CycleMovesTyped
      <3> QED BY <1>0, <2>3, <3>1 DEF AcquireCycleLock, Cycle
    <2>4. CASE SkipCycle(i)
      BY <1>0, <1>n, <2>4 DEF SkipCycle
    <2>5. CASE ListAccounts(i)
      <3>1. [cycle[i] EXCEPT !.phase = "looping", !.todo = linked] \in Cycle
        BY <1>0, CycleMovesTyped
      <3> QED BY <1>0, <2>5, <3>1 DEF ListAccounts, Cycle
    <2>6. ASSUME NEW a \in SyncedAccounts, BeginAccount(i, a)
          PROVE  \E x \in Cycle :
                    /\ cycle' = [cycle EXCEPT ![i] = x]
                    /\ x.phase \in HoldersPhases =>
                          \/ cycleLock' = i
                          \/ cycle[i].phase \in HoldersPhases /\ cycleLock' = cycleLock
      <3>1. cycle[i].phase \in HoldersPhases /\ cycleLock' = cycleLock
        BY <2>6 DEF BeginAccount
      <3>2. /\ [cycle[i] EXCEPT !.phase = "syncing", !.todo = cycle[i].todo \ {a}, !.at = {a}]
                 \in Cycle
            /\ [cycle[i] EXCEPT !.todo = cycle[i].todo \ {a}] \in Cycle
        BY <1>0, CycleMovesTyped
      <3> QED BY <1>0, <2>6, <3>1, <3>2 DEF BeginAccount
    <2>7. CASE EndAccount(i)
      <3>1. [cycle[i] EXCEPT !.phase = "looping", !.at = {}] \in Cycle
        BY <1>0, CycleMovesTyped
      <3> QED BY <1>0, <2>7, <3>1 DEF EndAccount, AfterAccount
    <2>8. CASE EndLoop(i)
      <3>1. [cycle[i] EXCEPT !.phase = "releasing"] \in Cycle
        BY <1>0, CycleMovesTyped
      <3> QED BY <1>0, <2>8, <3>1 DEF EndLoop
    <2>9. CASE ReleaseCycleLock(i)
      BY <1>0, <1>n, <2>9 DEF ReleaseCycleLock
    <2> QED BY <2>1, <2>2, <2>3, <2>4, <2>5, <2>6, <2>7, <2>8, <2>9 DEF CycleStep
  <1>2. \A j \in CycleInstances : cycle'[j] = IF j = i THEN x ELSE cycle[j]
    BY <1>0, <1>1
  <1>3. CycleTypeOK'
    <2>1. cycle' \in [CycleInstances -> Cycle]
      BY <1>0, <1>1
    <2>2. cycleLock' \in CycleInstances \cup {NoInstance}
      BY <1>l DEF CycleIInv, CycleTypeOK
    <2> QED BY <1>c, <1>r, <2>1, <2>2 DEF CycleIInv, CycleTypeOK
  <1>4. HolderHasLock'
    <2> SUFFICES ASSUME cycleFaults = 0, NEW j \in CycleInstances, cycle'[j].phase \in HoldersPhases
                 PROVE  cycleLock' = j
      BY <1>c DEF HolderHasLock
    <2>1. CASE j = i
      BY <1>1, <1>2, <2>1 DEF CycleIInv, HolderHasLock
    <2>2. CASE j # i
      <3>1. cycleLock = j
        BY <1>2, <2>2 DEF CycleIInv, HolderHasLock
      <3> QED BY <1>l, <2>2, <3>1
    <2> QED BY <2>1, <2>2
  <1> QED BY <1>3, <1>4 DEF CycleIInv

(* Every step keeps the invariant; a fault ends its premise.               *)
LEMMA CycleKeeps == CycleIInv /\ [CycleNext]_cycleVars => CycleIInv'
  <1> SUFFICES ASSUME CycleIInv, [CycleNext]_cycleVars PROVE CycleIInv'
    OBVIOUS
  <1> USE CycleAssumption DEF Enter, EndCycle
  <1>0. /\ cycle \in [CycleInstances -> Cycle] /\ runningRow \in [SyncedAccounts -> RowOwners]
        /\ NoCycle \in Cycle /\ cycleFaults \in Nat
        /\ {"orphan", "stale", NoInstance} \subseteq RowOwners
    BY DEF CycleIInv, CycleTypeOK, Cycle, NoCycle, RowOwners
  <1>f. CycleFault => cycleFaults' \in 0..MaxCycleFaults /\ cycleFaults' # 0
    BY <1>0 DEF CycleFault
  <1>1. ASSUME NEW i \in CycleInstances, CycleStep(i) PROVE CycleIInv'
    BY <1>1, CycleStepKeeps
  <1>2. ASSUME NEW i \in CycleInstances, QueryFails(i) PROVE CycleIInv'
    <2>1. cycle[i] \in Cycle
      BY <1>0
    <2>2. [cycle[i] EXCEPT !.phase = "releasing"] \in Cycle
      BY <2>1, CycleMovesTyped
    <2>3. cycle' \in [CycleInstances -> Cycle]
      BY <1>0, <1>2, <2>2 DEF QueryFails
    <2> QED BY <1>2, <1>f, <2>3 DEF QueryFails, CycleIInv, CycleTypeOK, HolderHasLock
  <1>3. ASSUME NEW i \in CycleInstances, InstanceCrashes(i) PROVE CycleIInv'
    <2>1. cycle' \in [CycleInstances -> Cycle] /\ runningRow' \in [SyncedAccounts -> RowOwners]
      BY <1>0, <1>3 DEF InstanceCrashes
    <2> QED BY <1>3, <1>f, <2>1 DEF InstanceCrashes, CycleIInv, CycleTypeOK, HolderHasLock
  <1>4. CASE CycleLockLost
    BY <1>4, <1>f DEF CycleLockLost, CycleIInv, CycleTypeOK, HolderHasLock
  <1>5. ASSUME NEW a \in SyncedAccounts, RowGrowsStale(a) PROVE CycleIInv'
    <2>1. runningRow' \in [SyncedAccounts -> RowOwners]
      BY <1>0, <1>5 DEF RowGrowsStale
    <2> QED BY <1>5, <2>1 DEF RowGrowsStale, CycleIInv, CycleTypeOK, HolderHasLock
  <1>6. ASSUME NEW a \in SyncedAccounts, LinkChanges(a) PROVE CycleIInv'
    <2>1. linked' \in SUBSET SyncedAccounts
      BY <1>6 DEF LinkChanges, CycleIInv, CycleTypeOK
    <2> QED BY <1>6, <2>1 DEF LinkChanges, CycleIInv, CycleTypeOK, HolderHasLock
  <1>7. CASE UNCHANGED cycleVars
    BY <1>7 DEF cycleVars, CycleIInv, CycleTypeOK, HolderHasLock
  <1> QED BY <1>1, <1>2, <1>3, <1>4, <1>5, <1>6, <1>7 DEF CycleNext

-----------------------------------------------------------------------------
(* What is inductive holds of every behaviour.                             *)
THEOREM CycleInductive == CycleSpec => []CycleIInv
  BY CycleInitially, CycleKeeps, PTL DEF CycleSpec

(* One holder of the lock means one account at a time.                     *)
LEMMA CycleIsOne == CycleIInv => CycleInv
  <1>1. ASSUME CycleIInv PROVE OneCycleAtATime
    <2> DEFINE S == {i \in CycleInstances : cycle[i].phase = "syncing"}
    <2> SUFFICES ASSUME cycleFaults = 0 PROVE Cardinality(S) <= 1
      BY DEF OneCycleAtATime
    <2>1. \A i, j \in S : i = j
      BY <1>1 DEF CycleIInv, HolderHasLock, HoldersPhases
    <2>2. CASE S = {}
      BY <2>2, FS_EmptySet
    <2>3. CASE S # {}
      <3>1. PICK i \in S : TRUE
        BY <2>3
      <3>2. S = {i}
        BY <2>1, <3>1
      <3> HIDE DEF S
      <3>3. Cardinality({i}) = 1
        BY FS_Singleton
      <3> QED BY <3>2, <3>3
    <2> QED BY <2>2, <2>3
  <1> QED BY <1>1 DEF CycleIInv, CycleInv

(* The cycle is typed, and without faults one account at a time is         *)
(* synchronised by it, however many instances there are                    *)
(* (marketplace-auto-sync.service.ts:33-43).                               *)
THEOREM OneCycleTheorem == CycleSpec => []CycleInv
  BY CycleIsOne, CycleInductive, PTL

-----------------------------------------------------------------------------

Keys == ScopeKeys \cup {NoKey}
SlotOf(N, K, B) ==
    [seq : N, dataKey : K, dataSeq : N, pendingKey : K, lastKey : K,
     lastFailed : B, lastAuthError : B, taken : B]
Slot == SlotOf(Nat, Keys, BOOLEAN)
Request == [slot : SlotNames, seq : Nat, key : Keys]

\* The types without their bounds, and what orders the answers: the data of a
\* slot come from a request that was made.
Loading ==
    /\ scope \in ScopeSet
    /\ slots \in [SlotNames -> Slot]
    /\ asked \subseteq Request
    /\ syncing \in [phase : {"idle", "posting", "reloading"}, of : ScopeSet, seq : Nat]
DataWasAsked == \A n \in SlotNames : slots[n].dataSeq <= slots[n].seq
LoadInv == Loading /\ DataWasAsked

(* A slot is asked with a key of a view and an account, or with none.      *)
LEMMA KeyType ==
    ASSUME NEW s \in ScopeSet, NEW n \in SlotNames PROVE KeyOf(s, n) \in Keys
  BY DEF KeyOf, ScopeSet, SlotNames, Keys, ScopeKeys, NoKey

(* The slot a scope is shown in is one of the two.                         *)
LEMMA ShownSlotType == ASSUME NEW s \in ScopeSet PROVE ShownSlot(s) \in SlotNames
  BY DEF ShownSlot, SlotNames

(* What a slot is, field by field.                                         *)
LEMMA SlotFields ==
    ASSUME NEW N, NEW K, NEW B, NEW x \in SlotOf(N, K, B)
    PROVE  /\ x.seq \in N /\ x.dataSeq \in N
           /\ x.dataKey \in K /\ x.pendingKey \in K /\ x.lastKey \in K
           /\ x.lastFailed \in B /\ x.lastAuthError \in B /\ x.taken \in B
  BY DEF SlotOf

(* What an answer writes to a slot.                                        *)
LEMMA AnsweredSlotType ==
    ASSUME NEW N, NEW K, NEW B, NEW x \in SlotOf(N, K, B),
           NEW i \in N, NEW k \in K, NEW none \in K, NEW yes \in B, NEW no \in B,
           NEW auth \in B
    PROVE  /\ [x EXCEPT !.dataKey = k, !.dataSeq = i, !.pendingKey = none, !.lastKey = k,
                         !.lastFailed = no, !.lastAuthError = no] \in SlotOf(N, K, B)
           /\ [x EXCEPT !.pendingKey = none, !.lastKey = k, !.lastFailed = yes,
                         !.lastAuthError = auth] \in SlotOf(N, K, B)
  BY DEF SlotOf

(* The slots of a page that has loaded nothing yet.                        *)
LEMMA EmptySlotType == EmptySlot \in Slot /\ EmptySlot.dataSeq = 0 /\ EmptySlot.seq = 0
  <1>1. NoKey \in Keys  BY DEF Keys
  <1> QED BY <1>1 DEF EmptySlot, Slot, SlotOf

LEMMA FirstSlotType ==
    ASSUME NEW k \in Keys, NEW x,
           x = EmptySlot \/ x = [EmptySlot EXCEPT !.seq = 1, !.pendingKey = k]
    PROVE  x \in Slot /\ x.dataSeq <= x.seq
  <1>1. CASE x = EmptySlot
    <2>1. x.dataSeq = 0 /\ x.seq = 0 /\ x \in Slot  BY <1>1, EmptySlotType
    <2> QED BY <2>1
  <1>2. CASE x = [EmptySlot EXCEPT !.seq = 1, !.pendingKey = k]
    <2>1. x = [seq |-> 1, dataKey |-> NoKey, dataSeq |-> 0, pendingKey |-> k,
               lastKey |-> NoKey, lastFailed |-> FALSE, lastAuthError |-> FALSE,
               taken |-> FALSE]
      BY <1>2 DEF EmptySlot
    <2>2. NoKey \in Keys  BY DEF Keys
    <2> QED BY <2>1, <2>2 DEF Slot, SlotOf
  <1> QED BY <1>1, <1>2

(* A load keeps the invariant: it only raises the number of the slot.      *)
LEMMA LoadKeeps ==
    ASSUME LoadInv, NEW names \in SUBSET SlotNames, NEW s \in ScopeSet, NEW t,
           Load(names, s, t)
    PROVE  /\ slots' \in [SlotNames -> Slot]
           /\ asked' \subseteq Request
           /\ DataWasAsked'
           /\ \A n \in SlotNames : slots'[n].dataSeq = slots[n].dataSeq
  <1>1. \A n \in SlotNames : slots[n] \in Slot  BY DEF LoadInv, Loading
  <1>2. \A n \in names :
           LoadedSlots(names, s, t)[n] =
               [slots[n] EXCEPT !.seq = slots[n].seq + 1, !.pendingKey = KeyOf(s, n),
                                !.taken = (KeyOf(s, n) # KeyOf(t, n))]
    BY DEF LoadedSlots
  <1>3. \A n \in SlotNames \ names : LoadedSlots(names, s, t)[n] = slots[n]
    BY DEF LoadedSlots
  <1>4. slots' = LoadedSlots(names, s, t) /\ asked' = asked \cup Requests(names, s)
    BY DEF Load
  <1>5. \A n \in names : /\ slots'[n] \in Slot
                         /\ slots'[n].dataSeq = slots[n].dataSeq
                         /\ slots'[n].seq = slots[n].seq + 1
    <2> TAKE n \in names
    <2> DEFINE k == KeyOf(s, n)
               b == KeyOf(s, n) # KeyOf(t, n)
    <2>1. k \in Keys /\ b \in BOOLEAN  BY KeyType
    <2>2. slots[n] \in Slot  BY <1>1
    <2>3. slots'[n] = [slots[n] EXCEPT !.seq = slots[n].seq + 1, !.pendingKey = k, !.taken = b]
      BY <1>2, <1>4
    <2> DEFINE i == slots[n].seq + 1
               x == slots[n]
               y == slots'[n]
    <2>4. i \in Nat  BY <2>2, SlotFields DEF Slot
    <2>5. x \in SlotOf(Nat, Keys, BOOLEAN)  BY <2>2 DEF Slot
    <2>6. y = [x EXCEPT !.seq = i, !.pendingKey = k, !.taken = b]  BY <2>3
    <2> HIDE DEF k, b, i, x, y
    <2> DEFINE N == Nat
               B == BOOLEAN
    <2>7. x \in SlotOf(N, Keys, B) /\ i \in N /\ b \in B  BY <2>1, <2>4, <2>5
    <2> HIDE DEF N, B
    <2>8. y \in SlotOf(N, Keys, B) /\ y.dataSeq = x.dataSeq /\ y.seq = i
      BY <2>1, <2>6, <2>7 DEF SlotOf
    <2> QED BY <2>8 DEF x, y, i, N, B, Slot
  <1>6. \A n \in SlotNames : /\ slots'[n] \in Slot
                             /\ slots'[n].dataSeq = slots[n].dataSeq
                             /\ slots[n].seq <= slots'[n].seq
    BY <1>1, <1>3, <1>4, <1>5, SlotFields DEF Slot
  <1>7. slots' \in [SlotNames -> Slot]  BY <1>4, <1>6 DEF LoadedSlots
  <1>8. Requests(names, s) \subseteq Request
    BY <1>1, KeyType, SlotFields DEF Requests, Request, Slot
  <1>9. asked' \subseteq Request  BY <1>4, <1>8 DEF LoadInv, Loading
  <1>10. DataWasAsked'
    BY <1>1, <1>6, SlotFields DEF LoadInv, DataWasAsked, Slot
  <1> QED BY <1>6, <1>7, <1>9, <1>10

LEMMA OneLoadKeeps ==
    ASSUME LoadInv, NEW n \in SlotNames, NEW s \in ScopeSet, NEW t, Load({n}, s, t),
           scope' \in ScopeSet,
           syncing' \in [phase : {"idle", "posting", "reloading"}, of : ScopeSet, seq : Nat]
    PROVE  LoadInv' /\ \A m \in SlotNames : slots'[m].dataSeq >= slots[m].dataSeq
  <1> DEFINE names == {n}
  <1>1. names \in SUBSET SlotNames /\ Load(names, s, t)  OBVIOUS
  <1> HIDE DEF names
  <1>2. /\ slots' \in [SlotNames -> Slot] /\ asked' \subseteq Request /\ DataWasAsked'
        /\ \A m \in SlotNames : slots'[m].dataSeq = slots[m].dataSeq
    BY <1>1, LoadKeeps
  <1>3. \A m \in SlotNames : slots[m].dataSeq \in Nat  BY SlotFields DEF LoadInv, Loading, Slot
  <1> QED BY <1>2, <1>3 DEF LoadInv, Loading

(* An answer keeps the invariant: it is applied while it is the newest.    *)
LEMMA AnswerKeeps ==
    ASSUME LoadInv, NEW r \in asked, NEW reply \in Answers, AnswerArrives(r, reply)
    PROVE  LoadInv' /\ \A n \in SlotNames : slots'[n].dataSeq >= slots[n].dataSeq
  <1>1. /\ r \in Request /\ slots \in [SlotNames -> Slot]
        /\ slots[r.slot] \in Slot /\ r.slot \in SlotNames /\ r.seq \in Nat /\ r.key \in Keys
    BY DEF LoadInv, Loading, Request
  <1>2. NoKey \in Keys /\ (reply = "unauthorized") \in BOOLEAN  BY DEF Keys
  <1>3. AppliedSlot(r, reply) \in Slot
    BY <1>1, <1>2, AnsweredSlotType DEF AppliedSlot, Slot
  <1>4. Current(r) => /\ AppliedSlot(r, reply).seq = slots[r.slot].seq
                      /\ AppliedSlot(r, reply).dataSeq
                            \in {slots[r.slot].dataSeq, slots[r.slot].seq}
    BY <1>1 DEF Current, AppliedSlot, Slot, SlotOf
  <1>5. CASE Current(r)
    <2>1. slots' = [slots EXCEPT ![r.slot] = AppliedSlot(r, reply)]
      BY <1>5 DEF AnswerArrives
    <2>2. slots' \in [SlotNames -> Slot]  BY <1>1, <1>3, <2>1
    <2>3. \A n \in SlotNames : /\ slots'[n].dataSeq >= slots[n].dataSeq
                               /\ slots'[n].dataSeq <= slots'[n].seq
      <3> TAKE n \in SlotNames
      <3>1. CASE n = r.slot
        <4>1. slots'[n] = AppliedSlot(r, reply)  BY <1>1, <2>1, <3>1
        <4>2. slots[n].dataSeq <= slots[n].seq /\ slots[n].dataSeq \in Nat /\ slots[n].seq \in Nat
          BY <1>1, <3>1, SlotFields DEF LoadInv, DataWasAsked, Slot
        <4> QED BY <1>4, <1>5, <3>1, <4>1, <4>2
      <3>2. CASE n # r.slot
        <4>1. slots'[n] = slots[n]  BY <1>1, <2>1, <3>2
        <4>2. slots[n].dataSeq <= slots[n].seq /\ slots[n].dataSeq \in Nat
          BY <1>1, SlotFields DEF LoadInv, Loading, DataWasAsked, Slot
        <4> QED BY <4>1, <4>2
      <3> QED BY <3>1, <3>2
    <2>4. scope' = scope /\ asked' \subseteq asked /\ syncing' \in {syncing, NotSyncing}
      BY DEF AnswerArrives
    <2>5. NotSyncing \in [phase : {"idle", "posting", "reloading"}, of : ScopeSet, seq : Nat]
      BY DEF NotSyncing, ScopeSet
    <2> QED BY <2>2, <2>3, <2>4, <2>5 DEF LoadInv, Loading, DataWasAsked
  <1>6. CASE ~Current(r)
    <2>1. slots' = slots /\ scope' = scope /\ asked' \subseteq asked
          /\ syncing' \in {syncing, NotSyncing}
      BY <1>6 DEF AnswerArrives
    <2>2. NotSyncing \in [phase : {"idle", "posting", "reloading"}, of : ScopeSet, seq : Nat]
      BY DEF NotSyncing, ScopeSet
    <2>3. \A n \in SlotNames : slots[n].dataSeq \in Nat  BY <1>1, SlotFields DEF Slot
    <2> QED BY <2>1, <2>2, <2>3 DEF LoadInv, Loading, DataWasAsked
  <1> QED BY <1>5, <1>6

(* The page begins with the requests of its scope and without data.        *)
THEOREM LoadInitially == DashboardInit => LoadInv
  <1> SUFFICES ASSUME NEW s \in ScopeSet,
                      LET names == {n \in SlotNames : KeyOf(s, n) # NoKey}
                      IN /\ scope = s
                         /\ slots = [n \in SlotNames |->
                                       IF n \in names
                                       THEN [EmptySlot EXCEPT !.seq = 1, !.pendingKey = KeyOf(s, n)]
                                       ELSE EmptySlot]
                         /\ asked = {[slot |-> n, seq |-> 1, key |-> KeyOf(s, n)] : n \in names}
                         /\ syncing = NotSyncing
               PROVE  LoadInv
    BY DEF DashboardInit
  <1>1. \A n \in SlotNames : slots[n] \in Slot /\ slots[n].dataSeq <= slots[n].seq
    <2> TAKE n \in SlotNames
    <2> DEFINE k == KeyOf(s, n)
    <2>1. k \in Keys  BY KeyType
    <2>2. slots[n] = EmptySlot \/ slots[n] = [EmptySlot EXCEPT !.seq = 1, !.pendingKey = k]
      OBVIOUS
    <2> HIDE DEF k
    <2> QED BY <2>1, <2>2, FirstSlotType
  <1>2. DOMAIN slots = SlotNames /\ slots = [n \in SlotNames |-> slots[n]]  OBVIOUS
  <1>3. slots \in [SlotNames -> Slot] /\ DataWasAsked
    BY <1>1, <1>2 DEF DataWasAsked
  <1>4. asked \subseteq Request
    <2> SUFFICES ASSUME NEW r \in asked PROVE r \in Request  OBVIOUS
    <2>1. PICK n \in SlotNames : r = [slot |-> n, seq |-> 1, key |-> KeyOf(s, n)]  OBVIOUS
    <2>2. KeyOf(s, n) \in Keys  BY KeyType
    <2> QED BY <2>1, <2>2 DEF Request
  <1>5. syncing \in [phase : {"idle", "posting", "reloading"}, of : ScopeSet, seq : Nat]
    BY DEF NotSyncing, ScopeSet
  <1> QED BY <1>3, <1>4, <1>5 DEF LoadInv, Loading

(* Every step keeps the invariant, and none takes the data of a slot back  *)
(* to an older request.                                                    *)
THEOREM LoadStep ==
    LoadInv /\ [DashboardNext]_dashboardVars
        => LoadInv' /\ \A n \in SlotNames : slots'[n].dataSeq >= slots[n].dataSeq
  <1> SUFFICES ASSUME LoadInv, [DashboardNext]_dashboardVars
               PROVE  LoadInv' /\ \A n \in SlotNames : slots'[n].dataSeq >= slots[n].dataSeq
    OBVIOUS
  <1>0. \A n \in SlotNames : slots[n].dataSeq \in Nat  BY SlotFields DEF LoadInv, Loading, Slot
  <1> DEFINE Synced == [phase : {"idle", "posting", "reloading"}, of : ScopeSet, seq : Nat]
  <1>1. ASSUME NEW t \in ScopeSet, SelectScope(t)
        PROVE  LoadInv' /\ \A n \in SlotNames : slots'[n].dataSeq >= slots[n].dataSeq
    <2> DEFINE names == Reloaded(scope, t)
    <2>1. names \in SUBSET SlotNames  BY DEF Reloaded
    <2>2. Load(names, t, t) /\ scope' = t /\ syncing' = syncing
      BY <1>1 DEF SelectScope
    <2> HIDE DEF names
    <2>3. /\ slots' \in [SlotNames -> Slot] /\ asked' \subseteq Request /\ DataWasAsked'
          /\ \A n \in SlotNames : slots'[n].dataSeq = slots[n].dataSeq
      BY <2>1, <2>2, LoadKeeps
    <2> QED BY <1>0, <1>1, <2>2, <2>3 DEF LoadInv, Loading
  <1>2. ASSUME NEW r \in asked, NEW reply \in Answers, AnswerArrives(r, reply)
        PROVE  LoadInv' /\ \A n \in SlotNames : slots'[n].dataSeq >= slots[n].dataSeq
    BY <1>2, AnswerKeeps
  <1>3. CASE RetryLoad
    <2>1. ShownSlot(scope) \in SlotNames  BY ShownSlotType DEF LoadInv, Loading
    <2>2. Load({ShownSlot(scope)}, scope, scope) /\ scope' = scope /\ syncing' = syncing
      BY <1>3 DEF RetryLoad
    <2> QED BY <2>1, <2>2, OneLoadKeeps DEF LoadInv, Loading
  <1>4. CASE RetryFirstLoad
    <2>1. Load({"scope"}, scope, scope) /\ scope' = scope /\ syncing' = syncing
      BY <1>4 DEF RetryFirstLoad
    <2>2. "scope" \in SlotNames  BY DEF SlotNames
    <2> QED BY <2>1, <2>2, OneLoadKeeps DEF LoadInv, Loading
  <1>5. CASE SyncNow
    <2>1. syncing' = [phase |-> "posting", of |-> scope, seq |-> 0]  BY <1>5 DEF SyncNow
    <2>2. syncing' \in Synced  BY <2>1 DEF LoadInv, Loading
    <2> QED BY <1>0, <1>5, <2>2 DEF SyncNow, LoadInv, Loading, DataWasAsked
  <1>6. CASE SyncFails
    <2>1. syncing' \in Synced  BY <1>6 DEF SyncFails, NotSyncing, ScopeSet
    <2> QED BY <1>0, <1>6, <2>1 DEF SyncFails, LoadInv, Loading, DataWasAsked
  <1>7. CASE SyncSucceeds
    <2> DEFINE n == ShownSlot(syncing.of)
    <2>1. n \in SlotNames /\ syncing.of \in ScopeSet  BY ShownSlotType DEF LoadInv, Loading
    <2>2. /\ Load({n}, syncing.of, scope) /\ scope' = scope
          /\ syncing' = [syncing EXCEPT !.phase = "reloading", !.seq = slots[n].seq + 1]
      BY <1>7 DEF SyncSucceeds
    <2>3. slots[n].seq + 1 \in Nat  BY <2>1, SlotFields DEF LoadInv, Loading, Slot
    <2> HIDE DEF n
    <2>4. syncing' \in Synced  BY <2>2, <2>3 DEF LoadInv, Loading
    <2> QED BY <2>1, <2>2, <2>4, OneLoadKeeps DEF LoadInv, Loading
  <1>8. CASE UNCHANGED dashboardVars
    BY <1>0, <1>8 DEF dashboardVars, LoadInv, Loading, DataWasAsked
  <1> QED BY <1>1, <1>2, <1>3, <1>4, <1>5, <1>6, <1>7, <1>8 DEF DashboardNext

(* The data of a slot come from requests that were made, in every state.   *)
THEOREM LoadTheorem == DashboardSpec => []LoadInv
  <1>1. LoadInv /\ [DashboardNext]_dashboardVars => LoadInv'  BY LoadStep
  <1> QED BY LoadInitially, <1>1, PTL DEF DashboardSpec

(* Late answers never win: whatever order the answers of quickly changed   *)
(* filters arrive in, a slot never goes back to an older request.          *)
THEOREM InOrderTheorem == DashboardSpec => AnswersInOrder
  <1>1. LoadInv /\ [DashboardNext]_dashboardVars
           => [\A n \in SlotNames : slots'[n].dataSeq >= slots[n].dataSeq]_dashboardVars
    BY LoadStep
  <1> QED BY <1>1, LoadTheorem, PTL DEF DashboardSpec, AnswersInOrder

-----------------------------------------------------------------------------
(* What the dashboards say of a period (DataCoverage), for any accounts    *)
(* and runs.                                                               *)

\* The runs of an account are finitely many windows.
Recorded ==
    \A s \in Sources : succeeded[s] \subseteq Windows /\ IsFiniteSet(succeeded[s])

LEMMA WindowIsWindow ==
    ASSUME NEW w \in Windows
    PROVE  w \in AnyWindow /\ w.from < w.to /\ w.from \in Instants(w)
  <1>1. w \in [from : 0..Horizon, to : 0..Horizon] /\ w.from < w.to  BY DEF Windows
  <1>2. w.from \in Int /\ w.to \in Int  BY <1>1, BoundsAssumption
  <1> QED BY <1>1, <1>2 DEF AnyWindow, Instants

LEMMA RecordedIsWindowSet ==
    ASSUME Recorded, NEW s \in Sources
    PROVE  WindowSet(succeeded[s])
  BY WindowIsWindow DEF Recorded, WindowSet

LEMMA RunsKeep == Recorded /\ succeeded \in [Sources -> SUBSET Windows] /\ Next
                     => Recorded' /\ succeeded' \in [Sources -> SUBSET Windows]
  <1> SUFFICES ASSUME Recorded, succeeded \in [Sources -> SUBSET Windows],
                      NEW s \in Sources, NEW w \in Windows,
                      succeeded' = [succeeded EXCEPT ![s] = @ \cup {w}]
               PROVE  Recorded' /\ succeeded' \in [Sources -> SUBSET Windows]
    BY DEF Next, RunSucceeds
  <1>1. \A t \in Sources :
           succeeded'[t] = IF t = s THEN succeeded[t] \cup {w} ELSE succeeded[t]
    OBVIOUS
  <1>2. IsFiniteSet(succeeded[s] \cup {w})  BY FS_AddElement DEF Recorded
  <1> QED BY <1>1, <1>2 DEF Recorded

\* A period is covered when every instant of it is.
LEMMA CoveredInstants ==
    ASSUME Recorded, NEW s \in Sources, NEW w \in Windows
    PROVE  IsFullyCovered(MergeIntervals(succeeded[s]), w)
              <=> Instants(w) \subseteq InstantsOf(succeeded[s])
  BY RecordedIsWindowSet, WindowIsWindow, FullyCoveredTheorem

(* The merged intervals are exact: no instant is lost or made up.          *)
LEMMA MergedExactly == ASSUME Recorded PROVE MergeIsExact
  BY RecordedIsWindowSet, MergeKeepsInstants DEF MergeIsExact

(* Complete means that nothing is missing, for any accounts included.      *)
LEMMA CompleteExactly == ASSUME Recorded PROVE CompleteIffNothingMissing
  <1> SUFFICES ASSUME NEW sources \in (SUBSET Sources) \ {{}},
                      NEW current \in Windows, NEW previous \in Windows
               PROVE  Consolidated(sources, current, previous) = "complete" <=>
                         \A s \in sources :
                            Instants(current) \cup Instants(previous)
                               \subseteq InstantsOf(succeeded[s])
    BY DEF CompleteIffNothingMissing
  <1> DEFINE Of(s) == SourceCoverage(succeeded[s], current, previous)
             perSource == {Of(s) : s \in sources}
             Covered(s) == Instants(current) \cup Instants(previous)
                               \subseteq InstantsOf(succeeded[s])
  <1>1. \A s \in sources : /\ Of(s).selected /\ Of(s).comparison <=> Covered(s)
                           /\ Of(s).hasAnySuccess <=> succeeded[s] # {}
    <2> TAKE s \in sources
    <2>1. /\ Of(s).selected <=> Instants(current) \subseteq InstantsOf(succeeded[s])
          /\ Of(s).comparison <=> Instants(previous) \subseteq InstantsOf(succeeded[s])
          /\ Of(s).hasAnySuccess <=> succeeded[s] # {}
      BY CoveredInstants DEF SourceCoverage
    <2> QED BY <2>1
  <1>2. \A s \in sources : Covered(s) => succeeded[s] # {}
    BY WindowIsWindow DEF InstantsOf
  <1>3. Consolidated(sources, current, previous) =
           IF ~\E p \in perSource : p.hasAnySuccess THEN "unknown"
           ELSE Verdict(\A p \in perSource : p.selected, \A p \in perSource : p.comparison)
    BY DEF Consolidated
  <1> HIDE DEF Of, Covered
  <1>4. /\ (\E p \in perSource : p.hasAnySuccess) <=> \E s \in sources : Of(s).hasAnySuccess
        /\ (\A p \in perSource : p.selected) <=> \A s \in sources : Of(s).selected
        /\ (\A p \in perSource : p.comparison) <=> \A s \in sources : Of(s).comparison
    OBVIOUS
  <1> HIDE DEF perSource
  <1>5. Consolidated(sources, current, previous) = "complete" <=>
           /\ \E p \in perSource : p.hasAnySuccess
           /\ \A p \in perSource : p.selected
           /\ \A p \in perSource : p.comparison
    BY <1>3 DEF Verdict
  <1>6. \E s \in sources : TRUE  OBVIOUS
  <1>7. Consolidated(sources, current, previous) = "complete" <=> \A s \in sources : Covered(s)
    BY <1>1, <1>2, <1>4, <1>5, <1>6
  <1> QED BY <1>7 DEF Covered

(* For one account the two computations decide alike.                      *)
LEMMA DashboardsAlike == DashboardsAgree
  <1> SUFFICES ASSUME NEW s \in Sources, NEW current \in Windows, NEW previous \in Windows
               PROVE  Consolidated({s}, current, previous)
                         = DataCoverageOf(succeeded[s], current, previous)
    BY DEF DashboardsAgree
  <1> DEFINE p == SourceCoverage(succeeded[s], current, previous)
  <1>1. /\ p.hasAnySuccess = (succeeded[s] # {})
        /\ p.selected = IsFullyCovered(MergeIntervals(succeeded[s]), current)
        /\ p.comparison = IsFullyCovered(MergeIntervals(succeeded[s]), previous)
    BY DEF SourceCoverage
  <1>2. Consolidated({s}, current, previous) =
           IF ~\E q \in {p} : q.hasAnySuccess THEN "unknown"
           ELSE Verdict(\A q \in {p} : q.selected, \A q \in {p} : q.comparison)
    <2>1. {SourceCoverage(succeeded[t], current, previous) : t \in {s}} = {p}  OBVIOUS
    <2> HIDE DEF p
    <2> QED BY <2>1 DEF Consolidated
  <1> HIDE DEF p
  <1>3. Consolidated({s}, current, previous) =
           IF ~p.hasAnySuccess THEN "unknown" ELSE Verdict(p.selected, p.comparison)
    BY <1>2 DEF Verdict
  <1> QED BY <1>1, <1>3 DEF DataCoverageOf, Verdict

-----------------------------------------------------------------------------
(* The joint run: a behaviour is about one component, whose steps are its  *)
(* own.                                                                    *)

RunsAre == Recorded /\ succeeded \in [Sources -> SUBSET Windows]

LEMMA StepOfPart ==
    ASSUME [PlatformNext]_platformVars
    PROVE  /\ part' = part
           /\ part = "coverage" => Next \/ UNCHANGED succeeded
           /\ part = "cycle" => [CycleNext]_cycleVars
           /\ part = "batch" => [BatchNext]_batchVars
           /\ part = "periods" => [PeriodsNext]_periodVars
           /\ part = "dashboard" => [DashboardNext]_dashboardVars
           /\ part = "panels" => [SyncPageNext]_syncPageVars
           /\ part = "all_rows" => [SyncBatchNext]_syncBatchVars
           /\ part = "fetch" => [FetchNext]_fetchVars
           /\ part = "shipments" => [ShipmentsNext]_shipmentVars
           /\ part = "mapping" => [MapOrder]_mappingVars
           /\ part = "amazon" => [AmazonNext]_amzVars
           /\ part = "store" => [StoreNext]_storeVars
           /\ part = "sessions" => [SessionsNext]_authVars
  <1>1. CASE UNCHANGED platformVars
    BY <1>1 DEF platformVars, marketVars, schedulerVars, pageVars, figureVars
  <1>2. CASE PlatformNext
    BY <1>2 DEF PlatformNext, CoverageMoves, CycleMoves, BatchMoves, PeriodsMoves,
                DashboardMoves, SyncPageMoves, SyncBatchMoves, FetchMoves, ShipmentsMoves,
                MappingMoves, AmazonMoves, StoreMoves, SessionsMoves
  <1> QED BY <1>1, <1>2

(* What the dashboards of both pages say of a period is what the runs      *)
(* covered, for any accounts, instants and runs in any order.              *)
THEOREM CoverageToldTheorem == PlatformSpec => []CoverageTold
  <1> DEFINE Inv == part = "coverage" => RunsAre
  <1>1. PlatformInit => Inv
    <2> SUFFICES ASSUME PlatformInit PROVE RunsAre  OBVIOUS
    <2>1. \A s \in Sources : succeeded[s] = {}  BY DEF PlatformInit
    <2>2. IsFiniteSet({})  BY FS_EmptySet
    <2> QED BY <2>1, <2>2 DEF PlatformInit, RunsAre, Recorded
  <1>2. Inv /\ [PlatformNext]_platformVars => Inv'
    <2> SUFFICES ASSUME Inv, [PlatformNext]_platformVars, part' = "coverage"
                 PROVE  RunsAre'
      OBVIOUS
    <2>1. RunsAre /\ (Next \/ UNCHANGED succeeded)  BY StepOfPart
    <2> QED BY <2>1, RunsKeep DEF RunsAre, Recorded
  <1>3. Inv => CoverageTold
    BY MergedExactly, CompleteExactly, DashboardsAlike DEF RunsAre, CoverageTold, CoverageInv
  <1> QED BY <1>1, <1>2, <1>3, PTL DEF PlatformSpec

-----------------------------------------------------------------------------
(* The lookups of shipments (Shipments), for any orders and answers.       *)

KnownClass(s) == IF resolved[s] = "none" THEN "UNKNOWN" ELSE resolved[s]
LookedUp == {lookups[k] : k \in DOMAIN lookups}

ShipmentShape ==
    /\ shipmentOf \in [Positions -> ShipmentIds \cup {NoShipment}]
    /\ logisticType \in [ShipmentIds -> LogisticTypes]
    /\ ShipmentsTypeOK

\* The entries of the map are the lookups made, each once and within the cap.
LookupsOnce ==
    /\ Len(lookups) <= MaxLookups
    /\ \A i, j \in DOMAIN lookups : i # j => lookups[i] # lookups[j]
    /\ \A s \in ShipmentIds : resolved[s] # "none" <=> s \in LookedUp

\* An entry is what Mercado Envios says of the shipment, or nothing.
EntriesProven ==
    \A s \in ShipmentIds : resolved[s] \in {"none", "UNKNOWN", ClassOf(logisticType[s])}

\* An order that was passed has the class of its shipment; one without entry
\* was passed because the cap was reached, so that no entry can come later.
PassedOrders ==
    \A i \in 1..(next - 1) :
        LET s == shipmentOf[i] IN
        IF s = NoShipment THEN classes[i] = "UNKNOWN"
        ELSE /\ classes[i] = KnownClass(s)
             /\ resolved[s] = "none" => Len(lookups) >= MaxLookups

ShipmentIInv == ShipmentShape /\ LookupsOnce /\ EntriesProven /\ PassedOrders

(* The order at which the loop is.                                         *)
LEMMA HereType ==
    ASSUME ShipmentShape, InLoop
    PROVE  /\ next \in Nat /\ next \in Positions /\ next + 1 \in 1..(FetchedOrders + 1)
           /\ Here \in ShipmentIds \cup {NoShipment}
           /\ \A i \in 1..((next + 1) - 1) : i = next \/ (i \in 1..(next - 1) /\ i # next)
           /\ \A i \in 1..((next + 1) - 1) : i \in Positions
  <1>1. next \in 1..FetchedOrders /\ FetchedOrders \in Nat
    BY ShipmentsAssumption DEF InLoop, Positions
  <1>2. next \in Nat /\ next + 1 \in 1..(FetchedOrders + 1)  BY <1>1
  <1>3. \A i \in 1..((next + 1) - 1) : i = next \/ (i \in 1..(next - 1) /\ i # next)
    BY <1>2
  <1>4. \A i \in 1..((next + 1) - 1) : i \in Positions  BY <1>1 DEF Positions
  <1>5. Here \in ShipmentIds \cup {NoShipment}
    BY <1>1 DEF Here, ShipmentShape, Positions
  <1> QED BY <1>1, <1>2, <1>3, <1>4, <1>5 DEF Positions

LEMMA ClassOfType ==
    ASSUME NEW type \in LogisticTypes
    PROVE  /\ ClassOf(type) \in LogisticClasses
           /\ ClassOf(type) = "MARKETPLACE_FULFILLED" => type = "fulfillment"
           /\ ClassOf(type) = "SELLER_FULFILLED" => type = "self_service"
           /\ "UNKNOWN" \in LogisticClasses /\ "none" \notin LogisticClasses
  BY DEF ClassOf, LogisticTypes, LogisticClasses

(* The loop passes an order without a lookup: its class is the one its     *)
(* shipment has, or it is past the cap.                                    *)
LEMMA PassKeeps ==
    ASSUME ShipmentIInv, InLoop, NEW class \in LogisticClasses, GoOn(class),
           UNCHANGED <<shipmentOf, logisticType, resolved, lookups>>,
           IF Here = NoShipment THEN class = "UNKNOWN"
           ELSE /\ class = KnownClass(Here)
                /\ resolved[Here] = "none" => Len(lookups) >= MaxLookups
    PROVE  ShipmentIInv'
  <1>1. /\ next \in Nat /\ next \in Positions /\ next + 1 \in 1..(FetchedOrders + 1)
        /\ \A i \in 1..((next + 1) - 1) : i = next \/ (i \in 1..(next - 1) /\ i # next)
        /\ \A i \in 1..((next + 1) - 1) : i \in Positions
    BY HereType DEF ShipmentIInv
  <1>2. next' = next + 1 /\ classes' = [classes EXCEPT ![next] = class]  BY DEF GoOn
  <1>3. classes \in [Positions -> LogisticClasses \cup {"none"}]
    BY DEF ShipmentIInv, ShipmentShape, ShipmentsTypeOK
  <1>4. ShipmentShape'
    BY <1>1, <1>2, <1>3 DEF ShipmentIInv, ShipmentShape, ShipmentsTypeOK
  <1>5. PassedOrders'
    <2> SUFFICES ASSUME NEW i \in 1..((next + 1) - 1)
                 PROVE  LET s == shipmentOf[i] IN
                        IF s = NoShipment THEN classes'[i] = "UNKNOWN"
                        ELSE /\ classes'[i] = KnownClass(s)
                             /\ resolved[s] = "none" => Len(lookups) >= MaxLookups
      BY <1>2 DEF PassedOrders, KnownClass
    <2>1. CASE i = next
      BY <1>1, <1>2, <1>3, <2>1 DEF Here
    <2>2. CASE i \in 1..(next - 1) /\ i # next
      <3>1. classes'[i] = classes[i]  BY <1>1, <1>2, <1>3, <2>2
      <3> QED BY <2>2, <3>1 DEF ShipmentIInv, PassedOrders
    <2> QED BY <1>1, <2>1, <2>2
  <1>6. LookupsOnce' /\ EntriesProven'
    BY DEF ShipmentIInv, LookupsOnce, EntriesProven, LookedUp
  <1> QED BY <1>4, <1>5, <1>6 DEF ShipmentIInv

(* A lookup adds the entry of a shipment that none of the orders before    *)
(* had: while there is room under the cap, none was passed without.        *)
LEMMA LookUpKeeps ==
    ASSUME ShipmentIInv, LookUpShipment
    PROVE  ShipmentIInv'
  <1>0. PICK class :
           /\ class \in {"UNKNOWN", ClassOf(logisticType[Here])}
           /\ resolved' = [resolved EXCEPT ![Here] = class] /\ GoOn(class)
    BY DEF LookUpShipment, Remembered
  <1>1. /\ InLoop /\ Here # NoShipment /\ resolved[Here] = "none" /\ Len(lookups) < MaxLookups
        /\ lookups' = Append(lookups, Here) /\ UNCHANGED <<shipmentOf, logisticType>>
    BY DEF LookUpShipment
  <1>2. /\ next \in Nat /\ next \in Positions /\ next + 1 \in 1..(FetchedOrders + 1)
        /\ \A i \in 1..((next + 1) - 1) : i = next \/ (i \in 1..(next - 1) /\ i # next)
        /\ \A i \in 1..((next + 1) - 1) : i \in Positions
        /\ Here \in ShipmentIds
    BY <1>1, HereType DEF ShipmentIInv
  <1>3. next' = next + 1 /\ classes' = [classes EXCEPT ![next] = class]  BY <1>0 DEF GoOn
  <1>4. /\ classes \in [Positions -> LogisticClasses \cup {"none"}]
        /\ resolved \in [ShipmentIds -> LogisticClasses \cup {"none"}]
        /\ lookups \in Seq(ShipmentIds) /\ logisticType[Here] \in LogisticTypes
        /\ shipmentOf \in [Positions -> ShipmentIds \cup {NoShipment}]
    BY <1>2 DEF ShipmentIInv, ShipmentShape, ShipmentsTypeOK
  <1>5. class \in LogisticClasses /\ class # "none"  BY <1>0, <1>4, ClassOfType
  <1>6. /\ lookups' \in Seq(ShipmentIds) /\ Len(lookups') = Len(lookups) + 1
        /\ DOMAIN lookups' = 1..(Len(lookups) + 1) /\ DOMAIN lookups = 1..Len(lookups)
        /\ Len(lookups) \in Nat
        /\ lookups'[Len(lookups) + 1] = Here
        /\ \A k \in 1..Len(lookups) : lookups'[k] = lookups[k]
    <2> DEFINE S == ShipmentIds
    <2>1. lookups \in Seq(S) /\ Here \in S  BY <1>2, <1>4
    <2> HIDE DEF S
    <2> QED BY <1>1, <2>1, AppendProperties, LenProperties DEF S
  <1>7. /\ resolved'[Here] = class
        /\ \A s \in ShipmentIds : s # Here => resolved'[s] = resolved[s]
        /\ resolved' \in [ShipmentIds -> LogisticClasses \cup {"none"}]
    BY <1>0, <1>2, <1>4, <1>5
  <1>8. ShipmentShape'
    BY <1>1, <1>2, <1>3, <1>4, <1>5, <1>6, <1>7 DEF ShipmentIInv, ShipmentShape, ShipmentsTypeOK
  <1>9. LookedUp' = LookedUp \cup {Here} /\ Here \notin LookedUp
    <2>1. LookedUp' = LookedUp \cup {Here}  BY <1>6 DEF LookedUp
    <2>2. Here \notin LookedUp  BY <1>1, <1>2 DEF ShipmentIInv, LookupsOnce
    <2> QED BY <2>1, <2>2
  <1>10. LookupsOnce'
    <2>1. Len(lookups') <= MaxLookups  BY <1>1, <1>6, ShipmentsAssumption
    <2>2. \A i, j \in DOMAIN lookups' : i # j => lookups'[i] # lookups'[j]
      <3>1. \A k \in 1..Len(lookups) : lookups'[k] # Here  BY <1>6, <1>9 DEF LookedUp
      <3>2. \A i, j \in 1..Len(lookups) : i # j => lookups'[i] # lookups'[j]
        BY <1>6 DEF ShipmentIInv, LookupsOnce
      <3>3. \A k \in DOMAIN lookups' : k \in 1..Len(lookups) \/ k = Len(lookups) + 1
        BY <1>6
      <3> QED BY <1>6, <3>1, <3>2, <3>3
    <2>3. \A s \in ShipmentIds : resolved'[s] # "none" <=> s \in LookedUp'
      BY <1>5, <1>7, <1>9 DEF ShipmentIInv, LookupsOnce
    <2> QED BY <2>1, <2>2, <2>3 DEF LookupsOnce
  <1>11. EntriesProven'
    BY <1>0, <1>1, <1>7 DEF ShipmentIInv, EntriesProven
  <1>12. PassedOrders'
    <2> SUFFICES ASSUME NEW i \in 1..((next + 1) - 1), NEW s, s = shipmentOf[i]
                 PROVE  IF s = NoShipment THEN classes'[i] = "UNKNOWN"
                        ELSE /\ classes'[i]
                                   = IF resolved'[s] = "none" THEN "UNKNOWN" ELSE resolved'[s]
                             /\ resolved'[s] = "none" => Len(lookups') >= MaxLookups
      BY <1>1, <1>3 DEF PassedOrders, KnownClass
    <2>1. CASE i = next
      BY <1>1, <1>2, <1>3, <1>4, <1>5, <1>7, <2>1 DEF Here
    <2>2. CASE i \in 1..(next - 1) /\ i # next
      <3>1. classes'[i] = classes[i]  BY <1>2, <1>3, <1>4, <2>2
      <3>2. IF s = NoShipment THEN classes[i] = "UNKNOWN"
            ELSE classes[i] = KnownClass(s) /\ resolved[s] # "none"
        BY <1>1, <1>6, <2>2, ShipmentsAssumption DEF ShipmentIInv, PassedOrders
      <3>3. s # NoShipment => s \in ShipmentIds /\ s # Here
        BY <1>1, <1>2, <1>4, <3>2
      <3> QED BY <1>7, <3>1, <3>2, <3>3 DEF KnownClass
    <2> QED BY <1>2, <2>1, <2>2
  <1> QED BY <1>8, <1>10, <1>11, <1>12 DEF ShipmentIInv

LEMMA ShipmentsKeep == ShipmentIInv /\ [ShipmentsNext]_shipmentVars => ShipmentIInv'
  <1> SUFFICES ASSUME ShipmentIInv, [ShipmentsNext]_shipmentVars PROVE ShipmentIInv'
    OBVIOUS
  <1>1. CASE SkipOrder
    <2>1. "UNKNOWN" \in LogisticClasses  BY DEF LogisticClasses
    <2> QED BY <1>1, <2>1, PassKeeps DEF SkipOrder, KnownClass
  <1>2. CASE ReuseLookup
    <2>1. InLoop /\ Here # NoShipment /\ resolved[Here] # "none" /\ GoOn(resolved[Here])
          /\ UNCHANGED <<shipmentOf, logisticType, resolved, lookups>>
      BY <1>2 DEF ReuseLookup
    <2>2. Here \in ShipmentIds  BY <2>1, HereType DEF ShipmentIInv
    <2>3. resolved[Here] \in LogisticClasses
      BY <2>1, <2>2 DEF ShipmentIInv, ShipmentShape, ShipmentsTypeOK
    <2> QED BY <2>1, <2>3, PassKeeps DEF KnownClass
  <1>3. CASE LookUpShipment  BY <1>3, LookUpKeeps
  <1>4. CASE UNCHANGED shipmentVars
    BY <1>4 DEF shipmentVars, ShipmentIInv, ShipmentShape, ShipmentsTypeOK, LookupsOnce,
                EntriesProven, PassedOrders, LookedUp, KnownClass
  <1> QED BY <1>1, <1>2, <1>3, <1>4 DEF ShipmentsNext

LEMMA ShipmentsStart == ShipmentsInit => ShipmentIInv
  <1> SUFFICES ASSUME ShipmentsInit PROVE ShipmentIInv  OBVIOUS
  <1>1. /\ lookups = <<>> /\ next = 1 /\ \A s \in ShipmentIds : resolved[s] = "none"
    BY DEF ShipmentsInit
  <1>2. lookups \in Seq(ShipmentIds) /\ Len(lookups) = 0 /\ DOMAIN lookups = {}  BY <1>1
  <1>3. ShipmentShape
    BY <1>2, ShipmentsAssumption DEF ShipmentsInit, ShipmentShape, ShipmentsTypeOK
  <1>4. LookedUp = {}  BY <1>2 DEF LookedUp
  <1>5. LookupsOnce
    <2>1. Len(lookups) <= MaxLookups  BY <1>2, ShipmentsAssumption
    <2> QED BY <1>1, <1>2, <1>4, <2>1 DEF LookupsOnce
  <1>6. EntriesProven /\ PassedOrders  BY <1>1 DEF EntriesProven, PassedOrders
  <1> QED BY <1>3, <1>5, <1>6 DEF ShipmentIInv

LEMMA ShipmentsSound == ASSUME ShipmentIInv PROVE ShipmentsInv
  <1>0. /\ next \in 1..(FetchedOrders + 1) /\ FetchedOrders \in Nat
        /\ shipmentOf \in [Positions -> ShipmentIds \cup {NoShipment}]
        /\ logisticType \in [ShipmentIds -> LogisticTypes]
    BY ShipmentsAssumption DEF ShipmentIInv, ShipmentShape, ShipmentsTypeOK
  <1>1. \A i \in 1..(next - 1) : i \in Positions  BY <1>0 DEF Positions
  <1>2. NeverWronglyFull
    <2> SUFFICES ASSUME NEW i \in 1..(next - 1), classes[i] # "UNKNOWN"
                 PROVE  \/ /\ classes[i] = "MARKETPLACE_FULFILLED"
                           /\ logisticType[shipmentOf[i]] = "fulfillment"
                        \/ /\ classes[i] = "SELLER_FULFILLED"
                           /\ logisticType[shipmentOf[i]] = "self_service"
      BY DEF NeverWronglyFull
    <2> DEFINE s == shipmentOf[i]
    <2>1. s # NoShipment /\ classes[i] = KnownClass(s)
      BY DEF ShipmentIInv, PassedOrders
    <2>2. s \in ShipmentIds  BY <1>0, <1>1, <2>1
    <2>3. classes[i] = resolved[s] /\ resolved[s] \in {"none", "UNKNOWN", ClassOf(logisticType[s])}
          /\ resolved[s] # "none"
      BY <2>1, <2>2 DEF KnownClass, ShipmentIInv, EntriesProven
    <2>4. classes[i] = ClassOf(logisticType[s]) /\ logisticType[s] \in LogisticTypes
      BY <1>0, <2>2, <2>3
    <2> QED BY <2>4, ClassOfType DEF LogisticClasses
  <1>3. PacksStayTogether
    BY DEF PacksStayTogether, ShipmentIInv, LookupsOnce, PassedOrders
  <1> QED BY <1>2, <1>3 DEF ShipmentsInv, ShipmentIInv, ShipmentShape

(* No order is called Full that is not, and the orders of a pack come out  *)
(* alike at the cost of one lookup, whatever lookups fail and wherever the *)
(* cap falls (classifyLogistics).                                          *)
THEOREM ShipmentsTheorem == ShipmentsSpec => []ShipmentsInv
  BY ShipmentsStart, ShipmentsKeep, ShipmentsSound, PTL DEF ShipmentsSpec

-----------------------------------------------------------------------------
(* The batch of renewals (RenewalBatch), for any accounts and size.        *)

\* The accounts of the batch in hand are distinct, and each of them still due.
BatchIsDue ==
    /\ due \in Seq(RenewedAccounts) /\ IsInjective(due)
    /\ batch \in Seq(RenewedAccounts) /\ Len(batch) <= BatchSize /\ IsInjective(batch)
    /\ Range(batch) \subseteq Range(due)

\* The sequence s without its n-th entry.
CutAt(s, n) == [k \in 1..(Len(s) - 1) |-> IF k < n THEN s[k] ELSE s[k + 1]]

LEMMA CutAtIs ==
    ASSUME NEW S, NEW s \in Seq(S), NEW n \in 1..Len(s)
    PROVE  /\ RemoveAt(s, n) = CutAt(s, n)
           /\ RemoveAt(s, n) \in Seq(S) /\ Len(RemoveAt(s, n)) = Len(s) - 1
  <1> DEFINE a == SubSeq(s, 1, n - 1)
             b == SubSeq(s, n + 1, Len(s))
             r == a \o b
  <1>1. /\ a \in Seq(S) /\ Len(a) = n - 1 /\ \A k \in 1..(n - 1) : a[k] = s[k]
        /\ b \in Seq(S) /\ Len(b) = Len(s) - n /\ \A k \in 1..(Len(s) - n) : b[k] = s[n + k]
    OBVIOUS
  <1> HIDE DEF a, b
  <1>2. /\ r \in Seq(S) /\ Len(r) = Len(s) - 1
        /\ \A k \in 1..(Len(s) - 1) : r[k] = IF k <= n - 1 THEN a[k] ELSE b[k - (n - 1)]
    <2>1. Len(a) + Len(b) = Len(s) - 1
      BY <1>1
    <2>2. /\ r \in Seq(S) /\ Len(r) = Len(a) + Len(b)
          /\ \A k \in 1..(Len(a) + Len(b)) : r[k] = IF k <= Len(a) THEN a[k] ELSE b[k - Len(a)]
      BY <1>1, ConcatProperties
    <2> HIDE DEF r
    <2> QED BY <1>1, <2>1, <2>2
  <1>3. \A k \in 1..(Len(s) - 1) : r[k] = IF k < n THEN s[k] ELSE s[k + 1]
    BY <1>1, <1>2
  <1>4. r = [k \in 1..(Len(s) - 1) |-> r[k]]
    <2> HIDE DEF r
    <2>1. r = [k \in 1..Len(r) |-> r[k]]
      BY <1>2
    <2> QED BY <1>2, <2>1
  <1>5. r = CutAt(s, n)
    BY <1>3, <1>4 DEF CutAt
  <1>6. RemoveAt(s, n) = r
    BY DEF RemoveAt, r, a, b
  <1> QED BY <1>2, <1>5, <1>6

(* Without one account a list of distinct accounts keeps the others.       *)
LEMMA WithoutIs ==
    ASSUME NEW S, NEW s \in Seq(S), IsInjective(s), NEW x \in Range(s)
    PROVE  /\ Without(s, x) \in Seq(S) /\ IsInjective(Without(s, x))
           /\ Range(s) \ {x} \subseteq Range(Without(s, x))
  <1> DEFINE n == CHOOSE m \in DOMAIN s : s[m] = x
             r == Without(s, x)
  <1>1. n \in 1..Len(s) /\ s[n] = x
    BY DEF Range
  <1> HIDE DEF n
  <1>2. /\ r = CutAt(s, n) /\ r \in Seq(S) /\ Len(r) = Len(s) - 1
    BY <1>1, CutAtIs DEF Without, n
  <1>3. /\ DOMAIN r = 1..(Len(s) - 1)
        /\ \A k \in 1..(Len(s) - 1) : r[k] = IF k < n THEN s[k] ELSE s[k + 1]
    BY <1>2 DEF CutAt
  <1> HIDE DEF r
  <1>4. IsInjective(r)
    BY <1>1, <1>3 DEF IsInjective
  <1>5. ASSUME NEW y \in Range(s), y # x PROVE y \in Range(r)
    <2>1. PICK k \in 1..Len(s) : s[k] = y
      BY DEF Range
    <2>2. k # n
      BY <1>1, <1>5, <2>1
    <2>3. PICK m \in 1..(Len(s) - 1) : r[m] = s[k]
      <3>1. CASE k < n
        BY <1>1, <1>3, <3>1
      <3>2. CASE k > n
        <4>1. k - 1 \in 1..(Len(s) - 1) /\ ~(k - 1 < n) /\ (k - 1) + 1 = k
          BY <1>1, <3>2
        <4> QED BY <1>3, <4>1
      <3> QED BY <1>1, <2>2, <3>1, <3>2
    <2> QED BY <1>3, <2>1, <2>3 DEF Range
  <1> QED BY <1>2, <1>4, <1>5 DEF r

(* The batch is a beginning of the due accounts.                           *)
LEMMA TakenIs ==
    ASSUME NEW S, NEW s \in Seq(S), IsInjective(s)
    PROVE  /\ Taken(s) \in Seq(S) /\ Len(Taken(s)) <= BatchSize /\ IsInjective(Taken(s))
           /\ Range(Taken(s)) \subseteq Range(s)
  <1>1. CASE Len(s) <= BatchSize
    BY <1>1 DEF Taken
  <1>2. CASE ~(Len(s) <= BatchSize)
    <2> DEFINE t == SubSeq(s, 1, BatchSize)
    <2>1. /\ t \in Seq(S) /\ Len(t) = BatchSize /\ DOMAIN t = 1..BatchSize
          /\ \A k \in 1..BatchSize : t[k] = s[k] /\ k \in DOMAIN s
      BY <1>2, BatchAssumption
    <2> HIDE DEF t
    <2>2. IsInjective(t) /\ Range(t) \subseteq Range(s)
      BY <2>1 DEF IsInjective, Range
    <2> QED BY <1>2, <2>1, <2>2, BatchAssumption DEF Taken, t
  <1> QED BY <1>1, <1>2

LEMMA BatchInitially == BatchInit => BatchIsDue
  <1> SUFFICES ASSUME due = <<>>, batch = <<>> PROVE BatchIsDue
    BY DEF BatchInit
  <1>1. Len(<<>>) <= BatchSize
    BY BatchAssumption
  <1> QED BY <1>1 DEF BatchIsDue, IsInjective, Range

LEMMA BatchKeeps == BatchIsDue /\ [BatchNext]_batchVars => BatchIsDue'
  <1> SUFFICES ASSUME BatchIsDue, [BatchNext]_batchVars PROVE BatchIsDue'
    OBVIOUS
  <1>0. /\ due \in Seq(RenewedAccounts) /\ IsInjective(due)
        /\ batch \in Seq(RenewedAccounts) /\ Len(batch) <= BatchSize /\ IsInjective(batch)
        /\ Range(batch) \subseteq Range(due)
    BY DEF BatchIsDue
  <1>1. ASSUME NEW a \in RenewedAccounts, TokenFallsDue(a) PROVE BatchIsDue'
    <2>1. /\ due' \in Seq(RenewedAccounts) /\ Len(due') = Len(due) + 1
          /\ DOMAIN due' = 1..(Len(due) + 1)
          /\ \A k \in 1..Len(due) : due'[k] = due[k]
          /\ due'[Len(due) + 1] = a
      BY <1>0, <1>1 DEF TokenFallsDue
    <2>2. \A k \in 1..Len(due) : due[k] # a
      BY <1>0, <1>1 DEF TokenFallsDue, Range
    <2>3. IsInjective(due')
      BY <1>0, <2>1, <2>2 DEF IsInjective
    <2>4. Range(due) \subseteq Range(due')
      BY <1>0, <2>1 DEF Range
    <2>5. batch' = batch
      BY <1>1 DEF TokenFallsDue
    <2> QED BY <1>0, <2>1, <2>3, <2>4, <2>5 DEF BatchIsDue
  <1>2. CASE TakeBatch
    <2>1. batch' = Taken(due) /\ due' = due
      BY <1>2 DEF TakeBatch
    <2> QED BY <1>0, <2>1, TakenIs DEF BatchIsDue
  <1>3. CASE RenewNext
    <2> DEFINE x == Head(batch)
               t == Tail(batch)
    <2>1. /\ batch # <<>> /\ batch' = t
          /\ due' = due \/ due' = Without(due, x)
      BY <1>3 DEF RenewNext
    <2>2. /\ t \in Seq(RenewedAccounts) /\ Len(t) = Len(batch) - 1 /\ x = batch[1]
          /\ 1 \in DOMAIN batch /\ DOMAIN t = 1..(Len(batch) - 1)
          /\ \A k \in DOMAIN t : t[k] = batch[k + 1] /\ k + 1 \in DOMAIN batch /\ k \in Nat \ {0}
      BY <1>0, <2>1
    <2> HIDE DEF x, t
    <2>3. IsInjective(t) /\ Range(t) \subseteq Range(batch) \ {x} /\ x \in Range(batch)
      <3>1. IsInjective(t)
        <4> SUFFICES ASSUME NEW j \in DOMAIN t, NEW k \in DOMAIN t, t[j] = t[k] PROVE j = k
          BY DEF IsInjective
        <4>1. j + 1 = k + 1
          BY <1>0, <2>2 DEF IsInjective
        <4> QED BY <2>2, <4>1
      <3>2. x \in Range(batch)
        BY <2>2 DEF Range
      <3>3. ASSUME NEW k \in DOMAIN t PROVE t[k] \in Range(batch) /\ t[k] # x
        <4>1. k + 1 # 1 /\ k + 1 \in DOMAIN batch /\ t[k] = batch[k + 1]
          BY <2>2
        <4> QED BY <1>0, <2>2, <4>1 DEF IsInjective, Range
      <3> QED BY <3>1, <3>2, <3>3 DEF Range
    <2>4. /\ due' \in Seq(RenewedAccounts) /\ IsInjective(due')
          /\ Range(due) \ {x} \subseteq Range(due')
      <3>1. x \in Range(due)
        BY <1>0, <2>3
      <3> QED BY <1>0, <2>1, <3>1, WithoutIs
    <2>5. Len(t) <= BatchSize
      BY <1>0, <2>2, BatchAssumption
    <2> QED BY <1>0, <2>1, <2>2, <2>3, <2>4, <2>5 DEF BatchIsDue
  <1>4. CASE UNCHANGED batchVars
    BY <1>0, <1>4 DEF batchVars, BatchIsDue, IsInjective, Range
  <1> QED BY <1>1, <1>2, <1>3, <1>4 DEF BatchNext

(* Distinct accounts are never more than there are.                        *)
LEMMA BatchTyped == BatchIsDue => BatchTypeOK
  <1> SUFFICES ASSUME BatchIsDue PROVE BatchTypeOK
    OBVIOUS
  <1>0. /\ due \in Seq(RenewedAccounts) /\ IsInjective(due)
        /\ batch \in Seq(RenewedAccounts) /\ Len(batch) <= BatchSize
    BY DEF BatchIsDue
  <1> DEFINE n == Len(due)
             c == Cardinality(RenewedAccounts)
  <1>1. n \in Nat /\ due \in [1..n -> RenewedAccounts]
    BY <1>0
  <1>2. n <= c /\ c \in Nat
    <2>1. due \in Injection(1..n, RenewedAccounts)
      BY <1>0, <1>1 DEF Injection
    <2>2. Cardinality(1..n) <= c
      BY <2>1, FS_Injection, BatchAssumption
    <2>3. Cardinality(1..n) = n
      BY <1>1, FS_Interval
    <2>4. c \in Nat
      BY FS_CardinalityType, BatchAssumption
    <2> QED BY <2>2, <2>3, <2>4
  <1> HIDE DEF n, c
  <1>3. due \in UNION {[1..m -> RenewedAccounts] : m \in 0..c}
    BY <1>1, <1>2
  <1>4. Len(batch) \in 0..BatchSize /\ batch \in [1..Len(batch) -> RenewedAccounts]
    BY <1>0, BatchAssumption
  <1>5. batch \in UNION {[1..m -> RenewedAccounts] : m \in 0..BatchSize}
    BY <1>4
  <1> QED BY <1>0, <1>3, <1>5 DEF BatchTypeOK, c

(* The two parts of the scheduler in the joint run: the cycle synchronises *)
(* one account at a time, and a batch of renewals holds distinct accounts, *)
(* all of them still due, for any accounts, instances and sizes.           *)
THEOREM ScheduleTheorem == PlatformSpec => []ScheduleInv
  <1> DEFINE Inv == /\ part = "cycle" => CycleIInv
                    /\ part = "batch" => BatchIsDue
  <1>1. PlatformInit => Inv
    BY CycleInitially, BatchInitially DEF PlatformInit
  <1>2. Inv /\ [PlatformNext]_platformVars => Inv'
    BY StepOfPart, CycleKeeps, BatchKeeps
  <1>3. Inv => ScheduleInv
    BY CycleIsOne, BatchTyped DEF ScheduleInv
  <1> QED BY <1>1, <1>2, <1>3, PTL DEF PlatformSpec

---------------------------------------------------------------------------
(* A fetch (OrderFetch), for any caps, pages and answers.                  *)

\* Multiples of natural numbers, as far as the offsets need them.
LEMMA Multiples ==
    ASSUME NEW p \in Nat
    PROVE  /\ 0 * p = 0
           /\ \A a \in Nat : a * p \in Nat /\ (a + 1) * p = a * p + p
  OBVIOUS

LEMMA MultiplesGrow ==
    ASSUME NEW p \in Nat, NEW a \in Nat, NEW b \in Nat, a <= b
    PROVE  a * p <= b * p
  <1>1. PICK d \in Nat : b = a + d
    <2>1. b - a \in Nat /\ b = a + (b - a)
      OBVIOUS
    <2> QED BY <2>1
  <1>2. (a + d) * p = a * p + d * p /\ a * p \in Nat /\ d * p \in Nat
    OBVIOUS
  <1> QED BY <1>1, <1>2

\* Pages that are all full have as many orders as they have places.
LEMMA FullPages ==
    ASSUME NEW n \in Nat, NEW p \in Nat, NEW f, \A k \in 1..n : f[k] = p
    PROVE  SumFunctionOnSet(f, 1..n) = n * p
  <1> DEFINE Sum(m) == SumFunctionOnSet(f, 1..m)
             M == {m \in 0..n : Sum(m) # m * p}
  <1> SUFFICES ASSUME M # {} PROVE FALSE
    BY DEF M
  <1>1. PICK m \in M : \A k \in M : m <= k
    <2>1. IsFiniteSet(0..n) /\ M \subseteq 0..n
      BY FS_Interval
    <2> HIDE DEF M
    <2>2. IsFiniteSet(M)
      BY <2>1, FS_Subset
    <2>3. M \in SUBSET Int
      BY <2>1
    <2> QED BY <2>2, <2>3, Least
  <1>2. m \in 0..n /\ Sum(m) # m * p
    BY <1>1
  <1>3. CASE m = 0
    <2>1. 1..m = {}
      BY <1>3
    <2>2. Sum(m) = 0
      BY <2>1, SumOfNothing
    <2> QED BY <1>2, <1>3, <2>2, Multiples
  <1>4. CASE m # 0
    <2> DEFINE r == m - 1
    <2>1. r \in 0..n /\ r \in Nat /\ m = r + 1 /\ ~(m <= r)
      BY <1>2, <1>4
    <2>2. Sum(r) = r * p
      BY <1>1, <2>1
    <2>3. (1..m) \ {m} = 1..r /\ m \in 1..m
      BY <1>2, <1>4
    <2>4. \A k \in 1..m : f[k] \in Nat
      BY <1>2
    <2>5. IsFiniteSet(1..m)
      BY <1>2, FS_Interval
    <2> HIDE DEF r
    <2>6. Sum(m) = f[m] + SumFunctionOnSet(f, (1..m) \ {m})
      BY <2>3, <2>4, <2>5, SumWithout
    <2>7. f[m] = p /\ Sum(m) = f[m] + Sum(r)
      <3>1. m \in 1..n
        BY <1>2, <1>4
      <3>2. SumFunctionOnSet(f, (1..m) \ {m}) = Sum(r)
        BY <2>3
      <3> QED BY <2>6, <3>1, <3>2
    <2>8. r * p \in Nat /\ m * p = r * p + p
      BY <2>1, Multiples
    <2> HIDE DEF Sum
    <2> QED BY <1>2, <2>2, <2>7, <2>8
  <1> QED BY <1>3, <1>4

\* The orders of a window whose pages are full but for the last one.
LEMMA TotalOfPages ==
    ASSUME NEW n \in Nat \ {0}, NEW p \in Nat, NEW f \in [1..n -> Nat],
           \A k \in 1..(n - 1) : f[k] = p
    PROVE  SumFunction(f) = (n - 1) * p + f[n]
  <1> DEFINE r == n - 1
  <1>1. r \in Nat /\ (1..n) \ {n} = 1..r /\ n \in 1..n /\ DOMAIN f = 1..n
    OBVIOUS
  <1>2. SumFunctionOnSet(f, 1..r) = r * p
    BY <1>1, FullPages
  <1>3. SumFunctionOnSet(f, 1..n) = f[n] + SumFunctionOnSet(f, 1..r)
    <2>1. IsFiniteSet(1..n) /\ \A k \in 1..n : f[k] \in Nat
      <3>1. 1 \in Int /\ n \in Int
        OBVIOUS
      <3>2. IsFiniteSet(1..n)
        BY <3>1, FS_Interval
      <3> QED BY <3>2
    <2>2. SumFunctionOnSet(f, 1..n) = f[n] + SumFunctionOnSet(f, (1..n) \ {n})
      BY <1>1, <2>1, SumWithout
    <2> QED BY <1>1, <2>2
  <1>4. SumFunction(f) = SumFunctionOnSet(f, 1..n)
    BY <1>1 DEF SumFunction
  <1>5. r * p \in Nat /\ f[n] \in Nat
    BY <1>1, Multiples
  <1> QED BY <1>2, <1>3, <1>4, <1>5

\* The pages received are those before the one asked for, which is there
\* while the loop runs; a page of Mercado Livre that is not the last is full.
FetchIInv ==
    /\ FetchTypeOK
    /\ fetch.got = 1..(fetch.page - 1)
    /\ fetch.result = "running" => fetch.page <= Len(pages)
    /\ fetch.market = "ML" => \A n \in 1..(Len(pages) - 1) : pages[n] = PageSize
    /\ WholeIsWhole

\* The pages at the provider.
LEMMA PagesType ==
    ASSUME FetchTypeOK
    PROVE  /\ Len(pages) \in 1..MaxPages
           /\ pages \in [1..Len(pages) -> 0..PageSize] /\ pages \in [1..Len(pages) -> Nat]
           /\ PageSize \in Nat \ {0} /\ MaxPages \in Nat /\ OffsetCap \in Nat
  <1>1. PICK n \in 1..MaxPages : pages \in [1..n -> 0..PageSize]
    BY DEF FetchTypeOK
  <1>2. PageSize \in Nat \ {0} /\ MaxPages \in Nat /\ OffsetCap \in Nat
    BY FetchAssumption
  <1>3. Len(pages) = n
    BY <1>1, <1>2
  <1> QED BY <1>1, <1>2, <1>3

Codes == {"running", "whole", "truncated", "PROVIDER_UNAVAILABLE", "PROVIDER_RATE_LIMITED",
          "PROVIDER_REJECTED_REQUEST", "INVALID_PROVIDER_RESPONSE", "SYNC_FAILED"}

\* A fetch that gets no page keeps what it has.
StandsStill(result) ==
    /\ fetch' \in Fetch /\ pages' = pages
    /\ fetch'.market = fetch.market /\ fetch'.page = fetch.page /\ fetch'.got = fetch.got
    /\ fetch'.result = result

LEMMA StandingStill ==
    ASSUME FetchIInv, Running, NEW result \in Codes \ {"whole"}, StandsStill(result)
    PROVE  FetchIInv'
  BY DEF FetchIInv, FetchTypeOK, WholeIsWhole, StandsStill, Running

LEMMA ThrowStands ==
    ASSUME FetchIInv, NEW code \in Codes, Throw(code), pages' = pages
    PROVE  StandsStill(code)
  <1>1. fetch \in Fetch
    BY DEF FetchIInv, FetchTypeOK
  <1> QED BY <1>1 DEF Throw, StandsStill, Fetch, Codes

\* The loop once a page has come in, field by field.
FetchOf(M, P, G, N, C) ==
    [market : M, page : P, got : G, retries : N, renewals : 0..MaxRenewals, result : C]

\* A page that came in.
LEMMA PageComesIn ==
    ASSUME FetchIInv, Running, NEW result \in {"running", "whole", "truncated"},
           fetch' = [Received EXCEPT !.result = result], pages' = pages
    PROVE  /\ FetchTypeOK' /\ fetch'.page = fetch.page + 1 /\ fetch'.got = 1..fetch.page
           /\ fetch'.got = 1..(fetch'.page - 1)
           /\ fetch'.market = fetch.market /\ fetch'.result = result
  <1>1. /\ fetch \in Fetch /\ fetch.page \in Nat \ {0} /\ fetch.page <= Len(pages)
        /\ fetch.got = 1..(fetch.page - 1) /\ Len(pages) <= MaxPages
        /\ Len(pages) \in Nat /\ MaxPages \in Nat /\ MaxRetries \in Nat
    BY PagesType, FetchAssumption DEF FetchIInv, FetchTypeOK, Fetch, Running
  <1> DEFINE p == fetch.page
             g == fetch.got \cup {p}
  <1>2. g = 1..p /\ g \in SUBSET (1..MaxPages)
        /\ p + 1 \in 1..(MaxPages + 1) /\ (p + 1) - 1 = p
    <2>1. g = 1..p
      BY <1>1
    <2>2. 1..p \subseteq 1..MaxPages /\ p + 1 \in 1..(MaxPages + 1) /\ (p + 1) - 1 = p
      BY <1>1
    <2> QED BY <2>1, <2>2
  <1>3. fetch' = [fetch EXCEPT !.got = g, !.page = p + 1, !.retries = 0, !.result = result]
    BY DEF Received
  <1> HIDE DEF g
  <1> DEFINE M == {"AMAZON", "ML"}
             P == 1..(MaxPages + 1)
             G == SUBSET (1..MaxPages)
             N == 0..MaxRetries
             q == p + 1
  <1>4. Fetch = FetchOf(M, P, G, N, Codes)
    BY DEF Fetch, FetchOf, Codes
  <1>5. 0 \in N /\ result \in Codes /\ fetch \in Fetch /\ q \in P /\ g \in G
    BY <1>1, <1>2 DEF Codes
  <1>7. fetch' = [fetch EXCEPT !.got = g, !.page = q, !.retries = 0, !.result = result]
    BY <1>3
  <1> HIDE DEF M, P, G, N, q, p
  <1>6. /\ fetch' \in Fetch /\ fetch'.page = q /\ fetch'.got = g
        /\ fetch'.market = fetch.market /\ fetch'.result = result
    <2>1. fetch \in FetchOf(M, P, G, N, Codes)
      BY <1>4, <1>5
    <2>2. /\ fetch' \in FetchOf(M, P, G, N, Codes) /\ fetch'.page = q /\ fetch'.got = g
          /\ fetch'.market = fetch.market /\ fetch'.result = result
      BY <2>1, <1>5, <1>7 DEF FetchOf
    <2> QED BY <1>4, <2>2
  <1> QED BY <1>2, <1>6 DEF p, q, FetchIInv, FetchTypeOK

\* On Amazon a fetch goes on while a token is there, and is whole without one.
LEMMA AmazonPageKeeps ==
    ASSUME FetchIInv, Running, fetch.market = "AMAZON", AmazonPage, pages' = pages
    PROVE  FetchIInv'
  <1> DEFINE end == AmazonEnd
  <1>1. /\ end \in {"running", "whole", "truncated"}
        /\ end = "running" => fetch.page < Len(pages)
        /\ end = "whole" => ~(fetch.page < Len(pages))
    BY DEF AmazonEnd, HasNext
  <1>2. fetch' = [Received EXCEPT !.result = end]
    BY DEF AmazonPage
  <1> HIDE DEF end
  <1>3. /\ FetchTypeOK' /\ fetch'.page = fetch.page + 1 /\ fetch'.got = 1..fetch.page
        /\ fetch'.got = 1..(fetch'.page - 1)
        /\ fetch'.market = fetch.market /\ fetch'.result = end
    BY <1>1, <1>2, PageComesIn
  <1>4. fetch.page \in Nat \ {0} /\ Len(pages) \in Nat /\ DOMAIN pages = 1..Len(pages)
    BY PagesType, FetchAssumption DEF FetchIInv, FetchTypeOK, Fetch
  <1>5. end = "running" => fetch'.page <= Len(pages')
    BY <1>1, <1>3, <1>4
  <1>6. end = "whole" => \A n \in DOMAIN pages' : n \in fetch'.got
    BY <1>1, <1>3, <1>4
  <1> QED BY <1>3, <1>5, <1>6 DEF FetchIInv, WholeIsWhole

\* On Mercado Livre the offset stays below the total while the loop runs; what
\* it leaves out at its end is empty or beyond the cap.
LEMMA MlPageKeeps ==
    ASSUME FetchIInv, Running, fetch.market = "ML", MlPage, pages' = pages
    PROVE  FetchIInv'
  <1> DEFINE p == fetch.page
             end == MlEnd(p)
             len == Len(pages)
  <1>1. end \in {"running", "whole"} /\ fetch' = [Received EXCEPT !.result = end]
    BY DEF MlEnd, MlPage
  <1>2. /\ FetchTypeOK' /\ fetch'.page = p + 1 /\ fetch'.got = 1..p
        /\ fetch'.got = 1..(fetch'.page - 1)
        /\ fetch'.market = "ML" /\ fetch'.result = end
    <2> HIDE DEF end
    <2> QED BY <1>1, PageComesIn
  <1>3. /\ p \in Nat \ {0} /\ len \in Nat \ {0} /\ p <= len /\ PageSize \in Nat \ {0}
        /\ OffsetCap \in Nat /\ DOMAIN pages = 1..len /\ pages \in [1..len -> Nat]
        /\ pages[len] <= PageSize
        /\ \A n \in 1..(len - 1) : pages[n] = PageSize
    BY PagesType, FetchAssumption DEF FetchIInv, FetchTypeOK, Fetch, Running
  <1>4. /\ end = "running" => p * PageSize < Total
        /\ end = "whole" => \/ ~(p * PageSize < Total)
                            \/ ~(p * PageSize < OffsetCap)
                            \/ pages[p] = 0
    BY DEF MlEnd
  <1> HIDE DEF end
  <1>5. Total = (len - 1) * PageSize + pages[len]
    <2> HIDE DEF len
    <2> QED BY <1>3, TotalOfPages DEF Total
  <1> HIDE DEF p, len
  <1> DEFINE offset == p * PageSize
             before == (len - 1) * PageSize
  <1>6. /\ offset \in Nat /\ before \in Nat /\ len * PageSize = before + PageSize
        /\ pages[len] \in 0..PageSize
    <2>1. len - 1 \in Nat /\ (len - 1) + 1 = len
      BY <1>3
    <2> QED BY <1>3, <2>1, Multiples
  <1>7. end = "running" => fetch'.page <= Len(pages')
    <2> SUFFICES ASSUME end = "running", p = len PROVE FALSE
      BY <1>2, <1>3 DEF len, p
    <2> QED BY <1>3, <1>4, <1>5, <1>6
  <1>8. ASSUME end = "whole", NEW n \in 1..len, n \notin 1..p
        PROVE  pages[n] = 0 \/ (n - 1) * PageSize >= OffsetCap
    <2>1. n - 1 \in Nat /\ p <= n - 1 /\ p # len /\ n <= len /\ p \in 1..(len - 1)
      BY <1>3, <1>8
    <2>2. offset <= (n - 1) * PageSize /\ (n - 1) * PageSize \in Nat
      BY <1>3, <2>1, MultiplesGrow, Multiples
    <2>3. pages[p] = PageSize
      BY <1>3, <2>1
    <2>4. CASE ~(offset < Total)
      <3>1. before + pages[len] <= offset
        BY <1>3, <1>5, <1>6, <2>4
      <3>2. CASE n = len
        <4>1. p = len - 1
          <5> SUFFICES ASSUME p + 1 <= len - 1 PROVE FALSE
            BY <1>3, <2>1
          <5>1. (p + 1) * PageSize <= before /\ (p + 1) * PageSize = offset + PageSize
            BY <1>3, <2>1, MultiplesGrow, Multiples
          <5> QED BY <1>3, <1>6, <3>1, <5>1
        <4>2. pages[len] <= 0
          BY <1>3, <1>6, <3>1, <4>1
        <4> QED BY <1>3, <1>6, <3>2, <4>2
      <3>3. CASE n # len
        <4>1. p + 1 <= len - 1 /\ p + 1 \in Nat /\ len - 1 \in Nat
          BY <1>3, <2>1, <3>3
        <4>2. (p + 1) * PageSize <= before /\ (p + 1) * PageSize = offset + PageSize
          BY <1>3, <4>1, MultiplesGrow, Multiples
        <4> QED BY <1>3, <1>6, <3>1, <4>2
      <3> QED BY <3>2, <3>3
    <2>5. CASE ~(offset < OffsetCap)
      BY <1>3, <1>6, <2>2, <2>5
    <2>6. CASE pages[p] = 0
      BY <1>3, <2>3, <2>6
    <2> QED BY <1>4, <1>8, <2>4, <2>5, <2>6
  <1>9. WholeIsWhole'
    BY <1>2, <1>3, <1>8 DEF WholeIsWhole, len
  <1> QED BY <1>2, <1>3, <1>7, <1>9 DEF FetchIInv, len, p

\* What a refused request leaves behind.
LEMMA AmazonRefused ==
    ASSUME FetchIInv, Running, pages' = pages, NEW said,
           AmazonUnauthorized \/ AmazonTransient(said)
    PROVE  FetchIInv'
  <1>1. /\ fetch \in Fetch /\ MaxRetries \in Nat /\ MaxRenewals \in Nat
        /\ fetch.retries \in 0..MaxRetries /\ fetch.renewals \in 0..MaxRenewals
        /\ fetch.result = "running"
    BY FetchAssumption DEF FetchIInv, FetchTypeOK, Fetch, Running
  <1>2. ASSUME NEW code \in Codes \ {"whole"}, Throw(code) PROVE FetchIInv'
    BY <1>2, ThrowStands, StandingStill
  <1>3. CASE AmazonUnauthorized
    <2>1. CASE fetch.renewals >= MaxRenewals
      BY <1>2, <1>3, <2>1 DEF AmazonUnauthorized, Codes
    <2>2. CASE ~(fetch.renewals >= MaxRenewals)
      <3> DEFINE n == fetch.renewals + 1
      <3>1. n \in 0..MaxRenewals
        BY <1>1, <2>2
      <3>2. \/ fetch' = [fetch EXCEPT !.renewals = n]
            \/ fetch' = [fetch EXCEPT !.renewals = n, !.result = "SYNC_FAILED"]
        BY <1>3, <2>2 DEF AmazonUnauthorized
      <3> HIDE DEF n
      <3>3. StandsStill("running") \/ StandsStill("SYNC_FAILED")
        BY <1>1, <3>1, <3>2 DEF StandsStill, Fetch
      <3> QED BY <3>3, StandingStill DEF Codes
    <2> QED BY <2>1, <2>2
  <1>4. CASE AmazonTransient(said)
    <2>1. CASE fetch.retries + 1 > MaxRetries
      BY <1>2, <1>4, <2>1 DEF AmazonTransient, TransientCode, Codes
    <2>2. CASE ~(fetch.retries + 1 > MaxRetries)
      <3> DEFINE n == fetch.retries + 1
      <3>1. n \in 0..MaxRetries
        BY <1>1, <2>2
      <3>2. fetch' = [fetch EXCEPT !.retries = n]
        BY <1>4, <2>2 DEF AmazonTransient
      <3> HIDE DEF n
      <3>3. StandsStill("running")
        BY <1>1, <3>1, <3>2 DEF StandsStill, Fetch
      <3> QED BY <3>3, StandingStill DEF Codes
    <2> QED BY <2>1, <2>2
  <1> QED BY <1>3, <1>4

LEMMA FetchInitially == FetchInit => FetchIInv
  <1> SUFFICES ASSUME FetchInit PROVE FetchIInv
    OBVIOUS
  <1>1. PICK m \in {"AMAZON", "ML"} :
           fetch = [market |-> m, page |-> 1, got |-> {}, retries |-> 0, renewals |-> 0,
                    result |-> "running"]
    BY DEF FetchInit
  <1>2. FetchTypeOK
    <2>1. 1 \in 1..(MaxPages + 1) /\ 0 \in 0..MaxRetries /\ 0 \in 0..MaxRenewals
      BY FetchAssumption
    <2>2. fetch \in Fetch
      BY <1>1, <2>1 DEF Fetch
    <2> QED BY <2>2 DEF FetchInit, FetchTypeOK
  <1>3. 1 <= Len(pages)
    BY <1>2, PagesType
  <1>4. fetch.got = 1..(fetch.page - 1)
    BY <1>1
  <1> QED BY <1>1, <1>2, <1>3, <1>4 DEF FetchInit, FetchIInv, WholeIsWhole

LEMMA FetchKeeps == FetchIInv /\ [FetchNext]_fetchVars => FetchIInv'
  <1> SUFFICES ASSUME FetchIInv, [FetchNext]_fetchVars PROVE FetchIInv'
    OBVIOUS
  <1>1. ASSUME Running, pages' = pages, NEW code \in Codes \ {"whole"}, Throw(code)
        PROVE  FetchIInv'
    BY <1>1, ThrowStands, StandingStill
  <1>2. CASE AskAmazon
    <2>1. /\ fetch.market = "AMAZON" /\ Running /\ pages' = pages
          /\ \E said \in AmazonOutcomes :
               \/ AmazonPage \/ AmazonUnauthorized \/ AmazonTransient(said)
               \/ Throw("PROVIDER_REJECTED_REQUEST") \/ Throw("INVALID_PROVIDER_RESPONSE")
      BY <1>2 DEF AskAmazon
    <2> QED BY <1>1, <2>1, AmazonPageKeeps, AmazonRefused DEF Codes
  <1>3. CASE AskMl
    <2>1. /\ fetch.market = "ML" /\ Running /\ pages' = pages
          /\ \/ MlPage \/ Throw("PROVIDER_RATE_LIMITED")
             \/ Throw("INVALID_PROVIDER_RESPONSE") \/ Throw("PROVIDER_UNAVAILABLE")
      BY <1>3 DEF AskMl
    <2> QED BY <1>1, <2>1, MlPageKeeps DEF Codes
  <1>4. CASE UNCHANGED fetchVars
    BY <1>4 DEF fetchVars, FetchIInv, FetchTypeOK, WholeIsWhole
  <1> QED BY <1>2, <1>3, <1>4 DEF FetchNext

(* A fetch that calls itself whole has every order of the window, whatever *)
(* caps it met, on Mercado Livre below the offset cap, for any number and  *)
(* size of pages (amazon-orders-sync.service.ts:405-412).                  *)
THEOREM FetchTheorem == FetchSpec => []FetchInv
  <1>1. FetchIInv => FetchInv
    BY DEF FetchIInv, FetchInv
  <1> QED BY <1>1, FetchInitially, FetchKeeps, PTL DEF FetchSpec

---------------------------------------------------------------------------
(* Money and the mapping of Amazon orders (OrderMapping), for any amounts  *)
(* of at most two decimals.                                                *)

\* The two digits a text of none, one or two decimals stands for.
LEMMA PaddedIs ==
    ASSUME NEW s \in Seq(Nat), Len(s) <= 2
    PROVE  /\ Padded(s)[1] = IF 1 <= Len(s) THEN s[1] ELSE 0
           /\ Padded(s)[2] = IF 2 <= Len(s) THEN s[2] ELSE 0
  <1> DEFINE z == <<0, 0>>
             t == s \o z
             n == Len(s)
  <1>1. z \in Seq(Nat) /\ Len(z) = 2 /\ z[1] = 0 /\ z[2] = 0
    OBVIOUS
  <1>2. n \in Nat /\ n <= 2
    OBVIOUS
  <1> HIDE DEF z, n
  <1>3. /\ t \in Seq(Nat) /\ Len(t) = n + Len(z)
        /\ \A i \in 1..(n + Len(z)) : t[i] = IF i <= n THEN s[i] ELSE z[i - n]
    BY <1>1, ConcatProperties DEF n
  <1> HIDE DEF t
  <1>4. SubSeq(t, 1, 2)[1] = t[1] /\ SubSeq(t, 1, 2)[2] = t[2]
    BY <1>1, <1>2, <1>3
  <1>5. t[1] = IF 1 <= n THEN s[1] ELSE 0
    BY <1>1, <1>2, <1>3
  <1>6. t[2] = IF 2 <= n THEN s[2] ELSE 0
    <2>1. CASE n = 0
      BY <1>1, <1>3, <2>1
    <2>2. CASE n = 1
      BY <1>1, <1>3, <2>2
    <2>3. CASE n = 2
      BY <1>1, <1>3, <2>3
    <2> QED BY <1>2, <2>1, <2>2, <2>3
  <1> QED BY <1>4, <1>5, <1>6 DEF Padded, t, z, n

\* The cents of an amount, by how it is written.
LEMMA CentsOf ==
    ASSUME NEW a, a.whole \in Nat, a.digits \in Seq(Nat)
    PROVE  /\ Len(a.digits) = 0 => ToCents(a) = a.whole * 100
           /\ Len(a.digits) = 1 =>
                 a.digits[1] \in Nat /\ ToCents(a) = a.whole * 100 + a.digits[1] * 10
           /\ Len(a.digits) = 2 =>
                 /\ a.digits[1] \in Nat /\ a.digits[2] \in Nat
                 /\ ToCents(a) = a.whole * 100 + a.digits[1] * 10 + a.digits[2]
  <1>1. PICK s \in Seq(Nat), w \in Nat : s = a.digits /\ w = a.whole
    OBVIOUS
  <1>2. PICK d : d = Padded(s)
    OBVIOUS
  <1>3. Len(s) <= 2 => /\ d[1] = IF 1 <= Len(s) THEN s[1] ELSE 0
                       /\ d[2] = IF 2 <= Len(s) THEN s[2] ELSE 0
    BY <1>2, PaddedIs
  <1>4. ToCents(a) = w * 100 + d[1] * 10 + d[2]
    BY <1>1, <1>2 DEF ToCents
  <1>5. \A k \in 1..Len(s) : s[k] \in Nat
    BY ElementOfSeq
  <1>6. CASE Len(s) = 0
    <2>1. d[1] = 0 /\ d[2] = 0
      BY <1>3, <1>6
    <2> QED BY <1>1, <1>4, <1>6, <2>1
  <1>7. CASE Len(s) = 1
    <2>1. d[1] = s[1] /\ s[1] \in Nat /\ d[2] = 0
      BY <1>3, <1>5, <1>7
    <2> QED BY <1>1, <1>4, <1>7, <2>1
  <1>8. CASE Len(s) = 2
    <2>1. d[1] = s[1] /\ s[1] \in Nat /\ d[2] = s[2] /\ s[2] \in Nat
      BY <1>3, <1>5, <1>8
    <2> QED BY <1>1, <1>4, <1>8, <2>1
  <1>9. CASE Len(s) \notin {0, 1, 2}
    BY <1>1, <1>9
  <1> QED BY <1>6, <1>7, <1>8, <1>9

\* What has at most k members is a sequence of at most that length.
LEMMA ShortSequence ==
    ASSUME NEW S \in SUBSET Nat, NEW k \in Nat, NEW d \in UNION {[1..n -> S] : n \in 0..k}
    PROVE  d \in Seq(Nat) /\ Len(d) \in 0..k
  <1>1. PICK n \in 0..k : d \in [1..n -> S]
    OBVIOUS
  <1>2. n \in Nat
    OBVIOUS
  <1>3. \A i \in 1..n : d[i] \in Nat
    BY <1>1
  <1>4. d \in [1..n -> Nat]
    BY <1>1, <1>3
  <1>5. d \in Seq(Nat) /\ Len(d) = n
    BY <1>2, <1>4
  <1> QED BY <1>5

\* The digits of an amount are at most two.
LEMMA AmountFields ==
    ASSUME NEW a \in Amounts
    PROVE  /\ a.whole \in Nat /\ a.digits \in Seq(Nat) /\ Len(a.digits) \in 0..2
           /\ a = [whole |-> a.whole, digits |-> a.digits]
  <1>1. /\ a.whole \in Nat /\ a = [whole |-> a.whole, digits |-> a.digits]
        /\ a.digits \in UNION {[1..n -> Digits] : n \in 0..2}
    BY DEF Amounts
  <1>2. Digits \in SUBSET Nat
    BY DEF Digits
  <1>3. a.digits \in Seq(Nat) /\ Len(a.digits) \in 0..2
    BY <1>1, <1>2, ShortSequence
  <1> QED BY <1>1, <1>3

\* Two texts of one amount.
LEMMA SameCents ==
    ASSUME NEW a, a.whole \in Nat, a.digits \in Seq(Nat),
           NEW b, b.whole = a.whole, b.digits \in Seq(Nat), Len(b.digits) = 2,
           \/ Len(a.digits) = 0 /\ b.digits[1] = 0 /\ b.digits[2] = 0
           \/ Len(a.digits) = 1 /\ b.digits[1] = a.digits[1] /\ b.digits[2] = 0
           \/ Len(a.digits) = 2 /\ b.digits = a.digits
    PROVE  ToCents(b) = ToCents(a)
  <1>1. ToCents(b) = a.whole * 100 + b.digits[1] * 10 + b.digits[2]
    BY CentsOf
  <1>2. CASE Len(a.digits) = 0 /\ b.digits[1] = 0 /\ b.digits[2] = 0
    <2>1. ToCents(a) = a.whole * 100
      BY <1>2, CentsOf
    <2> QED BY <1>1, <1>2, <2>1
  <1>3. CASE Len(a.digits) = 1 /\ b.digits[1] = a.digits[1] /\ b.digits[2] = 0
    <2>1. a.digits[1] \in Nat /\ ToCents(a) = a.whole * 100 + a.digits[1] * 10
      BY <1>3, CentsOf
    <2> QED BY <1>1, <1>3, <2>1
  <1>4. CASE Len(a.digits) = 2 /\ b.digits = a.digits
    <2>1. ToCents(a) = a.whole * 100 + a.digits[1] * 10 + a.digits[2]
      BY <1>4, CentsOf
    <2> QED BY <1>1, <1>4, <2>1
  <1> QED BY <1>2, <1>3, <1>4

\* What the column stores is worth what was sent.
LEMMA StoredKeeps == ASSUME NEW a \in Amounts PROVE ReadCents(a) = ToCents(a)
  <1>1. PICK w \in Nat, s \in Seq(Nat) : a = [whole |-> w, digits |-> s] /\ Len(s) \in 0..2
    BY AmountFields
  <1>2. PICK b : b = Stored(a)
    OBVIOUS
  <1>3. PICK t : /\ b = [whole |-> w, digits |-> t]
                 /\ Len(s) = 0 => t = <<0, 0>>
                 /\ Len(s) = 1 => t = <<s[1], 0>>
                 /\ Len(s) = 2 => t = s
    <2> DEFINE u == CASE Len(s) = 0 -> <<0, 0>> [] Len(s) = 1 -> <<s[1], 0>> [] Len(s) = 2 -> s
    <2>1. b = [a EXCEPT !.digits = u]
      BY <1>1, <1>2 DEF Stored
    <2>2. /\ Len(s) = 0 => u = <<0, 0>>
          /\ Len(s) = 1 => u = <<s[1], 0>>
          /\ Len(s) = 2 => u = s
      OBVIOUS
    <2> HIDE DEF u
    <2>3. b = [whole |-> w, digits |-> u]
      BY <1>1, <2>1
    <2> QED BY <2>2, <2>3
  <1>4. /\ t \in Seq(Nat) /\ Len(t) = 2
        /\ \/ Len(s) = 0 /\ t[1] = 0 /\ t[2] = 0
           \/ Len(s) = 1 /\ t[1] = s[1] /\ t[2] = 0
           \/ Len(s) = 2 /\ t = s
    <2>1. CASE Len(s) = 0
      <3>1. t = <<0, 0>>
        BY <1>3, <2>1
      <3> QED BY <2>1, <3>1
    <2>2. CASE Len(s) = 1
      <3>1. s[1] \in Nat
        <4>1. 1 \in 1..Len(s)
          BY <2>2
        <4> QED BY <4>1, ElementOfSeq
      <3>2. t = <<s[1], 0>>
        BY <1>3, <2>2
      <3> QED BY <2>2, <3>1, <3>2
    <2>3. CASE Len(s) = 2
      BY <1>1, <1>3, <2>3
    <2> QED BY <1>1, <2>1, <2>2, <2>3
  <1>5. a.whole = w /\ a.digits = s /\ b.whole = w /\ b.digits = t
    BY <1>1, <1>3
  <1>6. ToCents(b) = ToCents(a)
    BY <1>4, <1>5, SameCents
  <1> QED BY <1>2, <1>6 DEF ReadCents

\* A number of cents and back.
LEMMA CentsAndBack ==
    ASSUME NEW c \in Nat
    PROVE  /\ ToAmount(c) \in Amounts
           /\ ToCents(ToAmount(c)) = c
           /\ ReadCents(ToAmount(c)) = c
  <1> DEFINE w == c \div 100
             d == (c % 100) \div 10
             e == c % 10
             s == <<d, e>>
             a == ToAmount(c)
  <1>1. w \in Nat /\ d \in Digits /\ e \in Digits /\ w * 100 + d * 10 + e = c
    BY DEF Digits
  <1>2. a = [whole |-> w, digits |-> s]
    BY DEF ToAmount
  <1> HIDE DEF w, d, e, a
  <1>3. /\ s \in [1..2 -> Digits] /\ 2 \in 0..2 /\ s \in Seq(Nat) /\ Len(s) = 2
        /\ s[1] = d /\ s[2] = e
    BY <1>1 DEF Digits
  <1> HIDE DEF s
  <1>4. s \in UNION {[1..n -> Digits] : n \in 0..2}
    BY <1>3
  <1>5. a \in Amounts
    BY <1>1, <1>2, <1>4 DEF Amounts
  <1>6. ToCents(a) = w * 100 + s[1] * 10 + s[2]
    <2>1. a.whole = w /\ a.digits = s
      BY <1>2
    <2> QED BY <1>1, <1>3, <2>1, CentsOf
  <1>7. ToCents(a) = c
    BY <1>1, <1>3, <1>6
  <1> QED BY <1>5, <1>7, StoredKeeps DEF a

\* Numbers divided as the code divides them.
LEMMA Quotients ==
    ASSUME NEW x \in Nat, NEW m \in Nat \ {0}
    PROVE  /\ x \div m \in Nat /\ x % m \in 0..(m - 1)
           /\ m * (x \div m) + (x % m) = x
  OBVIOUS

LEMMA AverageIsNear ==
    ASSUME NEW c \in Nat, NEW n \in Nat \ {0}
    PROVE  /\ 2 * AverageCents(c, n) * n <= 2 * c + n
           /\ 2 * c <= 2 * AverageCents(c, n) * n + n
  <1> DEFINE x == 2 * c + n
             m == 2 * n
             q == x \div m
             r == x % m
  <1>1. x \in Nat /\ m \in Nat \ {0}
    OBVIOUS
  <1> HIDE DEF x, m
  <1>2. q \in Nat /\ r \in 0..(m - 1) /\ m * q + r = x
    BY <1>1, Quotients
  <1>3. AverageCents(c, n) = q
    BY DEF AverageCents, x, m
  <1> HIDE DEF q, r
  <1>4. 2 * q * n = m * q
    BY <1>2 DEF m
  <1> DEFINE p == m * q
  <1>5. p \in Nat /\ p + r = x
    BY <1>1, <1>2
  <1> HIDE DEF p
  <1>6. 2 * q * n = p
    BY <1>4 DEF p
  <1>7. p <= 2 * c + n /\ 2 * c <= p + n
    BY <1>2, <1>5 DEF x, m
  <1> QED BY <1>3, <1>6, <1>7

\* The amounts of an order, zero included, have at most two digits.
LEMMA MoneyType ==
    ASSUME NEW money \in Monies
    PROVE  money.amount \in Amounts
  <1>1. Zero \in Amounts
    <2>1. <<0, 0>> \in [1..2 -> Digits] /\ 2 \in 0..2
      BY DEF Digits
    <2>2. <<0, 0>> \in UNION {[1..n -> Digits] : n \in 0..2}
      BY <2>1
    <2> QED BY <2>2 DEF Zero, Amounts
  <1>2. CASE money = NoMoney
    BY <1>1, <1>2 DEF NoMoney
  <1>3. CASE money \in [amount : OrderAmounts, currency : OrderCurrencies]
    BY <1>3, MappingAssumption
  <1> QED BY <1>2, <1>3 DEF Monies

\* The amounts of Amazon come back as they went, and an average is near.
LEMMA MoneyIsAlwaysExact == MoneyIsExact
  <1>1. ASSUME NEW c \in 0..MaxCents
        PROVE  /\ ToCents(ToAmount(c)) = c
               /\ c % 10 = 0 => ToCents([ToAmount(c) EXCEPT !.digits = <<@[1]>>]) = c
               /\ c % 100 = 0 => ToCents([ToAmount(c) EXCEPT !.digits = <<>>]) = c
    <2>0. c \in Nat
      BY MappingAssumption
    <2> DEFINE w == c \div 100
               d == (c % 100) \div 10
               e == c % 10
    <2>1. /\ w \in Nat /\ d \in Nat /\ w * 100 + d * 10 + e = c
          /\ e = 0 => w * 100 + d * 10 = c
          /\ c % 100 = 0 => w * 100 = c
      BY <2>0
    <2>2. ToAmount(c) = [whole |-> w, digits |-> <<d, e>>]
      BY DEF ToAmount
    <2>3. c % 10 = e
      OBVIOUS
    <2> HIDE DEF w, d, e
    <2>4. ASSUME e = 0 PROVE ToCents([ToAmount(c) EXCEPT !.digits = <<@[1]>>]) = c
      <3>1. PICK a : a = [ToAmount(c) EXCEPT !.digits = <<@[1]>>]
        OBVIOUS
      <3>2. a = [whole |-> w, digits |-> <<d>>]
        BY <2>2, <3>1
      <3>3. a.whole = w /\ a.digits \in Seq(Nat) /\ Len(a.digits) = 1 /\ a.digits[1] = d
        BY <2>1, <3>2
      <3>4. ToCents(a) = w * 100 + d * 10
        BY <2>1, <3>3, CentsOf
      <3> QED BY <2>1, <2>4, <3>1, <3>4
    <2>5. ASSUME c % 100 = 0 PROVE ToCents([ToAmount(c) EXCEPT !.digits = <<>>]) = c
      <3>1. PICK a : a = [ToAmount(c) EXCEPT !.digits = <<>>]
        OBVIOUS
      <3>2. a.whole = w /\ a.digits = <<>>
        BY <2>2, <3>1
      <3>3. a.digits \in Seq(Nat) /\ Len(a.digits) = 0
        BY <3>2
      <3>4. ToCents(a) = w * 100
        BY <2>1, <3>2, <3>3, CentsOf
      <3> QED BY <2>1, <2>5, <3>1, <3>4
    <2> QED BY <2>0, <2>3, <2>4, <2>5, CentsAndBack
  <1>2. ASSUME NEW whole \in 0..1,
               NEW digits \in {<<>>} \cup {<<d>> : d \in Digits} \cup (Digits \X Digits)
        PROVE  [whole |-> whole, digits |-> digits] \in Amounts
    <2>1. digits \in UNION {[1..n -> Digits] : n \in 0..2}
      <3>1. CASE digits = <<>>
        <4>1. digits \in [1..0 -> Digits] /\ 0 \in 0..2
          BY <3>1
        <4> QED BY <4>1
      <3>2. ASSUME NEW d \in Digits, digits = <<d>> PROVE digits \in [1..1 -> Digits]
        BY <3>2
      <3>3. ASSUME NEW d \in Digits, NEW e \in Digits, digits = <<d, e>>
            PROVE  digits \in [1..2 -> Digits]
        BY <3>3
      <3>4. 1 \in 0..2 /\ 2 \in 0..2
        OBVIOUS
      <3>5. \/ digits = <<>> \/ \E d \in Digits : digits = <<d>>
            \/ \E d, e \in Digits : digits = <<d, e>>
        BY <1>2
      <3> QED BY <3>1, <3>2, <3>3, <3>4, <3>5
    <2>2. whole \in Nat
      OBVIOUS
    <2> QED BY <2>1, <2>2 DEF Amounts
  <1>3. ASSUME NEW c \in 0..MaxCents, NEW n \in 1..7
        PROVE  LET twice == 2 * AverageCents(c, n) * n
               IN  twice <= 2 * c + n /\ 2 * c <= twice + n
    <2>1. c \in Nat /\ n \in Nat \ {0}
      BY MappingAssumption
    <2> QED BY <2>1, AverageIsNear
  <1> QED BY <1>1, <1>2, <1>3, StoredKeeps DEF MoneyIsExact

\* What an order can be mapped to.
MappedFromRaw == raw \in RawOrders /\ mapped \in {NotMapped("none"), Outcome(raw)}

\* An order that is mapped as paid passed every check of its items.
LEMMA PaidIsMapped ==
    ASSUME NEW order \in RawOrders, Outcome(order).status = "paid"
    PROVE  /\ Outcome(order) = MappedOrder(order) /\ Paid(order)
           /\ order.grandTotal # NoMoney
           /\ \A i \in DOMAIN order.items : ItemVerdict(order, order.items[i]) = "ok"
  <1>1. \A v : NotMapped(v).status = "none"
    BY DEF NotMapped
  <1> DEFINE bad == {i \in DOMAIN order.items : ItemVerdict(order, order.items[i]) # "ok"}
             v == ItemVerdict(order, order.items[Min(bad)])
  <1>2. Outcome(order) =
           CASE ~order.allowed -> NotMapped("MARKETPLACE_NOT_ALLOWED")
             [] order.allowed /\ Paid(order) /\ order.grandTotal = NoMoney ->
                    NotMapped("MISSING_GRAND_TOTAL")
             [] order.allowed /\ ~Paid(order) /\ OrderCurrency(order) = "none" ->
                    NotMapped("MISSING_CURRENCY")
             [] OTHER -> IF bad = {} THEN MappedOrder(order) ELSE NotMapped(v)
    BY DEF Outcome
  <1> HIDE DEF bad, v
  <1>3. /\ Outcome(order) = MappedOrder(order) /\ bad = {}
        /\ order.allowed /\ ~(Paid(order) /\ order.grandTotal = NoMoney)
    BY <1>1, <1>2
  <1>4. Paid(order)
    BY <1>3 DEF MappedOrder, Paid
  <1> QED BY <1>3, <1>4 DEF bad

LEMMA RawOrderIs ==
    ASSUME NEW order \in RawOrders
    PROVE  /\ order.grandTotal \in Monies
           /\ \A i \in DOMAIN order.items : order.items[i] \in RawItems
           /\ \E n \in 0..MaxItems : order.items \in [1..n -> RawItems]
  BY DEF RawOrders

\* The unit price of a paid item times its quantity is its subtotal.
LEMMA ItemIsExact ==
    ASSUME NEW order \in RawOrders, Paid(order), NEW item \in RawItems,
           ItemVerdict(order, item) = "ok"
    PROVE  LET m == MappedItem(order, item) IN
           /\ m.quantity * ReadCents(m.unitPrice) = ToCents(item.subtotal.amount)
           /\ m.currency = OrderCurrency(order) /\ item.subtotal.currency = OrderCurrency(order)
  <1> DEFINE c == ToCents(item.subtotal.amount)
             q == item.quantity
             m == MappedItem(order, item)
             u == c \div q
  <1>1. /\ item.subtotal # NoMoney /\ item.subtotal.currency = OrderCurrency(order)
        /\ Divisible(item)
    BY DEF ItemVerdict
  <1>2. item.subtotal.amount \in Amounts /\ q \in Nat \ {0}
    BY MoneyType, MappingAssumption DEF RawItems
  <1>3. c \in Nat
    <2>1. PICK a : a = item.subtotal.amount
      OBVIOUS
    <2>2. /\ a.whole \in Nat /\ a.digits \in Seq(Nat)
          /\ Len(a.digits) = 0 \/ Len(a.digits) = 1 \/ Len(a.digits) = 2
      BY <1>2, <2>1, AmountFields
    <2>3. ToCents(a) \in Nat
      <3>1. CASE Len(a.digits) = 0
        BY <2>2, <3>1, CentsOf
      <3>2. CASE Len(a.digits) = 1
        <4>1. a.digits[1] \in Nat /\ ToCents(a) = a.whole * 100 + a.digits[1] * 10
          BY <2>2, <3>2, CentsOf
        <4> QED BY <2>2, <4>1
      <3>3. CASE Len(a.digits) = 2
        <4>1. /\ a.digits[1] \in Nat /\ a.digits[2] \in Nat
              /\ ToCents(a) = a.whole * 100 + a.digits[1] * 10 + a.digits[2]
          BY <2>2, <3>3, CentsOf
        <4>2. \A w, d, e \in Nat : w * 100 + d * 10 + e \in Nat
          OBVIOUS
        <4>3. a.whole * 100 + a.digits[1] * 10 + a.digits[2] \in Nat
          BY <2>2, <4>1, <4>2
        <4> QED BY <4>1, <4>3
      <3> QED BY <2>2, <3>1, <3>2, <3>3
    <2> QED BY <2>1, <2>3
  <1>4. c % q = 0
    BY <1>1 DEF Divisible
  <1>5. m.unitPrice = ToAmount(u) /\ m.quantity = q /\ m.currency = OrderCurrency(order)
    BY DEF MappedItem
  <1> HIDE DEF c, q, m
  <1>6. u \in Nat /\ q * u = c
    <2>1. q * u + (c % q) = c /\ u \in Nat /\ q * u \in Nat
      BY <1>2, <1>3, Quotients
    <2> QED BY <1>3, <1>4, <2>1
  <1> HIDE DEF u
  <1>7. ReadCents(ToAmount(u)) = u
    BY <1>6, CentsAndBack
  <1> QED BY <1>1, <1>5, <1>6, <1>7 DEF m, c

\* The revenue of a paid order is what Amazon reported.
LEMMA RevenueIs == MappedFromRaw => RevenueIsProceeds
  <1> SUFFICES ASSUME MappedFromRaw, mapped.status = "paid"
               PROVE  /\ ReadCents(mapped.total) = ToCents(raw.grandTotal.amount)
                      /\ \A i \in DOMAIN raw.items :
                             LET item == mapped.items[i] IN
                             /\ item.quantity * ReadCents(item.unitPrice)
                                   = ToCents(raw.items[i].subtotal.amount)
                             /\ {item.currency, mapped.currency} = {raw.items[i].subtotal.currency}
    BY DEF RevenueIsProceeds
  <1>1. raw \in RawOrders /\ mapped = Outcome(raw)
    BY DEF MappedFromRaw, NotMapped
  <1>2. /\ mapped = MappedOrder(raw) /\ Paid(raw)
        /\ \A i \in DOMAIN raw.items : ItemVerdict(raw, raw.items[i]) = "ok"
    BY <1>1, PaidIsMapped
  <1>3. /\ mapped.total = raw.grandTotal.amount /\ mapped.currency = OrderCurrency(raw)
        /\ \A i \in DOMAIN raw.items : mapped.items[i] = MappedItem(raw, raw.items[i])
    BY <1>2 DEF MappedOrder
  <1>4. ReadCents(mapped.total) = ToCents(raw.grandTotal.amount)
    BY <1>1, <1>3, RawOrderIs, MoneyType, StoredKeeps
  <1>5. ASSUME NEW i \in DOMAIN raw.items
        PROVE  /\ mapped.items[i].quantity * ReadCents(mapped.items[i].unitPrice)
                     = ToCents(raw.items[i].subtotal.amount)
               /\ mapped.items[i].currency = OrderCurrency(raw)
               /\ raw.items[i].subtotal.currency = OrderCurrency(raw)
    BY <1>1, <1>2, <1>3, RawOrderIs, ItemIsExact
  <1> QED BY <1>3, <1>4, <1>5

LEMMA MappingTyped == MappedFromRaw => MappingTypeOK
  <1> SUFFICES ASSUME MappedFromRaw PROVE MappingTypeOK
    OBVIOUS
  <1>1. \A v : NotMapped(v).status = "none" /\ NotMapped(v).items = <<>>
    BY DEF NotMapped
  <1>2. MaxItems \in Nat
    BY MappingAssumption
  <1>3. CASE \E v : mapped = NotMapped(v)
    BY <1>1, <1>2, <1>3 DEF MappingTypeOK
  <1>4. CASE mapped = MappedOrder(raw)
    <2>1. mapped.status = Canonical(raw.status)
      BY <1>4 DEF MappedOrder
    <2>2. mapped.items = [i \in DOMAIN raw.items |-> MappedItem(raw, raw.items[i])]
      BY <1>4 DEF MappedOrder
    <2>3. PICK n \in 0..MaxItems : DOMAIN raw.items = 1..n
      BY RawOrderIs DEF MappedFromRaw
    <2> DEFINE F(i) == MappedItem(raw, raw.items[i])
    <2>4. mapped.items = [i \in 1..n |-> F(i)]
      BY <2>2, <2>3
    <2> HIDE DEF F
    <2>5. Len(mapped.items) = n
      BY <1>2, <2>4
    <2>6. Canonical(raw.status) \in {"paid", "cancelled", "pending", "unfulfillable"}
      BY DEF Canonical
    <2> QED BY <1>2, <2>1, <2>5, <2>6 DEF MappingTypeOK
  <1>5. (\E v : mapped = NotMapped(v)) \/ mapped = MappedOrder(raw)
    BY DEF MappedFromRaw, Outcome
  <1> QED BY <1>3, <1>4, <1>5

LEMMA MappingKeeps == MappedFromRaw /\ [MapOrder]_mappingVars => MappedFromRaw'
  BY DEF MappedFromRaw, MapOrder, mappingVars, Outcome, NotMapped, MappedOrder

\* The outcome is always an order that is mapped or one that is not.
LEMMA MappingInitially == MappingInit => MappedFromRaw
  BY DEF MappingInit, MappedFromRaw

(* The revenue of a paid order of Amazon is to the cent the proceeds       *)
(* Amazon reported, whatever its amounts, quantities and items             *)
(* (amazon-order.mapper.ts:142-192).                                       *)
THEOREM RevenueTheorem == MappingSpec => []RevenueIsProceeds
  BY MappingInitially, MappingKeeps, RevenueIs, PTL DEF MappingSpec

(* Orders are typed, and money is exact through every conversion.          *)
THEOREM MappingTheorem == MappingSpec => []MappingInv
  <1>1. MappedFromRaw => MappingInv
    BY MappingTyped, MoneyIsAlwaysExact DEF MappingInv
  <1> QED BY <1>1, MappingInitially, MappingKeeps, PTL DEF MappingSpec

-----------------------------------------------------------------------------
(* The panels of the page of synchronisations                              *)

Clicks ==
    [kind : {"none", "start", "pause", "resume"}, answer : JobViews \cup {Unread}, all : BOOLEAN]
Readings == SUBSET (JobViews \cup {Unread})

PanelIInv ==
    /\ job \in [PanelAccounts -> JobViews]
    /\ shown \in [PanelAccounts -> JobViews \cup {Unloaded}]
    /\ reads \in [PanelAccounts -> Readings]
    /\ action \in [PanelAccounts -> Clicks]
    /\ loadErrors \in [PanelAccounts -> BOOLEAN]
    /\ outdated \in [PanelAccounts -> BOOLEAN]
    /\ clicks \in 0..MaxClicks /\ chunks \in 0..MaxChunks /\ pageFaults \in 0..MaxPageFaults

\* What the backend makes of a click, and the worker of a job, is a job.
LEMMA JobsStayJobs ==
    ASSUME NEW view \in JobViews
    PROVE  /\ \A kind : After(view, kind) \in JobViews
           /\ \A s \in JobStatuses : [view EXCEPT !.status = s] \in JobViews
           /\ \A s \in JobStatuses : [status |-> s, pauseRequested |-> FALSE] \in JobViews
  <1>1. \A s \in JobStatuses : [view EXCEPT !.status = s] \in JobViews
    BY DEF JobViews
  <1>2. \A s \in JobStatuses : [status |-> s, pauseRequested |-> FALSE] \in JobViews
    BY DEF JobViews
  <1>3. [view EXCEPT !.pauseRequested = TRUE] \in JobViews
    BY DEF JobViews
  <1>4. "QUEUED" \in JobStatuses /\ "PAUSED" \in JobStatuses
    BY DEF JobStatuses
  <1>5. \A kind : After(view, kind) \in
            {view, [status |-> "QUEUED", pauseRequested |-> FALSE],
             [status |-> "PAUSED", pauseRequested |-> FALSE],
             [view EXCEPT !.pauseRequested = TRUE]}
    <2> SUFFICES ASSUME NEW kind
                 PROVE  After(view, kind) \in
                            {view, [status |-> "QUEUED", pauseRequested |-> FALSE],
                             [status |-> "PAUSED", pauseRequested |-> FALSE],
                             [view EXCEPT !.pauseRequested = TRUE]}
      OBVIOUS
    <2>1. CASE kind = "start"  BY <2>1 DEF After
    <2>2. CASE kind = "pause"
      <3>1. CASE view.status \in {"QUEUED", "RETRY_WAIT"}  BY <2>2, <3>1 DEF After
      <3>2. CASE view.status = "RUNNING"  BY <2>2, <3>2 DEF After
      <3>3. CASE view.status \notin {"QUEUED", "RETRY_WAIT", "RUNNING"}
        BY <2>2, <3>3 DEF After
      <3> QED BY <3>1, <3>2, <3>3
    <2>3. CASE kind = "resume"  BY <2>3 DEF After
    <2>4. CASE kind \notin {"start", "pause", "resume"}  BY <2>4 DEF After
    <2> QED BY <2>1, <2>2, <2>3, <2>4
  <1> QED BY <1>1, <1>2, <1>3, <1>4, <1>5

LEMMA PanelsInitially == SyncPageInit => PanelIInv
  <1> SUFFICES ASSUME SyncPageInit PROVE PanelIInv
    OBVIOUS
  <1>1. NoJob \in JobViews /\ [status |-> "QUEUED", pauseRequested |-> FALSE] \in JobViews
    BY DEF NoJob, JobViews, JobStatuses
  <1>2. job \in [PanelAccounts -> JobViews]
    BY <1>1 DEF SyncPageInit
  <1>3. NoClick \in Clicks
    BY DEF NoClick, Clicks
  <1>4. reads \in [PanelAccounts -> Readings] /\ action \in [PanelAccounts -> Clicks]
    BY <1>3 DEF SyncPageInit, Readings
  <1>5. /\ shown \in [PanelAccounts -> JobViews \cup {Unloaded}]
        /\ loadErrors \in [PanelAccounts -> BOOLEAN]
        /\ outdated \in [PanelAccounts -> BOOLEAN]
        /\ clicks \in 0..MaxClicks /\ chunks \in 0..MaxChunks /\ pageFaults \in 0..MaxPageFaults
    BY SyncPageAssumption DEF SyncPageInit
  <1> QED BY <1>2, <1>4, <1>5 DEF PanelIInv

LEMMA PanelsTyped == PanelIInv => SyncPageTypeOK
  <1>1. ASSUME action \in [PanelAccounts -> Clicks], NEW a \in PanelAccounts
        PROVE  /\ action[a].kind \in {"none", "start", "pause", "resume"}
               /\ action[a].answer \in JobViews \cup {Unread}
               /\ action[a].all \in BOOLEAN
    BY <1>1 DEF Clicks
  <1>2. ASSUME reads \in [PanelAccounts -> Readings], NEW a \in PanelAccounts
        PROVE  reads[a] \subseteq JobViews \cup {Unread}
    BY <1>2 DEF Readings
  <1> QED BY <1>1, <1>2 DEF PanelIInv, SyncPageTypeOK

\* A fault or a click that is still within its bound.
LEMMA OneMoreFault ==
    ASSUME PanelIInv, PageFault
    PROVE  pageFaults' \in 0..MaxPageFaults
  BY SyncPageAssumption DEF PanelIInv, PageFault

LEMMA ReadingsMove ==
    ASSUME NEW S \in Readings, NEW view \in JobViews
    PROVE  /\ S \cup {Unread} \in Readings
           /\ (S \ {Unread}) \cup {view} \in Readings
           /\ \A v : S \ {v} \in Readings
  BY DEF Readings

LEMMA ClicksAre ==
    /\ NoClick \in Clicks
    /\ \A kind \in {"start", "pause", "resume"}, all \in BOOLEAN :
          [kind |-> kind, answer |-> Unread, all |-> all] \in Clicks
    /\ \A c \in Clicks, view \in JobViews : [c EXCEPT !.answer = view] \in Clicks
    /\ \A c \in Clicks : c.answer \in JobViews \cup {Unread}
  BY DEF Clicks, NoClick

LEMMA PollingKeeps ==
    ASSUME PanelIInv,
           \/ PollFires
           \/ \E a \in PanelAccounts :
                \/ StatusIsRead(a) \/ StatusFails(a)
                \/ \E view \in reads[a] : StatusArrives(a, view)
    PROVE  PanelIInv'
  <1>1. CASE PollFires
    <2>1. reads' \in [PanelAccounts -> Readings]
      <3>1. \A a \in PanelAccounts : reads[a] \cup {Unread} \in Readings /\ reads[a] \in Readings
        BY DEF PanelIInv, Readings
      <3> QED BY <1>1, <3>1 DEF PollFires
    <2> QED BY <1>1, <2>1 DEF PanelIInv, PollFires
  <1>2. ASSUME NEW a \in PanelAccounts, StatusIsRead(a)
        PROVE  PanelIInv'
    <2>1. (reads[a] \ {Unread}) \cup {job[a]} \in Readings
      BY ReadingsMove DEF PanelIInv
    <2>2. reads' = [reads EXCEPT ![a] = (reads[a] \ {Unread}) \cup {job[a]}]
      BY <1>2 DEF StatusIsRead
    <2>3. reads' \in [PanelAccounts -> Readings]
      BY <2>1, <2>2 DEF PanelIInv
    <2> QED BY <1>2, <2>3 DEF PanelIInv, StatusIsRead
  <1>3. ASSUME NEW a \in PanelAccounts, StatusFails(a)
        PROVE  PanelIInv'
    <2>1. PICK view \in reads[a] : reads' = [reads EXCEPT ![a] = @ \ {view}]
      BY <1>3 DEF StatusFails
    <2>2. reads[a] \ {view} \in Readings
      BY DEF PanelIInv, Readings
    <2>3. reads' \in [PanelAccounts -> Readings]
      BY <2>1, <2>2 DEF PanelIInv
    <2>4. pageFaults' \in 0..MaxPageFaults
      BY <1>3, OneMoreFault DEF StatusFails
    <2>5. loadErrors' \in [PanelAccounts -> BOOLEAN]
      BY <1>3 DEF PanelIInv, StatusFails
    <2> QED BY <1>3, <2>3, <2>4, <2>5 DEF PanelIInv, StatusFails
  <1>4. ASSUME NEW a \in PanelAccounts, NEW view \in reads[a], StatusArrives(a, view)
        PROVE  PanelIInv'
    <2>1. reads[a] \ {view} \in Readings
      BY DEF PanelIInv, Readings
    <2>2. reads' \in [PanelAccounts -> Readings]
      BY <1>4, <2>1 DEF PanelIInv, StatusArrives
    <2>3. view \in JobViews
      BY <1>4 DEF PanelIInv, StatusArrives, Readings
    <2>4. shown' \in [PanelAccounts -> JobViews \cup {Unloaded}]
      BY <1>4, <2>3 DEF PanelIInv, StatusArrives
    <2>5. (view # job[a] /\ ~ShownActive(view)) \in BOOLEAN
      OBVIOUS
    <2>6. outdated' \in [PanelAccounts -> BOOLEAN]
      BY <1>4, <2>5 DEF PanelIInv, StatusArrives
    <2>7. loadErrors' \in [PanelAccounts -> BOOLEAN]
      BY <1>4 DEF PanelIInv, StatusArrives
    <2> QED BY <1>4, <2>2, <2>4, <2>6, <2>7 DEF PanelIInv, StatusArrives
  <1> QED BY <1>1, <1>2, <1>3, <1>4

LEMMA ClickKeeps ==
    ASSUME PanelIInv, NEW a \in PanelAccounts,
           \/ \E kind \in {"start", "pause", "resume"} : ClickPanel(a, kind)
           \/ BackendServes(a) \/ ActionArrives(a) \/ ActionFails(a)
    PROVE  PanelIInv'
  <1>1. ASSUME NEW kind \in {"start", "pause", "resume"}, ClickPanel(a, kind)
        PROVE  PanelIInv'
    <2>1. action' \in [PanelAccounts -> Clicks]
      BY <1>1, ClicksAre DEF PanelIInv, ClickPanel, Clicked
    <2>2. clicks' \in 0..MaxClicks
      BY <1>1, SyncPageAssumption DEF PanelIInv, ClickPanel
    <2> QED BY <1>1, <2>1, <2>2 DEF PanelIInv, ClickPanel
  <1>2. CASE BackendServes(a)
    <2>1. After(job[a], action[a].kind) \in JobViews
      BY JobsStayJobs DEF PanelIInv
    <2>2. job' \in [PanelAccounts -> JobViews]
      BY <1>2, <2>1 DEF PanelIInv, BackendServes
    <2>3. [action[a] EXCEPT !.answer = job'[a]] \in Clicks
      BY <2>2, ClicksAre DEF PanelIInv
    <2>4. action' = [action EXCEPT ![a] = [action[a] EXCEPT !.answer = job'[a]]]
      BY <1>2 DEF BackendServes
    <2>5. action' \in [PanelAccounts -> Clicks]
      BY <2>3, <2>4 DEF PanelIInv
    <2> QED BY <1>2, <2>2, <2>5 DEF PanelIInv, BackendServes
  <1>3. CASE ActionArrives(a)
    <2>1. action[a].answer \in JobViews
      BY <1>3, ClicksAre DEF PanelIInv, ActionArrives
    <2>2. shown' \in [PanelAccounts -> JobViews \cup {Unloaded}]
      BY <1>3, <2>1 DEF PanelIInv, ActionArrives
    <2>3. action' \in [PanelAccounts -> Clicks]
      BY <1>3, ClicksAre DEF PanelIInv, ActionArrives
    <2>4. (action[a].answer # job[a] /\ ~ShownActive(action[a].answer)) \in BOOLEAN
      OBVIOUS
    <2>5. outdated' \in [PanelAccounts -> BOOLEAN]
      BY <1>3, <2>4 DEF PanelIInv, ActionArrives
    <2>6. loadErrors' \in [PanelAccounts -> BOOLEAN]
      BY <1>3 DEF PanelIInv, ActionArrives
    <2> QED BY <1>3, <2>2, <2>3, <2>5, <2>6 DEF PanelIInv, ActionArrives
  <1>4. CASE ActionFails(a)
    <2>1. action' \in [PanelAccounts -> Clicks]
      BY <1>4, ClicksAre DEF PanelIInv, ActionFails
    <2>2. (outdated[a] \/ (shown[a] # job[a] /\ ~ShownActive(shown[a]))) \in BOOLEAN
      OBVIOUS
    <2>3. outdated' = [outdated EXCEPT ![a] =
              outdated[a] \/ (shown[a] # job[a] /\ ~ShownActive(shown[a]))]
      BY <1>4 DEF ActionFails
    <2>4. outdated' \in [PanelAccounts -> BOOLEAN]
      BY <2>2, <2>3 DEF PanelIInv
    <2>5. pageFaults' \in 0..MaxPageFaults
      BY <1>4, OneMoreFault DEF ActionFails
    <2> QED BY <1>4, <2>1, <2>4, <2>5 DEF PanelIInv, ActionFails
  <1> QED BY <1>1, <1>2, <1>3, <1>4

\* "Completar histórico de todas as lojas" begins a click of every idle account.
LEMMA CompleteAllKeeps ==
    ASSUME PanelIInv, CompleteAllHistory
    PROVE  PanelIInv'
  <1>1. \A a \in PanelAccounts : Clicked(a, "start", TRUE) \in Clicks
    BY ClicksAre DEF PanelIInv, Clicked
  <1>2. action' \in [PanelAccounts -> Clicks]
    BY <1>1 DEF CompleteAllHistory
  <1>3. clicks' \in 0..MaxClicks
    BY SyncPageAssumption DEF PanelIInv, CompleteAllHistory
  <1> QED BY <1>2, <1>3 DEF PanelIInv, CompleteAllHistory

LEMMA WorkKeeps ==
    ASSUME PanelIInv, NEW a \in PanelAccounts, WorkerWorks(a)
    PROVE  PanelIInv'
  <1>0. job[a] \in JobViews
    BY DEF PanelIInv
  <1>1. PICK view : job' = [job EXCEPT ![a] = view] /\ view \in JobViews
    <2>1. CASE WorkerTakes(a)
      <3>1. "RUNNING" \in JobStatuses  BY DEF JobStatuses
      <3>2. [job[a] EXCEPT !.status = "RUNNING"] \in JobViews  BY <1>0, <3>1, JobsStayJobs
      <3> QED BY <2>1, <3>2 DEF WorkerTakes
    <2>2. CASE WorkerReturns(a)
      <3>1. ASSUME NEW s \in {"PAUSED", "FAILED", "SAFETY_LIMIT_REACHED"}
            PROVE  [status |-> s, pauseRequested |-> FALSE] \in JobViews
        BY <1>0, JobsStayJobs DEF JobStatuses
      <3>2. ASSUME NEW s \in {"QUEUED", "RETRY_WAIT"}
            PROVE  [job[a] EXCEPT !.status = s] \in JobViews
        <4>1. s \in JobStatuses  BY DEF JobStatuses
        <4> QED BY <4>1, <1>0, JobsStayJobs
      <3> QED BY <2>2, <3>1, <3>2 DEF WorkerReturns
    <2> QED BY <2>1, <2>2 DEF WorkerWorks
  <1>2. job' \in [PanelAccounts -> JobViews]
    BY <1>1 DEF PanelIInv
  <1>3. chunks' \in 0..MaxChunks
    BY SyncPageAssumption DEF PanelIInv, WorkerWorks, WorkerTakes, WorkerReturns
  <1>4. UNCHANGED <<shown, loadErrors, reads, action, outdated, clicks, pageFaults>>
    BY DEF WorkerWorks, WorkerTakes, WorkerReturns
  <1> QED BY <1>2, <1>3, <1>4 DEF PanelIInv

LEMMA PanelsKeep == PanelIInv /\ [SyncPageNext]_syncPageVars => PanelIInv'
  <1> SUFFICES ASSUME PanelIInv, [SyncPageNext]_syncPageVars PROVE PanelIInv'
    OBVIOUS
  <1>1. CASE UNCHANGED syncPageVars
    BY <1>1 DEF PanelIInv, syncPageVars
  <1>2. CASE SyncPageNext
    BY <1>2, PollingKeeps, ClickKeeps, CompleteAllKeeps, WorkKeeps DEF SyncPageNext, PanelStep
  <1> QED BY <1>1, <1>2

-----------------------------------------------------------------------------
(* "Sincronizar todas as lojas"                                            *)

Outcomes == {"PENDING", "SKIPPED", "SUCCESS", "FAILED"}

\* The row being synchronised is one that waits, and only connected rows wait.
RowsIInv ==
    /\ outcome \in [PageAccounts -> Outcomes]
    /\ running \in Pending \cup {NoRow}
    /\ Pending \subseteq Connected

\* The first of the rows that wait is one of them, whatever their number.
LEMMA FirstOfIsMember ==
    ASSUME NEW S, S \subseteq Nat, S # {}
    PROVE  FirstOf(S) \in S
  <1>1. PICK n \in S : TRUE
    OBVIOUS
  <1> DEFINE T == {m \in S : m <= n}
  <1>2. IsFiniteSet(T) /\ T # {} /\ T \subseteq Int
    <2>1. n \in Nat /\ \A m \in S : m \in Nat
      BY <1>1
    <2>3. \A m \in T : m \in 0..n
      BY <2>1
    <2>4. T \subseteq 0..n
      <3> HIDE DEF T
      <3> QED BY <2>3
    <2>5. n \in T
      BY <1>1, <2>1
    <2>2. IsFiniteSet(0..n)
      BY <2>1, FS_Interval
    <2> QED BY <2>1, <2>2, <2>4, <2>5, FS_Subset
  <1>3. PICK r \in T : \A q \in T : r <= q
    <2> HIDE DEF T
    <2> QED BY <1>2, Least
  <1>4. \A q \in S : r <= q
    BY <1>1, <1>3
  <1>5. \E x \in S : \A q \in S : x <= q
    BY <1>3, <1>4
  <1> QED BY <1>5 DEF FirstOf

LEMMA RowsInitially == SyncBatchInit => RowsIInv
  BY SyncBatchAssumption DEF SyncBatchInit, RowsIInv, Pending, Outcomes

LEMMA RowsKeep == RowsIInv /\ [SyncBatchNext]_syncBatchVars => RowsIInv'
  <1> SUFFICES ASSUME RowsIInv, [SyncBatchNext]_syncBatchVars PROVE RowsIInv'
    OBVIOUS
  <1>0. Pending \subseteq Nat \ {0} /\ Pending \subseteq PageAccounts
    BY SyncBatchAssumption DEF Pending
  <1>1. CASE ClickSyncAll
    <2>1. FirstOf(Pending) \in Pending
      BY <1>0, <1>1, FirstOfIsMember DEF ClickSyncAll
    <2> QED BY <1>1, <2>1 DEF ClickSyncAll, RowsIInv, Pending
  <1>2. ASSUME NEW result \in {"SUCCESS", "FAILED"}, RowAnswers(result)
        PROVE  RowsIInv'
    <2>1. running \in Pending
      BY <1>2 DEF RowAnswers, RowsIInv
    <2>2. outcome' \in [PageAccounts -> Outcomes]
      BY <1>2 DEF RowAnswers, RowsIInv, Outcomes
    <2>3. Pending' = Pending \ {running}
      BY <1>0, <1>2, <2>1 DEF RowAnswers, RowsIInv, Pending
    <2>4. running' \in Pending' \cup {NoRow}
      <3>1. CASE Pending = {running}
        BY <1>2, <3>1 DEF RowAnswers, RowAfter
      <3>2. CASE Pending # {running}
        <4>1. Pending \ {running} # {} /\ Pending \ {running} \subseteq Nat
          BY <1>0, <2>1, <3>2
        <4>2. FirstOf(Pending \ {running}) \in Pending \ {running}
          BY <4>1, FirstOfIsMember
        <4> QED BY <1>2, <2>3, <3>2, <4>2 DEF RowAnswers, RowAfter
      <3> QED BY <3>1, <3>2
    <2> QED BY <2>2, <2>3, <2>4 DEF RowsIInv
  <1>3. CASE UNCHANGED syncBatchVars
    BY <1>3 DEF syncBatchVars, RowsIInv, Pending
  <1> QED BY <1>1, <1>2, <1>3 DEF SyncBatchNext

LEMMA RowsTyped == RowsIInv => SyncBatchTypeOK
  BY DEF RowsIInv, SyncBatchTypeOK, Outcomes, Pending

\* No account is synchronised that cannot be: the row under way is always one
\* of those a synchronisation can be asked for (the safety half of
\* BatchReachesEveryRow), for any number of accounts.
THEOREM BatchRowsTheorem == SyncBatchSpec => [](running # NoRow => running \in Connected)
  <1>1. RowsIInv => (running # NoRow => running \in Connected)
    BY DEF RowsIInv
  <1> QED BY <1>1, RowsInitially, RowsKeep, PTL DEF SyncBatchSpec

-----------------------------------------------------------------------------
(* The dashboard within its bounds: no request is made for a scope that    *)
(* cannot be loaded, and no number passes that of the last load.           *)

AskedForScopes == \A r \in asked : r.seq \in 1..MaxLoads /\ r.key # NoKey
NumbersBounded ==
    /\ \A n \in SlotNames : slots[n].seq <= MaxLoads
    /\ syncing.seq <= MaxLoads
\* what is synchronised from the page is a scope whose data it shows
SyncedScopeLoads == syncing.phase = "posting" => KeyOf(syncing.of, ShownSlot(syncing.of)) # NoKey
Counted == selections \in 0..MaxSelections /\ syncClicks \in 0..MaxSyncClicks

PageIInv == LoadInv /\ AskedForScopes /\ NumbersBounded /\ SyncedScopeLoads /\ Counted

LEMMA SlotAsTyped ==
    ASSUME NEW N, NEW K, NEW B, NEW M, NEW x \in SlotOf(N, K, B), x.seq \in M, x.dataSeq \in M
    PROVE  x \in [seq : M, dataSeq : M, lastFailed : B, lastAuthError : B, taken : B,
                  dataKey : K, pendingKey : K, lastKey : K]
  BY DEF SlotOf

LEMMA PageTyped == PageIInv => DashboardTypeOK
  <1> SUFFICES ASSUME PageIInv PROVE DashboardTypeOK
    OBVIOUS
  <1>1. \A n \in SlotNames :
            slots[n] \in [seq : 0..MaxLoads, dataSeq : 0..MaxLoads, lastFailed : BOOLEAN,
                          lastAuthError : BOOLEAN, taken : BOOLEAN, dataKey : Keys,
                          pendingKey : Keys, lastKey : Keys]
    <2> TAKE n \in SlotNames
    <2>1. slots[n] \in SlotOf(Nat, Keys, BOOLEAN)
      BY DEF PageIInv, LoadInv, Loading, Slot
    <2>2. slots[n].seq \in Nat /\ slots[n].dataSeq \in Nat
      BY <2>1, SlotFields
    <2>3. slots[n].seq \in 0..MaxLoads /\ slots[n].dataSeq \in 0..MaxLoads
      BY <2>2, DashboardAssumption DEF PageIInv, LoadInv, DataWasAsked, NumbersBounded
    <2> QED BY <2>1, <2>3, SlotAsTyped
  <1>2. slots \in [SlotNames ->
            [seq : 0..MaxLoads, dataSeq : 0..MaxLoads, lastFailed : BOOLEAN,
             lastAuthError : BOOLEAN, taken : BOOLEAN, dataKey : Keys, pendingKey : Keys,
             lastKey : Keys]]
    BY <1>1 DEF PageIInv, LoadInv, Loading
  <1>3. asked \subseteq [slot : SlotNames, seq : 1..MaxLoads, key : ScopeKeys]
    <2> SUFFICES ASSUME NEW r \in asked
                 PROVE  r \in [slot : SlotNames, seq : 1..MaxLoads, key : ScopeKeys]
      OBVIOUS
    <2>1. r \in Request /\ r.seq \in 1..MaxLoads /\ r.key # NoKey
      BY DEF PageIInv, LoadInv, Loading, AskedForScopes
    <2>2. r.key \in ScopeKeys
      BY <2>1 DEF Request, Keys
    <2> QED BY <2>1, <2>2 DEF Request
  <1>4. syncing \in [phase : {"idle", "posting", "reloading"}, of : ScopeSet, seq : 0..MaxLoads]
    BY DashboardAssumption DEF PageIInv, LoadInv, Loading, NumbersBounded
  <1> QED BY <1>2, <1>3, <1>4 DEF DashboardTypeOK, PageIInv, LoadInv, Loading, Counted, Keys

\* A load of scopes that have a key raises numbers by one, within the bound.
LEMMA LoadStaysBounded ==
    ASSUME PageIInv, NEW names \in SUBSET SlotNames, NEW s \in ScopeSet, NEW t,
           Load(names, s, t), \A n \in names : KeyOf(s, n) # NoKey
    PROVE  /\ AskedForScopes'
           /\ \A n \in SlotNames : slots'[n].seq <= MaxLoads
           /\ \A n \in names : slots[n].seq + 1 <= MaxLoads
  <1>0. \A n \in SlotNames : slots[n] \in Slot /\ slots[n].seq \in Nat
    BY SlotFields DEF PageIInv, LoadInv, Loading, Slot
  <1>1. \A n \in names : slots[n].seq + 1 \in 1..MaxLoads
    BY <1>0, DashboardAssumption DEF Load
  <1>2. \A r \in Requests(names, s) : r.seq \in 1..MaxLoads /\ r.key # NoKey
    BY <1>1 DEF Requests
  <1>3. AskedForScopes'
    BY <1>2 DEF Load, PageIInv, AskedForScopes
  <1>4. \A n \in names : slots'[n].seq = slots[n].seq + 1
    <2> TAKE n \in names
    <2>1. slots'[n] = [slots[n] EXCEPT !.seq = slots[n].seq + 1, !.pendingKey = KeyOf(s, n),
                                       !.taken = (KeyOf(s, n) # KeyOf(t, n))]
      BY DEF Load, LoadedSlots
    <2> QED BY <1>0, <2>1 DEF Slot, SlotOf
  <1>5. \A n \in SlotNames \ names : slots'[n] = slots[n]
    BY DEF Load, LoadedSlots
  <1> QED BY <1>0, <1>1, <1>3, <1>4, <1>5 DEF PageIInv, NumbersBounded

\* What a retry asks for is the scope on the page, which has a key.
LEMMA ShownIsKeyed ==
    /\ HasValidData \/ FatalError \/ StaleWarning => KeyOf(scope, ShownSlot(scope)) # NoKey
  BY DEF HasValidData, FatalError, StaleWarning, FailedForKey, ShownKey

LEMMA FirstSeq ==
    ASSUME NEW x, NEW k, x = EmptySlot \/ x = [EmptySlot EXCEPT !.seq = 1, !.pendingKey = k]
    PROVE  x.seq \in {0, 1}
  <1>1. CASE x = EmptySlot
    BY <1>1, EmptySlotType
  <1>2. CASE x = [EmptySlot EXCEPT !.seq = 1, !.pendingKey = k]
    <2>1. x = [seq |-> 1, dataKey |-> NoKey, dataSeq |-> 0, pendingKey |-> k,
               lastKey |-> NoKey, lastFailed |-> FALSE, lastAuthError |-> FALSE,
               taken |-> FALSE]
      BY <1>2 DEF EmptySlot
    <2> QED BY <2>1
  <1> QED BY <1>1, <1>2

LEMMA PageInitially == DashboardInit => PageIInv
  <1> SUFFICES ASSUME DashboardInit PROVE PageIInv
    OBVIOUS
  <1>1. LoadInv
    BY LoadInitially
  <1>2. PICK s \in ScopeSet :
            LET names == {n \in SlotNames : KeyOf(s, n) # NoKey}
            IN /\ slots = [n \in SlotNames |->
                             IF n \in names
                             THEN [EmptySlot EXCEPT !.seq = 1, !.pendingKey = KeyOf(s, n)]
                             ELSE EmptySlot]
               /\ asked = {[slot |-> n, seq |-> 1, key |-> KeyOf(s, n)] : n \in names}
    BY DEF DashboardInit
  <1>3. 1 \in 1..MaxLoads /\ 0 <= MaxLoads /\ 1 <= MaxLoads
    BY DashboardAssumption
  <1>4. AskedForScopes
    <2> SUFFICES ASSUME NEW r \in asked PROVE r.seq \in 1..MaxLoads /\ r.key # NoKey
      BY DEF AskedForScopes
    <2>1. PICK n \in SlotNames :
              KeyOf(s, n) # NoKey /\ r = [slot |-> n, seq |-> 1, key |-> KeyOf(s, n)]
      BY <1>2
    <2>2. r.seq = 1 /\ r.key = KeyOf(s, n)
      BY <2>1
    <2> QED BY <1>3, <2>1, <2>2
  <1>5. \A n \in SlotNames : slots[n].seq <= MaxLoads
    <2> TAKE n \in SlotNames
    <2>1. slots[n] = EmptySlot \/ slots[n] = [EmptySlot EXCEPT !.seq = 1, !.pendingKey = KeyOf(s, n)]
      BY <1>2
    <2>2. slots[n].seq \in {0, 1}
      BY <2>1, FirstSeq
    <2> QED BY <1>3, <2>2
  <1>6. syncing = NotSyncing /\ selections = 0 /\ syncClicks = 0
    BY DEF DashboardInit
  <1>7. syncing.seq = 0 /\ syncing.phase = "idle"
    BY <1>6 DEF NotSyncing
  <1> QED BY <1>1, <1>3, <1>4, <1>5, <1>6, <1>7, DashboardAssumption
          DEF PageIInv, NumbersBounded, SyncedScopeLoads, Counted

LEMMA PageKeeps == PageIInv /\ [DashboardNext]_dashboardVars => PageIInv'
  <1> SUFFICES ASSUME PageIInv, [DashboardNext]_dashboardVars PROVE PageIInv'
    OBVIOUS
  <1>0. LoadInv' /\ scope \in ScopeSet /\ syncing.of \in ScopeSet
        /\ \A n \in SlotNames : slots[n] \in Slot
    BY LoadStep DEF PageIInv, LoadInv, Loading
  <1>1. ASSUME NEW t \in ScopeSet, SelectScope(t)
        PROVE  PageIInv'
    <2>1. /\ Reloaded(scope, t) \in SUBSET SlotNames
          /\ \A n \in Reloaded(scope, t) : KeyOf(t, n) # NoKey
      BY DEF Reloaded
    <2>2. AskedForScopes' /\ \A n \in SlotNames : slots'[n].seq <= MaxLoads
      BY <1>1, <2>1, LoadStaysBounded DEF SelectScope
    <2>3. selections' \in 0..MaxSelections /\ syncing' = syncing /\ syncClicks' = syncClicks
      BY <1>1, DashboardAssumption DEF SelectScope, PageIInv, Counted
    <2> QED BY <1>0, <2>2, <2>3 DEF PageIInv, NumbersBounded, SyncedScopeLoads, Counted
  <1>2. ASSUME NEW r \in asked, NEW reply \in Answers, AnswerArrives(r, reply)
        PROVE  PageIInv'
    <2>1. r.slot \in SlotNames /\ slots \in [SlotNames -> Slot]
      BY DEF PageIInv, LoadInv, Loading, Request
    <2>2. AppliedSlot(r, reply).seq = slots[r.slot].seq
      BY <2>1 DEF AppliedSlot, Slot, SlotOf
    <2>3. \A n \in SlotNames : slots'[n].seq = slots[n].seq
      BY <1>2, <2>1, <2>2 DEF AnswerArrives
    <2>4. asked' \subseteq asked /\ syncing' \in {syncing, NotSyncing}
          /\ selections' = selections /\ syncClicks' = syncClicks
      BY <1>2 DEF AnswerArrives
    <2>5. NotSyncing.seq = 0 /\ NotSyncing.phase = "idle"
      BY DEF NotSyncing
    <2> QED BY <1>0, <2>3, <2>4, <2>5, DashboardAssumption
            DEF PageIInv, AskedForScopes, NumbersBounded, SyncedScopeLoads, Counted
  <1>3. ASSUME NEW n \in SlotNames, NEW s \in ScopeSet, NEW t, Load({n}, s, t),
               KeyOf(s, n) # NoKey, UNCHANGED <<selections, syncClicks>>,
               \/ syncing' = syncing
               \/ syncing'.seq = slots[n].seq + 1 /\ syncing'.phase = "reloading"
        PROVE  PageIInv'
    <2> DEFINE names == {n}
    <2>1. /\ names \in SUBSET SlotNames /\ Load(names, s, t)
          /\ \A m \in names : KeyOf(s, m) # NoKey
      BY <1>3
    <2>2. n \in names
      OBVIOUS
    <2> HIDE DEF names
    <2>3. /\ AskedForScopes' /\ \A m \in SlotNames : slots'[m].seq <= MaxLoads
          /\ slots[n].seq + 1 <= MaxLoads
      BY <2>1, <2>2, LoadStaysBounded
    <2> QED BY <1>0, <1>3, <2>3 DEF PageIInv, NumbersBounded, SyncedScopeLoads, Counted
  <1>4. CASE RetryLoad
    <2>1. ShownSlot(scope) \in SlotNames
      BY <1>0, ShownSlotType
    <2>2. KeyOf(scope, ShownSlot(scope)) # NoKey
      BY <1>4, ShownIsKeyed DEF RetryLoad
    <2> QED BY <1>0, <1>3, <1>4, <2>1, <2>2 DEF RetryLoad
  <1>5. CASE RetryFirstLoad
    <2>1. "scope" \in SlotNames
      BY DEF SlotNames
    <2> QED BY <1>0, <1>3, <1>5, <2>1 DEF RetryFirstLoad
  <1>6. CASE SyncNow
    <2>1. KeyOf(scope, ShownSlot(scope)) # NoKey
      BY <1>6, ShownIsKeyed DEF SyncNow
    <2>2. syncing'.of = scope /\ syncing'.seq = 0
      BY <1>6 DEF SyncNow
    <2>3. syncClicks' \in 0..MaxSyncClicks /\ selections' = selections
      BY <1>6, DashboardAssumption DEF SyncNow, PageIInv, Counted
    <2>4. slots' = slots /\ asked' = asked
      BY <1>6 DEF SyncNow
    <2> QED BY <1>0, <2>1, <2>2, <2>3, <2>4, DashboardAssumption
            DEF PageIInv, AskedForScopes, NumbersBounded, SyncedScopeLoads, Counted, ShownSlot, KeyOf
  <1>7. CASE SyncFails
    <2>1. syncing'.seq = 0 /\ syncing'.phase = "idle"
      BY <1>7 DEF SyncFails, NotSyncing
    <2> QED BY <1>0, <1>7, <2>1, DashboardAssumption
            DEF SyncFails, PageIInv, AskedForScopes, NumbersBounded, SyncedScopeLoads, Counted
  <1>8. CASE SyncSucceeds
    <2> DEFINE n == ShownSlot(syncing.of)
    <2>1. n \in SlotNames /\ KeyOf(syncing.of, n) # NoKey
      BY <1>0, <1>8, ShownSlotType DEF SyncSucceeds, PageIInv, SyncedScopeLoads
    <2>2. /\ Load({n}, syncing.of, scope) /\ UNCHANGED <<selections, syncClicks>>
          /\ syncing' = [syncing EXCEPT !.phase = "reloading", !.seq = slots[n].seq + 1]
      BY <1>8 DEF SyncSucceeds
    <2> HIDE DEF n
    <2>3. syncing'.seq = slots[n].seq + 1 /\ syncing'.phase = "reloading"
      BY <2>2 DEF PageIInv, LoadInv, Loading
    <2> QED BY <1>0, <1>3, <2>1, <2>2, <2>3
  <1>9. CASE UNCHANGED dashboardVars
    BY <1>0, <1>9 DEF dashboardVars, PageIInv, AskedForScopes, NumbersBounded, SyncedScopeLoads,
                      Counted, ShownSlot, KeyOf
  <1> QED BY <1>1, <1>2, <1>4, <1>5, <1>6, <1>7, <1>8, <1>9 DEF DashboardNext

(* The pages of the joint run: periods are whole days and stay valid, and  *)
(* dashboard, panels and the button for all accounts keep their types:     *)
(* no request for a scope that cannot be loaded, no state of a panel that  *)
(* no job has, no row synchronised that is none of the page's.             *)
THEOREM PagesTheorem == PlatformSpec => []PagesInv
  <1> DEFINE Inv == /\ part = "periods" => PeriodIInv
                    /\ part = "dashboard" => PageIInv
                    /\ part = "panels" => PanelIInv
                    /\ part = "all_rows" => RowsIInv
  <1>1. PlatformInit => Inv
    BY PeriodsInitially, PageInitially, PanelsInitially, RowsInitially DEF PlatformInit
  <1>2. Inv /\ [PlatformNext]_platformVars => Inv'
    BY StepOfPart, PeriodsKeep, PageKeeps, PanelsKeep, RowsKeep
  <1>3. Inv => PagesInv
    BY PeriodsSound, PageTyped, PanelsTyped, RowsTyped DEF PagesInv
  <1> QED BY <1>1, <1>2, <1>3, PTL DEF PlatformSpec

-----------------------------------------------------------------------------
(* The sessions (Sessions), for any number of tabs, clients, users,        *)
(* sessions and faults.                                                    *)

\* What the service knows of the row of a request once it has read it, and of
\* its user once it has been admitted.
KnowsRow(r) ==
    /\ r.kind = "refresh" /\ r.phase \in {"found", "admitted", "rotated"} => r.row \in Rows
    /\ r.kind = "refresh" /\ r.phase = "rotated" => r.row \in revoked
    /\ r.kind = "logout" /\ r.phase = "found" => r.row \in Rows

\* active is only ever cleared: a user found active was so when the request
\* was sent.
KnowsUser(r) ==
    /\ r.phase # "idle" /\ r.user \in active => r.wasActive
    /\ r.phase \in {"admitted", "rotated"} => r.wasActive /\ r.user \in AuthUsers
    /\ r.grant # 0 => r.phase = "ok" /\ r.kind \in {"login", "refresh"} /\ r.wasActive

\* Rows the browser or a request speaks of exist.
RowsExist ==
    /\ jar.refresh # 0 => ~Free(jar.refresh)
    /\ \A s \in revoked : ~Free(s)
    /\ \A c \in Callers : request[c].row # 0 => ~Free(request[c].row)

\* The session of an answer on its way is nobody else's yet.
GrantsAreNew ==
    \A c \in Callers :
        LET s == request[c].grant IN
        s # 0 =>
            /\ ~Free(s) /\ s \notin revoked /\ jar.refresh # s
            /\ \A d \in Callers : request[d].row # s /\ (d # c => request[d].grant # s)

\* An answer that will replace the cookie or clear it.
Replacing(r) ==
    \/ r.kind = "refresh" /\ (r.phase = "rotated" \/ r.grant # 0)
    \/ r.kind = "logout" /\ r.phase = "ok"

CookieIsReplaced ==
    (jar.refresh \in revoked /\ authFaults = 0) =>
        \E c \in Callers : request[c].row = jar.refresh /\ Replacing(request[c])

SessionsIInv ==
    /\ SessionsTypeOK
    /\ \A c \in Callers : KnowsRow(request[c]) /\ KnowsUser(request[c])
    /\ RotatedSessionIsDead
    /\ RowsExist
    /\ GrantsAreNew
    /\ CookieIsReplaced

-----------------------------------------------------------------------------
(* What a request is, field by field.                                      *)
LEMMA RequestFields ==
    ASSUME NEW r \in AuthRequest
    PROVE  /\ r.kind \in {"none", "login", "refresh", "logout", "me"}
           /\ r.phase \in {"idle", "sent", "found", "admitted", "rotated", "ok", "refused"}
           /\ r.row \in 0..MaxSessions /\ r.grant \in 0..MaxSessions
           /\ r.user \in AuthUsers \cup {NoUser} /\ r.wasActive \in BOOLEAN
  BY DEF AuthRequest

(* At the start nobody has asked for anything.                             *)
LEMMA SessionsInitially == SessionsInit => SessionsIInv
  <1> SUFFICES ASSUME SessionsInit PROVE SessionsIInv
    OBVIOUS
  <1> USE AuthAssumption DEF SessionsInit
  <1>1. Idle \in AuthRequest
    BY DEF Idle, AuthRequest
  <1>2. SessionsTypeOK
    BY <1>1 DEF SessionsTypeOK, Rows
  <1>3. \A c \in Callers : request[c] = Idle
    OBVIOUS
  <1>4. \A c \in Callers : KnowsRow(request[c]) /\ KnowsUser(request[c])
    BY <1>3 DEF KnowsRow, KnowsUser, Idle
  <1>5. RotatedSessionIsDead
    BY DEF RotatedSessionIsDead
  <1>6. RowsExist /\ GrantsAreNew /\ CookieIsReplaced
    BY <1>3 DEF RowsExist, GrantsAreNew, CookieIsReplaced, Idle
  <1> QED BY <1>2, <1>4, <1>5, <1>6 DEF SessionsIInv

(* A request that is made of the right fields.                             *)
LEMMA NewRequest ==
    ASSUME NEW kind \in {"login", "refresh", "logout", "me"}, NEW row \in 0..MaxSessions,
           NEW u \in AuthUsers \cup {NoUser}, NEW was \in BOOLEAN
    PROVE  [kind |-> kind, phase |-> "sent", row |-> row, user |-> u,
            grant |-> 0, wasActive |-> was] \in AuthRequest
  BY AuthAssumption DEF AuthRequest

-----------------------------------------------------------------------------
(* A new request carries the cookies of the instant it is sent.            *)
LEMMA SendingKeeps ==
    ASSUME SessionsIInv, NEW c \in Callers,
           NEW kind \in {"login", "refresh", "logout", "me"},
           NEW u \in AuthUsers \cup {NoUser},
           Sending(c, kind, u), UNCHANGED <<rowVars, active, jar, page, authFaults>>
    PROVE  SessionsIInv'
  <1> DEFINE new == [kind |-> kind, phase |-> "sent", row |-> jar.refresh, user |-> u,
                     grant |-> 0, wasActive |-> u \in active]
  <1>1. request \in [Callers -> AuthRequest] /\ jar.refresh \in 0..MaxSessions
    BY DEF SessionsIInv, SessionsTypeOK
  <1>2. new \in AuthRequest
    <2>1. (u \in active) \in BOOLEAN
      OBVIOUS
    <2> QED BY <1>1, <2>1, NewRequest
  <1>3. request' = [request EXCEPT ![c] = new] /\ request[c] = Idle
    BY DEF Sending
  <1>4. request' \in [Callers -> AuthRequest]
    BY <1>1, <1>2, <1>3
  <1>5. /\ new.kind = kind /\ new.phase = "sent" /\ new.row = jar.refresh /\ new.user = u
        /\ new.grant = 0 /\ (new.wasActive <=> u \in active)
    OBVIOUS
  <1> HIDE DEF new
  <1>6. \A d \in Callers : request'[d] = IF d = c THEN new ELSE request[d]
    BY <1>1, <1>3
  <1> USE DEF rowVars
  <1>7. SessionsTypeOK'
    BY <1>4 DEF SessionsIInv, SessionsTypeOK
  <1>8. \A d \in Callers : KnowsRow(request[d])' /\ KnowsUser(request[d])'
    BY <1>5, <1>6 DEF SessionsIInv, KnowsRow, KnowsUser
  <1>9. RotatedSessionIsDead'
    BY DEF SessionsIInv, RotatedSessionIsDead
  <1>10. RowsExist'
    BY <1>5, <1>6 DEF SessionsIInv, RowsExist, Free
  <1>11. GrantsAreNew'
    BY <1>5, <1>6 DEF SessionsIInv, GrantsAreNew, Free
  <1>12. CookieIsReplaced'
    <2> SUFFICES ASSUME jar.refresh \in revoked, authFaults = 0
                 PROVE  \E d \in Callers : request'[d].row = jar.refresh /\ Replacing(request'[d])
      BY DEF CookieIsReplaced, Replacing
    <2>1. PICK d \in Callers : request[d].row = jar.refresh /\ Replacing(request[d])
      BY DEF SessionsIInv, CookieIsReplaced
    <2>2. d # c
      BY <1>3, <2>1 DEF Idle, Replacing
    <2> QED BY <1>6, <2>1, <2>2
  <1> QED BY <1>7, <1>8, <1>9, <1>10, <1>11, <1>12 DEF SessionsIInv

-----------------------------------------------------------------------------
(* A statement of the service that only moves a request on, and may revoke *)
(* the row it was sent with.                                               *)
LEMMA PhaseKeeps ==
    ASSUME SessionsIInv, NEW c \in Callers,
           NEW p \in {"found", "admitted", "rotated", "ok", "refused"},
           Answer(c, p), request[c].phase \in {"sent", "found", "admitted", "rotated"},
           \/ revoked' = revoked
           \/ revoked' = revoked \cup {request[c].row} /\ request[c].row \in Rows,
           revoked' # revoked => Replacing(request'[c]),
           Replacing(request[c]) => Replacing(request'[c]) \/ authFaults' # 0,
           authFaults' \in 0..MaxAuthFaults, authFaults' = 0 => authFaults = 0,
           UNCHANGED <<owner, lapsed, parent, active, jar, page>>,
           KnowsRow(request[c])' /\ KnowsUser(request[c])'
    PROVE  SessionsIInv'
  <1>1. request \in [Callers -> AuthRequest] /\ request[c] \in AuthRequest
    BY DEF SessionsIInv, SessionsTypeOK
  <1>2. request' = [request EXCEPT ![c].phase = p]
    BY DEF Answer
  <1>3. [request[c] EXCEPT !.phase = p] \in AuthRequest
    BY <1>1 DEF AuthRequest
  <1>4. \A d \in Callers :
            request'[d] = IF d = c THEN [request[c] EXCEPT !.phase = p] ELSE request[d]
    BY <1>1, <1>2
  <1>5. request' \in [Callers -> AuthRequest]
    BY <1>1, <1>2, <1>3
  <1>6. /\ request'[c].row = request[c].row /\ request'[c].grant = request[c].grant
        /\ request'[c].kind = request[c].kind
    BY <1>1, <1>4 DEF AuthRequest
  <1>7. request[c].grant = 0
    BY <1>1 DEF SessionsIInv, KnowsUser
  <1>8. SessionsTypeOK'
    BY <1>5 DEF SessionsIInv, SessionsTypeOK
  <1>9. \A d \in Callers : KnowsRow(request[d])' /\ KnowsUser(request[d])'
    BY <1>4 DEF SessionsIInv, KnowsRow, KnowsUser
  <1>10. RotatedSessionIsDead'
    BY DEF SessionsIInv, RotatedSessionIsDead
  <1>11. RowsExist'
    <2>1. request[c].row # 0 => ~Free(request[c].row)
      BY DEF SessionsIInv, RowsExist
    <2>2. \A s \in revoked' : ~Free(s)
      BY <2>1, AuthAssumption DEF SessionsIInv, RowsExist, Rows
    <2>3. \A d \in Callers : request'[d].row = request[d].row
      BY <1>4, <1>6
    <2> QED BY <2>2, <2>3 DEF SessionsIInv, RowsExist, Free
  <1>12. GrantsAreNew'
    <2>1. \A d \in Callers : /\ request'[d].row = request[d].row
                            /\ request'[d].grant = request[d].grant
      BY <1>4, <1>6
    <2> QED BY <2>1 DEF SessionsIInv, GrantsAreNew, Free
  <1>13. CookieIsReplaced'
    <2> SUFFICES ASSUME jar.refresh \in revoked', authFaults' = 0
                 PROVE  \E d \in Callers : request'[d].row = jar.refresh /\ Replacing(request'[d])
      BY DEF CookieIsReplaced, Replacing
    <2>1. CASE jar.refresh \in revoked
      <3>1. PICK d \in Callers : request[d].row = jar.refresh /\ Replacing(request[d])
        BY <2>1 DEF SessionsIInv, CookieIsReplaced
      <3> QED BY <1>4, <1>6, <3>1
    <2>2. CASE jar.refresh \notin revoked
      BY <1>6, <2>2
    <2> QED BY <2>1, <2>2
  <1> QED BY <1>8, <1>9, <1>10, <1>11, <1>12, <1>13 DEF SessionsIInv

(* Tokens are issued into a row nobody knows of yet.                       *)
LEMMA IssueKeeps ==
    ASSUME SessionsIInv, NEW c \in Callers, Issue(c)
    PROVE  SessionsIInv'
  <1> DEFINE old == request[c]
             from == IF old.kind = "refresh" THEN old.row ELSE 0
  <1>1. request \in [Callers -> AuthRequest] /\ old \in AuthRequest
    BY DEF SessionsIInv, SessionsTypeOK
  <1>2. /\ old.phase \in {"admitted", "rotated"} /\ old.kind \in {"login", "refresh"}
        /\ old.kind = "refresh" => old.phase = "rotated"
    BY DEF Issue, ReadyToIssue
  <1>3. /\ old.user \in AuthUsers /\ old.wasActive /\ old.grant = 0
        /\ old.kind = "refresh" => old.row \in revoked
    BY <1>1, <1>2 DEF SessionsIInv, KnowsUser, KnowsRow
  <1>4. PICK s \in Rows :
            /\ Free(s)
            /\ owner' = [owner EXCEPT ![s] = old.user]
            /\ parent' = [parent EXCEPT ![s] = from]
            /\ request' = [request EXCEPT ![c].phase = "ok", ![c].grant = s]
    BY DEF Issue, IssueTokens
  <1>5. from \in 0..MaxSessions
    BY <1>1, AuthAssumption, RequestFields
  <1> HIDE DEF from
  <1>6. s \in 0..MaxSessions /\ s # 0
    BY AuthAssumption DEF Rows
  <1>7. [old EXCEPT !.phase = "ok", !.grant = s] \in AuthRequest
    BY <1>1, <1>6 DEF AuthRequest
  <1>8. \A d \in Callers :
            request'[d] = IF d = c THEN [old EXCEPT !.phase = "ok", !.grant = s] ELSE request[d]
    BY <1>1, <1>4
  <1>9. /\ request'[c].row = old.row /\ request'[c].grant = s /\ request'[c].kind = old.kind
        /\ request'[c].phase = "ok" /\ request'[c].user = old.user
        /\ request'[c].wasActive = old.wasActive
    BY <1>1, <1>8 DEF AuthRequest
  <1>10. request' \in [Callers -> AuthRequest]
    BY <1>1, <1>4, <1>7
  <1>11. UNCHANGED <<revoked, lapsed, active, jar, page, authFaults>>
    BY DEF Issue
  <1>12. SessionsTypeOK'
    <2>1. owner' \in [Rows -> AuthUsers \cup {NoUser}] /\ parent' \in [Rows -> 0..MaxSessions]
      BY <1>3, <1>4, <1>5 DEF SessionsIInv, SessionsTypeOK
    <2> QED BY <1>10, <1>11, <2>1 DEF SessionsIInv, SessionsTypeOK
  <1>13. \A d \in Callers : KnowsRow(request[d])' /\ KnowsUser(request[d])'
    <2>1. KnowsRow(request[c])' /\ KnowsUser(request[c])'
      BY <1>2, <1>3, <1>9, <1>11 DEF KnowsRow, KnowsUser
    <2>2. ASSUME NEW d \in Callers, d # c
          PROVE  KnowsRow(request[d])' /\ KnowsUser(request[d])'
      BY <1>8, <1>11, <2>2 DEF SessionsIInv, KnowsRow, KnowsUser
    <2> QED BY <2>1, <2>2
  <1>14. \A q \in Rows : owner'[q] = (IF q = s THEN old.user ELSE owner[q])
                          /\ parent'[q] = (IF q = s THEN from ELSE parent[q])
    BY <1>4 DEF SessionsIInv, SessionsTypeOK
  <1>15. RotatedSessionIsDead'
    BY <1>3, <1>11, <1>14 DEF SessionsIInv, RotatedSessionIsDead, from
  <1>16. /\ jar.refresh \in 0..MaxSessions /\ revoked \in SUBSET Rows
         /\ \A d \in Callers : /\ request[d].row \in 0..MaxSessions
                               /\ request[d].grant \in 0..MaxSessions
    BY <1>1, RequestFields DEF SessionsIInv, SessionsTypeOK
  <1>17. \A q \in Rows : ~Free(q) => q # s /\ owner'[q] # NoUser
    BY <1>4, <1>14 DEF Free
  <1>18. \A q \in 0..MaxSessions : q # 0 => q \in Rows
    BY AuthAssumption DEF Rows
  <1>19. owner'[s] # NoUser
    BY <1>3, <1>14, AuthAssumption
  <1>20. RowsExist'
    BY <1>8, <1>9, <1>11, <1>16, <1>17, <1>18 DEF SessionsIInv, RowsExist, Free
  <1>21. /\ s \notin revoked /\ jar.refresh # s
         /\ \A d \in Callers : request[d].row # s /\ request[d].grant # s
    BY <1>4, <1>6 DEF SessionsIInv, RowsExist, GrantsAreNew, Free
  <1>22. GrantsAreNew'
    BY <1>8, <1>9, <1>11, <1>16, <1>17, <1>18, <1>19, <1>21 DEF SessionsIInv, GrantsAreNew, Free
  <1>23. CookieIsReplaced'
    <2> SUFFICES ASSUME jar.refresh \in revoked, authFaults = 0
                 PROVE  \E d \in Callers : request'[d].row = jar.refresh /\ Replacing(request'[d])
      BY <1>11 DEF CookieIsReplaced, Replacing
    <2>1. PICK d \in Callers : request[d].row = jar.refresh /\ Replacing(request[d])
      BY DEF SessionsIInv, CookieIsReplaced
    <2> QED BY <1>6, <1>8, <1>9, <2>1 DEF Replacing
  <1> QED BY <1>12, <1>13, <1>15, <1>20, <1>22, <1>23 DEF SessionsIInv

-----------------------------------------------------------------------------
(* An answer that arrives sets the cookies it carries; the request is over. *)
LEMMA LeaveKeeps ==
    ASSUME SessionsIInv, NEW c \in Callers, NEW ok \in BOOLEAN, Leave(c, ok),
           request[c].phase \in {"ok", "refused"},
           \/ jar' = Cookies(c) /\ authFaults' = authFaults
           \/ jar' = jar /\ authFaults' \in 1..MaxAuthFaults,
           UNCHANGED <<rowVars, active>>
    PROVE  SessionsIInv'
  <1> USE DEF rowVars
  <1>1. request \in [Callers -> AuthRequest] /\ request[c] \in AuthRequest
    BY DEF SessionsIInv, SessionsTypeOK
  <1>2. Idle \in AuthRequest
    BY AuthAssumption DEF Idle, AuthRequest
  <1>3. request' \in [Callers -> AuthRequest]
    BY <1>1, <1>2 DEF Leave
  <1>4. \A d \in Callers : request'[d] = IF d = c THEN Idle ELSE request[d]
    BY <1>1 DEF Leave
  <1>5. Idle.row = 0 /\ Idle.grant = 0 /\ Idle.phase = "idle" /\ Idle.kind = "none"
    BY DEF Idle
  <1>6. /\ jar \in [access : AuthUsers \cup {NoUser}, refresh : 0..MaxSessions]
        /\ page \in [AuthTabs -> {"login", "checking", "inside"}]
    BY DEF SessionsIInv, SessionsTypeOK
  <1>7. \/ jar' = jar
        \/ jar' = [access |-> NoUser, refresh |-> 0]
        \/ jar' = [access |-> request[c].user, refresh |-> request[c].grant] /\ request[c].grant # 0
    BY DEF Cookies
  <1>8. SessionsTypeOK'
    <2>1. jar' \in [access : AuthUsers \cup {NoUser}, refresh : 0..MaxSessions]
      BY <1>1, <1>6, <1>7, RequestFields, AuthAssumption
    <2>2. page' \in [AuthTabs -> {"login", "checking", "inside"}]
      <3>1. c \in AuthTabs => NextPage(c, ok) \in {"login", "checking", "inside"}
        BY <1>6 DEF NextPage
      <3> QED BY <1>6, <3>1 DEF Leave
    <2>3. authFaults' \in 0..MaxAuthFaults
      BY AuthAssumption DEF SessionsIInv, SessionsTypeOK
    <2> QED BY <1>3, <2>1, <2>2, <2>3 DEF SessionsIInv, SessionsTypeOK
  <1>9. \A d \in Callers : KnowsRow(request[d])' /\ KnowsUser(request[d])'
    BY <1>4, <1>5 DEF SessionsIInv, KnowsRow, KnowsUser
  <1>10. RotatedSessionIsDead'
    BY DEF SessionsIInv, RotatedSessionIsDead
  <1>11. jar'.refresh = jar.refresh \/ jar'.refresh = 0
         \/ (jar'.refresh = request[c].grant /\ request[c].grant # 0)
    BY <1>7
  <1>12. RowsExist'
    BY <1>4, <1>5, <1>11 DEF SessionsIInv, RowsExist, GrantsAreNew, Free
  <1>13. GrantsAreNew'
    BY <1>4, <1>5, <1>11 DEF SessionsIInv, GrantsAreNew, Free
  <1>14. CookieIsReplaced'
    <2> SUFFICES ASSUME jar'.refresh \in revoked, authFaults' = 0
                 PROVE  \E d \in Callers : request'[d].row = jar'.refresh /\ Replacing(request'[d])
      BY DEF CookieIsReplaced, Replacing
    <2>1. jar' = Cookies(c) /\ authFaults = 0
      OBVIOUS
    <2>2. revoked \in SUBSET Rows /\ 0 \notin Rows
      BY AuthAssumption DEF SessionsIInv, SessionsTypeOK, Rows
    <2>3. request[c].grant = 0
      <3> SUFFICES ASSUME request[c].grant # 0 PROVE FALSE
        OBVIOUS
      <3>1. jar' = [access |-> request[c].user, refresh |-> request[c].grant]
        <4>1. Cookies(c) = [access |-> request[c].user, refresh |-> request[c].grant]
          BY DEF Cookies, SessionsIInv, KnowsUser
        <4> QED BY <2>1, <4>1
      <3>2. request[c].grant \notin revoked
        BY DEF SessionsIInv, GrantsAreNew
      <3> QED BY <3>1, <3>2
    <2>4. ~(request[c].kind = "logout" /\ request[c].phase = "ok")
      BY <2>1, <2>2, <2>3 DEF Cookies
    <2>5. jar' = jar
      BY <2>1, <2>3, <2>4 DEF Cookies
    <2>6. PICK d \in Callers : request[d].row = jar.refresh /\ Replacing(request[d])
      BY <2>1, <2>5 DEF SessionsIInv, CookieIsReplaced
    <2>7. CASE d # c
      BY <1>4, <2>5, <2>6, <2>7
    <2>8. CASE d = c
      BY <2>3, <2>4, <2>6, <2>8 DEF Replacing
    <2> QED BY <2>7, <2>8
  <1> QED BY <1>8, <1>9, <1>10, <1>12, <1>13, <1>14 DEF SessionsIInv

-----------------------------------------------------------------------------
(* Every step keeps the invariant.                                         *)
LEMMA SessionsStep == SessionsIInv /\ [SessionsNext]_authVars => SessionsIInv'
  <1> SUFFICES ASSUME SessionsIInv, [SessionsNext]_authVars PROVE SessionsIInv'
    OBVIOUS
  <1> USE DEF rowVars
  <1>0. /\ request \in [Callers -> AuthRequest] /\ jar.refresh \in 0..MaxSessions
        /\ jar.access \in AuthUsers \cup {NoUser} /\ authFaults \in 0..MaxAuthFaults
        /\ AuthTabs \subseteq Callers /\ AuthClients \subseteq Callers
    BY DEF SessionsIInv, SessionsTypeOK, Callers
  <1>a. \A c \in Callers, p \in {"found", "admitted", "rotated", "ok", "refused"} :
            Answer(c, p) => /\ request'[c] = [request[c] EXCEPT !.phase = p]
                            /\ request'[c].phase = p /\ request'[c].row = request[c].row
                            /\ request'[c].kind = request[c].kind
                            /\ request'[c].user = request[c].user
                            /\ request'[c].grant = request[c].grant
                            /\ request'[c].wasActive = request[c].wasActive
    BY <1>0 DEF Answer, AuthRequest
  <1>b. \A c \in Callers : KnowsRow(request[c]) /\ KnowsUser(request[c])
    BY DEF SessionsIInv
  <1>c. Fault => authFaults' \in 1..MaxAuthFaults
    BY <1>0, AuthAssumption DEF Fault
  <1>d. active \subseteq AuthUsers
    BY DEF SessionsIInv, SessionsTypeOK
  <1>e. \A c \in Callers : request[c].row \in 0..MaxSessions
    BY <1>0, RequestFields
  <1>1. ASSUME NEW t \in AuthTabs, NEW u \in AuthUsers, SubmitLogin(t, u) PROVE SessionsIInv'
    BY <1>0, <1>1, SendingKeeps DEF SubmitLogin
  <1>2. ASSUME NEW t \in AuthTabs, CheckSession(t) PROVE SessionsIInv'
    BY <1>0, <1>2, SendingKeeps DEF CheckSession
  <1>3. ASSUME NEW t \in AuthTabs, SignOut(t) PROVE SessionsIInv'
    BY <1>0, <1>3, SendingKeeps DEF SignOut
  <1>4. ASSUME NEW t \in AuthTabs, OpenPage(t) PROVE SessionsIInv'
    <2>1. page' \in [AuthTabs -> {"login", "checking", "inside"}]
      BY <1>4 DEF OpenPage, SessionsIInv, SessionsTypeOK
    <2>2. UNCHANGED <<owner, revoked, lapsed, parent, active, jar, request, authFaults>>
      BY <1>4 DEF OpenPage
    <2> QED BY <2>1, <2>2 DEF SessionsIInv, SessionsTypeOK, KnowsRow, KnowsUser,
               RotatedSessionIsDead, RowsExist, GrantsAreNew, CookieIsReplaced, Replacing, Free
  <1>5. ASSUME NEW c \in AuthClients, RequestRefresh(c) PROVE SessionsIInv'
    <2>1. jar.refresh # 0 => owner[jar.refresh] \in AuthUsers \cup {NoUser}
      BY <1>0, AuthAssumption DEF SessionsIInv, SessionsTypeOK, Rows
    <2>2. (IF jar.refresh = 0 THEN NoUser ELSE owner[jar.refresh]) \in AuthUsers \cup {NoUser}
      BY <2>1
    <2> QED BY <1>0, <1>5, <2>2, SendingKeeps DEF RequestRefresh
  <1>6. ASSUME NEW c \in Callers, AdmitLogin(c) PROVE SessionsIInv'
    <2>1. PICK p \in {"admitted", "refused"} :
              Answer(c, p) /\ (p = "admitted" => request[c].user \in active)
      BY <1>6 DEF AdmitLogin
    <2>2. KnowsRow(request[c])' /\ KnowsUser(request[c])'
      BY <1>6, <1>a, <1>b, <1>d, <2>1 DEF AdmitLogin, KnowsRow, KnowsUser
    <2> QED BY <1>0, <1>6, <2>1, <2>2, PhaseKeeps DEF AdmitLogin, Replacing
  <1>7. ASSUME NEW c \in Callers, FindSession(c) PROVE SessionsIInv'
    <2>1. PICK p \in {"found", "refused"} : Answer(c, p) /\ (p = "found" => request[c].row # 0)
      BY <1>7 DEF FindSession, Usable
    <2>2. KnowsRow(request[c])' /\ KnowsUser(request[c])'
      <3>1. request[c].row # 0 => request[c].row \in Rows
        BY <1>e, AuthAssumption DEF Rows
      <3> QED BY <1>7, <1>a, <1>b, <2>1, <3>1 DEF FindSession, KnowsRow, KnowsUser
    <2>3. request[c].grant = 0
      BY <1>7, <1>b DEF FindSession, KnowsUser
    <2> QED BY <1>0, <1>7, <2>1, <2>2, <2>3, PhaseKeeps DEF FindSession, Replacing
  <1>8. ASSUME NEW c \in Callers, AdmitRefresh(c) PROVE SessionsIInv'
    <2>1. PICK p \in {"admitted", "refused"} :
              Answer(c, p) /\ (p = "admitted" => request[c].user \in active)
      BY <1>8 DEF AdmitRefresh
    <2>2. KnowsRow(request[c])' /\ KnowsUser(request[c])'
      BY <1>8, <1>a, <1>b, <1>d, <2>1 DEF AdmitRefresh, KnowsRow, KnowsUser
    <2>3. request[c].grant = 0
      BY <1>8, <1>b DEF AdmitRefresh, KnowsUser
    <2> QED BY <1>0, <1>8, <2>1, <2>2, <2>3, PhaseKeeps DEF AdmitRefresh, Replacing
  <1>9. ASSUME NEW c \in Callers, RevokeOld(c) PROVE SessionsIInv'
    <2>1. /\ request[c].row \in Rows /\ request[c].grant = 0
          /\ request[c].wasActive /\ request[c].user \in AuthUsers
      BY <1>9, <1>b DEF RevokeOld, KnowsRow, KnowsUser
    <2>2. KnowsRow(request[c])' /\ KnowsUser(request[c])'
      BY <1>9, <1>a, <2>1 DEF RevokeOld, KnowsRow, KnowsUser
    <2>3. Replacing(request'[c])
      BY <1>9, <1>a DEF RevokeOld, Replacing
    <2> QED BY <1>0, <1>9, <2>1, <2>2, <2>3, PhaseKeeps DEF RevokeOld
  <1>10. ASSUME NEW c \in Callers, Issue(c) PROVE SessionsIInv'
    BY <1>10, IssueKeeps
  <1>11. ASSUME NEW c \in Callers, FindForLogout(c) PROVE SessionsIInv'
    <2>1. PICK p \in {"found", "ok"} : Answer(c, p) /\ (p = "found" => request[c].row # 0)
      BY <1>11 DEF FindForLogout
    <2>2. KnowsRow(request[c])' /\ KnowsUser(request[c])'
      <3>1. request[c].row # 0 => request[c].row \in Rows
        BY <1>e, AuthAssumption DEF Rows
      <3> QED BY <1>11, <1>a, <1>b, <2>1, <3>1 DEF FindForLogout, KnowsRow, KnowsUser
    <2> QED BY <1>0, <1>11, <2>1, <2>2, PhaseKeeps DEF FindForLogout, Replacing
  <1>12. ASSUME NEW c \in Callers, RevokeForLogout(c) PROVE SessionsIInv'
    <2>1. request[c].row \in Rows
      BY <1>12, <1>b DEF RevokeForLogout, KnowsRow
    <2>2. KnowsRow(request[c])' /\ KnowsUser(request[c])'
      BY <1>12, <1>a, <1>b DEF RevokeForLogout, KnowsRow, KnowsUser
    <2>3. Replacing(request'[c])
      BY <1>12, <1>a DEF RevokeForLogout, Replacing
    <2> QED BY <1>0, <1>12, <2>1, <2>2, <2>3, PhaseKeeps DEF RevokeForLogout
  <1>13. ASSUME NEW c \in Callers, Me(c) PROVE SessionsIInv'
    <2>1. PICK p \in {"ok", "refused"} : Answer(c, p)
      BY <1>13 DEF Me
    <2>2. KnowsRow(request[c])' /\ KnowsUser(request[c])'
      BY <1>13, <1>a, <1>b, <2>1 DEF Me, KnowsRow, KnowsUser
    <2> QED BY <1>0, <1>13, <2>1, <2>2, PhaseKeeps DEF Me, Replacing
  <1>14. ASSUME NEW c \in Callers, Deliver(c) PROVE SessionsIInv'
    <2>1. PICK ok \in BOOLEAN : Leave(c, ok)
      BY <1>14 DEF Deliver
    <2> QED BY <1>14, <2>1, LeaveKeeps DEF Deliver
  <1>15. ASSUME AccessLapses PROVE SessionsIInv'
    <2>1. /\ jar' \in [access : AuthUsers \cup {NoUser}, refresh : 0..MaxSessions]
          /\ jar'.refresh = jar.refresh
      BY <1>15 DEF AccessLapses, SessionsIInv, SessionsTypeOK
    <2>2. UNCHANGED <<owner, revoked, lapsed, parent, active, page, request, authFaults>>
      BY <1>15 DEF AccessLapses
    <2> QED BY <2>1, <2>2 DEF SessionsIInv, SessionsTypeOK, KnowsRow, KnowsUser,
               RotatedSessionIsDead, RowsExist, GrantsAreNew, CookieIsReplaced, Replacing, Free
  <1>16. ASSUME NEW s \in Rows, SessionLapses(s) PROVE SessionsIInv'
    <2>1. /\ lapsed' \in SUBSET Rows /\ authFaults' \in 0..MaxAuthFaults /\ authFaults' # 0
          /\ UNCHANGED <<owner, revoked, parent, active, jar, page, request>>
      BY <1>16, <1>c DEF SessionLapses, SessionsIInv, SessionsTypeOK
    <2> QED BY <2>1 DEF SessionsIInv, SessionsTypeOK, KnowsRow, KnowsUser,
               RotatedSessionIsDead, RowsExist, GrantsAreNew, CookieIsReplaced, Free
  <1>17. ASSUME NEW c \in Callers, StatementFails(c) PROVE SessionsIInv'
    <2>1. authFaults' \in 0..MaxAuthFaults /\ authFaults' # 0
      BY <1>17, <1>c DEF StatementFails
    <2>2. KnowsRow(request[c])' /\ KnowsUser(request[c])'
      BY <1>17, <1>a, <1>b DEF StatementFails, KnowsRow, KnowsUser
    <2> QED BY <1>17, <2>1, <2>2, PhaseKeeps DEF StatementFails
  <1>18. ASSUME NEW c \in Callers, AnswerLost(c) PROVE SessionsIInv'
    BY <1>18, <1>c, LeaveKeeps DEF AnswerLost
  <1>19. ASSUME NEW u \in AuthUsers, Deactivate(u) PROVE SessionsIInv'
    <2>1. /\ active' \subseteq active /\ authFaults' \in 0..MaxAuthFaults /\ authFaults' # 0
          /\ UNCHANGED <<owner, revoked, lapsed, parent, jar, page, request>>
      BY <1>19, <1>c DEF Deactivate
    <2> QED BY <2>1 DEF SessionsIInv, SessionsTypeOK, KnowsRow, KnowsUser,
               RotatedSessionIsDead, RowsExist, GrantsAreNew, CookieIsReplaced, Free
  <1>20. CASE UNCHANGED authVars
    BY <1>20 DEF authVars, SessionsIInv, SessionsTypeOK, KnowsRow, KnowsUser,
               RotatedSessionIsDead, RowsExist, GrantsAreNew, CookieIsReplaced, Replacing, Free
  <1> QED
    BY <1>1, <1>2, <1>3, <1>4, <1>5, <1>6, <1>7, <1>8, <1>9, <1>10, <1>11, <1>12, <1>13, <1>14,
       <1>15, <1>16, <1>17, <1>18, <1>19, <1>20 DEF SessionsNext, ServiceStep

-----------------------------------------------------------------------------
(* What is inductive holds of every behaviour.                             *)
THEOREM SessionsInductive == SessionsSpec => []SessionsIInv
  BY SessionsInitially, SessionsStep, PTL DEF SessionsSpec

(* A session whose refresh token was exchanged is revoked before the new   *)
(* one exists, whatever refreshes, logouts and failures interleave.        *)
THEOREM RotationTheorem == SessionsSpec => []RotatedSessionIsDead
  <1>1. SessionsIInv => RotatedSessionIsDead
    BY DEF SessionsIInv
  <1> QED BY <1>1, SessionsInductive, PTL

(* A user found inactive when a request was sent is granted nothing by it. *)
THEOREM DisabledTheorem == SessionsSpec => []NoSessionForDisabledUser
  <1>1. SessionsIInv => NoSessionForDisabledUser
    BY DEF SessionsIInv, KnowsUser, NoSessionForDisabledUser
  <1> QED BY <1>1, SessionsInductive, PTL

(* All that the runs check of the sessions, the cookie of a browser among  *)
(* it: without faults no revoked session outlives the requests that speak  *)
(* of it (auth.service.ts and auth.controller.ts).                         *)
THEOREM SessionsTheorem == SessionsSpec => []SessionsInv
  <1>1. SessionsIInv => CookieOutlivesNoRotation
    BY DEF SessionsIInv, CookieIsReplaced, CookieOutlivesNoRotation
  <1>2. SessionsIInv => SessionsInv
    BY <1>1 DEF SessionsIInv, KnowsUser, NoSessionForDisabledUser, SessionsInv
  <1> QED BY <1>2, SessionsInductive, PTL

=============================================================================
