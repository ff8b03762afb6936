------------------------------- MODULE Dashboard -------------------------------
(***************************************************************************)
(* The dashboard page: the scope the filters of the URL select, the two    *)
(* slots the answers of the analytics endpoint are kept in, and the        *)
(* requests in flight.  A scope is a view (marketplace, period and         *)
(* logistics filter) and an account or none; a request without account     *)
(* fills the slot "scope", one with an account the slot "account".  Every  *)
(* request takes the next number of its slot, and an answer is applied     *)
(* only while its number is the newest.  "Sincronizar agora" waits for the *)
(* synchronisation and then reloads the scope of the render it was clicked *)
(* in.                                                                     *)
(***************************************************************************)
EXTENDS Naturals, FiniteSets

CONSTANTS Views,         \* views whose period can be resolved
          BadView,       \* a view whose period is invalid
          ShopAccounts,  \* accounts of the dropdown
          NoShop,        \* no account selected
          MaxSelections, \* bound: changes of the filters
          MaxLoads,      \* bound: loads of one slot
          MaxSyncClicks  \* bound: synchronisations from the page

ASSUME DashboardAssumption ==
  /\ BadView \notin Views
  /\ NoShop \notin ShopAccounts
  /\ MaxSelections \in Nat /\ MaxLoads \in Nat \ {0} /\ MaxSyncClicks \in Nat

VARIABLES scope,       \* what the URL selects
          slots,       \* scopeSlot and accountScopedSlot, with their counters
          asked,       \* analytics requests in flight
          syncing,     \* the synchronisation of the page
          selections,  \* filter changes so far
          syncClicks   \* synchronisations started

dashboardVars == <<scope, slots, asked, syncing, selections, syncClicks>>

SlotNames == {"scope", "account"}
ScopeSet == [view : Views \cup {BadView}, account : ShopAccounts \cup {NoShop}]
NoKey == [view |-> BadView, account |-> NoShop]
ScopeKeys == [view : Views, account : ShopAccounts \cup {NoShop}]
Answers == {"ok", "failed", "unauthorized"}

EmptySlot == [seq |-> 0, dataKey |-> NoKey, dataSeq |-> 0, pendingKey |-> NoKey,
              lastKey |-> NoKey, lastFailed |-> FALSE, lastAuthError |-> FALSE, taken |-> FALSE]

\* The key a slot is asked with under a scope; NoKey where nothing is loaded.
KeyOf(s, slot) ==
  IF s.view = BadView \/ (slot = "account" /\ s.account = NoShop) THEN NoKey
  ELSE [view |-> s.view, account |-> IF slot = "account" THEN s.account ELSE NoShop]

ShownSlot(s) == IF s.account = NoShop THEN "scope" ELSE "account"
ShownKey == KeyOf(scope, ShownSlot(scope))
Shown == slots[ShownSlot(scope)]

\* loadScope and loadAccountScoped: a new number, a pending key, a request.
\* History: "taken" says that the newest load is of another scope than t, the selected one.
LoadedSlots(names, s, t) ==
  [n \in SlotNames |->
     IF n \in names
     THEN [slots[n] EXCEPT !.seq = @ + 1, !.pendingKey = KeyOf(s, n),
                           !.taken = (KeyOf(s, n) # KeyOf(t, n))]
     ELSE slots[n]]
Requests(names, s) ==
  {[slot |-> n, seq |-> slots[n].seq + 1, key |-> KeyOf(s, n)] : n \in names}
Load(names, s, t) ==
  /\ \A n \in names : slots[n].seq < MaxLoads
  /\ slots' = LoadedSlots(names, s, t)
  /\ asked' = asked \cup Requests(names, s)

\* The slots the effects of a render load when the scope changes.
Reloaded(s, t) ==
  {n \in SlotNames : /\ KeyOf(t, n) # NoKey
                     /\ t.view # s.view \/ (n = "account" /\ t.account # s.account)}

HasValidData == ShownKey # NoKey /\ Shown.dataKey = ShownKey
Fetching == ShownKey # NoKey /\ Shown.pendingKey = ShownKey
FailedForKey == ShownKey # NoKey /\ Shown.lastFailed /\ Shown.lastKey = ShownKey
StaleWarning == ~Fetching /\ HasValidData /\ FailedForKey /\ ~Shown.lastAuthError
FatalError == ~Fetching /\ FailedForKey /\ (Shown.lastAuthError \/ ~HasValidData)

NotSyncing == [phase |-> "idle", of |-> [view |-> BadView, account |-> NoShop], seq |-> 0]

DashboardInit ==
  \E s \in ScopeSet :
    LET names == {n \in SlotNames : KeyOf(s, n) # NoKey}
    IN /\ scope = s
       /\ slots = [n \in SlotNames |->
                     IF n \in names
                     THEN [EmptySlot EXCEPT !.seq = 1, !.pendingKey = KeyOf(s, n)]
                     ELSE EmptySlot]
       /\ asked = {[slot |-> n, seq |-> 1, key |-> KeyOf(s, n)] : n \in names}
       /\ syncing = NotSyncing
       /\ selections = 0 /\ syncClicks = 0

\* A filter changes the URL; the effects whose dependencies changed load.
SelectScope(t) ==
  /\ t # scope /\ selections < MaxSelections
  /\ scope' = t
  /\ selections' = selections + 1
  /\ Load(Reloaded(scope, t), t, t)
  /\ UNCHANGED <<syncing, syncClicks>>

AppliedSlot(r, answer) ==
  LET slot == slots[r.slot]
  IN IF answer = "ok"
     THEN [slot EXCEPT !.dataKey = r.key, !.dataSeq = r.seq, !.pendingKey = NoKey,
                       !.lastKey = r.key, !.lastFailed = FALSE, !.lastAuthError = FALSE]
     ELSE [slot EXCEPT !.pendingKey = NoKey, !.lastKey = r.key, !.lastFailed = TRUE,
                       !.lastAuthError = (answer = "unauthorized")]
\* Mutant of Current: the pending key stands in for the number.
SameKeyCounts(r) == slots[r.slot].pendingKey = r.key
Current(r) == slots[r.slot].seq = r.seq

\* An answer arrives; the synchronisation that waited for it ends.
AnswerArrives(r, answer) ==
  /\ r \in asked
  /\ asked' = asked \ {r}
  /\ slots' = IF Current(r) THEN [slots EXCEPT ![r.slot] = AppliedSlot(r, answer)] ELSE slots
  /\ syncing' = IF /\ syncing.phase = "reloading"
                   /\ r.slot = ShownSlot(syncing.of) /\ r.seq = syncing.seq
                THEN NotSyncing ELSE syncing
  /\ UNCHANGED <<scope, selections, syncClicks>>

\* Nothing but a spinner or an error is on the page before a first view has loaded.
FirstViewLoaded == slots["scope"].dataKey # NoKey

\* "Tentar novamente" under an error or a stale warning of the current render.
RetryLoad ==
  /\ FirstViewLoaded
  /\ FatalError \/ StaleWarning
  /\ Load({ShownSlot(scope)}, scope, scope)
  /\ UNCHANGED <<scope, syncing, selections, syncClicks>>

\* The error that hides the whole page while no view was ever loaded.
RetryFirstLoad ==
  /\ ~FirstViewLoaded
  /\ KeyOf(scope, "scope") # NoKey
  /\ slots["scope"].lastFailed /\ slots["scope"].lastKey = KeyOf(scope, "scope")
  /\ Load({"scope"}, scope, scope)
  /\ UNCHANGED <<scope, syncing, selections, syncClicks>>

\* handleSync: the button stands beside the data of the scope; its closure keeps that scope.
SyncNow ==
  /\ FirstViewLoaded /\ HasValidData
  /\ syncing.phase = "idle" /\ syncClicks < MaxSyncClicks
  /\ syncing' = [phase |-> "posting", of |-> scope, seq |-> 0]
  /\ syncClicks' = syncClicks + 1
  /\ UNCHANGED <<scope, slots, asked, selections>>

SyncFails ==
  /\ syncing.phase = "posting"
  /\ syncing' = NotSyncing
  /\ UNCHANGED <<scope, slots, asked, selections, syncClicks>>

SyncSucceeds ==
  LET n == ShownSlot(syncing.of)
  IN /\ syncing.phase = "posting"
     /\ Load({n}, syncing.of, scope)
     /\ syncing' = [syncing EXCEPT !.phase = "reloading", !.seq = slots[n].seq + 1]
     /\ UNCHANGED <<scope, selections, syncClicks>>

DashboardNext ==
  \/ \E t \in ScopeSet : SelectScope(t)
  \/ \E r \in asked, answer \in Answers : AnswerArrives(r, answer)
  \/ RetryLoad
  \/ RetryFirstLoad
  \/ SyncNow
  \/ SyncFails
  \/ SyncSucceeds

\* Every request is answered or fails: the browser gives up on a lost one.
DashboardFairness ==
  /\ WF_dashboardVars(\E r \in asked, answer \in Answers : AnswerArrives(r, answer))
  /\ WF_dashboardVars(SyncFails \/ SyncSucceeds)

DashboardSpec == DashboardInit /\ [][DashboardNext]_dashboardVars /\ DashboardFairness

DashboardTypeOK ==
  /\ scope \in ScopeSet
  /\ slots \in [SlotNames ->
       [seq : 0..MaxLoads, dataSeq : 0..MaxLoads, lastFailed : BOOLEAN, lastAuthError : BOOLEAN,
        taken : BOOLEAN,
        dataKey : ScopeKeys \cup {NoKey}, pendingKey : ScopeKeys \cup {NoKey},
        lastKey : ScopeKeys \cup {NoKey}]]
  /\ asked \subseteq [slot : SlotNames, seq : 1..MaxLoads, key : ScopeKeys]
  /\ syncing \in [phase : {"idle", "posting", "reloading"}, of : ScopeSet, seq : 0..MaxLoads]
  /\ selections \in 0..MaxSelections /\ syncClicks \in 0..MaxSyncClicks

\* Answers are applied in the order their requests were made: the data of a
\* slot never goes back to an older request, whatever order the answers of
\* quickly changed filters arrive in (loadScope, loadAccountScoped).
AnswersInOrder ==
  [][\A n \in SlotNames : slots'[n].dataSeq >= slots[n].dataSeq]_dashboardVars

\* No selection is left loading for ever: the page ends with the data of the
\* selected scope or its error, unless the reload of a synchronisation of
\* another scope took the slot or the filters changed again.
EverySelectionSettles ==
  []<>(ShownKey = NoKey \/ (HasValidData /\ ~Fetching) \/ FatalError \/ Shown.taken)

\* Once the data of the selected scope are on the page, no answer replaces
\* them by the data of another scope while the selection stays (what the
\* comment above the request counters of the page promises).
SelectionKeepsItsData ==
  [][(scope' = scope /\ HasValidData) => HasValidData']_dashboardVars
================================================================================
