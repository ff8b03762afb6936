------------------------------ MODULE AutoSync ------------------------------
(***************************************************************************)
(* The automatic synchronisation: the timer of each instance, the running  *)
(* flag, the lock of the cycle and the loop over the accounts of           *)
(* marketplace-auto-sync.service.ts.  A synchronisation itself is SyncRuns;*)
(* here it begins unless the account has a RUNNING row, ends in any way,   *)
(* or is left behind by a crash.                                           *)
(***************************************************************************)
EXTENDS Naturals, FiniteSets

CONSTANTS
    CycleInstances,   \* instances of the backend
    SyncedAccounts,
    NoInstance,
    MaxCycleFaults    \* bound: crashes, broken lock connections, failing queries

ASSUME CycleAssumption ==
    /\ NoInstance \notin CycleInstances
    /\ MaxCycleFaults \in Nat

VARIABLES
    cycle,        \* the cycle of each instance
    cycleLock,    \* holder of the advisory lock of the cycle
    runningRow,   \* per account: who owns its RUNNING row
    linked,       \* accounts that are CONNECTED
    cycleFaults

cycleVars == <<cycle, cycleLock, runningRow, linked, cycleFaults>>

\* "orphan": the row of a process that died; "stale": an orphan older than
\* STALE_RUN_THRESHOLD_MS
RowOwners == CycleInstances \cup {NoInstance, "orphan", "stale"}

\* phase is "off" where the cycle is disabled by the configuration, "idle"
\* exactly while the flag running is false; todo: eligible
\* accounts not yet reached; at: the account whose synchronisation is awaited
Cycle ==
    [phase : {"off", "idle", "recovering", "locking", "listing", "looping", "syncing", "releasing"},
     todo : SUBSET SyncedAccounts, at : SUBSET SyncedAccounts]

NoCycle == [phase |-> "idle", todo |-> {}, at |-> {}]
Disabled == [NoCycle EXCEPT !.phase = "off"]

\* Every variable of the cycle keeps its type.
CycleTypeOK ==
    /\ cycle \in [CycleInstances -> Cycle]
    /\ cycleLock \in CycleInstances \cup {NoInstance}
    /\ runningRow \in [SyncedAccounts -> RowOwners]
    /\ linked \in SUBSET SyncedAccounts
    /\ cycleFaults \in 0..MaxCycleFaults

\* onModuleInit: an instance where the cycle is not enabled sets no timer
CycleInit ==
    /\ cycle \in [CycleInstances -> {NoCycle, Disabled}]
    /\ cycleLock = NoInstance
    /\ runningRow = [a \in SyncedAccounts |-> NoInstance]
    /\ linked = SyncedAccounts
    /\ cycleFaults = 0

Enter(i, phase) == cycle' = [cycle EXCEPT ![i].phase = phase]
EndCycle(i) == cycle' = [cycle EXCEPT ![i] = NoCycle]
CycleFault == cycleFaults < MaxCycleFaults /\ cycleFaults' = cycleFaults + 1

\* setInterval calls runCycle; while running is set the call returns at once
TimerFires(i) ==
    /\ cycle[i].phase = "idle"
    /\ Enter(i, "recovering")
    /\ UNCHANGED <<cycleLock, runningRow, linked, cycleFaults>>

RecoverStale(i) ==
    /\ cycle[i].phase = "recovering"
    /\ runningRow' = [a \in SyncedAccounts |->
           IF runningRow[a] = "stale" THEN NoInstance ELSE runningRow[a]]
    /\ Enter(i, "locking")
    /\ UNCHANGED <<cycleLock, linked, cycleFaults>>

\* Mutant of CycleLockFree: the lock of the cycle is not waited for.
CycleLockIgnored == TRUE
CycleLockFree == cycleLock = NoInstance

\* tryAcquire
AcquireCycleLock(i) ==
    /\ cycle[i].phase = "locking"
    /\ CycleLockFree
    /\ cycleLock' = i
    /\ Enter(i, "listing")
    /\ UNCHANGED <<runningRow, linked, cycleFaults>>

SkipCycle(i) ==
    /\ cycle[i].phase = "locking"
    /\ ~CycleLockFree
    /\ EndCycle(i)
    /\ UNCHANGED <<cycleLock, runningRow, linked, cycleFaults>>

\* findAll, then the filter on CONNECTED
ListAccounts(i) ==
    /\ cycle[i].phase = "listing"
    /\ cycle' = [cycle EXCEPT ![i].phase = "looping", ![i].todo = linked]
    /\ UNCHANGED <<cycleLock, runningRow, linked, cycleFaults>>

\* syncOneAccount: the service refuses an account that is no longer connected
\* or has a RUNNING row, and the error is caught
BeginAccount(i, a) ==
    /\ cycle[i].phase = "looping" /\ a \in cycle[i].todo
    /\ IF a \in linked /\ runningRow[a] = NoInstance
       THEN /\ runningRow' = [runningRow EXCEPT ![a] = i]
            /\ cycle' = [cycle EXCEPT ![i].phase = "syncing", ![i].todo = @ \ {a},
                                      ![i].at = {a}]
       ELSE /\ cycle' = [cycle EXCEPT ![i].todo = @ \ {a}]
            /\ UNCHANGED runningRow
    /\ UNCHANGED <<cycleLock, linked, cycleFaults>>

\* Mutant of AfterAccount: a synchronisation that fails ends the cycle.
AfterAccountSuccess(failed) == IF failed THEN "releasing" ELSE "looping"

\* what follows a synchronisation, whether it threw or not: the catch block
AfterAccount(failed) == "looping"

EndAccount(i) ==
    /\ cycle[i].phase = "syncing"
    /\ \E failed \in BOOLEAN :
           cycle' = [cycle EXCEPT ![i].phase = AfterAccount(failed), ![i].at = {}]
    /\ runningRow' = [a \in SyncedAccounts |->
           IF a \in cycle[i].at /\ runningRow[a] = i THEN NoInstance ELSE runningRow[a]]
    /\ UNCHANGED <<cycleLock, linked, cycleFaults>>

EndLoop(i) ==
    /\ cycle[i].phase = "looping" /\ cycle[i].todo = {}
    /\ Enter(i, "releasing")
    /\ UNCHANGED <<cycleLock, runningRow, linked, cycleFaults>>

\* the two finally blocks
ReleaseCycleLock(i) ==
    /\ cycle[i].phase = "releasing"
    /\ cycleLock' = IF cycleLock = i THEN NoInstance ELSE cycleLock
    /\ EndCycle(i)
    /\ UNCHANGED <<runningRow, linked, cycleFaults>>

-----------------------------------------------------------------------------
(* Failures and the world around.                                          *)

\* recoverStaleRunningRuns, tryAcquire or findAll throws
QueryFails(i) ==
    /\ cycle[i].phase \in {"recovering", "locking", "listing"}
    /\ CycleFault
    /\ IF cycle[i].phase = "listing" THEN Enter(i, "releasing") ELSE EndCycle(i)
    /\ UNCHANGED <<cycleLock, runningRow, linked>>

CycleLockLost ==
    /\ cycleLock # NoInstance
    /\ CycleFault
    /\ cycleLock' = NoInstance
    /\ UNCHANGED <<cycle, runningRow, linked>>

InstanceCrashes(i) ==
    /\ cycle[i].phase \notin {"off", "idle"}
    /\ CycleFault
    /\ EndCycle(i)
    /\ cycleLock' = IF cycleLock = i THEN NoInstance ELSE cycleLock
    /\ runningRow' = [a \in SyncedAccounts |->
           IF runningRow[a] = i THEN "orphan" ELSE runningRow[a]]
    /\ UNCHANGED linked

RowGrowsStale(a) ==
    /\ runningRow[a] = "orphan"
    /\ runningRow' = [runningRow EXCEPT ![a] = "stale"]
    /\ UNCHANGED <<cycle, cycleLock, linked, cycleFaults>>

\* the connection of an account ends, or its seller reconnects it
LinkChanges(a) ==
    /\ linked' = IF a \in linked THEN linked \ {a} ELSE linked \cup {a}
    /\ UNCHANGED <<cycle, cycleLock, runningRow, cycleFaults>>

CycleStep(i) ==
    \/ TimerFires(i)
    \/ RecoverStale(i)
    \/ AcquireCycleLock(i)
    \/ SkipCycle(i)
    \/ ListAccounts(i)
    \/ \E a \in SyncedAccounts : BeginAccount(i, a)
    \/ EndAccount(i)
    \/ EndLoop(i)
    \/ ReleaseCycleLock(i)

CycleNext ==
    \/ \E i \in CycleInstances : CycleStep(i)
    \/ \E i \in CycleInstances : QueryFails(i) \/ InstanceCrashes(i)
    \/ CycleLockLost
    \/ \E a \in SyncedAccounts : RowGrowsStale(a) \/ LinkChanges(a)

\* the timer keeps firing, a synchronisation ends (its requests time out), and
\* time passes
CycleFairness ==
    /\ \A i \in CycleInstances : WF_cycleVars(CycleStep(i))
    /\ \A a \in SyncedAccounts : WF_cycleVars(RowGrowsStale(a))

CycleSpec == CycleInit /\ [][CycleNext]_cycleVars

-----------------------------------------------------------------------------
(* Accounts are synchronised one at a time, however many instances run the *)
(* cycle, as long as no connection that holds the lock breaks              *)
(* (comment at marketplace-auto-sync.service.ts:33-43).                    *)
OneCycleAtATime ==
    cycleFaults = 0 =>
        Cardinality({i \in CycleInstances : cycle[i].phase = "syncing"}) <= 1

(* The cycle is typed, and one at a time.                                  *)
CycleInv == CycleTypeOK /\ OneCycleAtATime

(* Where the cycle is enabled, an account that stays connected is          *)
(* synchronised again and again: not                                       *)
(* the failure of another account, a crash in the middle of its own        *)
(* synchronisation, nor a second instance keeps the cycle from it.         *)
EveryAccountIsSynced ==
    \A a \in SyncedAccounts :
        []<>(\/ a \notin linked
             \/ runningRow[a] \in CycleInstances
             \/ \A i \in CycleInstances : cycle[i] = Disabled)
=============================================================================
