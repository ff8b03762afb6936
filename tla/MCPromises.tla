----------------------------- MODULE MCPromises -----------------------------
(***************************************************************************)
(* The components of MCPlatform once more, on smaller instances and with   *)
(* what must eventually happen, together with the connection of a Mercado  *)
(* Livre account and the synchronisations of one account (MlConnection and *)
(* SyncRuns, whose safety has runs of its own).                            *)
(***************************************************************************)
EXTENDS MCPlatform

CONSTANTS MlUsers, MlJob, MlInstances, MlStarts, MlLostAnswers,
          MlRequests, MlTokens, MlCalls, MlFaults,
          RunCallers, CycleEnabled, NeverSynced, SyncRunsMax, SyncRunFaults

VARIABLES acct, requests, lock, calls, circuit, cron, age, issued, origin, accepted,
          withdrawn,  \* the variable revoked of MlConnection
          budget,
          syncRuns, rowCount, runCallers, lastSync, custom, runClock, runFaults

MlHomes == [c \in MlUsers \cup {MlJob} |-> CHOOSE i \in MlInstances : TRUE]

Ml == INSTANCE MlConnection
      WITH Users <- MlUsers, Job <- MlJob, Instances <- MlInstances, HomeOf <- MlHomes,
           NoCaller <- NoCall, Starts <- MlStarts, LostAnswers <- MlLostAnswers,
           MaxRequests <- MlRequests, MaxTokens <- MlTokens, MaxCalls <- MlCalls,
           MaxFaults <- MlFaults, revoked <- withdrawn

mlVars == <<acct, requests, lock, calls, circuit, cron, age, issued, origin, accepted,
            withdrawn, budget>>

Runs == INSTANCE SyncRuns
        WITH Callers <- RunCallers, Provider <- "AMAZON", InitialDays <- 10, OverlapDays <- 2,
             ChunkDays <- 3, FloorDays <- 20, SearchBuffer <- 1, StaleThreshold <- 1,
             Automatic <- CycleEnabled, CustomWindows <- {}, Never <- NeverSynced,
             MaxRuns <- SyncRunsMax, Horizon <- 0, MaxFaults <- SyncRunFaults,
             runs <- syncRuns, inserted <- rowCount, callers <- runCallers,
             now <- runClock, faults <- runFaults

runVars == <<syncRuns, rowCount, runCallers, lastSync, custom, runClock, runFaults>>

MlAtRest == Ml!Init /\ acct.status = "DISCONNECTED"

PromisesInit == PlatformInit /\ Runs!Init /\ IF part = "ml" THEN Ml!Init ELSE MlAtRest

PromisesNext ==
    \/ PlatformNext /\ UNCHANGED <<mlVars, runVars>>
    \/ part = "ml" /\ Ml!Next /\ UNCHANGED <<platformVars, runVars>>
    \/ part = "runs" /\ Runs!Next /\ UNCHANGED <<platformVars, mlVars>>

\* the fairness of each component, while the behaviour is about it
PromisesFairness ==
    /\ \A c \in Callers : WF_authVars(part = "sessions" /\ ServiceStep(c))
    /\ \A t \in AuthTabs : WF_authVars(part = "sessions" /\ CheckSession(t))
    /\ \A c \in AmzCalls : WF_amzVars(part = "amazon" /\ AmzCallStep(c))
    /\ \A t \in Writers : WF_storeVars(part = "store" /\ WriterStep(t))
    /\ WF_fetchVars(part = "fetch" /\ FetchNext)
    /\ \A i \in CycleInstances : WF_cycleVars(part = "cycle" /\ CycleStep(i))
    /\ \A a \in SyncedAccounts : WF_cycleVars(part = "cycle" /\ RowGrowsStale(a))
    /\ WF_batchVars(part = "batch" /\ TakeBatch)
    /\ WF_batchVars(part = "batch" /\ RenewNext)
    /\ WF_dashboardVars(part = "dashboard"
                        /\ \E r \in asked, given \in Answers : AnswerArrives(r, given))
    /\ WF_dashboardVars(part = "dashboard" /\ (SyncFails \/ SyncSucceeds))
    /\ WF_syncPageVars(part = "panels" /\ PollFires)
    /\ \A a \in PanelAccounts :
          /\ WF_syncPageVars(part = "panels" /\ StatusIsRead(a))
          /\ WF_syncPageVars(part = "panels" /\ \E view \in reads[a] : StatusArrives(a, view))
          /\ WF_syncPageVars(part = "panels" /\ (BackendServes(a) \/ ActionArrives(a)))
          /\ WF_syncPageVars(part = "panels" /\ WorkerWorks(a))
    /\ WF_syncBatchVars(part = "all_rows" /\ (RowAnswers("SUCCESS") \/ RowAnswers("FAILED")))
    /\ \A c \in Ml!Callers : WF_mlVars(part = "ml" /\ Ml!CallStep(c))
    /\ WF_mlVars(part = "ml" /\ Ml!CleanUp)
    /\ WF_mlVars(part = "ml" /\ Ml!RenewDueAccount)
    /\ WF_mlVars(part = "ml" /\ Ml!RetryDue)
    /\ \A i \in MlInstances : WF_mlVars(part = "ml" /\ Ml!CircuitCools(i))
    /\ \A r \in Ml!Requests : WF_mlVars(part = "ml" /\ Ml!AttemptIsLate(r))
    /\ \A c \in RunCallers : WF_runVars(part = "runs" /\ Runs!RunStep(c))
    /\ WF_runVars(part = "runs" /\ CycleEnabled /\ Runs!RecoverStaleRuns)
    /\ WF_runVars(part = "runs" /\ Runs!Tick)

PromisesSpec ==
    PromisesInit /\ [][PromisesNext]_<<platformVars, mlVars, runVars>> /\ PromisesFairness

-----------------------------------------------------------------------------
(* Whatever begins comes to an end: the check of the session, the calls to *)
(* Amazon, the lots of orders, the fetches of a run, the attempts to       *)
(* connect an account and, where the cycle is enabled, the RUNNING rows of *)
(* an account, also after crashes, lost answers and stalls.                *)
CallsEnd ==
    /\ EveryCheckSettles /\ AmazonCallsEnd /\ LotsEnd /\ FetchEnds
    /\ Ml!AttemptsEnd /\ Runs!RunningEnds

(* Nothing that is due is forgotten: no account by the cycle, no token by  *)
(* the renewals of either kind, no row by the button for all accounts, no  *)
(* selection of the dashboard and no panel of the synchronisations.        *)
NobodyIsLeftOut ==
    /\ EveryAccountIsSynced /\ EveryDueAccountIsRenewed /\ Ml!RenewalHappens
    /\ BatchReachesEveryRow /\ EverySelectionSettles /\ EveryPanelIsRight
=============================================================================
