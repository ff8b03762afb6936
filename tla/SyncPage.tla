-------------------------------- MODULE SyncPage --------------------------------
(***************************************************************************)
(* The page "Sincronizações": the panel of the history job of each         *)
(* Mercado Livre account, which follows the job of the backend by polling  *)
(* while it shows one that is active, the clicks on start, pause and       *)
(* resume, and the button that starts the job of every account.  The       *)
(* backend is its job table seen through the status endpoint: a request is *)
(* read at one moment and answered at a later one.                         *)
(***************************************************************************)
EXTENDS Naturals, FiniteSets

CONSTANTS PanelAccounts,  \* connected Mercado Livre accounts
          MaxReads,       \* bound: requests and answers of an account on the way
          MaxClicks,      \* bound: clicks on the panels
          MaxChunks,      \* bound: chunks the worker runs
          MaxPageFaults   \* bound: requests that fail

ASSUME SyncPageAssumption == {MaxReads, MaxClicks, MaxChunks, MaxPageFaults} \subseteq Nat

VARIABLES job,        \* the newest job of each account at the backend
          shown,      \* backfillStatuses: the job each panel shows
          loadErrors, \* backfillLoadErrors: the panel shows an error in its place
          reads,      \* status requests and their answers on the way
          action,     \* backfillActionPendingRef: the click being served
          outdated,   \* history: a lost answer or an overtaken one was shown last
          clicks, chunks, pageFaults

syncPageVars == <<job, shown, loadErrors, reads, action, outdated, clicks, chunks, pageFaults>>

NoJob == [status |-> "NONE", pauseRequested |-> FALSE]
Unloaded == [status |-> "UNLOADED", pauseRequested |-> FALSE]
Unread == [status |-> "UNREAD", pauseRequested |-> FALSE]
Failure == [status |-> "FAILURE", pauseRequested |-> FALSE]
JobStatuses == {"NONE", "QUEUED", "RUNNING", "RETRY_WAIT", "PAUSED", "FAILED",
                "SAFETY_LIMIT_REACHED"}
JobViews == [status : JobStatuses, pauseRequested : BOOLEAN]
\* "all": begun by the button for all accounts, which awaits its answer
NoClick == [kind |-> "none", answer |-> Unread, all |-> FALSE]

ActiveJobStatuses == {"QUEUED", "RUNNING", "RETRY_WAIT"}
ShownActive(view) == view.status \in ActiveJobStatuses
\* anyJobActive: whether the interval of the polling exists
AnyJobActive(views) == \E a \in PanelAccounts : ShownActive(views[a])

PageFault == pageFaults < MaxPageFaults /\ pageFaults' = pageFaults + 1

SyncPageInit ==
  /\ job \in [PanelAccounts -> {NoJob, [status |-> "QUEUED", pauseRequested |-> FALSE]}]
  /\ shown = [a \in PanelAccounts |-> Unloaded]
  /\ loadErrors = [a \in PanelAccounts |-> FALSE]
  /\ reads = [a \in PanelAccounts |-> {Unread}]
  /\ action = [a \in PanelAccounts |-> NoClick]
  /\ outdated = [a \in PanelAccounts |-> FALSE]
  /\ clicks = 0 /\ chunks = 0 /\ pageFaults = 0

------------------------------------------------------------------------------
(* The polling *)

\* The interval asks for every account; equal requests on the way count once.
PollFires ==
  /\ AnyJobActive(shown)
  /\ reads' = [a \in PanelAccounts |->
       IF Cardinality(reads[a]) < MaxReads THEN reads[a] \cup {Unread} ELSE reads[a]]
  /\ UNCHANGED <<job, shown, loadErrors, action, outdated, clicks, chunks, pageFaults>>

StatusIsRead(a) ==
  /\ Unread \in reads[a]
  /\ reads' = [reads EXCEPT ![a] = (@ \ {Unread}) \cup {job[a]}]
  /\ UNCHANGED <<job, shown, loadErrors, action, outdated, clicks, chunks, pageFaults>>

\* loadBackfillStatus: the newest to arrive is shown
StatusArrives(a, view) ==
  /\ view \in reads[a] \ {Unread}
  /\ reads' = [reads EXCEPT ![a] = @ \ {view}]
  /\ shown' = [shown EXCEPT ![a] = view]
  /\ loadErrors' = [loadErrors EXCEPT ![a] = FALSE]
  /\ outdated' = [outdated EXCEPT ![a] = (view # job[a] /\ ~ShownActive(view))]
  /\ UNCHANGED <<job, action, clicks, chunks, pageFaults>>

\* the panel shows an error; the status it has, and the polling, stay
StatusFails(a) ==
  /\ reads[a] # {}
  /\ PageFault
  /\ \E view \in reads[a] : reads' = [reads EXCEPT ![a] = @ \ {view}]
  /\ loadErrors' = [loadErrors EXCEPT ![a] = TRUE]
  /\ UNCHANGED <<job, shown, action, outdated, clicks, chunks>>

------------------------------------------------------------------------------
(* The buttons *)

Offers(view, kind) ==
  CASE kind = "start" -> view.status \in {"NONE", "FAILED"}
    [] kind = "pause" -> ShownActive(view) /\ ~view.pauseRequested
    [] kind = "resume" -> view.status \in {"PAUSED", "FAILED"}

\* runningAllBackfill: every button is disabled
RunningAll == \E a \in PanelAccounts : action[a].all

\* runBackfillAction: nothing while an action of the account is pending
Clicked(a, kind, all) ==
  IF action[a] = NoClick THEN [kind |-> kind, answer |-> Unread, all |-> all] ELSE action[a]

ClickPanel(a, kind) ==
  /\ ~RunningAll /\ ~loadErrors[a]
  /\ Offers(shown[a], kind) /\ action[a] = NoClick
  /\ clicks < MaxClicks /\ clicks' = clicks + 1
  /\ action' = [action EXCEPT ![a] = Clicked(a, kind, FALSE)]
  /\ UNCHANGED <<job, shown, loadErrors, reads, outdated, chunks, pageFaults>>

\* handleCompleteAllHistory: starts every account, whatever its panel shows
CompleteAllHistory ==
  /\ Cardinality(PanelAccounts) > 1
  /\ ~RunningAll
  /\ clicks < MaxClicks /\ clicks' = clicks + 1
  /\ action' = [a \in PanelAccounts |-> Clicked(a, "start", TRUE)]
  /\ UNCHANGED <<job, shown, loadErrors, reads, outdated, chunks, pageFaults>>

Stopped == {"NONE", "FAILED", "SAFETY_LIMIT_REACHED"}
\* startBackfill, requestPause and resumeJob of the backend
After(view, kind) ==
  CASE kind = "start" /\ view.status \in Stopped -> [status |-> "QUEUED", pauseRequested |-> FALSE]
    [] kind = "pause" /\ view.status \in {"QUEUED", "RETRY_WAIT"} ->
         [status |-> "PAUSED", pauseRequested |-> FALSE]
    [] kind = "pause" /\ view.status = "RUNNING" -> [view EXCEPT !.pauseRequested = TRUE]
    [] kind = "resume" /\ view.status \in {"PAUSED", "FAILED"} ->
         [status |-> "QUEUED", pauseRequested |-> FALSE]
    [] OTHER -> view

BackendServes(a) ==
  /\ action[a].kind # "none" /\ action[a].answer = Unread
  /\ job' = [job EXCEPT ![a] = After(@, action[a].kind)]
  /\ action' = [action EXCEPT ![a].answer = job'[a]]
  /\ UNCHANGED <<shown, loadErrors, reads, outdated, clicks, chunks, pageFaults>>

ActionArrives(a) ==
  /\ action[a].kind # "none" /\ action[a].answer # Unread
  /\ shown' = [shown EXCEPT ![a] = action[a].answer]
  /\ loadErrors' = [loadErrors EXCEPT ![a] = FALSE]
  /\ action' = [action EXCEPT ![a] = NoClick]
  /\ outdated' = [outdated EXCEPT ![a] =
       action[a].answer # job[a] /\ ~ShownActive(action[a].answer)]
  /\ UNCHANGED <<job, reads, clicks, chunks, pageFaults>>

\* the request, or the answer to a request that was served, is lost
ActionFails(a) ==
  /\ action[a].kind # "none"
  /\ PageFault
  /\ action' = [action EXCEPT ![a] = NoClick]
  /\ outdated' = [outdated EXCEPT ![a] = @ \/ (shown[a] # job[a] /\ ~ShownActive(shown[a]))]
  /\ UNCHANGED <<job, shown, loadErrors, reads, clicks, chunks>>

------------------------------------------------------------------------------
(* The worker of the backend *)

WorkerTakes(a) ==
  /\ job[a].status \in {"QUEUED", "RETRY_WAIT"}
  /\ job' = [job EXCEPT ![a].status = "RUNNING"]
  /\ UNCHANGED <<shown, loadErrors, reads, action, outdated, clicks, chunks, pageFaults>>

WorkerReturns(a) ==
  /\ job[a].status = "RUNNING"
  /\ \/ /\ job[a].pauseRequested
        /\ job' = [job EXCEPT ![a] = [status |-> "PAUSED", pauseRequested |-> FALSE]]
        /\ UNCHANGED chunks
     \/ /\ \E s \in {"QUEUED", "RETRY_WAIT"} : job' = [job EXCEPT ![a].status = s]
        /\ chunks < MaxChunks
        /\ chunks' = chunks + 1
     \/ /\ \E s \in {"FAILED", "SAFETY_LIMIT_REACHED"} :
             job' = [job EXCEPT ![a] = [status |-> s, pauseRequested |-> FALSE]]
        /\ UNCHANGED chunks
  /\ UNCHANGED <<shown, loadErrors, reads, action, outdated, clicks, pageFaults>>

------------------------------------------------------------------------------
PanelStep(a) ==
  \/ StatusIsRead(a)
  \/ \E view \in reads[a] : StatusArrives(a, view)
  \/ BackendServes(a)
  \/ ActionArrives(a)
WorkerWorks(a) == WorkerTakes(a) \/ WorkerReturns(a)

SyncPageNext ==
  \/ PollFires
  \/ \E a \in PanelAccounts : PanelStep(a)
  \/ \E a \in PanelAccounts : StatusFails(a)
  \/ \E a \in PanelAccounts, kind \in {"start", "pause", "resume"} : ClickPanel(a, kind)
  \/ CompleteAllHistory
  \/ \E a \in PanelAccounts : ActionFails(a)
  \/ \E a \in PanelAccounts : WorkerWorks(a)

\* The interval fires, requests are answered, and the worker runs its jobs
\* (BackfillJobs shows that every job stops); nobody has to click.
SyncPageFairness ==
  /\ WF_syncPageVars(PollFires)
  /\ \A a \in PanelAccounts :
       /\ WF_syncPageVars(StatusIsRead(a))
       /\ WF_syncPageVars(\E view \in reads[a] : StatusArrives(a, view))
       /\ WF_syncPageVars(BackendServes(a) \/ ActionArrives(a))
       /\ WF_syncPageVars(WorkerWorks(a))

SyncPageSpec == SyncPageInit /\ [][SyncPageNext]_syncPageVars /\ SyncPageFairness

SyncPageTypeOK ==
  /\ job \in [PanelAccounts -> JobViews]
  /\ shown \in [PanelAccounts -> JobViews \cup {Unloaded}]
  /\ \A a \in PanelAccounts : reads[a] \subseteq JobViews \cup {Unread}
  /\ \A a \in PanelAccounts :
       /\ action[a].kind \in {"none", "start", "pause", "resume"}
       /\ action[a].answer \in JobViews \cup {Unread}
       /\ action[a].all \in BOOLEAN
  /\ loadErrors \in [PanelAccounts -> BOOLEAN]
  /\ outdated \in [PanelAccounts -> BOOLEAN]
  /\ clicks \in 0..MaxClicks /\ chunks \in 0..MaxChunks /\ pageFaults \in 0..MaxPageFaults

\* A panel comes to show the job as it is at the backend: polling goes on while
\* the job of some account is shown active, however requests fail or answers
\* cross, and replaces the error of a failed request; unless an answer was lost
\* or an old status arrived last, or the polling was over when a request failed.
EveryPanelIsRight ==
  \A a \in PanelAccounts :
    []<>(\/ shown[a] = job[a] /\ ~loadErrors[a]
         \/ outdated[a]
         \/ loadErrors[a] /\ ~AnyJobActive(shown))
================================================================================
