------------------------------ MODULE SyncRuns ------------------------------
(***************************************************************************)
(* The synchronisations of one account: the table sync_runs, and the calls *)
(* of syncOrders that run side by side (button, automatic cycle, backfill  *)
(* chunk), for either marketplace.  A statement of                         *)
(* MarketplaceOrdersPersistenceService is one step, and so is a complete   *)
(* fetch with its persistOrders; anything may happen in between.           *)
(***************************************************************************)
EXTENDS CoverageIntervals

CONSTANTS
    Callers,        \* concurrent calls of syncOrders for the account
    Provider,       \* "ML" (Mercado Livre) or "AMAZON"
    InitialDays,    \* computeInitialSyncWindow: 60 days
    OverlapDays,    \* INCREMENTAL_OVERLAP_MS
    ChunkDays,      \* BACKFILL_CHUNK_DAYS
    FloorDays,      \* BACKFILL_SAFETY_FLOOR_YEARS
    SearchBuffer,   \* MIN_SEARCH_BEFORE_BUFFER_MS
    StaleThreshold, \* STALE_RUN_THRESHOLD_MS
    Automatic,      \* MARKETPLACE_AUTO_SYNC_ENABLED
    CustomWindows,  \* periods a user may ask the Amazon endpoint for
    Never,          \* last_successful_sync_at IS NULL
    MaxRuns,        \* bound: rows of the table
    Horizon,        \* bound: instants of the clock, unless a row is RUNNING
    MaxFaults       \* bound: failures and crashes of a behaviour

ASSUME ParametersAssumption ==
    /\ Provider \in {"ML", "AMAZON"}
    /\ {InitialDays, OverlapDays, ChunkDays, FloorDays, SearchBuffer} \subseteq Nat
    /\ {StaleThreshold, MaxRuns, Horizon, MaxFaults} \subseteq Nat
    /\ Automatic \in BOOLEAN
    /\ CustomWindows \subseteq [from : Int, to : Int]
    /\ Never \notin Nat

VARIABLES
    runs,      \* sync_runs of the account, in the order of insertion
    inserted,  \* how many there are
    callers,   \* where each call of syncOrders is
    lastSync,  \* marketplace_accounts.last_successful_sync_at
    custom,    \* history: a period of the user's has been asked for
    now,
    faults     \* failures still allowed

vars == <<runs, inserted, callers, lastSync, custom, now, faults>>

RunIds == 1..MaxRuns

\* "whole" records whether everything the provider has for the window was
\* fetched; the program does not store it.
RunRow ==
    [status : {"ABSENT", "RUNNING", "SUCCESS", "FAILED"}, from : Int, to : Int,
     startedAt : Nat, finishedAt : Nat, whole : BOOLEAN]

AbsentRun ==
    [status |-> "ABSENT", from |-> 0, to |-> 0, startedAt |-> 0, finishedAt |-> 0,
     whole |-> FALSE]

\* planned: has its window; begun: its row is RUNNING; persisted, incomplete:
\* the orders are saved, all or all but the quarantined ones; marking: the row
\* is SUCCESS; failing: in the catch block.
Phases == {"idle", "planned", "begun", "persisted", "incomplete", "marking", "failing"}

Caller == [phase : Phases, from : Int, to : Int, at : Nat, run : RunIds \cup {0}]
IdleCaller == [phase |-> "idle", from |-> 0, to |-> 0, at |-> 0, run |-> 0]

---------------------------------------------------------------------------
(* What the code asks of the state                                         *)

WithStatus(status) == {r \in RunIds : runs[r].status = status}
Running == WithStatus("RUNNING")

WindowOf(r) == Window(runs[r].from, runs[r].to)
Covered == {WindowOf(r) : r \in WithStatus("SUCCESS")}
Intervals == MergeIntervals(Covered)

\* Amazon refuses a search that ends less than two minutes ago.
UpToCutoff(w) ==
    IF Provider = "AMAZON" THEN Window(w.from, Lesser(w.to, now - SearchBuffer)) ELSE w

Stale(r) == runs[r].status = "RUNNING" /\ runs[r].startedAt < now - StaleThreshold

Fault ==
    /\ faults > 0
    /\ faults' = faults - 1

Move(c, phase) == callers' = [callers EXCEPT ![c].phase = phase]
Leave(c) == callers' = [callers EXCEPT ![c] = IdleCaller]

\* Mutant of Written: a failure with saved orders gets a status of its own.
WrittenPartial(r, status) ==
    [runs EXCEPT ![r].status = IF runs[r].whole THEN status ELSE "PARTIAL",
                 ![r].finishedAt = now]

Written(r, status) ==
    [runs EXCEPT ![r].status = status, ![r].finishedAt = now]

RecoveredRuns ==
    [r \in RunIds |-> IF Stale(r) THEN [runs[r] EXCEPT !.status = "FAILED", !.finishedAt = now]
                                  ELSE runs[r]]

---------------------------------------------------------------------------
(* The window of a call                                                    *)

Plan(c, w) ==
    /\ callers[c].phase = "idle"
    /\ callers' = [callers EXCEPT ![c] = [phase |-> "planned", from |-> w.from, to |-> w.to,
                                          at |-> now, run |-> 0]]

\* The button and the automatic cycle.
PlanIncremental(c) ==
    /\ Plan(c, UpToCutoff(IncrementalWindow(Intervals, OverlapDays, InitialDays, now)))
    /\ UNCHANGED <<runs, inserted, lastSync, custom, now, faults>>

\* runNextChunk.
PlanChunk(c) ==
    /\ Covered # {}
    /\ LET w == ChunkWindow(OldestFrom(Covered), ChunkDays) IN
          /\ ~HasReachedSafetyFloor(w.from, FloorDays, now)
          /\ Plan(c, w)
    /\ runs' = RecoveredRuns
    /\ UNCHANGED <<inserted, lastSync, custom, now, faults>>

\* A period of the user's, on Amazon only.
PlanCustom(c) ==
    /\ Provider = "AMAZON"
    /\ \E w \in CustomWindows :
          /\ w.from < UpToCutoff(w).to
          /\ Plan(c, UpToCutoff(w))
    /\ custom' = TRUE
    /\ UNCHANGED <<runs, inserted, lastSync, now, faults>>

---------------------------------------------------------------------------
(* The run of a call                                                       *)

\* The Mercado Livre call took its startedAt before it read the coverage.
NewRun(c) ==
    [status |-> "RUNNING", from |-> callers[c].from, to |-> callers[c].to,
     startedAt |-> IF Provider = "ML" THEN callers[c].at ELSE now,
     finishedAt |-> 0, whole |-> FALSE]

\* beginSyncRun.
BeginRun(c) ==
    /\ callers[c].phase = "planned"
    /\ IF Running # {}
       THEN /\ Leave(c)
            /\ UNCHANGED <<runs, inserted>>
       ELSE /\ inserted < MaxRuns
            /\ inserted' = inserted + 1
            /\ runs' = [runs EXCEPT ![inserted + 1] = NewRun(c)]
            /\ callers' = [callers EXCEPT ![c].phase = "begun", ![c].run = inserted + 1]
    /\ UNCHANGED <<lastSync, custom, now, faults>>

\* fetchAllPages and persistOrders, everything received.
FetchAll(c) ==
    /\ callers[c].phase = "begun"
    /\ runs' = [runs EXCEPT ![callers[c].run].whole = TRUE]
    /\ Move(c, "persisted")
    /\ UNCHANGED <<inserted, lastSync, custom, now, faults>>

\* Mutant of AfterPartialFetch: quarantined orders do not stop the run.
AfterPartialFetchIgnored == {"persisted"}

\* Part of the orders is missing: the paging of Mercado Livre stops at its cap
\* or at an empty page and the call goes on; Amazon fails on a truncated
\* paging, and on quarantined orders once the others are saved.
AfterPartialFetch == IF Provider = "ML" THEN {"persisted"} ELSE {"failing", "incomplete"}

FetchPart(c) ==
    /\ Fault
    /\ callers[c].phase = "begun"
    /\ \E phase \in AfterPartialFetch : Move(c, phase)
    /\ UNCHANGED <<runs, inserted, lastSync, custom, now>>

\* No token, a provider error, or a database error of persistOrders.
FetchFails(c) ==
    /\ Fault
    /\ callers[c].phase = "begun"
    /\ Move(c, "failing")
    /\ UNCHANGED <<runs, inserted, lastSync, custom, now>>

---------------------------------------------------------------------------
(* The end of a call.  No finalisation looks at the status it overwrites.  *)

FinalizeSuccess(c) ==
    /\ callers[c].phase = "persisted"
    /\ runs' = Written(callers[c].run, "SUCCESS")
    /\ Move(c, "marking")
    /\ UNCHANGED <<inserted, lastSync, custom, now, faults>>

MarkAccountSynced(c) ==
    /\ callers[c].phase = "marking"
    /\ lastSync' = runs[callers[c].run].finishedAt
    /\ Leave(c)
    /\ UNCHANGED <<runs, inserted, custom, now, faults>>

\* Mutant of FinalizeIncomplete: the call goes on as after a success.
FinalizeIncompleteAndMark(c) ==
    /\ callers[c].phase = "incomplete"
    /\ runs' = Written(callers[c].run, "FAILED")
    /\ Move(c, "marking")
    /\ UNCHANGED <<inserted, lastSync, custom, now, faults>>

FinalizeIncomplete(c) ==
    /\ callers[c].phase = "incomplete"
    /\ runs' = Written(callers[c].run, "FAILED")
    /\ Leave(c)
    /\ UNCHANGED <<inserted, lastSync, custom, now, faults>>

FinalizeFailure(c) ==
    /\ callers[c].phase = "failing"
    /\ runs' = Written(callers[c].run, "FAILED")
    /\ Leave(c)
    /\ UNCHANGED <<inserted, lastSync, custom, now, faults>>

\* Mutant of PhaseAfterThrow: no "finalized" flag.
PhaseAfterThrowUnguarded(phase) ==
    IF phase \in {"persisted", "marking"} THEN "failing" ELSE "idle"

\* When a statement of the end throws: the catch block of Mercado Livre marks
\* the run FAILED; the "finalized" flag of Amazon keeps its own from doing so.
PhaseAfterThrow(phase) ==
    IF Provider = "ML" /\ phase \in {"persisted", "marking"} THEN "failing" ELSE "idle"

\* The statement throws, executed or not.
StatementThrows(c) ==
    LET phase == callers[c].phase
        r == callers[c].run
    IN  /\ Fault
        /\ phase \in {"persisted", "incomplete", "marking", "failing"}
        /\ \/ UNCHANGED <<runs, lastSync>>
           \/ /\ phase = "marking"
              /\ lastSync' = runs[r].finishedAt
              /\ UNCHANGED runs
           \/ /\ phase # "marking"
              /\ runs' = Written(r, IF phase = "persisted" THEN "SUCCESS" ELSE "FAILED")
              /\ UNCHANGED lastSync
        /\ IF PhaseAfterThrow(phase) = "idle" THEN Leave(c) ELSE Move(c, PhaseAfterThrow(phase))
        /\ UNCHANGED <<inserted, custom, now>>

---------------------------------------------------------------------------
(* The environment                                                         *)

Crash(c) ==
    /\ Fault
    /\ callers[c].phase # "idle"
    /\ Leave(c)
    /\ UNCHANGED <<runs, inserted, lastSync, custom, now>>

\* Mutant of RecoverStaleRuns: only rows some living call still works on.
RecoverStaleRunsOfCalls ==
    /\ \E r \in RunIds : Stale(r) /\ \E c \in Callers : callers[c].run = r
    /\ runs' = RecoveredRuns
    /\ UNCHANGED <<inserted, callers, lastSync, custom, now, faults>>

\* The automatic cycle, or next-chunk of any account.
RecoverStaleRuns ==
    /\ \E r \in RunIds : Stale(r)
    /\ runs' = RecoveredRuns
    /\ UNCHANGED <<inserted, callers, lastSync, custom, now, faults>>

Tick ==
    /\ now < Horizon \/ \E r \in Running : ~Stale(r)
    /\ now' = now + 1
    /\ UNCHANGED <<runs, inserted, callers, lastSync, custom, faults>>

---------------------------------------------------------------------------
Init ==
    /\ runs = [r \in RunIds |-> AbsentRun]
    /\ inserted = 0
    /\ callers = [c \in Callers |-> IdleCaller]
    /\ lastSync = Never
    /\ custom = FALSE
    /\ now = 0
    /\ faults = MaxFaults

PlanStep(c) == PlanIncremental(c) \/ PlanChunk(c) \/ PlanCustom(c)

RunStep(c) ==
    \/ BeginRun(c)
    \/ FetchAll(c)
    \/ FinalizeSuccess(c)
    \/ MarkAccountSynced(c)
    \/ FinalizeIncomplete(c)
    \/ FinalizeFailure(c)

FaultStep(c) == FetchPart(c) \/ FetchFails(c) \/ StatementThrows(c) \/ Crash(c)

Next ==
    \/ \E c \in Callers : PlanStep(c) \/ RunStep(c) \/ FaultStep(c)
    \/ RecoverStaleRuns
    \/ Tick

Spec == Init /\ [][Next]_vars

\* A call that has begun goes on (the provider calls time out); the automatic
\* cycle, where it is enabled, recovers stale rows; time passes.
Fairness ==
    /\ \A c \in Callers : WF_vars(RunStep(c))
    /\ WF_vars(Automatic /\ RecoverStaleRuns)
    /\ WF_vars(Tick)

FairSpec == Spec /\ Fairness

---------------------------------------------------------------------------
(* Properties                                                              *)

\* Every variable has its type.
TypeOK ==
    /\ runs \in [RunIds -> RunRow]
    /\ inserted \in 0..MaxRuns
    /\ callers \in [Callers -> Caller]
    /\ lastSync \in Nat \cup {Never}
    /\ custom \in BOOLEAN
    /\ now \in Nat
    /\ faults \in 0..MaxFaults

\* Until a user asks for a period, stale incremental windows, chunks planned
\* from an older coverage, recovered rows and late finishes leave no hole: what
\* an account has synchronised is a single interval, so that backfilling from
\* its start completes it.
CoverageGapless == ~custom => Len(Intervals) <= 1

\* What was once proved to be synchronised stays so: no later failure,
\* recovery or late call takes an instant out of the coverage.
CoverageNeverShrinks ==
    [][\A r \in RunIds : runs[r].status = "SUCCESS" => runs'[r].status = "SUCCESS"]_runs

\* A SUCCESS row proves coverage: everything the provider has for its window
\* was fetched and saved.
SuccessIsWhole == \A r \in WithStatus("SUCCESS") : runs[r].whole

\* The date the account shows as its last successful synchronisation is that
\* of a SUCCESS row, whatever failed, overlapped or was recovered.
LastSyncProven ==
    lastSync # Never => \E r \in WithStatus("SUCCESS") : runs[r].finishedAt = lastSync

\* Where the automatic cycle is enabled, a RUNNING row, which keeps every other
\* synchronisation of the account out, does not last: not after a crash, nor
\* after a failed finalisation.
RunningEnds ==
    Automatic =>
        \A r \in RunIds : runs[r].status = "RUNNING" ~> runs[r].status # "RUNNING"

===========================================================================
