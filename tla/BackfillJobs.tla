--------------------------- MODULE BackfillJobs ---------------------------
(***************************************************************************)
(* The durable history backfill: the table marketplace_backfill_jobs, the  *)
(* backend instances whose workers claim its rows and process one chunk    *)
(* per claim, and the users who start, pause and resume a job.             *)
(*                                                                         *)
(* A statement of BackfillJobsPersistenceService is one atomic step; what  *)
(* happens between two statements (the provider calls of runNextChunk, the *)
(* gap between the count and the claim of a tick) may interleave with      *)
(* everything else.  Of sync_runs only what the job depends on is kept:    *)
(* the RUNNING row of the account (at most one, by the unique index) and   *)
(* how far back its SUCCESS rows reach, in chunks above the safety floor.  *)
(***************************************************************************)
EXTENDS Integers, FiniteSets

CONSTANTS
    Accounts,          \* marketplace accounts
    Workers,           \* backend instances, one MarketplaceBackfillWorkerService each
    Other,             \* whoever runs a sync outside the worker (button, cycle, next-chunk)
    None,              \* SQL NULL
    Markets,           \* marketplaces the accounts may belong to
    MaxConcurrentJobs, \* BACKFILL_WORKER_MAX_CONCURRENT_JOBS
    LeaseMs,           \* BACKFILL_WORKER_LEASE_MS, in ticks of the model's clock
    MaxAttempts,       \* BACKFILL_WORKER_MAX_ATTEMPTS
    RetryBaseMs, RetryMaxMs, RequeueDelayMs, RateLimitBackoffMs,
    StaleRunThreshold, \* STALE_RUN_THRESHOLD_MS
    FloorDistance,     \* chunks between the first synchronisation and the safety floor
    MaxJobs,           \* bound: rows of the table
    MaxDisturbances    \* bound: clicks, crashes, failures and slow chunks of a behaviour

ASSUME ConfigAssumption ==
    /\ Markets \subseteq {"ML", "AMAZON"}
    /\ MaxConcurrentJobs \in Nat \ {0}
    /\ LeaseMs \in Nat
    /\ MaxAttempts \in Nat \ {0}
    /\ RetryBaseMs \in Nat
    /\ RetryMaxMs \in Nat
    /\ RequeueDelayMs \in Nat
    /\ RateLimitBackoffMs \in Nat
    /\ StaleRunThreshold \in Nat
    /\ FloorDistance \in Nat
    /\ MaxJobs \in Nat
    /\ MaxDisturbances \in Nat

ASSUME NamesAssumption ==
    /\ None \notin Accounts \cup Workers
    /\ Other \notin Workers \cup {None}

VARIABLES
    jobs,          \* marketplace_backfill_jobs, rows numbered in the order of created_at
    created,       \* how many rows have been inserted
    phase,         \* where each worker is in runTickOnce
    headroom,      \* the headroom each worker computed in its current tick
    tasks,         \* tasks[w][j]: the processClaimedJob of worker w for row j
    run,           \* the RUNNING sync_runs row of each account
    oldest,        \* chunks left below the oldest SUCCESS row whose call is over
    outside,       \* the synchronisation of each account outside the workers
    market,        \* account.marketplace
    connected,     \* account.status = CONNECTED
    now,           \* the clock of Postgres and of the instances
    disturbances   \* disturbances still allowed

tableVars == <<jobs, created>>
workerVars == <<phase, headroom, tasks>>
runVars == <<run, oldest, outside, market>>
accountVars == <<runVars, connected>>
vars == <<tableVars, workerVars, accountVars, now, disturbances>>

---------------------------------------------------------------------------
(* Values                                                                  *)

JobIds == 1..MaxJobs
Active == {"QUEUED", "RUNNING", "RETRY_WAIT", "PAUSED"}
Waiting == {"QUEUED", "RETRY_WAIT"}
Stopped == {"PAUSED", "FAILED", "SAFETY_LIMIT_REACHED"}
Statuses == Active \cup {"FAILED", "SAFETY_LIMIT_REACHED"}

\* The classes of ERROR_CLASSIFICATION, which is what the worker tells apart.
ErrorClasses == {"TERMINAL", "REQUEUE", "RATE_LIMITED", "TRANSIENT"}

NoCoverage == FloorDistance + 1  \* coverage.oldestFrom = null
Starts == 0..FloorDistance       \* where a window may begin
Coverages == 0..NoCoverage

JobRow ==
    [account : Accounts \cup {None}, status : Statuses \cup {"ABSENT"},
     chunks : Nat, attempts : Nat, nextAttempt : Nat,
     error : ErrorClasses \cup {None}, pauseRequested : BOOLEAN,
     owner : Workers \cup {None}, leaseExpires : Nat, version : Nat]

AbsentRow ==
    [account |-> None, status |-> "ABSENT", chunks |-> 0, attempts |-> 0,
     nextAttempt |-> 0, error |-> None, pauseRequested |-> FALSE,
     owner |-> None, leaseExpires |-> 0, version |-> 0]

\* A task carries the row its claim returned; "at" is clock.now() at its
\* start and "target" where the window of its chunk begins.  A call is marking
\* from the statement that makes its run a SUCCESS until it returns.
Stages == {"claimed", "planned", "fetching", "marking", "settled"}
Results == ErrorClasses \cup {"MORE", "FLOOR"}
Task ==
    [stage : Stages, job : JobRow, at : Nat, target : Coverages,
     result : Results \cup {None}]
NoTask == [stage |-> "none"]

RunRow == [by : Workers \cup {Other}, since : Nat]
NoRun == [by |-> None]

OutsideCall == [stage : {"planned", "fetching", "marking"}, target : Starts]
NoCall == [stage |-> "none"]

---------------------------------------------------------------------------
(* What the code asks of the state                                         *)

RowsOf(a) == {j \in JobIds : j <= created /\ jobs[j].account = a}
ActiveOf(a) == {j \in RowsOf(a) : jobs[j].status \in Active}
LatestOf(a) == {j \in RowsOf(a) : \A k \in RowsOf(a) : k <= j}

LeaseHeld(row) == row.status = "RUNNING" /\ row.leaseExpires >= now
CurrentlyRunning == {j \in JobIds : LeaseHeld(jobs[j])}

\* Mutants of Claimable: a dead worker's row is never offered again; any due
\* row is offered, whatever its status.
ClaimableOnceOnly(row) == row.status \in Waiting /\ row.nextAttempt <= now
ClaimableWhenDue(row) == row.status \in Active /\ row.nextAttempt <= now

Claimable(row) ==
    \/ row.status \in Waiting /\ row.nextAttempt <= now
    \/ row.status = "RUNNING" /\ row.leaseExpires < now
Eligible == {j \in JobIds : Claimable(jobs[j])}

\* Mutant of IsClaim: the headroom does not reach the claim.
IsClaimOfAll(S, limit) == S = Eligible

\* What LIMIT and ORDER BY next_attempt_at select; ties go either way.
IsClaim(S, limit) ==
    /\ S \subseteq Eligible
    /\ Cardinality(S) <= limit
    /\ S # Eligible => Cardinality(S) = limit
    /\ \A j \in S, k \in Eligible \ S : jobs[j].nextAttempt <= jobs[k].nextAttempt

AccountOf(w, j) == tasks[w][j].job.account

\* SUCCESS rows whose call has not returned: Mercado Livre may still undo them.
MarkedBy(w, a) ==
    {n \in Starts : \E j \in JobIds :
        tasks[w][j].stage = "marking" /\ AccountOf(w, j) = a /\ tasks[w][j].target = n}
MarkedOutside(a) ==
    {n \in Starts : outside[a].stage = "marking" /\ outside[a].target = n}

Lowest(S) == CHOOSE n \in S : \A m \in S : n <= m

\* coverage.oldestFrom of getAccountSyncCoverage
OldestFrom(a) ==
    Lowest({oldest[a]} \cup MarkedOutside(a) \cup UNION {MarkedBy(w, a) : w \in Workers})

InFlight(w) == {j \in JobIds : tasks[w][j] # NoTask}

\* Mutants of HoldsClaim: the lease owner alone, and no condition at all.
HoldsLease(w, j) == tasks[w][j] # NoTask /\ jobs[j].owner = w
HoldsTask(w, j) == tasks[w][j] # NoTask

\* The version and lease_owner condition of commitJobState.
HoldsClaim(w, j) ==
    /\ tasks[w][j] # NoTask
    /\ tasks[w][j].job.version = jobs[j].version
    /\ jobs[j].owner = w

\* One of the bounded number of things the environment may do.
Disturb ==
    /\ disturbances > 0
    /\ disturbances' = disturbances - 1

---------------------------------------------------------------------------
(* The users: startBackfill, pauseBackfill and resumeBackfill              *)

\* Mutant of StartBackfill: without the unique index on active rows.
StartBackfillBeside(a) ==
    /\ Disturb
    /\ connected[a]
    /\ OldestFrom(a) # NoCoverage
    /\ created < MaxJobs
    /\ created' = created + 1
    /\ jobs' = [jobs EXCEPT ![created + 1] =
                   [AbsentRow EXCEPT !.account = a, !.status = "QUEUED", !.nextAttempt = now]]
    /\ UNCHANGED <<workerVars, accountVars, now>>

\* Double starts end in the unique index (BackfillJobActiveConflictError)
\* and change nothing.
StartBackfill(a) ==
    /\ Disturb
    /\ connected[a]
    /\ OldestFrom(a) # NoCoverage
    /\ ActiveOf(a) = {}
    /\ created < MaxJobs
    /\ created' = created + 1
    /\ jobs' = [jobs EXCEPT ![created + 1] =
                   [AbsentRow EXCEPT !.account = a, !.status = "QUEUED", !.nextAttempt = now]]
    /\ UNCHANGED <<workerVars, accountVars, now>>

\* Mutant of PausedRow: the pause does not count as a new version.
PausedRowSameVersion(row) ==
    [row EXCEPT !.status = IF @ \in Waiting THEN "PAUSED" ELSE @,
                !.pauseRequested = IF row.status = "RUNNING" THEN TRUE ELSE @]

PausedRow(row) ==
    [row EXCEPT !.status = IF @ \in Waiting THEN "PAUSED" ELSE @,
                !.pauseRequested = IF row.status = "RUNNING" THEN TRUE ELSE @,
                !.version = @ + 1]

RequestPause(a) ==
    /\ Disturb
    /\ ActiveOf(a) # {}
    /\ jobs' = [j \in JobIds |-> IF j \in ActiveOf(a) THEN PausedRow(jobs[j])
                                                       ELSE jobs[j]]
    /\ UNCHANGED <<created, workerVars, accountVars, now>>

ResumedRow(row) ==
    [row EXCEPT !.status = "QUEUED", !.pauseRequested = FALSE, !.attempts = 0,
                !.nextAttempt = now, !.version = @ + 1]

ResumeJob(a) ==
    /\ Disturb
    /\ \E j \in LatestOf(a) :
          /\ jobs[j].status \in {"PAUSED", "FAILED"}
          /\ jobs' = [jobs EXCEPT ![j] = ResumedRow(@)]
    /\ UNCHANGED <<created, workerVars, accountVars, now>>

---------------------------------------------------------------------------
(* A tick of a worker: countCurrentlyRunning, then claimJobs               *)

CountRunning(w) ==
    /\ phase[w] = "idle"
    /\ Cardinality(CurrentlyRunning) < MaxConcurrentJobs
    /\ headroom' = [headroom EXCEPT ![w] = MaxConcurrentJobs - Cardinality(CurrentlyRunning)]
    /\ phase' = [phase EXCEPT ![w] = "counted"]
    /\ UNCHANGED <<tableVars, tasks, accountVars, now, disturbances>>

ClaimedRow(row, w) ==
    [row EXCEPT !.status = "RUNNING", !.owner = w,
                !.leaseExpires = now + LeaseMs, !.version = @ + 1]

ClaimJobs(w) ==
    /\ phase[w] = "counted"
    /\ \E S \in SUBSET Eligible :
          /\ IsClaim(S, headroom[w])
          /\ jobs' = [j \in JobIds |-> IF j \in S THEN ClaimedRow(jobs[j], w) ELSE jobs[j]]
          /\ tasks' = [tasks EXCEPT ![w] =
                 [j \in JobIds |->
                     IF j \in S THEN [stage |-> "claimed", job |-> ClaimedRow(jobs[j], w),
                                      at |-> now, target |-> NoCoverage, result |-> None]
                                ELSE NoTask]]
          /\ phase' = [phase EXCEPT ![w] = IF S = {} THEN "idle" ELSE "working"]
    /\ headroom' = [headroom EXCEPT ![w] = 0]
    /\ UNCHANGED <<created, accountVars, now, disturbances>>

---------------------------------------------------------------------------
(* One chunk: runNextChunk of a claimed job                                *)

\* recoverStaleRunningRuns: whatever has been RUNNING for too long, in every
\* account, is marked FAILED.
RecoveredRuns ==
    [a \in Accounts |-> IF run[a] # NoRun /\ run[a].since < now - StaleRunThreshold
                        THEN NoRun ELSE run[a]]

Settle(w, j, result) ==
    tasks' = [tasks EXCEPT ![w][j].stage = "settled", ![w][j].result = result]

\* Up to the dispatch of the chunk: the checks, and the window from the coverage.
PlanChunk(w, j) ==
    LET a == AccountOf(w, j) IN
    /\ tasks[w][j].stage = "claimed"
    /\ run' = RecoveredRuns
    /\ \/ /\ ~connected[a] \/ OldestFrom(a) = NoCoverage
          /\ Settle(w, j, "TERMINAL")
       \/ /\ connected[a]
          /\ OldestFrom(a) = 0
          /\ Settle(w, j, "FLOOR")
       \/ /\ connected[a]
          /\ OldestFrom(a) \in 1..FloorDistance
          /\ tasks' = [tasks EXCEPT ![w][j].stage = "planned",
                                    ![w][j].target = OldestFrom(a) - 1]
    /\ UNCHANGED <<tableVars, phase, headroom, oldest, outside, market, connected, now, disturbances>>

\* beginSyncRun: a RUNNING row of the account, whoever owns it, is a conflict.
BeginSyncRun(w, j) ==
    LET a == AccountOf(w, j) IN
    /\ tasks[w][j].stage = "planned"
    /\ \/ /\ run[a] # NoRun
          /\ Settle(w, j, "REQUEUE")
          /\ UNCHANGED run
       \/ /\ run[a] = NoRun
          /\ run' = [run EXCEPT ![a] = [by |-> w, since |-> now]]
          /\ tasks' = [tasks EXCEPT ![w][j].stage = "fetching"]
    /\ UNCHANGED <<tableVars, phase, headroom, oldest, outside, market, connected, now, disturbances>>

\* The row a finalisation updates is its own; it may have been recovered as
\* stale meanwhile, and then the account's RUNNING row is another one.
RunEnded(w, a) == IF run[a].by = w THEN [run EXCEPT ![a] = NoRun] ELSE run

LowerOf(m, n) == IF m < n THEN m ELSE n

\* The call that holds a SUCCESS row of the account is over: the row is final.
Reaches(a, n) == oldest' = [oldest EXCEPT ![a] = LowerOf(@, n)]

\* finalizeSyncRunSuccess: the window of the chunk counts as coverage.
FinishChunk(w, j) ==
    /\ tasks[w][j].stage = "fetching"
    /\ run' = RunEnded(w, AccountOf(w, j))
    /\ tasks' = [tasks EXCEPT ![w][j].stage = "marking"]
    /\ UNCHANGED <<tableVars, phase, headroom, oldest, outside, market, connected, now, disturbances>>

\* markAccountSynced, and runNextChunk returns.
ReturnChunk(w, j) ==
    /\ tasks[w][j].stage = "marking"
    /\ Reaches(AccountOf(w, j), tasks[w][j].target)
    /\ Settle(w, j, "MORE")
    /\ UNCHANGED <<tableVars, phase, headroom, run, outside, market, connected, now, disturbances>>

\* The chunk ends in an error, before or after its run began; when the database
\* fails, the run of the chunk stays RUNNING, or is a SUCCESS nobody hears of.
FailChunk(w, j, class) ==
    LET a == AccountOf(w, j) IN
    /\ Disturb
    /\ tasks[w][j].stage \in {"claimed", "planned", "fetching"}
    /\ \/ UNCHANGED <<run, oldest>>
       \/ /\ tasks[w][j].stage = "fetching"
          /\ run' = RunEnded(w, a)
          /\ UNCHANGED oldest \/ Reaches(a, tasks[w][j].target)
    /\ Settle(w, j, class)
    /\ UNCHANGED <<tableVars, phase, headroom, outside, market, connected, now>>

\* Mutant of RowSurvives: Amazon without its "finalized" flag.
RowSurvivesUnflagged(a) == BOOLEAN

\* Whether a SUCCESS row is still one after a later statement of its call threw:
\* the catch block of Mercado Livre marks it FAILED, unless that fails as well.
RowSurvives(a) == IF market[a] = "ML" THEN BOOLEAN ELSE {TRUE}

FailMarking(w, j) ==
    LET a == AccountOf(w, j) IN
    /\ Disturb
    /\ tasks[w][j].stage = "marking"
    /\ \E survives \in RowSurvives(a) :
          IF survives THEN Reaches(a, tasks[w][j].target) ELSE UNCHANGED oldest
    /\ Settle(w, j, "TRANSIENT")
    /\ UNCHANGED <<tableVars, phase, headroom, run, outside, market, connected, now>>

---------------------------------------------------------------------------
(* The end of processClaimedJob: what the row becomes                      *)

\* Math.min(retryMaxMs, retryBaseMs * 2 ** (n - 1))
ExponentialDelay(n) ==
    LET d == RetryBaseMs * 2^(n - 1) IN IF d \in 0..RetryMaxMs THEN d ELSE RetryMaxMs

RetryDelay(class, n) ==
    IF class = "RATE_LIMITED" THEN RateLimitBackoffMs ELSE ExponentialDelay(n)

\* The fields buildUpdate sets, always with a released lease and no pause flag.
JobUpdate(status, chunks, attempts, nextAttempt, error) ==
    [status |-> status, chunks |-> chunks, attempts |-> attempts,
     nextAttempt |-> nextAttempt, error |-> error]

\* Mutant of SuccessUpdate: the outcome is stored where the error class goes.
SuccessUpdateWithOutcome(t) == JobUpdate("QUEUED", t.job.chunks + 1, 0, t.at, t.result)

SuccessUpdate(t) ==
    JobUpdate(IF t.result = "FLOOR" THEN "SAFETY_LIMIT_REACHED"
              ELSE IF t.job.pauseRequested THEN "PAUSED" ELSE "QUEUED",
              t.job.chunks + 1, 0, t.at, None)

\* Mutant of FailureUpdate: the last attempt that is allowed is not the last.
FailureUpdateOnceMore(t) ==
    LET class == t.result
        n == t.job.attempts + 1
        Failed(status, attempts, delay) ==
            JobUpdate(status, t.job.chunks, attempts, t.at + delay, class)
    IN  IF class = "TERMINAL" \/ n > MaxAttempts THEN Failed("FAILED", n, 0)
        ELSE IF t.job.pauseRequested THEN Failed("PAUSED", t.job.attempts, 0)
        ELSE Failed("RETRY_WAIT", n, RetryDelay(class, n))

FailureUpdate(t) ==
    LET class == t.result
        n == t.job.attempts + 1
        Failed(status, attempts, delay) ==
            JobUpdate(status, t.job.chunks, attempts, t.at + delay, class)
    IN  IF class = "TERMINAL" THEN Failed("FAILED", n, 0)
        ELSE IF t.job.pauseRequested THEN Failed("PAUSED", t.job.attempts, 0)
        ELSE IF class = "REQUEUE" THEN Failed("RETRY_WAIT", t.job.attempts, RequeueDelayMs)
        ELSE IF n >= MaxAttempts THEN Failed("FAILED", n, 0)
        ELSE Failed("RETRY_WAIT", n, RetryDelay(class, n))

UpdateOf(t) == IF t.result \in ErrorClasses THEN FailureUpdate(t) ELSE SuccessUpdate(t)

\* Mutant of CommittedRow: the lease is not released.
CommittedRowStillLeased(row, u) ==
    [row EXCEPT !.status = u.status, !.chunks = u.chunks, !.attempts = u.attempts,
                !.nextAttempt = u.nextAttempt, !.error = u.error,
                !.pauseRequested = FALSE, !.version = @ + 1]

CommittedRow(row, u) ==
    [row EXCEPT !.status = u.status, !.chunks = u.chunks, !.attempts = u.attempts,
                !.nextAttempt = u.nextAttempt, !.error = u.error,
                !.pauseRequested = FALSE, !.owner = None, !.leaseExpires = 0,
                !.version = @ + 1]

\* The task is over; the tick is over when its last task is (allSettled).
EndTask(w, j) ==
    /\ tasks' = [tasks EXCEPT ![w][j] = NoTask]
    /\ phase' = [phase EXCEPT ![w] = IF InFlight(w) = {j} THEN "idle" ELSE "working"]

CommitJobState(w, j) ==
    /\ tasks[w][j].stage = "settled"
    /\ jobs' = IF HoldsClaim(w, j)
               THEN [jobs EXCEPT ![j] = CommittedRow(@, UpdateOf(tasks[w][j]))]
               ELSE jobs
    /\ EndTask(w, j)
    /\ UNCHANGED <<created, headroom, accountVars, now, disturbances>>

\* commitJobState throws (database unreachable): allSettled swallows it.
CommitFails(w, j) ==
    /\ Disturb
    /\ tasks[w][j].stage = "settled"
    /\ EndTask(w, j)
    /\ UNCHANGED <<tableVars, headroom, accountVars, now>>

---------------------------------------------------------------------------
(* The environment                                                         *)

\* The process dies and comes back: its memory is lost, its rows stay.
Crash(w) ==
    /\ Disturb
    /\ phase[w] # "idle"
    /\ phase' = [phase EXCEPT ![w] = "idle"]
    /\ headroom' = [headroom EXCEPT ![w] = 0]
    /\ tasks' = [tasks EXCEPT ![w] = [j \in JobIds |-> NoTask]]
    /\ oldest' = [a \in Accounts |-> Lowest({oldest[a]} \cup MarkedBy(w, a))]
    /\ UNCHANGED <<tableVars, run, outside, market, connected, now>>

\* A synchronisation outside the workers, one per account at a time (bound):
\* the button or the automatic cycle, whose window begins within the first
\* one; the next-chunk endpoint; a period of the user's on Amazon, of any time.
PlanOutside(a) ==
    /\ Disturb
    /\ connected[a]
    /\ outside[a] = NoCall
    /\ \E n \in Starts :
          /\ \/ n = FloorDistance /\ UNCHANGED run
             \/ n = OldestFrom(a) - 1 /\ run' = RecoveredRuns
             \/ market[a] = "AMAZON" /\ UNCHANGED run
          /\ outside' = [outside EXCEPT ![a] = [stage |-> "planned", target |-> n]]
    /\ UNCHANGED <<tableVars, workerVars, oldest, market, connected, now>>

BeginOutside(a) ==
    /\ outside[a].stage = "planned"
    /\ IF run[a] # NoRun
       THEN /\ outside' = [outside EXCEPT ![a] = NoCall]
            /\ UNCHANGED run
       ELSE /\ outside' = [outside EXCEPT ![a].stage = "fetching"]
            /\ run' = [run EXCEPT ![a] = [by |-> Other, since |-> now]]
    /\ UNCHANGED <<tableVars, workerVars, oldest, market, connected, now, disturbances>>

\* The run succeeds, it fails, or the process dies and leaves it RUNNING.
FinishOutside(a) ==
    /\ outside[a].stage = "fetching"
    /\ \/ /\ run' = RunEnded(Other, a)
          /\ \/ outside' = [outside EXCEPT ![a].stage = "marking"]
             \/ outside' = [outside EXCEPT ![a] = NoCall]
       \/ /\ UNCHANGED run
          /\ outside' = [outside EXCEPT ![a] = NoCall]
    /\ UNCHANGED <<tableVars, workerVars, oldest, market, connected, now, disturbances>>

\* The call returns or dies, or its last statement throws.
ReturnOutside(a) ==
    /\ outside[a].stage = "marking"
    /\ \/ Reaches(a, outside[a].target)
       \/ FALSE \in RowSurvives(a) /\ UNCHANGED oldest
    /\ outside' = [outside EXCEPT ![a] = NoCall]
    /\ UNCHANGED <<tableVars, workerVars, run, market, connected, now, disturbances>>

\* recoverStaleRunningRuns called by the automatic cycle or by next-chunk.
StaleRunsRecovered ==
    /\ run # RecoveredRuns
    /\ run' = RecoveredRuns
    /\ UNCHANGED <<tableVars, workerVars, oldest, outside, market, connected, now, disturbances>>

ConnectionChanges(a) ==
    /\ Disturb
    /\ connected' = [connected EXCEPT ![a] = ~@]
    /\ UNCHANGED <<tableVars, workerVars, runVars, now>>

\* Time matters as long as some date of the database lies ahead.  A chunk
\* still being processed when its lease runs out is a disturbance.
DeadlineAhead ==
    \/ \E j \in JobIds : LeaseHeld(jobs[j])
    \/ \E j \in JobIds : jobs[j].status \in Waiting /\ jobs[j].nextAttempt > now
    \/ \E a \in Accounts : run[a] # NoRun /\ run[a].since >= now - StaleRunThreshold

SlowChunk == \E w \in Workers, j \in JobIds : HoldsClaim(w, j) /\ jobs[j].leaseExpires = now

Tick ==
    /\ DeadlineAhead
    /\ now' = now + 1
    /\ IF SlowChunk THEN Disturb ELSE UNCHANGED disturbances
    /\ UNCHANGED <<tableVars, workerVars, accountVars>>

---------------------------------------------------------------------------
Init ==
    /\ jobs = [j \in JobIds |-> AbsentRow]
    /\ created = 0
    /\ phase = [w \in Workers |-> "idle"]
    /\ headroom = [w \in Workers |-> 0]
    /\ tasks = [w \in Workers |-> [j \in JobIds |-> NoTask]]
    /\ run = [a \in Accounts |-> NoRun]
    /\ oldest \in [Accounts -> {FloorDistance, NoCoverage}]
    /\ outside = [a \in Accounts |-> NoCall]
    /\ market \in [Accounts -> Markets]
    /\ connected = [a \in Accounts |-> TRUE]
    /\ now = 0
    /\ disturbances = MaxDisturbances

UserStep(a) == StartBackfill(a) \/ RequestPause(a) \/ ResumeJob(a)

ChunkStep(w, j) ==
    \/ PlanChunk(w, j)
    \/ BeginSyncRun(w, j)
    \/ FinishChunk(w, j)
    \/ ReturnChunk(w, j)
    \/ CommitJobState(w, j)

WorkerStep(w) ==
    \/ CountRunning(w)
    \/ ClaimJobs(w)
    \/ \E j \in JobIds : ChunkStep(w, j)

FaultStep(w) ==
    \/ Crash(w)
    \/ \E j \in JobIds : CommitFails(w, j) \/ FailMarking(w, j)
    \/ \E j \in JobIds, class \in ErrorClasses : FailChunk(w, j, class)

OutsideStep(a) == BeginOutside(a) \/ FinishOutside(a) \/ ReturnOutside(a)
AccountStep(a) == PlanOutside(a) \/ OutsideStep(a) \/ ConnectionChanges(a)

Next ==
    \/ \E a \in Accounts : UserStep(a) \/ AccountStep(a)
    \/ \E w \in Workers : WorkerStep(w) \/ FaultStep(w)
    \/ StaleRunsRecovered
    \/ Tick

Spec == Init /\ [][Next]_vars

\* The interval timer of every instance keeps ticking and its promises settle
\* (provider calls have timeouts); syncs outside the worker end; time passes.
Fairness ==
    /\ \A w \in Workers : WF_vars(CountRunning(w)) /\ WF_vars(ClaimJobs(w))
    /\ \A w \in Workers, j \in JobIds : WF_vars(ChunkStep(w, j))
    /\ \A a \in Accounts : WF_vars(OutsideStep(a))
    /\ WF_vars(Tick)

FairSpec == Spec /\ Fairness

---------------------------------------------------------------------------
(* Properties                                                              *)

\* Every variable has its type.
TypeOK ==
    /\ jobs \in [JobIds -> JobRow]
    /\ created \in 0..MaxJobs
    /\ phase \in [Workers -> {"idle", "counted", "working"}]
    /\ headroom \in [Workers -> 0..MaxConcurrentJobs]
    /\ tasks \in [Workers -> [JobIds -> Task \cup {NoTask}]]
    /\ run \in [Accounts -> RunRow \cup {NoRun}]
    /\ oldest \in [Accounts -> Coverages]
    /\ outside \in [Accounts -> OutsideCall \cup {NoCall}]
    /\ market \in [Accounts -> Markets]
    /\ connected \in [Accounts -> BOOLEAN]
    /\ now \in Nat
    /\ disturbances \in 0..MaxDisturbances

\* A row has a lease owner exactly while it is RUNNING, whatever clicks,
\* claims, thefts and commits came before: otherwise a job is stuck for good
\* (RUNNING without a lease) or a parked one still answers to a worker.
LeaseIffRunning ==
    \A j \in JobIds : jobs[j].owner # None <=> jobs[j].status = "RUNNING"

\* Only the newest row of an account is ever active: start, resume and late
\* commits never bring two jobs of one account to life, nor an old one back.
OnlyNewestActive ==
    \A a \in Accounts : ActiveOf(a) \subseteq LatestOf(a)

\* A task whose version is still current holds an exact copy of the row, so a
\* commit that passes the CAS never overwrites a click or another worker's
\* result: any write in between, by anyone, makes it fail.
CurrentTaskSeesRow ==
    \A w \in Workers, j \in JobIds :
        tasks[w][j] # NoTask /\ tasks[w][j].job.version = jobs[j].version
            => tasks[w][j].job = jobs[j]

\* A pause requested during a chunk is never dropped: the row keeps the flag
\* through lost commits, lease thefts and crashes until the job stops.
PauseNeverDropped ==
    [][\A j \in JobIds :
          jobs[j].pauseRequested => \/ jobs'[j].pauseRequested
                                    \/ jobs'[j].status \in Stopped]_jobs

\* The retry budget: a job that can still be retried has attempts left, and a
\* job gives up only on a terminal error or with the budget used up, never
\* because of contention with another synchronisation (REQUEUE).
AttemptBudget ==
    \A j \in JobIds :
        /\ jobs[j].status \in Active => jobs[j].attempts < MaxAttempts
        /\ jobs[j].status = "FAILED" =>
              \/ jobs[j].error = "TERMINAL"
              \/ jobs[j].error \in {"TRANSIENT", "RATE_LIMITED"} /\ jobs[j].attempts = MaxAttempts

\* What a job says it has done is there: the window of a chunk it counts is
\* coverage for good, also on Mercado Livre, which may undo the success of
\* other calls; and the coverage of an Amazon account whose job ended at the
\* safety limit, shown as a complete history, still reaches it.
HistoryIsCovered ==
    /\ \A w \in Workers, j \in JobIds :
          tasks[w][j].stage = "settled" /\ tasks[w][j].result = "MORE"
              => oldest[AccountOf(w, j)] <= tasks[w][j].target
    /\ \A j \in JobIds :
          jobs[j].status = "SAFETY_LIMIT_REACHED" /\ market[jobs[j].account] = "AMAZON"
              => OldestFrom(jobs[j].account) = 0

\* A row that reached the safety limit, or that a newer row of its account has
\* replaced, is never written again.
ClosedRowsFrozen ==
    [][\A j \in JobIds :
          \/ jobs[j].status = "SAFETY_LIMIT_REACHED"
          \/ \E k \in JobIds : k > j /\ k <= created /\ jobs[k].account = jobs[j].account
          => jobs'[j] = jobs[j]]_jobs

\* A late commit never takes the progress of a job back.
ProgressNeverRegresses ==
    [][\A j \in JobIds : jobs'[j].chunks >= jobs[j].chunks]_jobs

\* A job that is waiting or running eventually stops: parked, failed, or at the
\* safety limit, also when its worker dies in the middle of a chunk and
\* leaves a RUNNING sync run behind.
EveryJobStops ==
    \A j \in JobIds : jobs[j].status \in {"QUEUED", "RUNNING", "RETRY_WAIT"}
                          ~> jobs[j].status \in Stopped

\* The job life cycle the table promises, seen through account and status.
Lifecycle == INSTANCE JobLifecycle WITH
    owner <- [j \in JobIds |-> jobs[j].account],
    status <- [j \in JobIds |-> jobs[j].status]

\* Claims, thefts, late commits and clicks never take a job along an edge the
\* life cycle does not have, nor make two jobs of an account live.
ImplementsLifecycle == Lifecycle!Spec

\* No instance ever holds more leases than the configured ceiling, and the
\* headroom it has counted fits below it, whatever the other instances count
\* and claim, and whichever leases end or are taken over in between.
InstanceCeiling ==
    \A w \in Workers :
        Cardinality({j \in CurrentlyRunning : jobs[j].owner = w}) + headroom[w]
            <= MaxConcurrentJobs

\* The ceiling holds over all instances: no more jobs hold a lease than the
\* configuration allows.
GlobalCeiling == Cardinality(CurrentlyRunning) <= MaxConcurrentJobs

\* The worker that owns a job and finds a pause requested while its chunk was
\* in flight parks the job when the chunk is over.
PauseParksAfterChunk ==
    [][\A w \in Workers, j \in JobIds :
          /\ CommitJobState(w, j)
          /\ jobs[j].owner = w
          /\ jobs[j].pauseRequested
          => jobs'[j].status # "RUNNING"]_vars

===========================================================================
