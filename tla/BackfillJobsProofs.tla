------------------------ MODULE BackfillJobsProofs ------------------------
(***************************************************************************)
(* Theorems about BackfillJobs, for every set of accounts and instances    *)
(* and every value of the configuration.                                   *)
(***************************************************************************)
EXTENDS BackfillJobs, FiniteSetTheorems, WellFoundedInduction, TLAPS

\* Every status the code writes.
LEMMA StatusNames ==
  /\ Statuses = {"QUEUED", "RUNNING", "RETRY_WAIT", "PAUSED", "FAILED", "SAFETY_LIMIT_REACHED"}
  /\ "QUEUED" \in Statuses
  /\ "RUNNING" \in Statuses
  /\ "RETRY_WAIT" \in Statuses
  /\ "PAUSED" \in Statuses
  /\ "FAILED" \in Statuses
  /\ "SAFETY_LIMIT_REACHED" \in Statuses
  BY DEF Statuses, Active

\* What each write of a row makes of a well-typed row.
LEMMA AbsentRowType == AbsentRow \in JobRow
  BY DEF AbsentRow, JobRow

LEMMA InsertedRowType ==
  ASSUME NEW a \in Accounts, now \in Nat
  PROVE  [AbsentRow EXCEPT !.account = a, !.status = "QUEUED",
                           !.nextAttempt = now] \in JobRow
  BY AbsentRowType, StatusNames DEF JobRow

LEMMA PausedRowType ==
  ASSUME NEW row \in JobRow
  PROVE  PausedRow(row) \in JobRow
<1> DEFINE st == IF row.status \in Waiting THEN "PAUSED" ELSE row.status
           pr == IF row.status = "RUNNING" THEN TRUE ELSE row.pauseRequested
<1>1. st \in Statuses \cup {"ABSENT"}
  BY StatusNames DEF JobRow
<1>2. pr \in BOOLEAN
  BY DEF JobRow
<1>3. row.version + 1 \in Nat
  BY DEF JobRow
<1>4. PausedRow(row) = [row EXCEPT !.status = st, !.pauseRequested = pr,
                                   !.version = row.version + 1]
  BY DEF PausedRow
<1> HIDE DEF st, pr
<1> QED
  BY <1>1, <1>2, <1>3, <1>4 DEF JobRow

LEMMA ResumedRowType ==
  ASSUME NEW row \in JobRow, now \in Nat
  PROVE  ResumedRow(row) \in JobRow
<1>1. row.version + 1 \in Nat
  BY DEF JobRow
<1> QED
  BY <1>1, StatusNames DEF ResumedRow, JobRow

LEMMA ClaimedRowType ==
  ASSUME NEW row \in JobRow, NEW w \in Workers, now \in Nat
  PROVE  ClaimedRow(row, w) \in JobRow
<1>1. row.version + 1 \in Nat
  BY DEF JobRow
<1>2. now + LeaseMs \in Nat
  BY ConfigAssumption
<1> QED
  BY <1>1, <1>2, StatusNames DEF ClaimedRow, JobRow

LEMMA ExponentialDelayType ==
  ASSUME NEW n
  PROVE  ExponentialDelay(n) \in Nat
  BY ConfigAssumption DEF ExponentialDelay

\* The outcome of a task, as the fields a commit writes.
Update ==
    [status : Statuses, chunks : Nat, attempts : Nat, nextAttempt : Nat,
     error : ErrorClasses \cup {None}]

LEMMA UpdateType ==
  ASSUME NEW t \in Task
  PROVE  UpdateOf(t) \in Update
<1>1. SuccessUpdate(t) \in Update
  BY DEF SuccessUpdate, JobUpdate, Update, Task, JobRow, Statuses, Active
<1>2. ASSUME t.result \in ErrorClasses
      PROVE  FailureUpdate(t) \in Update
  <2>1. RetryDelay(t.result, t.job.attempts + 1) \in Nat
    BY ExponentialDelayType, ConfigAssumption DEF RetryDelay
  <2>2. t.at \in Nat /\ t.job.chunks \in Nat /\ t.job.attempts \in Nat
    BY DEF Task, JobRow
  <2> QED
    BY <1>2, <2>1, <2>2, ConfigAssumption DEF FailureUpdate, JobUpdate, Update, Statuses, Active
<1> QED
  BY <1>1, <1>2 DEF UpdateOf

LEMMA CommittedRowType ==
  ASSUME NEW row \in JobRow, NEW u \in Update
  PROVE  CommittedRow(row, u) \in JobRow
<1>1. row.version + 1 \in Nat
  BY DEF JobRow
<1>2. /\ u.status \in Statuses
      /\ u.chunks \in Nat
      /\ u.attempts \in Nat
      /\ u.nextAttempt \in Nat
      /\ u.error \in ErrorClasses \cup {None}
  BY DEF Update
<1> QED
  BY <1>1, <1>2 DEF CommittedRow, JobRow

LEMMA RunningCount ==
  /\ IsFiniteSet(CurrentlyRunning)
  /\ Cardinality(CurrentlyRunning) \in Nat
<1>1. IsFiniteSet(JobIds)
  BY FS_Interval, ConfigAssumption DEF JobIds
<1> QED
  BY <1>1, FS_Subset, FS_CardinalityType DEF CurrentlyRunning

---------------------------------------------------------------------------
(* Type correctness                                                        *)

\* A disturbance is spent within the bound.
LEMMA DisturbType ==
  ASSUME TypeOK, Disturb
  PROVE  disturbances' \in 0..MaxDisturbances
  BY ConfigAssumption DEF TypeOK, Disturb

LEMMA UserStepType ==
  ASSUME TypeOK, NEW a \in Accounts, UserStep(a)
  PROVE  TypeOK'
<1> USE DEF TypeOK
<1>1. CASE StartBackfill(a)
  <2>1. jobs' \in [JobIds -> JobRow]
    BY <1>1, InsertedRowType DEF StartBackfill
  <2>2. created' \in 0..MaxJobs
    BY <1>1, ConfigAssumption DEF StartBackfill
  <2> QED
    BY <1>1, <2>1, <2>2, DisturbType DEF StartBackfill, workerVars, accountVars, runVars
<1>2. CASE RequestPause(a)
  <2>1. jobs' \in [JobIds -> JobRow]
    BY <1>2, PausedRowType DEF RequestPause
  <2> QED
    BY <1>2, <2>1, DisturbType DEF RequestPause, workerVars, accountVars, runVars
<1>3. CASE ResumeJob(a)
  <2>1. jobs' \in [JobIds -> JobRow]
    BY <1>3, ResumedRowType DEF ResumeJob, LatestOf, RowsOf
  <2> QED
    BY <1>3, <2>1, DisturbType DEF ResumeJob, workerVars, accountVars, runVars
<1> QED
  BY <1>1, <1>2, <1>3 DEF UserStep

LEMMA ClaimStepType ==
  ASSUME TypeOK, NEW w \in Workers, CountRunning(w) \/ ClaimJobs(w)
  PROVE  TypeOK'
<1> USE DEF TypeOK
<1>1. CASE CountRunning(w)
  <2>1. MaxConcurrentJobs - Cardinality(CurrentlyRunning) \in 0..MaxConcurrentJobs
    BY <1>1, RunningCount, ConfigAssumption DEF CountRunning
  <2>2. headroom' \in [Workers -> 0..MaxConcurrentJobs]
    BY <1>1, <2>1 DEF CountRunning
  <2>3. phase' \in [Workers -> {"idle", "counted", "working"}]
    BY <1>1 DEF CountRunning
  <2> QED
    BY <1>1, <2>2, <2>3 DEF CountRunning, tableVars, accountVars, runVars
<1>2. CASE ClaimJobs(w)
  <2> PICK S \in SUBSET Eligible :
        /\ jobs' = [j \in JobIds |-> IF j \in S THEN ClaimedRow(jobs[j], w) ELSE jobs[j]]
        /\ tasks' = [tasks EXCEPT ![w] =
               [j \in JobIds |->
                   IF j \in S THEN [stage |-> "claimed", job |-> ClaimedRow(jobs[j], w),
                                    at |-> now, target |-> NoCoverage, result |-> None]
                              ELSE NoTask]]
        /\ phase' = [phase EXCEPT ![w] = IF S = {} THEN "idle" ELSE "working"]
    BY <1>2 DEF ClaimJobs
  <2>1. jobs' \in [JobIds -> JobRow]
    BY ClaimedRowType
  <2>2. \A j \in JobIds :
           [stage |-> "claimed", job |-> ClaimedRow(jobs[j], w),
            at |-> now, target |-> NoCoverage, result |-> None] \in Task
    BY ClaimedRowType, ConfigAssumption DEF Task, Stages, Coverages, NoCoverage
  <2>3. tasks' \in [Workers -> [JobIds -> Task \cup {NoTask}]]
    BY <2>2
  <2>4. headroom' \in [Workers -> 0..MaxConcurrentJobs]
    BY <1>2, ConfigAssumption DEF ClaimJobs
  <2>5. phase' \in [Workers -> {"idle", "counted", "working"}]
    OBVIOUS
  <2> QED
    BY <1>2, <2>1, <2>3, <2>4, <2>5 DEF ClaimJobs, accountVars, runVars
<1> QED
  BY <1>1, <1>2

\* A task that is under way carries a row.
LEMMA TaskUnderWay ==
  ASSUME TypeOK, NEW w \in Workers, NEW j \in JobIds, tasks[w][j].stage \in Stages
  PROVE  tasks[w][j] \in Task
  BY DEF TypeOK, NoTask, Stages

LEMMA SettleType ==
  ASSUME TypeOK, NEW w \in Workers, NEW j \in JobIds, NEW result \in Results,
         tasks[w][j].stage \in Stages, Settle(w, j, result)
  PROVE  tasks' \in [Workers -> [JobIds -> Task \cup {NoTask}]]
<1>1. [tasks[w][j] EXCEPT !.stage = "settled", !.result = result] \in Task
  BY TaskUnderWay DEF Task, Stages
<1> QED
  BY <1>1 DEF Settle, TypeOK

LEMMA RecoveredRunsType ==
  ASSUME TypeOK
  PROVE  RecoveredRuns \in [Accounts -> RunRow \cup {NoRun}]
  BY DEF TypeOK, RecoveredRuns

LEMMA RunEndedType ==
  ASSUME TypeOK, NEW w, NEW a
  PROVE  RunEnded(w, a) \in [Accounts -> RunRow \cup {NoRun}]
  BY DEF TypeOK, RunEnded

\* The lowest of some coverages is one of them, and no other is lower.
LEMMA LowestIsLeast ==
  ASSUME NEW S, S \subseteq Coverages, S # {}
  PROVE  /\ Lowest(S) \in S
         /\ \A n \in S : Lowest(S) <= n
<1>1. S \subseteq Nat
  BY ConfigAssumption DEF Coverages, NoCoverage
<1>2. PICK m \in S : \A n \in S : ~(<<n, m>> \in OpToRel(<, Nat))
  BY <1>1, NatLessThanWellFounded, WFMin
<1>3. \A n \in S : ~(n < m)
  BY <1>1, <1>2 DEF OpToRel
<1>4. \A n \in S : m <= n
  BY <1>1, <1>3
<1> QED
  BY <1>4 DEF Lowest

LEMMA ReachesType ==
  ASSUME TypeOK, NEW a, NEW n \in Coverages, Reaches(a, n)
  PROVE  oldest' \in [Accounts -> Coverages]
  BY DEF TypeOK, Reaches, LowerOf

LEMMA OldestFromType ==
  ASSUME TypeOK, NEW a \in Accounts
  PROVE  OldestFrom(a) \in Coverages
<1> DEFINE S == {oldest[a]} \cup MarkedOutside(a) \cup UNION {MarkedBy(w, a) : w \in Workers}
<1>1. Starts \subseteq Coverages
  BY ConfigAssumption DEF Starts, Coverages, NoCoverage
<1>2. S \subseteq Coverages
  BY <1>1 DEF MarkedOutside, MarkedBy, TypeOK
<1>3. S # {}
  OBVIOUS
<1> HIDE DEF S
<1>4. Lowest(S) \in Coverages
  BY <1>2, <1>3, LowestIsLeast
<1> QED
  BY <1>4 DEF OldestFrom, S

\* A task that is only moved to another stage.
LEMMA MovedType ==
  ASSUME TypeOK, NEW w \in Workers, NEW j \in JobIds, tasks[w][j].stage \in Stages,
         NEW stage \in Stages, tasks' = [tasks EXCEPT ![w][j].stage = stage]
  PROVE  tasks' \in [Workers -> [JobIds -> Task \cup {NoTask}]]
<1>1. [tasks[w][j] EXCEPT !.stage = stage] \in Task
  BY TaskUnderWay DEF Task
<1> QED
  BY <1>1 DEF TypeOK

LEMMA PlanChunkType ==
  ASSUME TypeOK, NEW w \in Workers, NEW j \in JobIds, PlanChunk(w, j)
  PROVE  TypeOK'
<1> DEFINE a == AccountOf(w, j)
           TaskMap == [Workers -> [JobIds -> Task \cup {NoTask}]]
<1>1. tasks[w][j] \in Task
  BY TaskUnderWay DEF PlanChunk, Stages
<1>2. ASSUME Settle(w, j, "TERMINAL") \/ Settle(w, j, "FLOOR")
      PROVE  tasks' \in TaskMap
  BY <1>2, SettleType DEF PlanChunk, Results, ErrorClasses, Stages
<1>3. ASSUME OldestFrom(a) \in 1..FloorDistance,
             tasks' = [tasks EXCEPT ![w][j].stage = "planned",
                                    ![w][j].target = OldestFrom(a) - 1]
      PROVE  tasks' \in TaskMap
  <2>1. OldestFrom(a) - 1 \in Coverages
    BY <1>3, ConfigAssumption DEF Coverages, NoCoverage
  <2>2. [tasks[w][j] EXCEPT !.stage = "planned", !.target = OldestFrom(a) - 1] \in Task
    BY <1>1, <2>1 DEF Task, Stages
  <2> QED
    BY <1>3, <2>2 DEF TypeOK
<1>4. tasks' \in TaskMap
  BY <1>2, <1>3 DEF PlanChunk
<1> QED
  BY <1>4, RecoveredRunsType DEF PlanChunk, TypeOK, tableVars

LEMMA ChunkStepType ==
  ASSUME TypeOK, NEW w \in Workers, NEW j \in JobIds,
         BeginSyncRun(w, j) \/ FinishChunk(w, j) \/ ReturnChunk(w, j)
  PROVE  TypeOK'
<1> DEFINE a == AccountOf(w, j)
           TaskMap == [Workers -> [JobIds -> Task \cup {NoTask}]]
<1>1. CASE BeginSyncRun(w, j)
  <2>1. CASE Settle(w, j, "REQUEUE") /\ UNCHANGED run
    <3>1. tasks' \in TaskMap
      BY <1>1, <2>1, SettleType DEF BeginSyncRun, Results, ErrorClasses, Stages
    <3> QED
      BY <1>1, <2>1, <3>1 DEF BeginSyncRun, TypeOK, tableVars
  <2>2. CASE /\ run' = [run EXCEPT ![a] = [by |-> w, since |-> now]]
             /\ tasks' = [tasks EXCEPT ![w][j].stage = "fetching"]
    <3>1. tasks' \in TaskMap
      BY <1>1, <2>2, MovedType DEF BeginSyncRun, Stages
    <3>2. [by |-> w, since |-> now] \in RunRow
      BY DEF RunRow, TypeOK
    <3>3. run' \in [Accounts -> RunRow \cup {NoRun}]
      BY <2>2, <3>2 DEF TypeOK
    <3> QED
      BY <1>1, <3>1, <3>3 DEF BeginSyncRun, TypeOK, tableVars
  <2> QED
    BY <1>1, <2>1, <2>2 DEF BeginSyncRun
<1>2. CASE FinishChunk(w, j)
  <2>1. tasks' \in TaskMap
    BY <1>2, MovedType DEF FinishChunk, Stages
  <2> QED
    BY <1>2, <2>1, RunEndedType DEF FinishChunk, TypeOK, tableVars
<1>3. CASE ReturnChunk(w, j)
  <2>1. tasks[w][j].target \in Coverages
    BY <1>3, TaskUnderWay DEF ReturnChunk, Stages, Task
  <2>2. oldest' \in [Accounts -> Coverages]
    BY <1>3, <2>1, ReachesType DEF ReturnChunk
  <2>3. tasks' \in TaskMap
    BY <1>3, SettleType DEF ReturnChunk, Results, Stages
  <2> QED
    BY <1>3, <2>2, <2>3 DEF ReturnChunk, TypeOK, tableVars
<1> QED
  BY <1>1, <1>2, <1>3

LEMMA EndTaskType ==
  ASSUME TypeOK, NEW w \in Workers, NEW j \in JobIds, EndTask(w, j)
  PROVE  /\ tasks' \in [Workers -> [JobIds -> Task \cup {NoTask}]]
         /\ phase' \in [Workers -> {"idle", "counted", "working"}]
  BY DEF TypeOK, EndTask

LEMMA CommitStepType ==
  ASSUME TypeOK, NEW w \in Workers, NEW j \in JobIds, CommitJobState(w, j)
  PROVE  TypeOK'
<1>1. tasks[w][j] \in Task
  BY TaskUnderWay DEF CommitJobState, Stages
<1>2. CommittedRow(jobs[j], UpdateOf(tasks[w][j])) \in JobRow
  BY <1>1, UpdateType, CommittedRowType DEF TypeOK
<1>3. jobs' \in [JobIds -> JobRow]
  BY <1>2 DEF CommitJobState, TypeOK
<1> QED
  BY <1>3, EndTaskType DEF CommitJobState, TypeOK, accountVars, runVars

LEMMA FaultStepType ==
  ASSUME TypeOK, NEW w \in Workers, FaultStep(w)
  PROVE  TypeOK'
<1> DEFINE TaskMap == [Workers -> [JobIds -> Task \cup {NoTask}]]
<1>1. CASE Crash(w)
  <2>1. /\ phase' \in [Workers -> {"idle", "counted", "working"}]
        /\ headroom' \in [Workers -> 0..MaxConcurrentJobs]
        /\ tasks' \in TaskMap
    BY <1>1, ConfigAssumption DEF Crash, TypeOK
  <2>2. ASSUME NEW a \in Accounts
        PROVE  Lowest({oldest[a]} \cup MarkedBy(w, a)) \in Coverages
    <3>1. {oldest[a]} \cup MarkedBy(w, a) \subseteq Coverages
      BY ConfigAssumption DEF TypeOK, MarkedBy, Starts, Coverages, NoCoverage
    <3>2. {oldest[a]} \cup MarkedBy(w, a) # {}
      OBVIOUS
    <3> QED
      BY <3>1, <3>2, LowestIsLeast
  <2>3. oldest' \in [Accounts -> Coverages]
    BY <1>1, <2>2 DEF Crash
  <2> QED
    BY <1>1, <2>1, <2>3, DisturbType DEF Crash, TypeOK, tableVars
<1>2. ASSUME NEW j \in JobIds, CommitFails(w, j)
      PROVE  TypeOK'
  BY <1>2, EndTaskType, DisturbType DEF CommitFails, TypeOK, tableVars, accountVars, runVars
<1>3. ASSUME NEW j \in JobIds, tasks[w][j].stage \in Stages,
             UNCHANGED oldest \/ Reaches(AccountOf(w, j), tasks[w][j].target)
      PROVE  oldest' \in [Accounts -> Coverages]
  <2>1. tasks[w][j].target \in Coverages
    BY <1>3, TaskUnderWay DEF Task
  <2> QED
    BY <1>3, <2>1, ReachesType DEF TypeOK
<1>4. ASSUME NEW j \in JobIds, NEW class \in ErrorClasses, FailChunk(w, j, class)
      PROVE  TypeOK'
  <2>1. tasks' \in TaskMap
    BY <1>4, SettleType DEF FailChunk, Results, Stages
  <2>2. run' \in [Accounts -> RunRow \cup {NoRun}]
    BY <1>4, RunEndedType DEF FailChunk, TypeOK
  <2>3. oldest' \in [Accounts -> Coverages]
    BY <1>3, <1>4 DEF FailChunk, Stages
  <2> QED
    BY <1>4, <2>1, <2>2, <2>3, DisturbType DEF FailChunk, TypeOK, tableVars
<1>5. ASSUME NEW j \in JobIds, FailMarking(w, j)
      PROVE  TypeOK'
  <2>1. tasks' \in TaskMap
    BY <1>5, SettleType DEF FailMarking, Results, ErrorClasses, Stages
  <2>2. oldest' \in [Accounts -> Coverages]
    BY <1>3, <1>5 DEF FailMarking, Stages
  <2> QED
    BY <1>5, <2>1, <2>2, DisturbType DEF FailMarking, TypeOK, tableVars
<1> QED
  BY <1>1, <1>2, <1>4, <1>5 DEF FaultStep

LEMMA OutsideStepType ==
  ASSUME TypeOK, NEW a \in Accounts, PlanOutside(a) \/ OutsideStep(a)
  PROVE  TypeOK'
<1> DEFINE Calls == [Accounts -> OutsideCall \cup {NoCall}]
<1>1. CASE PlanOutside(a)
  <2> PICK n \in Starts :
        /\ run' = run \/ run' = RecoveredRuns
        /\ outside' = [outside EXCEPT ![a] = [stage |-> "planned", target |-> n]]
    BY <1>1 DEF PlanOutside
  <2>1. [stage |-> "planned", target |-> n] \in OutsideCall
    BY DEF OutsideCall
  <2>2. outside' \in Calls
    BY <2>1 DEF TypeOK
  <2>3. run' \in [Accounts -> RunRow \cup {NoRun}]
    BY RecoveredRunsType DEF TypeOK
  <2> QED
    BY <1>1, <2>2, <2>3, DisturbType DEF PlanOutside, TypeOK, tableVars, workerVars
<1>2. ASSUME outside[a].stage \in {"planned", "fetching", "marking"}
      PROVE  outside[a] \in OutsideCall
  BY <1>2 DEF TypeOK, NoCall
<1>3. ASSUME NEW stage \in {"planned", "fetching", "marking"},
             outside[a].stage \in {"planned", "fetching", "marking"},
             outside' = [outside EXCEPT ![a].stage = stage]
      PROVE  outside' \in Calls
  <2>1. [outside[a] EXCEPT !.stage = stage] \in OutsideCall
    BY <1>2, <1>3 DEF OutsideCall
  <2> QED
    BY <1>3, <2>1 DEF TypeOK
<1>4. ASSUME outside' = [outside EXCEPT ![a] = NoCall]
      PROVE  outside' \in Calls
  BY <1>4 DEF TypeOK
<1>5. CASE BeginOutside(a)
  <2>1. outside' \in Calls
    BY <1>3, <1>4, <1>5 DEF BeginOutside
  <2>2. [by |-> Other, since |-> now] \in RunRow
    BY DEF RunRow, TypeOK
  <2>3. run' \in [Accounts -> RunRow \cup {NoRun}]
    BY <1>5, <2>2 DEF BeginOutside, TypeOK
  <2> QED
    BY <1>5, <2>1, <2>3 DEF BeginOutside, TypeOK, tableVars, workerVars
<1>6. CASE FinishOutside(a)
  <2>1. outside' \in Calls
    BY <1>3, <1>4, <1>6 DEF FinishOutside
  <2>2. run' \in [Accounts -> RunRow \cup {NoRun}]
    BY <1>6, RunEndedType DEF FinishOutside, TypeOK
  <2> QED
    BY <1>6, <2>1, <2>2 DEF FinishOutside, TypeOK, tableVars, workerVars
<1>7. CASE ReturnOutside(a)
  <2>1. outside' \in Calls
    BY <1>4, <1>7 DEF ReturnOutside
  <2>2. outside[a].target \in Coverages
    BY <1>2, <1>7, ConfigAssumption DEF ReturnOutside, OutsideCall, Starts, Coverages, NoCoverage
  <2>3. oldest' \in [Accounts -> Coverages]
    BY <1>7, <2>2, ReachesType DEF ReturnOutside, TypeOK
  <2> QED
    BY <1>7, <2>1, <2>3 DEF ReturnOutside, TypeOK, tableVars, workerVars
<1> QED
  BY <1>1, <1>5, <1>6, <1>7 DEF OutsideStep

LEMMA EnvironmentStepType ==
  ASSUME TypeOK,
         (\E a \in Accounts : AccountStep(a)) \/ StaleRunsRecovered \/ Tick
  PROVE  TypeOK'
<1>1. ASSUME NEW a \in Accounts, ConnectionChanges(a)
      PROVE  TypeOK'
  <2>1. connected' \in [Accounts -> BOOLEAN]
    BY <1>1 DEF ConnectionChanges, TypeOK
  <2> QED
    BY <1>1, <2>1, DisturbType DEF ConnectionChanges, TypeOK, tableVars, workerVars, runVars
<1>2. CASE StaleRunsRecovered
  BY <1>2, RecoveredRunsType DEF StaleRunsRecovered, TypeOK, tableVars, workerVars
<1>3. CASE Tick
  BY <1>3, DisturbType DEF Tick, TypeOK, tableVars, workerVars, accountVars, runVars
<1> QED
  BY <1>1, <1>2, <1>3, OutsideStepType DEF AccountStep

LEMMA InitType == Init => TypeOK
  BY AbsentRowType, ConfigAssumption DEF Init, TypeOK, Coverages, NoCoverage

LEMMA TypeStep == TypeOK /\ [Next]_vars => TypeOK'
<1> SUFFICES ASSUME TypeOK, [Next]_vars
             PROVE  TypeOK'
  OBVIOUS
<1>1. ASSUME NEW a \in Accounts, UserStep(a)
      PROVE  TypeOK'
  BY <1>1, UserStepType
<1>2. CASE (\E a \in Accounts : AccountStep(a)) \/ StaleRunsRecovered \/ Tick
  BY <1>2, EnvironmentStepType
<1>3. ASSUME NEW w \in Workers, WorkerStep(w)
      PROVE  TypeOK'
  BY <1>3, ClaimStepType, PlanChunkType, ChunkStepType, CommitStepType
  DEF WorkerStep, ChunkStep
<1>4. ASSUME NEW w \in Workers, FaultStep(w)
      PROVE  TypeOK'
  BY <1>4, FaultStepType
<1>5. CASE UNCHANGED vars
  BY <1>5 DEF vars, tableVars, workerVars, accountVars, runVars, TypeOK
<1> QED
  BY <1>1, <1>2, <1>3, <1>4, <1>5 DEF Next

\* Every variable keeps its type in every behaviour.
THEOREM TypeCorrect == Spec => []TypeOK
  BY InitType, TypeStep, PTL DEF Spec

---------------------------------------------------------------------------
(* The inductive invariant                                                 *)

\* What holds of every row by itself.
RowInv(row) ==
    /\ row.owner # None <=> row.status = "RUNNING"
    /\ row.pauseRequested => row.status = "RUNNING"
    /\ row.status \in Active => row.attempts < MaxAttempts
    /\ row.status = "FAILED" =>
          \/ row.error = "TERMINAL"
          \/ row.error \in {"TRANSIENT", "RATE_LIMITED"} /\ row.attempts = MaxAttempts

RowsInv == \A j \in JobIds : RowInv(jobs[j])

\* Versions only grow, and a task with the current one has seen every write.
TaskInv(w, j) ==
    tasks[w][j] # NoTask =>
        /\ tasks[w][j].job.version <= jobs[j].version
        /\ tasks[w][j].job.version = jobs[j].version => tasks[w][j].job = jobs[j]
        /\ tasks[w][j].job.status = "RUNNING"
        /\ tasks[w][j].job.attempts < MaxAttempts

TasksInv == \A w \in Workers, j \in JobIds : TaskInv(w, j)

UninsertedAbsent == \A j \in JobIds : j > created => jobs[j] = AbsentRow

ReplacedClosed ==
    \A j, k \in JobIds :
        j < k /\ k <= created /\ jobs[k].account = jobs[j].account
            => jobs[j].status \notin Active

IInv == TypeOK /\ RowsInv /\ TasksInv /\ UninsertedAbsent /\ ReplacedClosed

---------------------------------------------------------------------------
(* Each write of a row keeps RowInv                                        *)

LEMMA ActiveNames ==
  /\ Active = {"QUEUED", "RUNNING", "RETRY_WAIT", "PAUSED"}
  /\ Waiting = {"QUEUED", "RETRY_WAIT"}
  BY DEF Active, Waiting

LEMMA AbsentRowInv == RowInv(AbsentRow)
  BY DEF RowInv, AbsentRow, Active

LEMMA InsertedRowInv ==
  ASSUME NEW a \in Accounts, now \in Nat
  PROVE  RowInv([AbsentRow EXCEPT !.account = a, !.status = "QUEUED",
                                  !.nextAttempt = now])
  BY ConfigAssumption DEF RowInv, AbsentRow

LEMMA PausedRowInv ==
  ASSUME NEW row \in JobRow, RowInv(row), row.status \in Active
  PROVE  RowInv(PausedRow(row))
  BY ActiveNames DEF RowInv, PausedRow, JobRow

LEMMA ResumedRowInv ==
  ASSUME NEW row \in JobRow, RowInv(row), row.status \in {"PAUSED", "FAILED"}
  PROVE  RowInv(ResumedRow(row))
  BY ConfigAssumption DEF RowInv, ResumedRow, JobRow

LEMMA ClaimedRowInv ==
  ASSUME NEW row \in JobRow, RowInv(row), NEW w \in Workers, Claimable(row)
  PROVE  RowInv(ClaimedRow(row, w))
<1>1. row.status \in Active
  BY ActiveNames DEF Claimable
<1>2. w # None
  BY NamesAssumption
<1> QED
  BY <1>1, <1>2 DEF RowInv, ClaimedRow, JobRow

\* A commit never leaves the row RUNNING, stays within the retry budget, and
\* gives up only for the reasons AttemptBudget names.
LEMMA UpdateWithinBudget ==
  ASSUME NEW t \in Task, t.job.attempts < MaxAttempts, NEW u, u = UpdateOf(t)
  PROVE  /\ u.status # "RUNNING"
         /\ u.status \in Active => u.attempts < MaxAttempts
         /\ u.status = "FAILED" =>
               \/ u.error = "TERMINAL"
               \/ u.error \in {"TRANSIENT", "RATE_LIMITED"} /\ u.attempts = MaxAttempts
<1>1. t.job.attempts \in Nat /\ MaxAttempts \in Nat \ {0}
  BY ConfigAssumption DEF Task, JobRow
<1>2. CASE t.result \in ErrorClasses
  <2>1. u = FailureUpdate(t)
    BY <1>2 DEF UpdateOf
  <2> QED
    BY <1>1, <1>2, <2>1 DEF FailureUpdate, JobUpdate, ErrorClasses, Active
<1>3. CASE t.result \notin ErrorClasses
  <2>1. u = SuccessUpdate(t)
    BY <1>3 DEF UpdateOf
  <2> QED
    BY <1>1, <2>1 DEF SuccessUpdate, JobUpdate, Active
<1> QED
  BY <1>2, <1>3

LEMMA CommittedRowInv ==
  ASSUME NEW row \in JobRow, NEW t \in Task, t.job.attempts < MaxAttempts
  PROVE  RowInv(CommittedRow(row, UpdateOf(t)))
<1> DEFINE u == UpdateOf(t)
<1>1. /\ u.status # "RUNNING"
      /\ u.status \in Active => u.attempts < MaxAttempts
      /\ u.status = "FAILED" =>
            \/ u.error = "TERMINAL"
            \/ u.error \in {"TRANSIENT", "RATE_LIMITED"} /\ u.attempts = MaxAttempts
  BY UpdateWithinBudget
<1> HIDE DEF u
<1>2. RowInv(CommittedRow(row, u))
  BY <1>1 DEF RowInv, CommittedRow, JobRow
<1> QED
  BY <1>2 DEF u

---------------------------------------------------------------------------
(* Steps that write a set S of active rows, each with a new version        *)

LEMMA ActiveInserted ==
  ASSUME UninsertedAbsent, NEW j \in JobIds, jobs[j].status \in Active, created \in Nat
  PROVE  j <= created
  BY DEF UninsertedAbsent, AbsentRow, Active, JobIds

\* Tasks keep their rows or end.
TasksKeepRows ==
    \A w \in Workers, j \in JobIds :
        \/ tasks'[w][j] = NoTask
        \/ tasks[w][j] # NoTask /\ tasks'[w][j].job = tasks[w][j].job

LEMMA TasksKept ==
  ASSUME TypeOK, TasksInv, TasksKeepRows,
         \A j \in JobIds : \/ jobs'[j] = jobs[j]
                           \/ jobs'[j].version = jobs[j].version + 1
  PROVE  TasksInv'
<1> SUFFICES ASSUME NEW w \in Workers, NEW j \in JobIds, tasks'[w][j] # NoTask
             PROVE  /\ tasks'[w][j].job.version <= jobs'[j].version
                    /\ tasks'[w][j].job.version = jobs'[j].version
                          => tasks'[w][j].job = jobs'[j]
                    /\ tasks'[w][j].job.status = "RUNNING"
                    /\ tasks'[w][j].job.attempts < MaxAttempts
  BY DEF TasksInv, TaskInv
<1>1. tasks[w][j] # NoTask /\ tasks'[w][j].job = tasks[w][j].job
  BY DEF TasksKeepRows
<1>2. TaskInv(w, j)
  BY DEF TasksInv
<1>3. tasks[w][j].job.version \in Nat /\ jobs[j].version \in Nat
  BY <1>1 DEF TypeOK, Task, JobRow
<1> QED
  BY <1>1, <1>2, <1>3 DEF TaskInv

LEMMA RowsWritten ==
  ASSUME IInv, NEW S \in SUBSET JobIds, created' = created, TasksKeepRows,
         \A j \in JobIds \ S : jobs'[j] = jobs[j],
         \A j \in S : /\ jobs[j].status \in Active
                      /\ jobs'[j].account = jobs[j].account
                      /\ jobs'[j].version = jobs[j].version + 1
                      /\ RowInv(jobs'[j])
  PROVE  (RowsInv /\ TasksInv /\ UninsertedAbsent /\ ReplacedClosed)'
<1>1. RowsInv'
  BY DEF IInv, RowsInv
<1>2. TasksInv'
  BY TasksKept DEF IInv
<1>3. UninsertedAbsent'
  <2> SUFFICES ASSUME NEW j \in JobIds, j > created
               PROVE  jobs'[j] = AbsentRow
    BY DEF UninsertedAbsent
  <2>1. j \notin S
    BY ActiveInserted DEF IInv, TypeOK, JobIds
  <2> QED
    BY <2>1 DEF IInv, UninsertedAbsent
<1>4. ReplacedClosed'
  <2>1. \A j \in JobIds : /\ jobs'[j].account = jobs[j].account
                          /\ jobs'[j].status \in Active => jobs[j].status \in Active
    OBVIOUS
  <2> QED
    BY <2>1 DEF IInv, ReplacedClosed
<1> QED
  BY <1>1, <1>2, <1>3, <1>4

---------------------------------------------------------------------------
(* Every step keeps IInv                                                   *)

\* The four parts of IInv after TypeOK.
Core == RowsInv /\ TasksInv /\ UninsertedAbsent /\ ReplacedClosed

\* A step that leaves the table alone and lets tasks keep their rows.
LEMMA TableKept ==
  ASSUME IInv, UNCHANGED tableVars, TasksKeepRows
  PROVE  Core'
<1>1. \A j \in JobIds : jobs'[j] = jobs[j]
  BY DEF tableVars
<1>2. (RowsInv /\ TasksInv /\ UninsertedAbsent /\ ReplacedClosed)'
  BY <1>1, RowsWritten, {} \in SUBSET JobIds DEF tableVars
<1> QED
  BY <1>2 DEF Core

LEMMA TasksUntouched ==
  ASSUME UNCHANGED tasks
  PROVE  TasksKeepRows
  BY DEF TasksKeepRows

LEMMA StartBackfillCore ==
  ASSUME IInv, NEW a \in Accounts, StartBackfill(a)
  PROVE  Core'
<1> DEFINE new == [AbsentRow EXCEPT !.account = a, !.status = "QUEUED",
                                    !.nextAttempt = now]
<1> USE DEF IInv
<1>1. /\ created \in Nat
      /\ created + 1 \in JobIds
      /\ created' = created + 1
      /\ jobs' = [jobs EXCEPT ![created + 1] = new]
      /\ tasks' = tasks
  BY ConfigAssumption DEF StartBackfill, TypeOK, JobIds, workerVars
<1>2. jobs[created + 1] = AbsentRow
  BY <1>1 DEF UninsertedAbsent
<1>3. RowInv(new) /\ new.account = a
  BY InsertedRowInv DEF TypeOK, AbsentRow
<1>4. \A w \in Workers : tasks[w][created + 1] = NoTask
  <2> SUFFICES ASSUME NEW w \in Workers, tasks[w][created + 1] # NoTask
               PROVE  FALSE
    OBVIOUS
  <2>1. /\ TaskInv(w, created + 1)
        /\ tasks[w][created + 1] \in Task
    BY <1>1 DEF TasksInv, TypeOK
  <2>2. tasks[w][created + 1].job.version \in Nat
    BY <2>1 DEF Task, JobRow
  <2>3. tasks[w][created + 1].job.version = AbsentRow.version
    BY <1>2, <2>1, <2>2 DEF TaskInv, AbsentRow
  <2> QED
    BY <1>2, <2>1, <2>3 DEF TaskInv, AbsentRow
<1> HIDE DEF new
<1>5. RowsInv'
  BY <1>1, <1>3 DEF RowsInv, TypeOK
<1>6. TasksInv'
  <2> SUFFICES ASSUME NEW w \in Workers, NEW j \in JobIds
               PROVE  TaskInv(w, j)'
    BY DEF TasksInv
  <2>1. CASE j = created + 1
    BY <1>1, <1>4, <2>1 DEF TaskInv
  <2>2. CASE j # created + 1
    <3>1. jobs'[j] = jobs[j]
      BY <1>1, <2>2 DEF TypeOK
    <3> QED
      BY <1>1, <3>1 DEF TasksInv, TaskInv
  <2> QED
    BY <2>1, <2>2
<1>7. UninsertedAbsent'
  BY <1>1 DEF UninsertedAbsent, JobIds, TypeOK
<1>8. ReplacedClosed'
  <2> SUFFICES ASSUME NEW j \in JobIds, NEW k \in JobIds, j < k, k <= created + 1,
                      jobs'[k].account = jobs'[j].account
               PROVE  jobs'[j].status \notin Active
    BY <1>1 DEF ReplacedClosed
  <2>1. j <= created /\ jobs'[j] = jobs[j]
    BY <1>1 DEF JobIds, TypeOK
  <2>2. CASE k = created + 1
    <3>1. jobs[j].account = a
      BY <1>1, <1>3, <2>1, <2>2 DEF TypeOK
    <3> QED
      BY <2>1, <3>1 DEF StartBackfill, ActiveOf, RowsOf
  <2>3. CASE k # created + 1
    <3>1. k <= created /\ jobs'[k] = jobs[k]
      BY <1>1, <2>3 DEF JobIds, TypeOK
    <3> QED
      BY <2>1, <3>1 DEF ReplacedClosed
  <2> QED
    BY <2>2, <2>3
<1> QED
  BY <1>5, <1>6, <1>7, <1>8 DEF Core

LEMMA RequestPauseCore ==
  ASSUME IInv, NEW a \in Accounts, RequestPause(a)
  PROVE  Core'
<1>1. /\ created' = created
      /\ jobs' = [j \in JobIds |-> IF j \in ActiveOf(a) THEN PausedRow(jobs[j]) ELSE jobs[j]]
      /\ TasksKeepRows
  BY TasksUntouched DEF RequestPause, workerVars
<1>2. ActiveOf(a) \in SUBSET JobIds
  BY DEF ActiveOf, RowsOf
<1>3. ASSUME NEW j \in ActiveOf(a)
      PROVE  /\ jobs[j].status \in Active
             /\ jobs'[j].account = jobs[j].account
             /\ jobs'[j].version = jobs[j].version + 1
             /\ RowInv(jobs'[j])
  <2>1. jobs[j] \in JobRow /\ RowInv(jobs[j]) /\ jobs[j].status \in Active
    BY <1>2 DEF IInv, TypeOK, RowsInv, ActiveOf
  <2>2. jobs'[j] = PausedRow(jobs[j])
    BY <1>1, <1>2
  <2>3. /\ PausedRow(jobs[j]).account = jobs[j].account
        /\ PausedRow(jobs[j]).version = jobs[j].version + 1
    BY <2>1 DEF PausedRow, JobRow
  <2> QED
    BY <2>1, <2>2, <2>3, PausedRowInv
<1>4. \A j \in JobIds \ ActiveOf(a) : jobs'[j] = jobs[j]
  BY <1>1
<1> QED
  BY <1>1, <1>2, <1>3, <1>4, RowsWritten DEF Core

LEMMA ResumeJobCore ==
  ASSUME IInv, NEW a \in Accounts, ResumeJob(a)
  PROVE  Core'
<1> USE DEF IInv
<1> PICK r \in LatestOf(a) :
      /\ jobs[r].status \in {"PAUSED", "FAILED"}
      /\ jobs' = [jobs EXCEPT ![r] = ResumedRow(@)]
  BY DEF ResumeJob
<1>1. created' = created /\ tasks' = tasks
  BY DEF ResumeJob, workerVars
<1>2. /\ r \in JobIds
      /\ r <= created
      /\ jobs[r].account = a
      /\ jobs[r] \in JobRow
      /\ RowInv(jobs[r])
  BY DEF LatestOf, RowsOf, TypeOK, RowsInv
<1>3. /\ RowInv(ResumedRow(jobs[r]))
      /\ ResumedRow(jobs[r]).account = a
      /\ ResumedRow(jobs[r]).version = jobs[r].version + 1
  <2>1. RowInv(ResumedRow(jobs[r]))
    BY <1>2, ResumedRowInv
  <2> QED
    BY <1>2, <2>1 DEF ResumedRow, JobRow
<1>4. \A j \in JobIds : jobs'[j].account = jobs[j].account
  BY <1>2, <1>3 DEF TypeOK
<1>5. RowsInv'
  BY <1>2, <1>3 DEF RowsInv, TypeOK
<1>6. TasksInv'
  <2>1. \A j \in JobIds : jobs'[j] = jobs[j] \/ jobs'[j].version = jobs[j].version + 1
    BY <1>2, <1>3 DEF TypeOK
  <2> QED
    BY <1>1, <2>1, TasksKept, TasksUntouched
<1>7. UninsertedAbsent'
  BY <1>1, <1>2 DEF UninsertedAbsent, JobIds, TypeOK
<1>8. ReplacedClosed'
  <2> SUFFICES ASSUME NEW j \in JobIds, NEW k \in JobIds, j < k, k <= created,
                      jobs[k].account = jobs[j].account
               PROVE  jobs'[j].status \notin Active
    BY <1>1, <1>4 DEF ReplacedClosed
  <2>1. j # r
    BY <1>2 DEF LatestOf, RowsOf, JobIds
  <2> QED
    BY <2>1 DEF ReplacedClosed, TypeOK
<1> QED
  BY <1>5, <1>6, <1>7, <1>8 DEF Core

\* The version of a claimed row is new, so only the claim's own task holds it.
LEMMA ClaimJobsCore ==
  ASSUME IInv, NEW w \in Workers, ClaimJobs(w)
  PROVE  Core'
<1> USE DEF IInv
<1> PICK S \in SUBSET Eligible :
      /\ jobs' = [j \in JobIds |-> IF j \in S THEN ClaimedRow(jobs[j], w) ELSE jobs[j]]
      /\ tasks' = [tasks EXCEPT ![w] =
             [j \in JobIds |->
                 IF j \in S THEN [stage |-> "claimed", job |-> ClaimedRow(jobs[j], w),
                                  at |-> now, target |-> NoCoverage, result |-> None]
                            ELSE NoTask]]
  BY DEF ClaimJobs
<1>1. created' = created
  BY DEF ClaimJobs
<1>2. S \in SUBSET JobIds
  BY DEF Eligible
<1>3. ASSUME NEW j \in S
      PROVE  /\ jobs[j].status \in Active
             /\ jobs'[j] = ClaimedRow(jobs[j], w)
             /\ jobs'[j].account = jobs[j].account
             /\ jobs'[j].version = jobs[j].version + 1
             /\ jobs'[j].status = "RUNNING"
             /\ jobs'[j].attempts < MaxAttempts
             /\ RowInv(jobs'[j])
  <2>1. jobs[j] \in JobRow /\ RowInv(jobs[j]) /\ Claimable(jobs[j])
    BY <1>2 DEF TypeOK, RowsInv, Eligible
  <2>2. jobs[j].status \in Active
    BY <2>1, ActiveNames DEF Claimable
  <2>3. jobs'[j] = ClaimedRow(jobs[j], w)
    BY <1>2
  <2>4. /\ ClaimedRow(jobs[j], w).account = jobs[j].account
        /\ ClaimedRow(jobs[j], w).version = jobs[j].version + 1
        /\ ClaimedRow(jobs[j], w).status = "RUNNING"
        /\ ClaimedRow(jobs[j], w).attempts = jobs[j].attempts
    BY <2>1 DEF ClaimedRow, JobRow
  <2> QED
    BY <2>1, <2>2, <2>3, <2>4, ClaimedRowInv DEF RowInv
<1>4. \A j \in JobIds \ S : jobs'[j] = jobs[j]
  OBVIOUS
<1>5. ASSUME NEW v \in Workers, NEW j \in JobIds
      PROVE  TaskInv(v, j)'
  <2>1. TaskInv(v, j) /\ jobs[j].version \in Nat
    BY DEF TasksInv, TypeOK, JobRow
  <2>2. CASE v = w /\ j \in S
    <3>1. tasks'[v][j].job = jobs'[j]
      BY <1>3, <2>2 DEF TypeOK
    <3> QED
      BY <1>3, <2>1, <2>2, <3>1 DEF TaskInv
  <2>3. CASE v = w /\ j \notin S
    <3>1. tasks'[v][j] = NoTask
      BY <2>3 DEF TypeOK
    <3> QED
      BY <3>1 DEF TaskInv
  <2>4. CASE v # w
    <3>1. tasks'[v][j] = tasks[v][j]
      BY <2>4 DEF TypeOK
    <3>2. CASE tasks[v][j] = NoTask
      BY <3>1, <3>2 DEF TaskInv
    <3>3. CASE tasks[v][j] # NoTask
      <4>1. tasks[v][j].job.version \in Nat
        BY <3>3 DEF TypeOK, Task, JobRow
      <4>2. jobs'[j] = jobs[j] \/ jobs'[j].version = jobs[j].version + 1
        BY <1>3, <1>4
      <4> QED
        BY <2>1, <3>1, <3>3, <4>1, <4>2 DEF TaskInv
    <3> QED
      BY <3>2, <3>3
  <2> QED
    BY <2>2, <2>3, <2>4
<1>6. RowsInv'
  BY <1>3, <1>4 DEF RowsInv
<1>7. UninsertedAbsent'
  <2> SUFFICES ASSUME NEW j \in JobIds, j > created
               PROVE  jobs'[j] = AbsentRow
    BY <1>1 DEF UninsertedAbsent
  <2>1. jobs[j] = AbsentRow
    BY DEF UninsertedAbsent
  <2>2. j \notin S
    BY <1>3, <2>1 DEF AbsentRow, Active
  <2> QED
    BY <1>4, <2>1, <2>2
<1>8. ReplacedClosed'
  <2>1. \A j \in JobIds : /\ jobs'[j].account = jobs[j].account
                          /\ jobs'[j].status \in Active => jobs[j].status \in Active
    BY <1>3, <1>4
  <2> QED
    BY <1>1, <2>1 DEF ReplacedClosed
<1> QED
  BY <1>5, <1>6, <1>7, <1>8 DEF Core, TasksInv

\* A commit that passes the version check writes a RUNNING row it has seen.
LEMMA ClaimHeld ==
  ASSUME IInv, NEW w \in Workers, NEW j \in JobIds, HoldsClaim(w, j)
  PROVE  /\ tasks[w][j] \in Task
         /\ tasks[w][j].job = jobs[j]
         /\ tasks[w][j].job.attempts < MaxAttempts
         /\ jobs[j] \in JobRow
         /\ jobs[j].status = "RUNNING"
<1>1. tasks[w][j] # NoTask /\ TaskInv(w, j)
  BY DEF IInv, TasksInv, HoldsClaim
<1> QED
  BY <1>1 DEF TaskInv, HoldsClaim, IInv, TypeOK

LEMMA EndTaskKeepsRows ==
  ASSUME IInv, NEW w \in Workers, NEW j \in JobIds, EndTask(w, j)
  PROVE  TasksKeepRows
  BY DEF EndTask, TasksKeepRows, IInv, TypeOK

LEMMA CommitJobStateCore ==
  ASSUME IInv, NEW w \in Workers, NEW j \in JobIds, CommitJobState(w, j)
  PROVE  Core'
<1>1. created' = created /\ TasksKeepRows
  BY EndTaskKeepsRows DEF CommitJobState
<1>2. CASE ~HoldsClaim(w, j)
  <2>1. UNCHANGED tableVars
    BY <1>2 DEF CommitJobState, tableVars
  <2> QED
    BY <1>1, <2>1, TableKept
<1>3. CASE HoldsClaim(w, j)
  <2> DEFINE new == CommittedRow(jobs[j], UpdateOf(tasks[w][j]))
  <2>1. jobs' = [jobs EXCEPT ![j] = new]
    BY <1>3 DEF CommitJobState
  <2>2. RowInv(new)
    BY <1>3, ClaimHeld, CommittedRowInv
  <2>3. /\ new.account = jobs[j].account
        /\ new.version = jobs[j].version + 1
    BY <1>3, ClaimHeld DEF CommittedRow, JobRow
  <2>4. jobs[j].status \in Active
    BY <1>3, ClaimHeld, ActiveNames
  <2> HIDE DEF new
  <2>5. \A i \in {j} : /\ jobs[i].status \in Active
                       /\ jobs'[i].account = jobs[i].account
                       /\ jobs'[i].version = jobs[i].version + 1
                       /\ RowInv(jobs'[i])
    BY <2>1, <2>2, <2>3, <2>4 DEF IInv, TypeOK
  <2>6. \A i \in JobIds \ {j} : jobs'[i] = jobs[i]
    BY <2>1 DEF IInv, TypeOK
  <2>7. {j} \in SUBSET JobIds
    OBVIOUS
  <2>8. (RowsInv /\ TasksInv /\ UninsertedAbsent /\ ReplacedClosed)'
    BY <1>1, <2>5, <2>6, <2>7, RowsWritten
  <2> QED
    BY <2>8 DEF Core
<1> QED
  BY <1>2, <1>3

\* The other steps of a worker leave the table to its readers.
LEMMA ProcessingCore ==
  ASSUME IInv, NEW w \in Workers, NEW j \in JobIds,
         \/ PlanChunk(w, j) \/ BeginSyncRun(w, j) \/ FinishChunk(w, j)
         \/ ReturnChunk(w, j) \/ FailMarking(w, j) \/ CommitFails(w, j)
         \/ \E class \in ErrorClasses : FailChunk(w, j, class)
  PROVE  Core'
<1>1. UNCHANGED tableVars
  BY DEF PlanChunk, BeginSyncRun, FinishChunk, ReturnChunk, FailMarking, CommitFails, FailChunk
<1>2. CASE CommitFails(w, j)
  BY <1>1, <1>2, EndTaskKeepsRows, TableKept DEF CommitFails
<1>3. ASSUME NEW result, tasks[w][j].stage \in Stages, Settle(w, j, result)
      PROVE  TasksKeepRows
  <2>1. tasks[w][j] \in Task
    BY <1>3, TaskUnderWay DEF IInv
  <2>2. tasks[w][j] # NoTask
    BY <1>3 DEF NoTask, Stages
  <2>3. tasks'[w][j].job = tasks[w][j].job
    BY <1>3, <2>1 DEF Settle, IInv, TypeOK, Task
  <2>4. \A v \in Workers, i \in JobIds : <<v, i>> # <<w, j>> => tasks'[v][i] = tasks[v][i]
    BY <1>3 DEF Settle, IInv, TypeOK
  <2> QED
    BY <2>2, <2>3, <2>4 DEF TasksKeepRows
<1>4. CASE \/ ReturnChunk(w, j) \/ FailMarking(w, j)
           \/ \E class \in ErrorClasses : FailChunk(w, j, class)
  BY <1>1, <1>3, <1>4, TableKept DEF ReturnChunk, FailMarking, FailChunk, Stages
<1>5. ASSUME tasks[w][j].stage \in Stages,
             NEW n, tasks' = [tasks EXCEPT ![w][j].stage = "planned", ![w][j].target = n]
      PROVE  TasksKeepRows
  <2>1. tasks[w][j] \in Task /\ tasks[w][j] # NoTask
    BY <1>5, TaskUnderWay DEF IInv, NoTask, Stages
  <2> QED
    BY <1>5, <2>1 DEF TasksKeepRows, IInv, TypeOK, Task
<1>6. CASE PlanChunk(w, j)
  <2>1. TasksKeepRows
    BY <1>3, <1>5, <1>6 DEF PlanChunk, Stages
  <2> QED
    BY <1>1, <2>1, TableKept
<1>7. ASSUME tasks[w][j].stage \in Stages,
             NEW stage, tasks' = [tasks EXCEPT ![w][j].stage = stage]
      PROVE  TasksKeepRows
  <2>1. tasks[w][j] \in Task /\ tasks[w][j] # NoTask
    BY <1>7, TaskUnderWay DEF IInv, NoTask, Stages
  <2> QED
    BY <1>7, <2>1 DEF TasksKeepRows, IInv, TypeOK, Task
<1>8. CASE BeginSyncRun(w, j)
  <2>1. TasksKeepRows
    BY <1>3, <1>7, <1>8 DEF BeginSyncRun, Stages
  <2> QED
    BY <1>1, <2>1, TableKept
<1>9. CASE FinishChunk(w, j)
  <2>1. TasksKeepRows
    BY <1>7, <1>9 DEF FinishChunk, Stages
  <2> QED
    BY <1>1, <2>1, TableKept
<1> QED
  BY <1>2, <1>4, <1>6, <1>8, <1>9

LEMMA CrashCore ==
  ASSUME IInv, NEW w \in Workers, Crash(w)
  PROVE  Core'
<1>1. TasksKeepRows
  BY DEF Crash, TasksKeepRows, IInv, TypeOK
<1> QED
  BY <1>1, TableKept DEF Crash

LEMMA EnvironmentCore ==
  ASSUME IInv,
         \/ \E a \in Accounts : AccountStep(a)
         \/ \E w \in Workers : CountRunning(w)
         \/ StaleRunsRecovered \/ Tick \/ UNCHANGED vars
  PROVE  Core'
<1>1. UNCHANGED tableVars /\ UNCHANGED tasks
  BY DEF AccountStep, OutsideStep, PlanOutside, BeginOutside, FinishOutside, ReturnOutside,
         ConnectionChanges, CountRunning, StaleRunsRecovered, Tick, vars, workerVars, tableVars
<1> QED
  BY <1>1, TasksUntouched, TableKept

LEMMA InitIInv == Init => IInv
<1> SUFFICES ASSUME Init
             PROVE  IInv
  OBVIOUS
<1>1. TypeOK
  BY InitType
<1>2. RowsInv
  BY AbsentRowInv DEF Init, RowsInv
<1>3. TasksInv
  BY DEF Init, TasksInv, TaskInv
<1>4. UninsertedAbsent /\ ReplacedClosed
  BY DEF Init, UninsertedAbsent, ReplacedClosed, AbsentRow, Active
<1> QED
  BY <1>1, <1>2, <1>3, <1>4 DEF IInv

LEMMA StepIInv == IInv /\ [Next]_vars => IInv'
<1> SUFFICES ASSUME IInv, [Next]_vars
             PROVE  IInv'
  OBVIOUS
<1>1. TypeOK'
  BY TypeStep DEF IInv
<1>2. Core'
  <2>1. ASSUME NEW a \in Accounts, UserStep(a)
        PROVE  Core'
    BY <2>1, StartBackfillCore, RequestPauseCore, ResumeJobCore DEF UserStep
  <2>2. ASSUME NEW w \in Workers, WorkerStep(w)
        PROVE  Core'
    BY <2>2, EnvironmentCore, ClaimJobsCore, ProcessingCore, CommitJobStateCore
    DEF WorkerStep, ChunkStep
  <2>3. ASSUME NEW w \in Workers, FaultStep(w)
        PROVE  Core'
    BY <2>3, CrashCore, ProcessingCore DEF FaultStep
  <2>4. CASE (\E a \in Accounts : AccountStep(a)) \/ StaleRunsRecovered \/ Tick \/ UNCHANGED vars
    BY <2>4, EnvironmentCore
  <2> QED
    BY <2>1, <2>2, <2>3, <2>4 DEF Next
<1> QED
  BY <1>1, <1>2 DEF IInv, Core

\* The inductive invariant holds in every behaviour.
THEOREM InductiveInvariant == Spec => []IInv
  BY InitIInv, StepIInv, PTL DEF Spec

---------------------------------------------------------------------------
(* What follows from IInv                                                  *)

\* A row has a lease owner exactly while it is RUNNING: no order of clicks,
\* claims, lease thefts, commits and crashes leaves a job stuck without one.
THEOREM LeaseTheorem == Spec => []LeaseIffRunning
<1>1. IInv => LeaseIffRunning
  BY DEF IInv, RowsInv, RowInv, LeaseIffRunning
<1> QED
  BY <1>1, InductiveInvariant, PTL

\* Retries stay within maxAttempts, and a job gives up for no other reason.
THEOREM BudgetTheorem == Spec => []AttemptBudget
<1>1. IInv => AttemptBudget
  BY DEF IInv, RowsInv, RowInv, AttemptBudget
<1> QED
  BY <1>1, InductiveInvariant, PTL

\* A task with the current version holds an exact copy of the row.
THEOREM SnapshotTheorem == Spec => []CurrentTaskSeesRow
<1>1. IInv => CurrentTaskSeesRow
  BY DEF IInv, TasksInv, TaskInv, CurrentTaskSeesRow
<1> QED
  BY <1>1, InductiveInvariant, PTL

\* Start, resume and late commits never make two rows of an account active,
\* nor an old one.
THEOREM NewestActiveTheorem == Spec => []OnlyNewestActive
<1>1. IInv => OnlyNewestActive
  <2> SUFFICES ASSUME IInv, NEW a \in Accounts, NEW j \in ActiveOf(a), NEW k \in RowsOf(a)
               PROVE  k <= j
    BY DEF OnlyNewestActive, LatestOf, ActiveOf
  <2>1. /\ j \in JobIds /\ k \in JobIds
        /\ k <= created
        /\ jobs[j].account = jobs[k].account
        /\ jobs[j].status \in Active
    BY DEF ActiveOf, RowsOf
  <2>2. ~(j < k)
    BY <2>1 DEF IInv, ReplacedClosed
  <2> QED
    BY <2>1, <2>2 DEF JobIds
<1> QED
  BY <1>1, InductiveInvariant, PTL

\* How a step may change row j, by action; everything else leaves it alone.
RowStep(j) ==
    \/ jobs'[j] = jobs[j]
    \/ /\ jobs[j] = AbsentRow
       /\ j = created + 1
       /\ jobs'[j].account \in Accounts
       /\ jobs'[j].chunks = 0
       /\ jobs'[j].status = "QUEUED"
    \/ jobs[j].status \in Active /\ jobs'[j] = PausedRow(jobs[j])
    \/ /\ jobs[j].status \in {"PAUSED", "FAILED"}
       /\ j \in LatestOf(jobs[j].account)
       /\ jobs'[j] = ResumedRow(jobs[j])
    \/ \E w \in Workers :
          /\ ClaimJobs(w)
          /\ Claimable(jobs[j])
          /\ jobs'[j] = ClaimedRow(jobs[j], w)
    \/ \E w \in Workers :
          /\ HoldsClaim(w, j)
          /\ tasks[w][j].stage = "settled"
          /\ jobs'[j] = CommittedRow(jobs[j], UpdateOf(tasks[w][j]))

LEMMA EveryRowStep ==
  ASSUME IInv, [Next]_vars, NEW j \in JobIds
  PROVE  RowStep(j)
<1> USE DEF IInv
<1>1. ASSUME NEW a \in Accounts, StartBackfill(a)
      PROVE  RowStep(j)
  <2>1. CASE j = created + 1
    <3>1. jobs[j] = AbsentRow
      BY <2>1 DEF UninsertedAbsent, TypeOK
    <3>2. jobs'[j].account = a /\ jobs'[j].chunks = 0 /\ jobs'[j].status = "QUEUED"
      BY <1>1, <2>1 DEF StartBackfill, TypeOK, AbsentRow
    <3> QED
      BY <2>1, <3>1, <3>2 DEF RowStep
  <2>2. CASE j # created + 1
    BY <1>1, <2>2 DEF StartBackfill, TypeOK, RowStep
  <2> QED
    BY <2>1, <2>2
<1>2. ASSUME NEW a \in Accounts, RequestPause(a)
      PROVE  RowStep(j)
  BY <1>2 DEF RequestPause, ActiveOf, RowStep
<1>3. ASSUME NEW a \in Accounts, ResumeJob(a)
      PROVE  RowStep(j)
  <2> PICK r \in LatestOf(a) :
        /\ jobs[r].status \in {"PAUSED", "FAILED"}
        /\ jobs' = [jobs EXCEPT ![r] = ResumedRow(@)]
    BY <1>3 DEF ResumeJob
  <2>1. jobs[r].account = a
    BY DEF LatestOf, RowsOf
  <2> QED
    BY <2>1 DEF TypeOK, RowStep
<1>4. ASSUME NEW w \in Workers, ClaimJobs(w)
      PROVE  RowStep(j)
  <2> PICK S \in SUBSET Eligible :
        jobs' = [i \in JobIds |-> IF i \in S THEN ClaimedRow(jobs[i], w) ELSE jobs[i]]
    BY <1>4 DEF ClaimJobs
  <2>1. CASE j \in S
    BY <1>4, <2>1 DEF Eligible, RowStep
  <2>2. CASE j \notin S
    BY <2>2 DEF RowStep
  <2> QED
    BY <2>1, <2>2
<1>5. ASSUME NEW w \in Workers, NEW i \in JobIds, CommitJobState(w, i)
      PROVE  RowStep(j)
  BY <1>5 DEF CommitJobState, TypeOK, RowStep
<1>6. CASE UNCHANGED jobs
  BY <1>6 DEF RowStep
<1>7. ASSUME NEW a \in Accounts, AccountStep(a)
      PROVE  UNCHANGED jobs
  BY <1>7 DEF AccountStep, OutsideStep, PlanOutside, BeginOutside, FinishOutside,
              ReturnOutside, ConnectionChanges, tableVars
<1>8. ASSUME NEW w \in Workers, FaultStep(w)
      PROVE  UNCHANGED jobs
  BY <1>8 DEF FaultStep, Crash, CommitFails, FailMarking, FailChunk, tableVars
<1>9. ASSUME NEW w \in Workers,
             \/ CountRunning(w)
             \/ \E i \in JobIds : \/ PlanChunk(w, i) \/ BeginSyncRun(w, i)
                                \/ FinishChunk(w, i) \/ ReturnChunk(w, i)
      PROVE  UNCHANGED jobs
  BY <1>9 DEF CountRunning, PlanChunk, BeginSyncRun, FinishChunk, ReturnChunk, tableVars
<1>10. CASE StaleRunsRecovered \/ Tick \/ UNCHANGED vars
  BY <1>6, <1>10 DEF StaleRunsRecovered, Tick, vars, tableVars
<1> QED
  BY <1>1, <1>2, <1>3, <1>4, <1>5, <1>6, <1>7, <1>8, <1>9, <1>10
  DEF Next, UserStep, WorkerStep, ChunkStep

\* A pause requested during a chunk is kept until the job stops: the commit
\* that clears the flag has seen it, so it parks or ends the job.
THEOREM PauseTheorem == Spec => PauseNeverDropped
<1>1. IInv /\ [Next]_vars =>
        [\A j \in JobIds :
            jobs[j].pauseRequested => \/ jobs'[j].pauseRequested
                                      \/ jobs'[j].status \in Stopped]_jobs
  <2> SUFFICES ASSUME IInv, [Next]_vars, NEW j \in JobIds, jobs[j].pauseRequested
               PROVE  jobs'[j].pauseRequested \/ jobs'[j].status \in Stopped
    OBVIOUS
  <2>1. jobs[j] \in JobRow /\ jobs[j].status = "RUNNING"
    BY DEF IInv, TypeOK, RowsInv, RowInv
  <2>2. RowStep(j)
    BY EveryRowStep
  <2>3. CASE jobs[j] = AbsentRow
    BY <2>3 DEF AbsentRow
  <2>4. CASE jobs'[j] = PausedRow(jobs[j])
    BY <2>1, <2>4 DEF PausedRow, JobRow
  <2>5. ASSUME NEW w \in Workers, jobs'[j] = ClaimedRow(jobs[j], w)
        PROVE  jobs'[j].pauseRequested
    BY <2>1, <2>5 DEF ClaimedRow, JobRow
  <2>6. ASSUME NEW w \in Workers, HoldsClaim(w, j),
               jobs'[j] = CommittedRow(jobs[j], UpdateOf(tasks[w][j]))
        PROVE  jobs'[j].status \in Stopped
    <3>1. tasks[w][j].job.pauseRequested
      BY <2>6, ClaimHeld
    <3>2. SuccessUpdate(tasks[w][j]).status \in Stopped
      BY <3>1 DEF SuccessUpdate, JobUpdate, Stopped
    <3>3. FailureUpdate(tasks[w][j]).status \in Stopped
      BY <3>1 DEF FailureUpdate, JobUpdate, Stopped
    <3>4. UpdateOf(tasks[w][j]).status \in Stopped
      BY <3>2, <3>3 DEF UpdateOf
    <3>5. jobs'[j].status = UpdateOf(tasks[w][j]).status
      BY <2>1, <2>6 DEF CommittedRow, JobRow
    <3> QED
      BY <3>4, <3>5
  <2> QED
    BY <2>1, <2>2, <2>3, <2>4, <2>5, <2>6 DEF RowStep
<1> QED
  BY <1>1, InductiveInvariant, PTL DEF Spec, PauseNeverDropped

\* A row at the safety limit, or replaced by a newer one, is never written.
THEOREM ClosedTheorem == Spec => ClosedRowsFrozen
<1>1. IInv /\ [Next]_vars =>
        [\A j \in JobIds :
            \/ jobs[j].status = "SAFETY_LIMIT_REACHED"
            \/ \E k \in JobIds : k > j /\ k <= created /\ jobs[k].account = jobs[j].account
            => jobs'[j] = jobs[j]]_jobs
  <2> SUFFICES ASSUME IInv, [Next]_vars, NEW j \in JobIds,
                      \/ jobs[j].status = "SAFETY_LIMIT_REACHED"
                      \/ \E k \in JobIds : /\ k > j /\ k <= created
                                           /\ jobs[k].account = jobs[j].account
               PROVE  jobs'[j] = jobs[j]
    OBVIOUS
  <2>1. RowStep(j)
    BY EveryRowStep
  <2>2. jobs[j].status \notin Active
    BY DEF IInv, ReplacedClosed, Active, JobIds
  <2>3. ~(jobs[j] = AbsentRow /\ j = created + 1)
    BY DEF AbsentRow, IInv, TypeOK, JobIds
  <2>4. ~(jobs[j].status \in {"PAUSED", "FAILED"} /\ j \in LatestOf(jobs[j].account))
    BY DEF LatestOf, RowsOf, JobIds
  <2>5. ~Claimable(jobs[j])
    BY <2>2, ActiveNames DEF Claimable
  <2>6. \A w \in Workers : ~HoldsClaim(w, j)
    BY <2>2, ClaimHeld, ActiveNames
  <2> QED
    BY <2>1, <2>2, <2>3, <2>4, <2>5, <2>6 DEF RowStep
<1> QED
  BY <1>1, InductiveInvariant, PTL DEF Spec, ClosedRowsFrozen

\* No write, however late, takes the chunk counter of a job back.
THEOREM ProgressTheorem == Spec => ProgressNeverRegresses
<1>1. IInv /\ [Next]_vars => [\A j \in JobIds : jobs'[j].chunks >= jobs[j].chunks]_jobs
  <2> SUFFICES ASSUME IInv, [Next]_vars, NEW j \in JobIds
               PROVE  jobs'[j].chunks >= jobs[j].chunks
    OBVIOUS
  <2>1. jobs[j] \in JobRow /\ jobs[j].chunks \in Nat
    BY DEF IInv, TypeOK, JobRow
  <2>2. RowStep(j)
    BY EveryRowStep
  <2>3. /\ PausedRow(jobs[j]).chunks = jobs[j].chunks
        /\ ResumedRow(jobs[j]).chunks = jobs[j].chunks
        /\ \A w \in Workers : ClaimedRow(jobs[j], w).chunks = jobs[j].chunks
    BY <2>1 DEF PausedRow, ResumedRow, ClaimedRow, JobRow
  <2>4. jobs[j] = AbsentRow => jobs[j].chunks = 0
    BY DEF AbsentRow
  <2>5. ASSUME NEW w \in Workers, HoldsClaim(w, j)
        PROVE  CommittedRow(jobs[j], UpdateOf(tasks[w][j])).chunks
                  \in {jobs[j].chunks, jobs[j].chunks + 1}
    <3>1. tasks[w][j].job = jobs[j]
      BY <2>5, ClaimHeld
    <3>2. UpdateOf(tasks[w][j]).chunks \in {jobs[j].chunks, jobs[j].chunks + 1}
      BY <3>1 DEF UpdateOf, SuccessUpdate, FailureUpdate, JobUpdate
    <3> QED
      BY <2>1, <3>2 DEF CommittedRow, JobRow
  <2> QED
    BY <2>1, <2>2, <2>3, <2>4, <2>5 DEF RowStep
<1> QED
  BY <1>1, InductiveInvariant, PTL DEF Spec, ProgressNeverRegresses

---------------------------------------------------------------------------
(* The job life cycle                                                      *)

InsertedPresent == \A j \in JobIds : jobs[j].status = "ABSENT" => j > created

LEMMA InsertedPresentInit == Init => InsertedPresent
  BY DEF Init, InsertedPresent, JobIds

LEMMA CreatedStep ==
  ASSUME IInv, [Next]_vars
  PROVE  \/ created' = created
         \/ /\ created + 1 \in JobIds
            /\ created' = created + 1
            /\ jobs'[created + 1].status = "QUEUED"
<1>1. ASSUME NEW a \in Accounts, StartBackfill(a)
      PROVE  /\ created + 1 \in JobIds
             /\ created' = created + 1
             /\ jobs'[created + 1].status = "QUEUED"
  <2>1. created + 1 \in JobIds
    BY <1>1, ConfigAssumption DEF StartBackfill, IInv, TypeOK, JobIds
  <2> QED
    BY <1>1, <2>1 DEF StartBackfill, IInv, TypeOK, AbsentRow
<1>2. ASSUME NEW a \in Accounts, RequestPause(a) \/ ResumeJob(a) \/ AccountStep(a)
      PROVE  created' = created
  BY <1>2 DEF RequestPause, ResumeJob, AccountStep, OutsideStep, PlanOutside,
              BeginOutside, FinishOutside, ReturnOutside, ConnectionChanges, tableVars
<1>3. ASSUME NEW w \in Workers, WorkerStep(w) \/ FaultStep(w)
      PROVE  created' = created
  BY <1>3 DEF WorkerStep, CountRunning, ClaimJobs, ChunkStep, PlanChunk, BeginSyncRun,
              FinishChunk, ReturnChunk, CommitJobState, FaultStep, Crash, CommitFails,
              FailMarking, FailChunk, tableVars
<1>4. CASE StaleRunsRecovered \/ Tick \/ UNCHANGED vars
  BY <1>4 DEF StaleRunsRecovered, Tick, vars, tableVars
<1> QED
  BY <1>1, <1>2, <1>3, <1>4 DEF Next, UserStep

LEMMA InsertedPresentStep ==
  ASSUME IInv, InsertedPresent, [Next]_vars
  PROVE  InsertedPresent'
<1> SUFFICES ASSUME NEW j \in JobIds, jobs'[j].status = "ABSENT"
             PROVE  j > created'
  BY DEF InsertedPresent
<1>1. jobs[j] \in JobRow
  BY DEF IInv, TypeOK
<1>2. RowStep(j)
  BY EveryRowStep
<1>3. jobs[j].status \in Active => PausedRow(jobs[j]).status # "ABSENT"
  BY <1>1, ActiveNames DEF PausedRow, JobRow
<1>4. /\ ResumedRow(jobs[j]).status # "ABSENT"
      /\ \A w \in Workers : ClaimedRow(jobs[j], w).status # "ABSENT"
  BY <1>1 DEF ResumedRow, ClaimedRow, JobRow
<1>5. ASSUME NEW w \in Workers, HoldsClaim(w, j)
      PROVE  CommittedRow(jobs[j], UpdateOf(tasks[w][j])).status # "ABSENT"
  <2>1. UpdateOf(tasks[w][j]).status \in Statuses
    BY <1>5, ClaimHeld, UpdateType DEF Update
  <2> QED
    BY <1>1, <2>1, StatusNames DEF CommittedRow, JobRow
<1>6. jobs'[j] = jobs[j]
  BY <1>2, <1>3, <1>4, <1>5 DEF RowStep
<1>7. j > created /\ created \in Nat /\ j \in Nat
  BY <1>6 DEF InsertedPresent, IInv, TypeOK, JobIds
<1>8. created' = created \/ (created' = created + 1 /\ j # created + 1)
  BY CreatedStep
<1> QED
  BY <1>7, <1>8

\* What each action of the table is in the life cycle.
LEMMA StartIsStart ==
  ASSUME IInv, InsertedPresent, NEW a \in Accounts, StartBackfill(a),
         NEW n \in JobIds, n = created + 1
  PROVE  Lifecycle!Start(a, n)
<1> USE DEF IInv
<1>1. /\ created \in Nat
      /\ jobs' = [jobs EXCEPT ![n] =
                     [AbsentRow EXCEPT !.account = a, !.status = "QUEUED", !.nextAttempt = now]]
  BY ConfigAssumption DEF StartBackfill, TypeOK, JobIds
<1>2. jobs[n] = AbsentRow
  BY <1>1 DEF UninsertedAbsent
<1>3. Lifecycle!LiveOf(a) = {}
  <2> SUFFICES ASSUME NEW j \in JobIds, jobs[j].account = a, jobs[j].status \in Active
               PROVE  FALSE
    BY DEF Lifecycle!LiveOf, Lifecycle!Live, Lifecycle!Jobs, JobIds, Active
  <2>1. j <= created
    BY <1>1, ActiveInserted
  <2> QED
    BY <2>1 DEF StartBackfill, ActiveOf, RowsOf
<1>4. \A k \in JobIds : k < n <=> jobs[k].status # "ABSENT"
  <2> SUFFICES ASSUME NEW k \in JobIds
               PROVE  k < n <=> jobs[k].status # "ABSENT"
    OBVIOUS
  <2>1. k > created => jobs[k].status = "ABSENT"
    BY DEF UninsertedAbsent, AbsentRow
  <2>2. jobs[k].status = "ABSENT" => k > created
    BY DEF InsertedPresent
  <2> QED
    BY <1>1, <2>1, <2>2 DEF JobIds
<1>5. Lifecycle!Trans(n, {"ABSENT"}, "QUEUED")
  <2>1. jobs[n].status = "ABSENT"
    BY <1>2 DEF AbsentRow
  <2>2. [j \in JobIds |-> jobs'[j].status] =
           [[j \in JobIds |-> jobs[j].status] EXCEPT ![n] = "QUEUED"]
    BY <1>1 DEF TypeOK, AbsentRow
  <2> QED
    BY <1>1, <2>1, <2>2 DEF Lifecycle!Trans
<1>6. [j \in JobIds |-> jobs'[j].account] =
         [[j \in JobIds |-> jobs[j].account] EXCEPT ![n] = a]
  BY <1>1 DEF TypeOK, AbsentRow
<1> QED
  BY <1>3, <1>4, <1>5, <1>6 DEF Lifecycle!Start, Lifecycle!Exists, Lifecycle!Jobs, JobIds

\* The row a pause changes is the only live one of the account.
LEMMA PauseIsPause ==
  ASSUME IInv, NEW a \in Accounts, RequestPause(a)
  PROVE  (\E j \in JobIds : Lifecycle!Pause(j)) \/ UNCHANGED Lifecycle!vars
<1> USE DEF IInv
<1> PICK p \in ActiveOf(a) : TRUE
  BY DEF RequestPause
<1>1. p \in JobIds /\ jobs[p] \in JobRow
  BY DEF ActiveOf, RowsOf, TypeOK
<1>2. ActiveOf(a) = {p}
  <2> SUFFICES ASSUME NEW k \in ActiveOf(a), k # p
               PROVE  FALSE
    OBVIOUS
  <2>1. /\ k \in JobIds /\ p \in JobIds
        /\ k <= created /\ p <= created
        /\ jobs[k].account = jobs[p].account
        /\ jobs[k].status \in Active /\ jobs[p].status \in Active
    BY DEF ActiveOf, RowsOf
  <2>2. k < p \/ p < k
    BY <2>1 DEF JobIds
  <2> QED
    BY <2>1, <2>2 DEF ReplacedClosed
<1>3. jobs' = [jobs EXCEPT ![p] = PausedRow(jobs[p])]
  BY <1>1, <1>2 DEF RequestPause, TypeOK
<1>4. /\ PausedRow(jobs[p]).account = jobs[p].account
      /\ PausedRow(jobs[p]).status =
            IF jobs[p].status \in Waiting THEN "PAUSED" ELSE jobs[p].status
  BY <1>1 DEF PausedRow, JobRow
<1>5. [j \in JobIds |-> jobs'[j].account] = [j \in JobIds |-> jobs[j].account]
  BY <1>1, <1>3, <1>4 DEF TypeOK
<1>6. CASE jobs[p].status \in Waiting
  <2>1. [j \in JobIds |-> jobs'[j].status] =
           [[j \in JobIds |-> jobs[j].status] EXCEPT ![p] = "PAUSED"]
    BY <1>1, <1>3, <1>4, <1>6 DEF TypeOK
  <2>2. Lifecycle!Pause(p)
    BY <1>1, <1>5, <1>6, <2>1, ActiveNames DEF Lifecycle!Pause, Lifecycle!Trans
  <2> QED
    BY <1>1, <2>2
<1>7. CASE jobs[p].status \notin Waiting
  <2>1. [j \in JobIds |-> jobs'[j].status] = [j \in JobIds |-> jobs[j].status]
    BY <1>1, <1>3, <1>4, <1>7 DEF TypeOK
  <2> QED
    BY <1>5, <2>1 DEF Lifecycle!vars
<1> QED
  BY <1>6, <1>7

LEMMA ResumeIsResume ==
  ASSUME IInv, NEW a \in Accounts, ResumeJob(a)
  PROVE  \E j \in JobIds : Lifecycle!Resume(j)
<1> USE DEF IInv
<1> PICK r \in LatestOf(a) :
      /\ jobs[r].status \in {"PAUSED", "FAILED"}
      /\ jobs' = [jobs EXCEPT ![r] = ResumedRow(@)]
  BY DEF ResumeJob
<1>1. r \in JobIds /\ jobs[r] \in JobRow /\ jobs[r].account = a
  BY DEF LatestOf, RowsOf, TypeOK
<1>2. ResumedRow(jobs[r]).account = jobs[r].account /\ ResumedRow(jobs[r]).status = "QUEUED"
  BY <1>1 DEF ResumedRow, JobRow
<1>3. Lifecycle!Newest(r)
  <2> SUFFICES ASSUME NEW k \in JobIds, jobs[k].status # "ABSENT", jobs[k].account = a
               PROVE  k <= r
    BY <1>1 DEF Lifecycle!Newest, Lifecycle!Exists, Lifecycle!Jobs, JobIds
  <2>1. ~(k > created)
    BY DEF UninsertedAbsent, AbsentRow
  <2>2. k <= created
    BY <2>1 DEF JobIds, TypeOK
  <2> QED
    BY <2>2 DEF LatestOf, RowsOf
<1>4. [j \in JobIds |-> jobs'[j].account] = [j \in JobIds |-> jobs[j].account]
  BY <1>1, <1>2 DEF TypeOK
<1>5. [j \in JobIds |-> jobs'[j].status] =
         [[j \in JobIds |-> jobs[j].status] EXCEPT ![r] = "QUEUED"]
  BY <1>1, <1>2 DEF TypeOK
<1>6. Lifecycle!Resume(r)
  BY <1>1, <1>3, <1>4, <1>5 DEF Lifecycle!Resume, Lifecycle!Trans
<1> QED
  BY <1>1, <1>6

\* A claim takes the waiting rows; a stolen one was and stays RUNNING.
LEMMA ClaimIsTake ==
  ASSUME IInv, NEW w \in Workers, ClaimJobs(w)
  PROVE  \E S \in SUBSET JobIds : Lifecycle!Take(S)
<1> USE DEF IInv
<1> PICK S \in SUBSET Eligible :
      jobs' = [j \in JobIds |-> IF j \in S THEN ClaimedRow(jobs[j], w) ELSE jobs[j]]
  BY DEF ClaimJobs
<1>1. S \in SUBSET JobIds
  BY DEF Eligible
<1> PICK T \in SUBSET JobIds : T = {j \in S : jobs[j].status \in Waiting}
  BY <1>1
<1>2. \A j \in JobIds : jobs[j] \in JobRow
  BY DEF TypeOK
<1>3. \A j \in JobIds : /\ ClaimedRow(jobs[j], w).account = jobs[j].account
                        /\ ClaimedRow(jobs[j], w).status = "RUNNING"
  BY <1>2 DEF ClaimedRow, JobRow
<1>4. \A j \in S \ T : jobs[j].status = "RUNNING"
  BY <1>1 DEF Eligible, Claimable
<1>5. [j \in JobIds |-> jobs'[j].account] = [j \in JobIds |-> jobs[j].account]
  BY <1>3
<1>6. [j \in JobIds |-> jobs'[j].status] =
         [j \in JobIds |-> IF j \in T THEN "RUNNING" ELSE jobs[j].status]
  <2>1. \A j \in JobIds :
           jobs'[j].status = IF j \in T THEN "RUNNING" ELSE jobs[j].status
    BY <1>3, <1>4
  <2> QED
    BY <2>1
<1>7. \A j \in T : jobs[j].status \in {"QUEUED", "RETRY_WAIT"}
  BY ActiveNames
<1>8. Lifecycle!Take(T)
  <2>1. \A j \in T : [i \in JobIds |-> jobs[i].status][j] = jobs[j].status
    OBVIOUS
  <2>2. \A j \in T : [i \in JobIds |-> jobs[i].status][j] \in {"QUEUED", "RETRY_WAIT"}
    BY <1>7, <2>1
  <2> QED
    BY <1>5, <1>6, <2>2 DEF Lifecycle!Take, Lifecycle!Jobs, JobIds
<1> QED
  BY <1>8

LEMMA CommitIsReturn ==
  ASSUME IInv, NEW w \in Workers, NEW j \in JobIds, CommitJobState(w, j)
  PROVE  Lifecycle!Return(j) \/ UNCHANGED Lifecycle!vars
<1> USE DEF IInv
<1>1. CASE ~HoldsClaim(w, j)
  BY <1>1 DEF CommitJobState, Lifecycle!vars
<1>2. CASE HoldsClaim(w, j)
  <2> DEFINE u == UpdateOf(tasks[w][j])
             new == CommittedRow(jobs[j], u)
  <2>1. jobs' = [jobs EXCEPT ![j] = new]
    BY <1>2 DEF CommitJobState
  <2>2. jobs[j].status = "RUNNING" /\ jobs[j] \in JobRow
    BY <1>2, ClaimHeld
  <2>3. u.status \in {"QUEUED", "RETRY_WAIT", "PAUSED", "FAILED", "SAFETY_LIMIT_REACHED"}
    <3>1. u.status \in Statuses
      BY <1>2, ClaimHeld, UpdateType DEF Update
    <3>2. u.status # "RUNNING"
      BY <1>2, ClaimHeld, UpdateWithinBudget
    <3> QED
      BY <3>1, <3>2, StatusNames
  <2> HIDE DEF u
  <2>4. new.account = jobs[j].account /\ new.status = u.status
    BY <2>2 DEF CommittedRow, JobRow
  <2> HIDE DEF new
  <2>5. [i \in JobIds |-> jobs'[i].account] = [i \in JobIds |-> jobs[i].account]
    BY <2>1, <2>4 DEF TypeOK
  <2>6. [i \in JobIds |-> jobs'[i].status] =
           [[i \in JobIds |-> jobs[i].status] EXCEPT ![j] = u.status]
    BY <2>1, <2>4 DEF TypeOK
  <2> QED
    BY <2>2, <2>3, <2>5, <2>6 DEF Lifecycle!Return, Lifecycle!Trans
<1> QED
  BY <1>1, <1>2

\* The backfill implements the life cycle of its jobs.
THEOREM Implementation == Spec => ImplementsLifecycle
<1>1. Init => Lifecycle!Init
  BY DEF Init, Lifecycle!Init, AbsentRow, Lifecycle!Jobs, JobIds
<1>2. IInv /\ InsertedPresent /\ [Next]_vars => InsertedPresent'
  BY InsertedPresentStep
<1>3. IInv /\ InsertedPresent /\ [Next]_vars => [Lifecycle!Next]_Lifecycle!vars
  <2> SUFFICES ASSUME IInv, InsertedPresent, [Next]_vars
               PROVE  Lifecycle!Next \/ UNCHANGED Lifecycle!vars
    OBVIOUS
  <2>1. JobIds = Lifecycle!Jobs
    BY DEF JobIds, Lifecycle!Jobs
  <2>2. ASSUME NEW a \in Accounts, StartBackfill(a)
        PROVE  Lifecycle!Next
    <3>1. created + 1 \in JobIds
      BY <2>2, ConfigAssumption DEF StartBackfill, IInv, TypeOK, JobIds
    <3> PICK n \in JobIds : n = created + 1
      BY <3>1
    <3>2. Lifecycle!Start(a, n)
      BY <2>2, StartIsStart
    <3> QED
      BY <2>1, <3>2 DEF Lifecycle!Next
  <2>3. ASSUME NEW a \in Accounts, RequestPause(a)
        PROVE  Lifecycle!Next \/ UNCHANGED Lifecycle!vars
    BY <2>1, <2>3, PauseIsPause DEF Lifecycle!Next
  <2>4. ASSUME NEW a \in Accounts, ResumeJob(a)
        PROVE  Lifecycle!Next
    BY <2>1, <2>4, ResumeIsResume DEF Lifecycle!Next
  <2>5. ASSUME NEW w \in Workers, ClaimJobs(w)
        PROVE  Lifecycle!Next
    BY <2>1, <2>5, ClaimIsTake DEF Lifecycle!Next
  <2>6. ASSUME NEW w \in Workers, NEW j \in JobIds, CommitJobState(w, j)
        PROVE  Lifecycle!Next \/ UNCHANGED Lifecycle!vars
    BY <2>1, <2>6, CommitIsReturn DEF Lifecycle!Next
  <2>7. CASE UNCHANGED jobs
    BY <2>7 DEF Lifecycle!vars
  <2>8. ASSUME NEW a \in Accounts, AccountStep(a)
        PROVE  UNCHANGED jobs
    BY <2>8 DEF AccountStep, OutsideStep, PlanOutside, BeginOutside, FinishOutside,
                ReturnOutside, ConnectionChanges, tableVars
  <2>9. ASSUME NEW w \in Workers,
               \/ FaultStep(w)
               \/ CountRunning(w)
               \/ \E j \in JobIds : \/ PlanChunk(w, j) \/ BeginSyncRun(w, j)
                                  \/ FinishChunk(w, j) \/ ReturnChunk(w, j)
        PROVE  UNCHANGED jobs
    BY <2>9 DEF FaultStep, Crash, CommitFails, FailMarking, FailChunk, CountRunning, PlanChunk,
                BeginSyncRun, FinishChunk, ReturnChunk, tableVars
  <2>10. CASE StaleRunsRecovered \/ Tick \/ UNCHANGED vars
    BY <2>7, <2>10 DEF StaleRunsRecovered, Tick, vars, tableVars
  <2> QED
    BY <2>2, <2>3, <2>4, <2>5, <2>6, <2>7, <2>8, <2>9, <2>10
    DEF Next, UserStep, WorkerStep, ChunkStep
<1> QED
  BY <1>1, <1>2, <1>3, InsertedPresentInit, InductiveInvariant, PTL
  DEF Spec, ImplementsLifecycle, Lifecycle!Spec

---------------------------------------------------------------------------
(* The ceiling of an instance                                              *)

LEMMA JobSetFinite ==
  ASSUME NEW S \in SUBSET JobIds
  PROVE  IsFiniteSet(S) /\ Cardinality(S) \in Nat
<1>1. IsFiniteSet(JobIds)
  BY FS_Interval, ConfigAssumption DEF JobIds
<1> QED
  BY <1>1, FS_Subset, FS_CardinalityType

\* The jobs whose lease an instance holds.
HeldBy(w) == {j \in CurrentlyRunning : jobs[j].owner = w}

LEMMA ClockSteps ==
  ASSUME [Next]_vars
  PROVE  now' = now \/ now' = now + 1
<1>1. ASSUME NEW a \in Accounts, UserStep(a) \/ AccountStep(a)
      PROVE  now' = now
  BY <1>1 DEF UserStep, StartBackfill, RequestPause, ResumeJob, AccountStep, OutsideStep,
              PlanOutside, BeginOutside, FinishOutside, ReturnOutside, ConnectionChanges
<1>2. ASSUME NEW w \in Workers, WorkerStep(w)
      PROVE  now' = now
  BY <1>2 DEF WorkerStep, CountRunning, ClaimJobs, ChunkStep, PlanChunk, BeginSyncRun,
              FinishChunk, ReturnChunk, CommitJobState
<1>3. ASSUME NEW w \in Workers, FaultStep(w)
      PROVE  now' = now
  BY <1>3 DEF FaultStep, Crash, CommitFails, FailMarking, FailChunk
<1>4. CASE StaleRunsRecovered \/ Tick \/ UNCHANGED vars
  BY <1>4 DEF StaleRunsRecovered, Tick, vars
<1> QED
  BY <1>1, <1>2, <1>3, <1>4 DEF Next

\* Only its own claim gives an instance a lease it did not hold.
LEMMA LeasesOnlyEnd ==
  ASSUME IInv, [Next]_vars, NEW w \in Workers, ~ClaimJobs(w)
  PROVE  HeldBy(w)' \subseteq HeldBy(w)
<1> SUFFICES ASSUME NEW j \in JobIds, jobs'[j].status = "RUNNING",
                    jobs'[j].leaseExpires >= now', jobs'[j].owner = w
             PROVE  /\ jobs[j].status = "RUNNING"
                    /\ jobs[j].leaseExpires >= now
                    /\ jobs[j].owner = w
  BY DEF HeldBy, CurrentlyRunning, LeaseHeld
<1>1. jobs[j] \in JobRow /\ now \in Nat
  BY DEF IInv, TypeOK
<1>2. ASSUME jobs[j].status = "RUNNING", jobs'[j].leaseExpires = jobs[j].leaseExpires,
             jobs'[j].owner = jobs[j].owner
      PROVE  /\ jobs[j].status = "RUNNING"
             /\ jobs[j].leaseExpires >= now
             /\ jobs[j].owner = w
  <2>1. jobs[j].leaseExpires \in Nat
    BY <1>1 DEF JobRow
  <2>2. jobs[j].leaseExpires >= now
    BY <1>1, <1>2, <2>1, ClockSteps
  <2> QED
    BY <1>2, <2>2
<1>3. CASE jobs'[j] = jobs[j]
  BY <1>2, <1>3
<1>4. CASE jobs'[j].status = "QUEUED"
  BY <1>4
<1>5. CASE jobs'[j] = PausedRow(jobs[j])
  <2>1. /\ PausedRow(jobs[j]).leaseExpires = jobs[j].leaseExpires
        /\ PausedRow(jobs[j]).owner = jobs[j].owner
        /\ PausedRow(jobs[j]).status = "RUNNING" => jobs[j].status = "RUNNING"
    BY <1>1 DEF PausedRow, JobRow
  <2> QED
    BY <1>2, <1>5, <2>1
<1>6. CASE jobs'[j] = ResumedRow(jobs[j])
  <2>1. ResumedRow(jobs[j]).status = "QUEUED"
    BY <1>1 DEF ResumedRow, JobRow
  <2> QED
    BY <1>6, <2>1
<1>7. ASSUME NEW v \in Workers, ClaimJobs(v), jobs'[j] = ClaimedRow(jobs[j], v)
      PROVE  FALSE
  <2>1. ClaimedRow(jobs[j], v).owner = v
    BY <1>1 DEF ClaimedRow, JobRow
  <2> QED
    BY <1>7, <2>1
<1>8. ASSUME NEW v \in Workers, HoldsClaim(v, j),
             jobs'[j] = CommittedRow(jobs[j], UpdateOf(tasks[v][j]))
      PROVE  FALSE
  <2>1. UpdateOf(tasks[v][j]).status # "RUNNING"
    BY <1>8, ClaimHeld, UpdateWithinBudget
  <2>2. CommittedRow(jobs[j], UpdateOf(tasks[v][j])).status = UpdateOf(tasks[v][j]).status
    BY <1>1 DEF CommittedRow, JobRow
  <2> QED
    BY <1>8, <2>1, <2>2
<1>9. RowStep(j)
  BY EveryRowStep
<1> QED
  BY <1>3, <1>4, <1>5, <1>6, <1>7, <1>8, <1>9 DEF RowStep

\* A claim adds at most the rows it was allowed to take.
LEMMA ClaimAddsHeadroom ==
  ASSUME TypeOK, NEW w \in Workers, ClaimJobs(w)
  PROVE  Cardinality(HeldBy(w)') <= Cardinality(HeldBy(w)) + headroom[w]
<1> DEFINE H == HeldBy(w)
<1> PICK S \in SUBSET Eligible :
      /\ Cardinality(S) <= headroom[w]
      /\ jobs' = [j \in JobIds |-> IF j \in S THEN ClaimedRow(jobs[j], w) ELSE jobs[j]]
  BY DEF ClaimJobs, IsClaim
<1>1. now' = now
  BY DEF ClaimJobs
<1>2. HeldBy(w)' \subseteq H \cup S
  BY <1>1 DEF HeldBy, CurrentlyRunning, LeaseHeld
<1>3. S \in SUBSET JobIds /\ H \in SUBSET JobIds
  BY DEF Eligible, HeldBy, CurrentlyRunning
<1> HIDE DEF H
<1>4. /\ IsFiniteSet(S) /\ Cardinality(S) \in Nat
      /\ IsFiniteSet(H) /\ Cardinality(H) \in Nat
  BY <1>3, JobSetFinite
<1>5. Cardinality(H \cup S) <= Cardinality(H) + Cardinality(S)
  <2>1. Cardinality(H \cup S) = Cardinality(H) + Cardinality(S) - Cardinality(H \cap S)
    BY <1>4, FS_Union
  <2>2. Cardinality(H \cap S) \in Nat
    BY <1>3, JobSetFinite
  <2> QED
    BY <1>4, <2>1, <2>2
<1>6. Cardinality(HeldBy(w)') <= Cardinality(H \cup S)
  <2>1. IsFiniteSet(H \cup S)
    BY <1>3, JobSetFinite
  <2> QED
    BY <1>2, <2>1, FS_Subset
<1>7. Cardinality(HeldBy(w)') \in Nat /\ Cardinality(H \cup S) \in Nat
  <2>1. HeldBy(w)' \in SUBSET JobIds /\ H \cup S \in SUBSET JobIds
    BY <1>2, <1>3
  <2> QED
    BY <2>1, JobSetFinite
<1>8. headroom[w] \in Nat
  BY DEF TypeOK
<1>9. Cardinality(HeldBy(w)') <= Cardinality(H) + headroom[w]
  BY <1>4, <1>5, <1>6, <1>7, <1>8
<1> QED
  BY <1>9 DEF H

\* Only its own count gives an instance more headroom.
LEMMA HeadroomSteps ==
  ASSUME TypeOK, [Next]_vars, NEW w \in Workers, ~CountRunning(w)
  PROVE  headroom'[w] \in {headroom[w], 0}
<1>1. ASSUME NEW a \in Accounts, UserStep(a) \/ AccountStep(a)
      PROVE  headroom' = headroom
  BY <1>1 DEF UserStep, StartBackfill, RequestPause, ResumeJob, AccountStep, OutsideStep,
              PlanOutside, BeginOutside, FinishOutside, ReturnOutside, ConnectionChanges,
              workerVars
<1>2. ASSUME NEW v \in Workers, NEW j \in JobIds, ChunkStep(v, j)
      PROVE  headroom' = headroom
  BY <1>2 DEF ChunkStep, PlanChunk, BeginSyncRun, FinishChunk, ReturnChunk, CommitJobState
<1>3. ASSUME NEW v \in Workers, v # w, CountRunning(v)
      PROVE  headroom'[w] = headroom[w]
  BY <1>3 DEF CountRunning, TypeOK
<1>4. ASSUME NEW v \in Workers, ClaimJobs(v) \/ Crash(v)
      PROVE  headroom'[w] \in {headroom[w], 0}
  <2>1. headroom' = [headroom EXCEPT ![v] = 0]
    BY <1>4 DEF ClaimJobs, Crash
  <2> QED
    BY <2>1 DEF TypeOK
<1>5. ASSUME NEW v \in Workers, NEW j \in JobIds,
             \/ CommitFails(v, j) \/ FailMarking(v, j)
             \/ \E class \in ErrorClasses : FailChunk(v, j, class)
      PROVE  headroom' = headroom
  BY <1>5 DEF CommitFails, FailMarking, FailChunk
<1>6. CASE StaleRunsRecovered \/ Tick \/ UNCHANGED vars
  BY <1>6 DEF StaleRunsRecovered, Tick, vars, workerVars
<1> QED
  BY <1>1, <1>2, <1>3, <1>4, <1>5, <1>6 DEF Next, WorkerStep, FaultStep

\* However many instances count and claim side by side, none holds more leases
\* than the ceiling, nor would with all it has counted room for: what another
\* one takes between the count and the claim only makes it hold fewer.  The
\* ceiling over all instances is another matter (GlobalCeiling).
THEOREM CeilingTheorem == Spec => []InstanceCeiling
<1> DEFINE Fits(w) == Cardinality(HeldBy(w)) + headroom[w] <= MaxConcurrentJobs
<1>1. InstanceCeiling <=> \A w \in Workers : Fits(w)
  BY DEF InstanceCeiling, HeldBy
<1>2. Init => InstanceCeiling
  <2> SUFFICES ASSUME Init, NEW w \in Workers
               PROVE  Fits(w)
    BY <1>1
  <2>1. HeldBy(w) = {}
    BY DEF Init, HeldBy, CurrentlyRunning, LeaseHeld, AbsentRow
  <2>2. Cardinality(HeldBy(w)) = 0
    BY <2>1, FS_EmptySet
  <2> QED
    BY <2>2, ConfigAssumption DEF Init
<1>3. IInv /\ InstanceCeiling /\ [Next]_vars => InstanceCeiling'
  <2> SUFFICES ASSUME IInv, InstanceCeiling, [Next]_vars, NEW w \in Workers
               PROVE  Cardinality(HeldBy(w)') + headroom'[w] <= MaxConcurrentJobs
    BY DEF InstanceCeiling, HeldBy
  <2>1. /\ IsFiniteSet(HeldBy(w))
        /\ Cardinality(HeldBy(w)) \in Nat
        /\ Cardinality(HeldBy(w)') \in Nat
    <3>1. HeldBy(w) \in SUBSET JobIds /\ HeldBy(w)' \in SUBSET JobIds
      BY DEF HeldBy, CurrentlyRunning
    <3> QED
      BY <3>1, JobSetFinite
  <2>2. headroom[w] \in Nat /\ MaxConcurrentJobs \in Nat
    BY ConfigAssumption DEF IInv, TypeOK
  <2>3. Cardinality(HeldBy(w)) + headroom[w] <= MaxConcurrentJobs
    BY <1>1
  <2>4. CASE ClaimJobs(w)
    <3>1. headroom'[w] = 0
      BY <2>4 DEF ClaimJobs, IInv, TypeOK
    <3>2. Cardinality(HeldBy(w)') <= Cardinality(HeldBy(w)) + headroom[w]
      BY <2>4, ClaimAddsHeadroom DEF IInv
    <3> QED
      BY <2>1, <2>2, <2>3, <3>1, <3>2
  <2>5. CASE ~ClaimJobs(w)
    <3>1. Cardinality(HeldBy(w)') <= Cardinality(HeldBy(w))
      BY <2>1, <2>5, LeasesOnlyEnd, FS_Subset
    <3>2. CASE CountRunning(w)
      <4>1. headroom'[w] = MaxConcurrentJobs - Cardinality(CurrentlyRunning)
        BY <3>2 DEF CountRunning, IInv, TypeOK
      <4>2. Cardinality(HeldBy(w)) <= Cardinality(CurrentlyRunning)
        BY RunningCount, FS_Subset DEF HeldBy
      <4> QED
        BY <2>1, <2>2, <3>1, <4>1, <4>2, RunningCount
    <3>3. CASE ~CountRunning(w)
      <4>1. headroom'[w] \in {headroom[w], 0}
        BY <3>3, HeadroomSteps DEF IInv
      <4> QED
        BY <2>1, <2>2, <2>3, <3>1, <4>1
    <3> QED
      BY <3>2, <3>3
  <2> QED
    BY <2>4, <2>5
<1> QED
  BY <1>2, <1>3, InductiveInvariant, PTL DEF Spec

---------------------------------------------------------------------------
(* What a job says it has done                                             *)

\* The coverage of an account reaches the safety floor: a finished call has
\* taken it there, or one that holds a SUCCESS row at the floor.
FloorCovered(a) ==
    \/ oldest[a] = 0
    \/ outside[a].stage = "marking" /\ outside[a].target = 0
    \/ \E w \in Workers, j \in JobIds :
          tasks[w][j].stage = "marking" /\ AccountOf(w, j) = a /\ tasks[w][j].target = 0

LEMMA FloorIsZero ==
  ASSUME TypeOK, NEW a \in Accounts
  PROVE  OldestFrom(a) = 0 <=> FloorCovered(a)
<1> DEFINE S == {oldest[a]} \cup MarkedOutside(a) \cup UNION {MarkedBy(w, a) : w \in Workers}
<1>1. Starts \subseteq Coverages /\ 0 \in Starts
  BY ConfigAssumption DEF Starts, Coverages, NoCoverage
<1>2. S \subseteq Coverages /\ S # {}
  BY <1>1 DEF MarkedOutside, MarkedBy, TypeOK
<1>3. 0 \in S <=> FloorCovered(a)
  <2>1. 0 \in MarkedOutside(a) <=> outside[a].stage = "marking" /\ outside[a].target = 0
    BY <1>1 DEF MarkedOutside
  <2>2. \A w \in Workers :
           0 \in MarkedBy(w, a) <=>
              \E j \in JobIds : /\ tasks[w][j].stage = "marking"
                               /\ AccountOf(w, j) = a
                               /\ tasks[w][j].target = 0
    BY <1>1 DEF MarkedBy
  <2> QED
    BY <2>1, <2>2 DEF FloorCovered
<1>4. OldestFrom(a) = Lowest(S)
  BY DEF OldestFrom
<1> HIDE DEF S
<1>5. Lowest(S) \in S /\ \A n \in S : Lowest(S) <= n
  BY <1>2, LowestIsLeast
<1>6. Lowest(S) = 0 <=> 0 \in S
  <2>1. \A n \in S : n \in Nat
    BY <1>2, ConfigAssumption DEF Coverages, NoCoverage
  <2> QED
    BY <1>5, <2>1
<1> QED
  BY <1>3, <1>4, <1>6

\* An instance has tasks only while it works on them, tasks and rows belong to
\* accounts, and what they say of the coverage is so.
WorkingInv == \A w \in Workers, j \in JobIds : tasks[w][j] # NoTask => phase[w] = "working"
TaskAccounts ==
    \A w \in Workers, j \in JobIds : tasks[w][j] # NoTask => AccountOf(w, j) \in Accounts
RowAccounts == \A j \in JobIds : jobs[j].status # "ABSENT" => jobs[j].account \in Accounts
CountedInv ==
    \A w \in Workers, j \in JobIds :
        tasks[w][j].stage = "settled" /\ tasks[w][j].result = "MORE"
            => oldest[AccountOf(w, j)] <= tasks[w][j].target
FloorTasks ==
    \A w \in Workers, j \in JobIds :
        /\ tasks[w][j].stage = "settled"
        /\ tasks[w][j].result = "FLOOR"
        /\ market[AccountOf(w, j)] = "AMAZON"
        => FloorCovered(AccountOf(w, j))
FloorRows ==
    \A j \in JobIds :
        jobs[j].status = "SAFETY_LIMIT_REACHED" /\ market[jobs[j].account] = "AMAZON"
            => FloorCovered(jobs[j].account)

HInv ==
    /\ WorkingInv /\ TaskAccounts /\ RowAccounts
    /\ CountedInv /\ FloorTasks /\ FloorRows

LEMMA MarketFixed ==
  ASSUME [Next]_vars
  PROVE  market' = market
<1>1. ASSUME NEW a \in Accounts, UserStep(a) \/ AccountStep(a)
      PROVE  market' = market
  BY <1>1 DEF UserStep, StartBackfill, RequestPause, ResumeJob, AccountStep, OutsideStep,
              PlanOutside, BeginOutside, FinishOutside, ReturnOutside, ConnectionChanges,
              accountVars, runVars
<1>2. ASSUME NEW w \in Workers, WorkerStep(w)
      PROVE  market' = market
  BY <1>2 DEF WorkerStep, CountRunning, ClaimJobs, ChunkStep, PlanChunk, BeginSyncRun,
              FinishChunk, ReturnChunk, CommitJobState, accountVars, runVars
<1>3. ASSUME NEW w \in Workers, FaultStep(w)
      PROVE  market' = market
  BY <1>3 DEF FaultStep, Crash, CommitFails, FailMarking, FailChunk, accountVars, runVars
<1>4. CASE StaleRunsRecovered \/ Tick \/ UNCHANGED vars
  BY <1>4 DEF StaleRunsRecovered, Tick, vars, accountVars, runVars
<1> QED
  BY <1>1, <1>2, <1>3, <1>4 DEF Next

\* The calls that are over cover more and more.
LEMMA ReachesLowers ==
  ASSUME TypeOK, NEW b, NEW n \in Coverages, Reaches(b, n), NEW a \in Accounts
  PROVE  oldest'[a] <= oldest[a] /\ (a = b => oldest'[a] <= n)
  BY ConfigAssumption DEF TypeOK, Reaches, LowerOf, Coverages, NoCoverage

LEMMA TargetType ==
  ASSUME TypeOK, NEW w \in Workers, NEW j \in JobIds, tasks[w][j].stage \in Stages
  PROVE  tasks[w][j].target \in Coverages
  BY TaskUnderWay DEF Task

LEMMA CallType ==
  ASSUME TypeOK, NEW a \in Accounts, outside[a].stage # "none"
  PROVE  outside[a] \in OutsideCall /\ outside[a].target \in Coverages
<1>1. outside[a] \in OutsideCall
  BY DEF TypeOK, NoCall
<1> QED
  BY <1>1, ConfigAssumption DEF OutsideCall, Starts, Coverages, NoCoverage

LEMMA CrashLowers ==
  ASSUME TypeOK, NEW w \in Workers, Crash(w), NEW a \in Accounts
  PROVE  /\ oldest'[a] <= oldest[a]
         /\ \A n \in MarkedBy(w, a) : oldest'[a] <= n
<1> DEFINE S == {oldest[a]} \cup MarkedBy(w, a)
<1>1. S \subseteq Coverages /\ S # {}
  BY ConfigAssumption DEF TypeOK, MarkedBy, Starts, Coverages, NoCoverage
<1>2. oldest'[a] = Lowest(S)
  BY DEF Crash
<1>3. oldest[a] \in S /\ MarkedBy(w, a) \subseteq S
  OBVIOUS
<1> HIDE DEF S
<1> QED
  BY <1>1, <1>2, <1>3, LowestIsLeast

LEMMA CoverageGrows ==
  ASSUME IInv, [Next]_vars, NEW a \in Accounts
  PROVE  oldest'[a] <= oldest[a]
<1> USE DEF IInv
<1>1. oldest[a] <= oldest[a]
  BY DEF TypeOK, Coverages
<1>2. ASSUME NEW b \in Accounts, UserStep(b) \/ ConnectionChanges(b)
      PROVE  oldest' = oldest
  BY <1>2 DEF UserStep, StartBackfill, RequestPause, ResumeJob, ConnectionChanges,
              accountVars, runVars
<1>3. ASSUME NEW b \in Accounts, PlanOutside(b) \/ BeginOutside(b) \/ FinishOutside(b)
      PROVE  oldest' = oldest
  BY <1>3 DEF PlanOutside, BeginOutside, FinishOutside
<1>4. ASSUME NEW b \in Accounts, ReturnOutside(b)
      PROVE  oldest'[a] <= oldest[a]
  <2>1. outside[b].target \in Coverages
    BY <1>4, CallType DEF ReturnOutside
  <2> QED
    BY <1>1, <1>4, <2>1, ReachesLowers DEF ReturnOutside
<1>5. ASSUME NEW w \in Workers, CountRunning(w) \/ ClaimJobs(w)
      PROVE  oldest' = oldest
  BY <1>5 DEF CountRunning, ClaimJobs, accountVars, runVars
<1>6. ASSUME NEW w \in Workers, NEW j \in JobIds,
             \/ PlanChunk(w, j) \/ BeginSyncRun(w, j) \/ FinishChunk(w, j)
             \/ CommitJobState(w, j) \/ CommitFails(w, j)
      PROVE  oldest' = oldest
  BY <1>6 DEF PlanChunk, BeginSyncRun, FinishChunk, CommitJobState, CommitFails, accountVars,
              runVars
<1>7. ASSUME NEW w \in Workers, NEW j \in JobIds, tasks[w][j].stage \in Stages,
             UNCHANGED oldest \/ Reaches(AccountOf(w, j), tasks[w][j].target)
      PROVE  oldest'[a] <= oldest[a]
  BY <1>1, <1>7, TargetType, ReachesLowers
<1>8. ASSUME NEW w \in Workers, NEW j \in JobIds, ReturnChunk(w, j) \/ FailMarking(w, j)
      PROVE  oldest'[a] <= oldest[a]
  BY <1>7, <1>8 DEF ReturnChunk, FailMarking, Stages
<1>9. ASSUME NEW w \in Workers, NEW j \in JobIds, NEW class \in ErrorClasses,
             FailChunk(w, j, class)
      PROVE  oldest'[a] <= oldest[a]
  BY <1>7, <1>9 DEF FailChunk, Stages
<1>10. ASSUME NEW w \in Workers, Crash(w)
       PROVE  oldest'[a] <= oldest[a]
  BY <1>10, CrashLowers
<1>11. StaleRunsRecovered \/ Tick \/ UNCHANGED vars => oldest' = oldest
  BY DEF StaleRunsRecovered, Tick, vars, accountVars, runVars
<1> QED
  BY <1>1, <1>2, <1>3, <1>4, <1>5, <1>6, <1>8, <1>9, <1>10, <1>11
  DEF Next, WorkerStep, FaultStep, ChunkStep, AccountStep, OutsideStep

\* The steps that change a task.
OwnStep(w, j) ==
    \/ PlanChunk(w, j) \/ BeginSyncRun(w, j) \/ FinishChunk(w, j) \/ ReturnChunk(w, j)
    \/ FailMarking(w, j)
    \/ \E class \in ErrorClasses : FailChunk(w, j, class)
Ending(w, j) == CommitJobState(w, j) \/ CommitFails(w, j)

LEMMA TaskSteps ==
  ASSUME IInv, [Next]_vars, NEW w \in Workers, NEW j \in JobIds
  PROVE  \/ tasks'[w][j] = tasks[w][j]
         \/ ClaimJobs(w) \/ Crash(w)
         \/ OwnStep(w, j) \/ Ending(w, j)
<1> USE DEF IInv
<1>1. ASSUME NEW a \in Accounts, UserStep(a) \/ AccountStep(a)
      PROVE  UNCHANGED tasks
  BY <1>1 DEF UserStep, StartBackfill, RequestPause, ResumeJob, AccountStep, OutsideStep,
              PlanOutside, BeginOutside, FinishOutside, ReturnOutside, ConnectionChanges,
              workerVars
<1>2. StaleRunsRecovered \/ Tick \/ UNCHANGED vars => UNCHANGED tasks
  BY DEF StaleRunsRecovered, Tick, vars, workerVars
<1>3. ASSUME NEW v \in Workers, CountRunning(v)
      PROVE  UNCHANGED tasks
  BY <1>3 DEF CountRunning
<1>4. ASSUME NEW v \in Workers, v # w, ClaimJobs(v) \/ Crash(v)
      PROVE  tasks'[w][j] = tasks[w][j]
  BY <1>4 DEF ClaimJobs, Crash, TypeOK
<1>5. ASSUME NEW v \in Workers, NEW i \in JobIds, <<v, i>> # <<w, j>>, OwnStep(v, i)
      PROVE  tasks'[w][j] = tasks[w][j]
  BY <1>5 DEF OwnStep, PlanChunk, BeginSyncRun, FinishChunk, ReturnChunk, FailMarking,
              FailChunk, Settle, TypeOK
<1>6. ASSUME NEW v \in Workers, NEW i \in JobIds, <<v, i>> # <<w, j>>, Ending(v, i)
      PROVE  tasks'[w][j] = tasks[w][j]
  BY <1>6 DEF Ending, CommitJobState, CommitFails, EndTask, TypeOK
<1>7. ASSUME NEW v \in Workers, NEW i \in JobIds, ChunkStep(v, i)
      PROVE  OwnStep(v, i) \/ Ending(v, i)
  BY <1>7 DEF ChunkStep, OwnStep, Ending
<1>8. ASSUME NEW v \in Workers, FaultStep(v)
      PROVE  Crash(v) \/ \E i \in JobIds : OwnStep(v, i) \/ Ending(v, i)
  BY <1>8 DEF FaultStep, OwnStep, Ending
<1>9. ASSUME NEW v \in Workers, NEW i \in JobIds, OwnStep(v, i) \/ Ending(v, i)
      PROVE  tasks'[w][j] = tasks[w][j] \/ OwnStep(w, j) \/ Ending(w, j)
  BY <1>5, <1>6, <1>9
<1>10. ASSUME NEW v \in Workers, ClaimJobs(v) \/ Crash(v)
       PROVE  tasks'[w][j] = tasks[w][j] \/ ClaimJobs(w) \/ Crash(w)
  BY <1>4, <1>10
<1>11. ASSUME NEW v \in Workers, WorkerStep(v) \/ FaultStep(v)
       PROVE  \/ tasks'[w][j] = tasks[w][j]
              \/ ClaimJobs(w) \/ Crash(w)
              \/ OwnStep(w, j) \/ Ending(w, j)
  BY <1>3, <1>7, <1>8, <1>9, <1>10, <1>11 DEF WorkerStep
<1> QED
  BY <1>1, <1>2, <1>11 DEF Next

LEMMA SettledTask ==
  ASSUME TypeOK, NEW w \in Workers, NEW j \in JobIds, tasks[w][j].stage \in Stages,
         NEW result, Settle(w, j, result)
  PROVE  /\ tasks'[w][j].job = tasks[w][j].job
         /\ tasks'[w][j].target = tasks[w][j].target
         /\ tasks'[w][j].stage = "settled"
         /\ tasks'[w][j].result = result
<1>1. tasks[w][j] \in Task
  BY TaskUnderWay
<1> QED
  BY <1>1 DEF Settle, TypeOK, Task

LEMMA MovedTask ==
  ASSUME TypeOK, NEW w \in Workers, NEW j \in JobIds, tasks[w][j].stage \in Stages,
         NEW stage \in Stages, tasks' = [tasks EXCEPT ![w][j].stage = stage]
  PROVE  /\ tasks'[w][j].job = tasks[w][j].job
         /\ tasks'[w][j].target = tasks[w][j].target
         /\ tasks'[w][j].stage = stage
<1>1. tasks[w][j] \in Task
  BY TaskUnderWay
<1> QED
  BY <1>1 DEF TypeOK, Task

LEMMA PlannedTask ==
  ASSUME TypeOK, NEW w \in Workers, NEW j \in JobIds, tasks[w][j].stage \in Stages, NEW n,
         tasks' = [tasks EXCEPT ![w][j].stage = "planned", ![w][j].target = n]
  PROVE  tasks'[w][j].job = tasks[w][j].job /\ tasks'[w][j].stage = "planned"
<1>1. tasks[w][j] \in Task
  BY TaskUnderWay
<1> QED
  BY <1>1 DEF TypeOK, Task

\* Only a return makes a result MORE, only a plan at the floor FLOOR.
LEMMA OwnTask ==
  ASSUME IInv, NEW w \in Workers, NEW j \in JobIds, OwnStep(w, j)
  PROVE  /\ tasks[w][j].stage \in Stages
         /\ tasks'[w][j].job = tasks[w][j].job
         /\ tasks'[w][j].stage = "settled" /\ tasks'[w][j].result = "MORE"
               => ReturnChunk(w, j) /\ tasks'[w][j].target = tasks[w][j].target
         /\ tasks'[w][j].stage = "settled" /\ tasks'[w][j].result = "FLOOR"
               => PlanChunk(w, j) /\ OldestFrom(AccountOf(w, j)) = 0
<1> USE DEF IInv
<1>1. tasks[w][j].stage \in Stages
  BY DEF OwnStep, PlanChunk, BeginSyncRun, FinishChunk, ReturnChunk, FailMarking, FailChunk,
         Stages
<1>2. CASE PlanChunk(w, j)
  <2>1. CASE Settle(w, j, "TERMINAL")
    BY <1>1, <2>1, SettledTask
  <2>2. CASE Settle(w, j, "FLOOR") /\ OldestFrom(AccountOf(w, j)) = 0
    BY <1>1, <1>2, <2>2, SettledTask
  <2>3. ASSUME NEW n, tasks' = [tasks EXCEPT ![w][j].stage = "planned", ![w][j].target = n]
        PROVE  tasks'[w][j].job = tasks[w][j].job /\ tasks'[w][j].stage = "planned"
    BY <1>1, <2>3, PlannedTask
  <2> QED
    BY <1>1, <1>2, <2>1, <2>2, <2>3 DEF PlanChunk
<1>3. CASE BeginSyncRun(w, j)
  <2>1. CASE Settle(w, j, "REQUEUE")
    BY <1>1, <2>1, SettledTask
  <2>2. CASE tasks' = [tasks EXCEPT ![w][j].stage = "fetching"]
    <3>1. "fetching" \in Stages
      BY DEF Stages
    <3>2. tasks'[w][j].job = tasks[w][j].job /\ tasks'[w][j].stage = "fetching"
      BY <1>1, <2>2, <3>1, MovedTask
    <3> QED
      BY <1>1, <3>2
  <2> QED
    BY <1>3, <2>1, <2>2 DEF BeginSyncRun
<1>4. CASE FinishChunk(w, j)
  <2>1. tasks' = [tasks EXCEPT ![w][j].stage = "marking"] /\ "marking" \in Stages
    BY <1>4 DEF FinishChunk, Stages
  <2>2. tasks'[w][j].job = tasks[w][j].job /\ tasks'[w][j].stage = "marking"
    BY <1>1, <2>1, MovedTask
  <2> QED
    BY <1>1, <2>2
<1>5. CASE ReturnChunk(w, j)
  <2>1. Settle(w, j, "MORE")
    BY <1>5 DEF ReturnChunk
  <2> QED
    BY <1>1, <1>5, <2>1, SettledTask
<1>6. ASSUME NEW class \in ErrorClasses, Settle(w, j, class)
      PROVE  /\ tasks'[w][j].job = tasks[w][j].job
             /\ tasks'[w][j].result \notin {"MORE", "FLOOR"}
  BY <1>1, <1>6, SettledTask DEF ErrorClasses
<1>7. CASE FailMarking(w, j)
  <2>1. Settle(w, j, "TRANSIENT") /\ "TRANSIENT" \in ErrorClasses
    BY <1>7 DEF FailMarking, ErrorClasses
  <2> QED
    BY <1>1, <1>6, <2>1
<1>8. ASSUME NEW class \in ErrorClasses, FailChunk(w, j, class)
      PROVE  /\ tasks'[w][j].job = tasks[w][j].job
             /\ tasks'[w][j].result \notin {"MORE", "FLOOR"}
  BY <1>6, <1>8 DEF FailChunk
<1> QED
  BY <1>1, <1>2, <1>3, <1>4, <1>5, <1>7, <1>8 DEF OwnStep

\* A claim puts a claimed task or none in the place of each.
LEMMA ClaimedTask ==
  ASSUME IInv, NEW w \in Workers, NEW j \in JobIds, ClaimJobs(w)
  PROVE  \/ tasks'[w][j] = NoTask
         \/ /\ Claimable(jobs[j])
            /\ tasks'[w][j].job.account = jobs[j].account
            /\ tasks'[w][j].stage = "claimed"
            /\ phase'[w] = "working"
<1> PICK S \in SUBSET Eligible :
      /\ tasks' = [tasks EXCEPT ![w] =
             [i \in JobIds |->
                 IF i \in S THEN [stage |-> "claimed", job |-> ClaimedRow(jobs[i], w),
                                  at |-> now, target |-> NoCoverage, result |-> None]
                            ELSE NoTask]]
      /\ phase' = [phase EXCEPT ![w] = IF S = {} THEN "idle" ELSE "working"]
  BY DEF ClaimJobs
<1>1. CASE j \in S
  <2>1. /\ tasks'[w][j].job = ClaimedRow(jobs[j], w)
        /\ tasks'[w][j].stage = "claimed"
    BY <1>1 DEF IInv, TypeOK
  <2>2. ClaimedRow(jobs[j], w).account = jobs[j].account
    <3>1. jobs[j] \in JobRow
      BY DEF IInv, TypeOK
    <3> QED
      BY <3>1 DEF ClaimedRow, JobRow
  <2>3. phase'[w] = "working"
    BY <1>1 DEF IInv, TypeOK
  <2> QED
    BY <1>1, <2>1, <2>2, <2>3 DEF Eligible
<1>2. CASE j \notin S
  BY <1>2 DEF IInv, TypeOK
<1> QED
  BY <1>1, <1>2

LEMMA EndedTask ==
  ASSUME IInv, NEW w \in Workers, NEW j \in JobIds, Crash(w) \/ Ending(w, j)
  PROVE  tasks'[w][j] = NoTask
  BY DEF Crash, Ending, CommitJobState, CommitFails, EndTask, IInv, TypeOK

LEMMA PhaseSteps ==
  ASSUME IInv, [Next]_vars, NEW w \in Workers
  PROVE  \/ phase'[w] = phase[w]
         \/ CountRunning(w) \/ ClaimJobs(w) \/ Crash(w)
         \/ \E j \in JobIds : Ending(w, j)
<1> USE DEF IInv
<1>1. ASSUME NEW a \in Accounts, UserStep(a) \/ AccountStep(a)
      PROVE  UNCHANGED phase
  BY <1>1 DEF UserStep, StartBackfill, RequestPause, ResumeJob, AccountStep, OutsideStep,
              PlanOutside, BeginOutside, FinishOutside, ReturnOutside, ConnectionChanges,
              workerVars
<1>2. StaleRunsRecovered \/ Tick \/ UNCHANGED vars => UNCHANGED phase
  BY DEF StaleRunsRecovered, Tick, vars, workerVars
<1>3. ASSUME NEW v \in Workers, NEW j \in JobIds, OwnStep(v, j)
      PROVE  UNCHANGED phase
  BY <1>3 DEF OwnStep, PlanChunk, BeginSyncRun, FinishChunk, ReturnChunk, FailMarking,
              FailChunk
<1>4. ASSUME NEW v \in Workers, v # w, CountRunning(v) \/ ClaimJobs(v) \/ Crash(v)
      PROVE  phase'[w] = phase[w]
  BY <1>4 DEF CountRunning, ClaimJobs, Crash, TypeOK
<1>5. ASSUME NEW v \in Workers, v # w, NEW j \in JobIds, Ending(v, j)
      PROVE  phase'[w] = phase[w]
  BY <1>5 DEF Ending, CommitJobState, CommitFails, EndTask, TypeOK
<1>6. ASSUME NEW v \in Workers, WorkerStep(v) \/ FaultStep(v)
      PROVE  \/ CountRunning(v) \/ ClaimJobs(v) \/ Crash(v)
             \/ \E j \in JobIds : OwnStep(v, j) \/ Ending(v, j)
  BY <1>6 DEF WorkerStep, FaultStep, ChunkStep, OwnStep, Ending
<1>7. ASSUME NEW v \in Workers, WorkerStep(v) \/ FaultStep(v)
      PROVE  \/ phase'[w] = phase[w]
             \/ CountRunning(w) \/ ClaimJobs(w) \/ Crash(w)
             \/ \E j \in JobIds : Ending(w, j)
  BY <1>3, <1>4, <1>5, <1>6, <1>7
<1> QED
  BY <1>1, <1>2, <1>7 DEF Next

LEMMA StageNames == ASSUME NEW w, NEW j, tasks[w][j].stage \in Stages
                    PROVE  tasks[w][j] # NoTask
  BY DEF Stages, NoTask

LEMMA WorkingStep ==
  ASSUME IInv, WorkingInv, [Next]_vars
  PROVE  WorkingInv'
<1> SUFFICES ASSUME NEW w \in Workers, NEW j \in JobIds, tasks'[w][j] # NoTask
             PROVE  phase'[w] = "working"
  BY DEF WorkingInv
<1>1. CASE ClaimJobs(w)
  BY <1>1, ClaimedTask
<1>2. ~Crash(w) /\ ~Ending(w, j)
  BY EndedTask
<1>3. ~ClaimJobs(w) => phase[w] = "working"
  <2>1. ~ClaimJobs(w) => tasks'[w][j] = tasks[w][j] \/ OwnStep(w, j)
    BY <1>2, TaskSteps
  <2>2. OwnStep(w, j) => tasks[w][j] # NoTask
    BY OwnTask, StageNames
  <2> QED
    BY <2>1, <2>2 DEF WorkingInv
<1>4. CASE CountRunning(w)
  <2>1. ~ClaimJobs(w)
    BY <1>4 DEF CountRunning, ClaimJobs
  <2> QED
    BY <1>3, <1>4, <2>1 DEF CountRunning
<1>5. ASSUME NEW i \in JobIds, Ending(w, i)
      PROVE  phase'[w] = "working"
  <2>1. EndTask(w, i)
    BY <1>5 DEF Ending, CommitJobState, CommitFails
  <2>2. tasks'[w][j] = tasks[w][j] /\ i # j
    BY <1>2, <1>5, <2>1 DEF EndTask, IInv, TypeOK
  <2>3. InFlight(w) # {i}
    BY <2>2 DEF InFlight
  <2> QED
    BY <2>1, <2>3 DEF EndTask, IInv, TypeOK
<1> QED
  BY <1>1, <1>2, <1>3, <1>4, <1>5, PhaseSteps

LEMMA TaskAccountsStep ==
  ASSUME IInv, TaskAccounts, RowAccounts, [Next]_vars
  PROVE  TaskAccounts'
<1> SUFFICES ASSUME NEW w \in Workers, NEW j \in JobIds, tasks'[w][j] # NoTask
             PROVE  tasks'[w][j].job.account \in Accounts
  BY DEF TaskAccounts, AccountOf
<1>1. CASE ClaimJobs(w)
  <2>1. /\ Claimable(jobs[j])
        /\ tasks'[w][j].job.account = jobs[j].account
    BY <1>1, ClaimedTask
  <2>2. jobs[j].status # "ABSENT"
    BY <2>1 DEF Claimable, Waiting
  <2> QED
    BY <2>1, <2>2 DEF RowAccounts
<1>2. CASE OwnStep(w, j)
  <2>1. tasks[w][j] # NoTask /\ tasks'[w][j].job = tasks[w][j].job
    BY <1>2, OwnTask, StageNames
  <2> QED
    BY <2>1 DEF TaskAccounts, AccountOf
<1>3. CASE tasks'[w][j] = tasks[w][j]
  BY <1>3 DEF TaskAccounts, AccountOf
<1> QED
  BY <1>1, <1>2, <1>3, TaskSteps, EndedTask

LEMMA RowAccountsStep ==
  ASSUME IInv, RowAccounts, [Next]_vars
  PROVE  RowAccounts'
<1> SUFFICES ASSUME NEW j \in JobIds, jobs'[j].status # "ABSENT"
             PROVE  jobs'[j].account \in Accounts
  BY DEF RowAccounts
<1>1. jobs[j] \in JobRow
  BY DEF IInv, TypeOK
<1>2. /\ PausedRow(jobs[j]).account = jobs[j].account
      /\ ResumedRow(jobs[j]).account = jobs[j].account
      /\ \A w \in Workers : ClaimedRow(jobs[j], w).account = jobs[j].account
      /\ \A u : CommittedRow(jobs[j], u).account = jobs[j].account
  BY <1>1 DEF PausedRow, ResumedRow, ClaimedRow, CommittedRow, JobRow
<1>3. jobs[j].status \in Active => jobs[j].status # "ABSENT"
  BY DEF Active
<1>4. Claimable(jobs[j]) => jobs[j].status # "ABSENT"
  BY DEF Claimable, Waiting
<1>5. \A w \in Workers : HoldsClaim(w, j) => jobs[j].status # "ABSENT"
  BY ClaimHeld
<1>6. RowStep(j)
  BY EveryRowStep
<1> QED
  BY <1>2, <1>3, <1>4, <1>5, <1>6 DEF RowStep, RowAccounts

LEMMA CountedStep ==
  ASSUME IInv, TaskAccounts, CountedInv, [Next]_vars
  PROVE  CountedInv'
<1> SUFFICES ASSUME NEW w \in Workers, NEW j \in JobIds,
                    tasks'[w][j].stage = "settled", tasks'[w][j].result = "MORE"
             PROVE  oldest'[tasks'[w][j].job.account] <= tasks'[w][j].target
  BY DEF CountedInv, AccountOf
<1>1. CASE ClaimJobs(w) \/ Crash(w) \/ Ending(w, j)
  BY <1>1, ClaimedTask, EndedTask DEF NoTask
<1>2. CASE OwnStep(w, j)
  <2>1. /\ ReturnChunk(w, j)
        /\ tasks'[w][j].target = tasks[w][j].target
        /\ tasks'[w][j].job = tasks[w][j].job
        /\ tasks[w][j].stage \in Stages
    BY <1>2, OwnTask
  <2>2. tasks[w][j].job.account \in Accounts /\ tasks[w][j].target \in Coverages
    BY <2>1, StageNames, TargetType DEF TaskAccounts, AccountOf, IInv
  <2>3. oldest'[tasks[w][j].job.account] <= tasks[w][j].target
    BY <2>1, <2>2, ReachesLowers DEF ReturnChunk, AccountOf, IInv
  <2> QED
    BY <2>1, <2>3
<1>3. CASE tasks'[w][j] = tasks[w][j]
  <2>1. tasks[w][j].stage \in Stages
    BY <1>3 DEF Stages
  <2>2. tasks[w][j].job.account \in Accounts /\ tasks[w][j].target \in Coverages
    BY <2>1, StageNames, TargetType DEF TaskAccounts, AccountOf, IInv
  <2> PICK a \in Accounts : a = tasks[w][j].job.account
    BY <2>2
  <2>3. oldest[a] <= tasks[w][j].target
    BY <1>3 DEF CountedInv, AccountOf
  <2>4. oldest'[a] <= oldest[a]
    BY CoverageGrows
  <2>5. oldest'[a] \in Int /\ oldest[a] \in Int /\ tasks[w][j].target \in Int
    BY <2>2, StepIInv DEF IInv, TypeOK, Coverages
  <2> QED
    BY <1>3, <2>3, <2>4, <2>5
<1> QED
  BY <1>1, <1>2, <1>3, TaskSteps

LEMMA MarkedCallStays ==
  ASSUME IInv, [Next]_vars, NEW a \in Accounts, outside[a].stage = "marking"
  PROVE  outside'[a] = outside[a] \/ ReturnOutside(a)
<1> USE DEF IInv
<1>1. ASSUME NEW b \in Accounts, UserStep(b) \/ ConnectionChanges(b)
      PROVE  outside' = outside
  BY <1>1 DEF UserStep, StartBackfill, RequestPause, ResumeJob, ConnectionChanges,
              accountVars, runVars
<1>2. ASSUME NEW b \in Accounts, PlanOutside(b) \/ BeginOutside(b) \/ FinishOutside(b)
      PROVE  outside'[a] = outside[a]
  <2>1. a # b
    BY <1>2 DEF PlanOutside, BeginOutside, FinishOutside, NoCall
  <2> QED
    BY <1>2, <2>1 DEF PlanOutside, BeginOutside, FinishOutside, TypeOK
<1>3. ASSUME NEW b \in Accounts, b # a, ReturnOutside(b)
      PROVE  outside'[a] = outside[a]
  BY <1>3 DEF ReturnOutside, TypeOK
<1>4. ASSUME NEW w \in Workers, WorkerStep(w)
      PROVE  outside' = outside
  BY <1>4 DEF WorkerStep, CountRunning, ClaimJobs, ChunkStep, PlanChunk, BeginSyncRun,
              FinishChunk, ReturnChunk, CommitJobState, accountVars, runVars
<1>5. ASSUME NEW w \in Workers, FaultStep(w)
      PROVE  outside' = outside
  BY <1>5 DEF FaultStep, Crash, CommitFails, FailMarking, FailChunk, accountVars, runVars
<1>6. StaleRunsRecovered \/ Tick \/ UNCHANGED vars => outside' = outside
  BY DEF StaleRunsRecovered, Tick, vars, accountVars, runVars
<1> QED
  BY <1>1, <1>2, <1>3, <1>4, <1>5, <1>6 DEF Next, AccountStep, OutsideStep

\* On Amazon no SUCCESS row is ever taken back, so what has been covered down
\* to the floor stays covered.
LEMMA FloorStays ==
  ASSUME IInv, WorkingInv, TaskAccounts, [Next]_vars, NEW a \in Accounts,
         market[a] = "AMAZON", FloorCovered(a)
  PROVE  FloorCovered(a)'
<1> USE DEF IInv
<1>1. oldest[a] \in Nat /\ oldest'[a] \in Nat
  BY StepIInv, ConfigAssumption DEF TypeOK, Coverages, NoCoverage
<1>2. ASSUME oldest'[a] <= 0
      PROVE  FloorCovered(a)'
  <2>1. oldest'[a] = 0
    BY <1>1, <1>2
  <2> QED
    BY <2>1 DEF FloorCovered
<1>3. RowSurvives(a) = {TRUE}
  BY DEF RowSurvives
<1>4. 0 \in Coverages /\ 0 \in Starts
  BY ConfigAssumption DEF Coverages, NoCoverage, Starts
<1>5. CASE oldest[a] = 0
  BY <1>2, <1>5, CoverageGrows
<1>6. CASE outside[a].stage = "marking" /\ outside[a].target = 0
  <2>1. CASE outside'[a] = outside[a]
    BY <1>6, <2>1 DEF FloorCovered
  <2>2. CASE ReturnOutside(a)
    <3>1. Reaches(a, 0)
      BY <1>3, <1>6, <2>2 DEF ReturnOutside
    <3> QED
      BY <1>2, <1>4, <3>1, ReachesLowers
  <2> QED
    BY <1>6, <2>1, <2>2, MarkedCallStays
<1>7. ASSUME NEW w \in Workers, NEW j \in JobIds, tasks[w][j].stage = "marking",
             AccountOf(w, j) = a, tasks[w][j].target = 0
      PROVE  FloorCovered(a)'
  <2>1. CASE tasks'[w][j] = tasks[w][j]
    BY <1>7, <2>1 DEF FloorCovered, AccountOf
  <2>2. CASE ClaimJobs(w)
    <3>1. tasks[w][j] # NoTask
      BY <1>7 DEF NoTask
    <3> QED
      BY <2>2, <3>1 DEF WorkingInv, ClaimJobs
  <2>3. CASE Crash(w)
    <3>1. 0 \in MarkedBy(w, a)
      BY <1>4, <1>7 DEF MarkedBy
    <3> QED
      BY <1>2, <2>3, <3>1, CrashLowers
  <2>4. CASE OwnStep(w, j)
    <3>1. ReturnChunk(w, j) \/ FailMarking(w, j)
      BY <1>7, <2>4 DEF OwnStep, PlanChunk, BeginSyncRun, FinishChunk, FailChunk
    <3>2. CASE ReturnChunk(w, j)
      <4>1. Reaches(a, 0)
        BY <1>7, <3>2 DEF ReturnChunk
      <4> QED
        BY <1>2, <1>4, <4>1, ReachesLowers
    <3>3. CASE FailMarking(w, j)
      <4> PICK survives \in RowSurvives(a) :
            IF survives THEN Reaches(a, 0) ELSE UNCHANGED oldest
        BY <1>7, <3>3 DEF FailMarking
      <4>1. Reaches(a, 0)
        BY <1>3
      <4> QED
        BY <1>2, <1>4, <4>1, ReachesLowers
    <3> QED
      BY <3>1, <3>2, <3>3
  <2>5. ~Ending(w, j)
    BY <1>7 DEF Ending, CommitJobState, CommitFails
  <2> QED
    BY <2>1, <2>2, <2>3, <2>4, <2>5, TaskSteps
<1> QED
  BY <1>5, <1>6, <1>7 DEF FloorCovered

LEMMA FloorTasksStep ==
  ASSUME IInv, WorkingInv, TaskAccounts, FloorTasks, [Next]_vars
  PROVE  FloorTasks'
<1> SUFFICES ASSUME NEW w \in Workers, NEW j \in JobIds, NEW a, a = tasks'[w][j].job.account,
                    tasks'[w][j].stage = "settled", tasks'[w][j].result = "FLOOR",
                    market[a] = "AMAZON"
             PROVE  FloorCovered(a)'
  BY MarketFixed DEF FloorTasks, AccountOf, FloorCovered
<1>1. CASE ClaimJobs(w) \/ Crash(w) \/ Ending(w, j)
  BY <1>1, ClaimedTask, EndedTask DEF NoTask
<1>2. CASE OwnStep(w, j)
  <2>1. /\ tasks'[w][j].job = tasks[w][j].job
        /\ tasks[w][j] # NoTask
        /\ OldestFrom(AccountOf(w, j)) = 0
    BY <1>2, OwnTask, StageNames
  <2>2. AccountOf(w, j) = a /\ a \in Accounts
    BY <2>1 DEF TaskAccounts, AccountOf
  <2>3. FloorCovered(a)
    BY <2>1, <2>2, FloorIsZero DEF IInv
  <2> QED
    BY <2>2, <2>3, FloorStays
<1>3. CASE tasks'[w][j] = tasks[w][j]
  <2>1. tasks[w][j] # NoTask
    BY <1>3 DEF NoTask
  <2>2. AccountOf(w, j) = a /\ a \in Accounts
    BY <1>3, <2>1 DEF TaskAccounts, AccountOf
  <2>3. FloorCovered(a)
    BY <1>3, <2>2 DEF FloorTasks
  <2> QED
    BY <2>2, <2>3, FloorStays
<1> QED
  BY <1>1, <1>2, <1>3, TaskSteps

\* A row that ends at the safety limit does so by the commit of such a result.
LEMMA FloorCommit ==
  ASSUME IInv, [Next]_vars, NEW j \in JobIds, jobs'[j].status = "SAFETY_LIMIT_REACHED"
  PROVE  \/ jobs'[j] = jobs[j]
         \/ /\ jobs'[j].account = jobs[j].account
            /\ \E w \in Workers : /\ AccountOf(w, j) = jobs[j].account
                                 /\ tasks[w][j].stage = "settled"
                                 /\ tasks[w][j].result = "FLOOR"
<1>1. jobs[j] \in JobRow
  BY DEF IInv, TypeOK
<1>2. jobs[j].status \in Active => PausedRow(jobs[j]).status # "SAFETY_LIMIT_REACHED"
  BY <1>1 DEF PausedRow, JobRow, Active
<1>3. ResumedRow(jobs[j]).status # "SAFETY_LIMIT_REACHED"
  BY <1>1 DEF ResumedRow, JobRow
<1>4. \A w \in Workers : ClaimedRow(jobs[j], w).status # "SAFETY_LIMIT_REACHED"
  BY <1>1 DEF ClaimedRow, JobRow
<1>5. ASSUME NEW w \in Workers, HoldsClaim(w, j), tasks[w][j].stage = "settled",
             jobs'[j] = CommittedRow(jobs[j], UpdateOf(tasks[w][j]))
      PROVE  /\ jobs'[j].account = jobs[j].account
             /\ AccountOf(w, j) = jobs[j].account
             /\ tasks[w][j].result = "FLOOR"
  <2>1. /\ CommittedRow(jobs[j], UpdateOf(tasks[w][j])).status = UpdateOf(tasks[w][j]).status
        /\ CommittedRow(jobs[j], UpdateOf(tasks[w][j])).account = jobs[j].account
    BY <1>1 DEF CommittedRow, JobRow
  <2>2. UpdateOf(tasks[w][j]).status = "SAFETY_LIMIT_REACHED"
    BY <1>5, <2>1
  <2>3. tasks[w][j].result = "FLOOR"
    BY <2>2 DEF UpdateOf, SuccessUpdate, FailureUpdate, JobUpdate
  <2>4. AccountOf(w, j) = jobs[j].account
    BY <1>5, ClaimHeld DEF AccountOf
  <2> QED
    BY <1>5, <2>1, <2>3, <2>4
<1>6. RowStep(j)
  BY EveryRowStep
<1> QED
  BY <1>2, <1>3, <1>4, <1>5, <1>6 DEF RowStep

LEMMA FloorRowsStep ==
  ASSUME IInv, WorkingInv, TaskAccounts, FloorTasks, RowAccounts, FloorRows, [Next]_vars
  PROVE  FloorRows'
<1> SUFFICES ASSUME NEW j \in JobIds, NEW a, a = jobs'[j].account,
                    jobs'[j].status = "SAFETY_LIMIT_REACHED", market[a] = "AMAZON"
             PROVE  FloorCovered(a)'
  BY MarketFixed DEF FloorRows, FloorCovered
<1>1. CASE jobs'[j] = jobs[j]
  <2>1. a \in Accounts
    BY <1>1 DEF RowAccounts
  <2>2. FloorCovered(a)
    BY <1>1 DEF FloorRows
  <2> QED
    BY <2>1, <2>2, FloorStays
<1>2. ASSUME NEW w \in Workers, AccountOf(w, j) = a, tasks[w][j].stage = "settled",
             tasks[w][j].result = "FLOOR"
      PROVE  FloorCovered(a)'
  <2>1. tasks[w][j] # NoTask
    BY <1>2 DEF NoTask
  <2>2. a \in Accounts
    BY <1>2, <2>1 DEF TaskAccounts
  <2>3. FloorCovered(a)
    BY <1>2 DEF FloorTasks
  <2> QED
    BY <2>2, <2>3, FloorStays
<1> QED
  BY <1>1, <1>2, FloorCommit

\* A chunk a job counts is covered for good, on Mercado Livre as well, whose
\* calls may lose what they had marked; and an Amazon account whose job ended
\* at the safety limit is covered down to it: its rows are never taken back,
\* whichever call finishes, fails or dies.
THEOREM HistoryTheorem == Spec => []HistoryIsCovered
<1>1. Init => HInv
  <2> SUFFICES ASSUME Init
               PROVE  HInv
    OBVIOUS
  <2>1. \A w \in Workers, j \in JobIds : tasks[w][j] = NoTask
    BY DEF Init
  <2>2. \A j \in JobIds : jobs[j].status = "ABSENT"
    BY DEF Init, AbsentRow
  <2> QED
    BY <2>1, <2>2
    DEF HInv, WorkingInv, TaskAccounts, RowAccounts, CountedInv, FloorTasks, FloorRows, NoTask
<1>2. IInv /\ HInv /\ [Next]_vars => HInv'
  BY WorkingStep, TaskAccountsStep, RowAccountsStep, CountedStep, FloorTasksStep, FloorRowsStep
  DEF HInv
<1>3. IInv /\ HInv => HistoryIsCovered
  <2> SUFFICES ASSUME IInv, HInv
               PROVE  HistoryIsCovered
    OBVIOUS
  <2>1. ASSUME NEW j \in JobIds, jobs[j].status = "SAFETY_LIMIT_REACHED",
               market[jobs[j].account] = "AMAZON"
        PROVE  OldestFrom(jobs[j].account) = 0
    <3>1. jobs[j].account \in Accounts
      BY <2>1 DEF HInv, RowAccounts
    <3>2. FloorCovered(jobs[j].account)
      BY <2>1 DEF HInv, FloorRows
    <3> QED
      BY <3>1, <3>2, FloorIsZero DEF IInv
  <2> QED
    BY <2>1 DEF HInv, CountedInv, HistoryIsCovered
<1> QED
  BY <1>1, <1>2, <1>3, InductiveInvariant, PTL DEF Spec

===========================================================================
