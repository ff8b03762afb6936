-------------------------- MODULE SyncRunsProofs --------------------------
(***************************************************************************)
(* Theorems about the synchronisations of an account, for any number of    *)
(* calls, rows and failures.  Of an Amazon account: what its rows say, for *)
(* which only the fields that are not windows are typed; then the types of *)
(* everything, for either marketplace; then the windows themselves, which  *)
(* leave no hole in the coverage.                                          *)
(***************************************************************************)
EXTENDS SyncRuns, CoverageProofs

RowFields == {"status", "from", "to", "startedAt", "finishedAt", "whole"}
CallerFields == {"phase", "from", "to", "at", "run"}
RowStatuses == {"ABSENT", "RUNNING", "SUCCESS", "FAILED"}

\* The phases of a call that has a row.
Working == {"begun", "persisted", "incomplete", "marking", "failing"}

Shape ==
    /\ runs = [r \in RunIds |-> runs[r]]
    /\ \A r \in RunIds : DOMAIN runs[r] = RowFields /\ runs[r].status \in RowStatuses
    /\ callers = [c \in Callers |-> callers[c]]
    /\ \A c \in Callers : DOMAIN callers[c] = CallerFields /\ callers[c].phase \in Phases
    /\ inserted \in Nat
    /\ now \in Nat

\* A call works on a row of its own, and rows are inserted in order.
Ownership ==
    /\ \A c \in Callers : callers[c].phase \in Working =>
          callers[c].run \in RunIds /\ callers[c].run <= inserted
    /\ \A c, d \in Callers :
          c # d /\ callers[c].phase \in Working /\ callers[d].phase \in Working
              => callers[c].run # callers[d].run
    /\ \A r \in RunIds : r > inserted => runs[r].status = "ABSENT"

\* What the phase of an Amazon call says of its row.
RowOfCall(c) ==
    LET row == runs[callers[c].run] IN
    /\ callers[c].phase \in {"begun", "persisted", "incomplete", "failing"} => row.status # "SUCCESS"
    /\ callers[c].phase \in {"persisted", "marking"} => row.whole
    /\ callers[c].phase = "marking" => row.status = "SUCCESS"

RowsOfCalls == \A c \in Callers : RowOfCall(c)

IInv == Shape /\ Ownership /\ RowsOfCalls /\ SuccessIsWhole /\ LastSyncProven

---------------------------------------------------------------------------
(* Effects of the steps                                                    *)

\* A row that is SUCCESS is still so after the step, with the same date.
Kept(r) ==
    runs[r].status = "SUCCESS" => /\ runs'[r].status = "SUCCESS"
                                  /\ runs'[r].finishedAt = runs[r].finishedAt
                                  /\ runs[r].whole => runs'[r].whole

LEMMA ShapeInit == Init => Shape
  BY DEF Init, Shape, AbsentRun, IdleCaller, RowFields, CallerFields, RowStatuses, Phases, RunIds

\* Writing the status of a row.
LEMMA WrittenShape ==
  ASSUME Shape, NEW r \in RunIds, NEW status \in RowStatuses, runs' = Written(r, status)
  PROVE  /\ runs' = [q \in RunIds |-> runs'[q]]
         /\ \A q \in RunIds : DOMAIN runs'[q] = RowFields /\ runs'[q].status \in RowStatuses
         /\ \A q \in RunIds \ {r} : runs'[q] = runs[q]
         /\ runs'[r].status = status
         /\ runs'[r].finishedAt = now
         /\ runs'[r].whole = runs[r].whole
  BY DEF Shape, Written, RowFields

\* Recovering the stale rows.
LEMMA RecoveredShape ==
  ASSUME Shape, runs' = RecoveredRuns
  PROVE  /\ runs' = [q \in RunIds |-> runs'[q]]
         /\ \A q \in RunIds : DOMAIN runs'[q] = RowFields /\ runs'[q].status \in RowStatuses
         /\ \A q \in RunIds : \/ runs'[q] = runs[q]
                              \/ /\ runs[q].status = "RUNNING"
                                 /\ runs'[q].status = "FAILED"
                                 /\ runs'[q].whole = runs[q].whole
  BY DEF Shape, RecoveredRuns, Stale, RowFields, RowStatuses

\* Moving a call to another phase, and leaving.
LEMMA MoveShape ==
  ASSUME Shape, NEW c \in Callers, NEW phase \in Phases, Move(c, phase)
  PROVE  /\ callers' = [d \in Callers |-> callers'[d]]
         /\ \A d \in Callers : DOMAIN callers'[d] = CallerFields /\ callers'[d].phase \in Phases
         /\ \A d \in Callers \ {c} : callers'[d] = callers[d]
         /\ callers'[c].phase = phase
         /\ callers'[c].run = callers[c].run
  BY DEF Shape, Move, CallerFields

LEMMA LeaveShape ==
  ASSUME Shape, NEW c \in Callers, Leave(c)
  PROVE  /\ callers' = [d \in Callers |-> callers'[d]]
         /\ \A d \in Callers : DOMAIN callers'[d] = CallerFields /\ callers'[d].phase \in Phases
         /\ \A d \in Callers \ {c} : callers'[d] = callers[d]
         /\ callers'[c].phase = "idle"
  BY DEF Shape, Leave, IdleCaller, CallerFields, Phases

LEMMA PlanShape ==
  ASSUME Shape, NEW c \in Callers, NEW w, Plan(c, w)
  PROVE  /\ callers' = [d \in Callers |-> callers'[d]]
         /\ \A d \in Callers : DOMAIN callers'[d] = CallerFields /\ callers'[d].phase \in Phases
         /\ \A d \in Callers \ {c} : callers'[d] = callers[d]
         /\ callers'[c].phase = "planned"
         /\ callers[c].phase = "idle"
  BY DEF Shape, Plan, CallerFields, Phases

LEMMA BeginShape ==
  ASSUME Shape, ParametersAssumption, NEW c \in Callers, BeginRun(c), Running = {}
  PROVE  /\ runs' = [q \in RunIds |-> runs'[q]]
         /\ \A q \in RunIds : DOMAIN runs'[q] = RowFields /\ runs'[q].status \in RowStatuses
         /\ inserted' = inserted + 1
         /\ inserted' \in RunIds
         /\ \A q \in RunIds \ {inserted'} : runs'[q] = runs[q]
         /\ runs'[inserted'].status = "RUNNING"
         /\ callers' = [d \in Callers |-> callers'[d]]
         /\ \A d \in Callers : DOMAIN callers'[d] = CallerFields /\ callers'[d].phase \in Phases
         /\ \A d \in Callers \ {c} : callers'[d] = callers[d]
         /\ callers'[c].phase = "begun"
         /\ callers'[c].run = inserted'
<1>1. MaxRuns \in Nat
  BY DEF ParametersAssumption
<1>2. inserted' = inserted + 1 /\ inserted' \in RunIds
  BY <1>1 DEF BeginRun, Shape, RunIds
<1> DEFINE m == inserted'
<1>3. /\ runs' = [runs EXCEPT ![m] = NewRun(c)]
      /\ callers' = [callers EXCEPT ![c].phase = "begun", ![c].run = m]
  BY <1>2 DEF BeginRun
<1>4. /\ DOMAIN NewRun(c) = RowFields
      /\ NewRun(c).status = "RUNNING"
  BY DEF NewRun, RowFields
<1>5. "RUNNING" \in RowStatuses
  BY DEF RowStatuses
<1>6. m \in RunIds
  BY <1>2
<1> HIDE DEF m
<1>7. /\ runs' = [q \in RunIds |-> runs'[q]]
      /\ \A q \in RunIds : DOMAIN runs'[q] = RowFields /\ runs'[q].status \in RowStatuses
      /\ \A q \in RunIds \ {m} : runs'[q] = runs[q]
      /\ runs'[m].status = "RUNNING"
  BY <1>3, <1>4, <1>5, <1>6 DEF Shape
<1>8. /\ callers' = [d \in Callers |-> callers'[d]]
      /\ \A d \in Callers : DOMAIN callers'[d] = CallerFields /\ callers'[d].phase \in Phases
      /\ \A d \in Callers \ {c} : callers'[d] = callers[d]
      /\ callers'[c].phase = "begun"
      /\ callers'[c].run = m
  BY <1>3 DEF Shape, CallerFields, Phases
<1> QED
  BY <1>2, <1>7, <1>8 DEF m

---------------------------------------------------------------------------
(* The invariant                                                           *)

LEMMA InvariantInit ==
  ASSUME Init
  PROVE  IInv
<1>1. Shape
  BY ShapeInit
<1>2. Ownership /\ RowsOfCalls
  BY DEF Init, Ownership, RowsOfCalls, RowOfCall, Working, IdleCaller, AbsentRun
<1>3. SuccessIsWhole /\ LastSyncProven
  BY DEF Init, SuccessIsWhole, LastSyncProven, WithStatus, AbsentRun
<1> QED
  BY <1>1, <1>2, <1>3 DEF IInv

\* The rows and the calls are well formed after a step.
ShapeAfter ==
    /\ runs' = [q \in RunIds |-> runs'[q]]
    /\ \A q \in RunIds : DOMAIN runs'[q] = RowFields /\ runs'[q].status \in RowStatuses
    /\ callers' = [d \in Callers |-> callers'[d]]
    /\ \A d \in Callers : DOMAIN callers'[d] = CallerFields /\ callers'[d].phase \in Phases
    /\ inserted' \in Nat
    /\ now' \in Nat

\* A working call writes at most its own row, and goes on with it or leaves.
LEMMA OwnRowStep ==
  ASSUME IInv, ShapeAfter, inserted' = inserted,
         NEW c \in Callers, callers[c].phase \in Working,
         \A d \in Callers \ {c} : callers'[d] = callers[d],
         callers'[c].phase \in Working => callers'[c].run = callers[c].run,
         \A q \in RunIds \ {callers[c].run} : runs'[q] = runs[q],
         Kept(callers[c].run),
         runs'[callers[c].run].status = "SUCCESS" => runs'[callers[c].run].whole,
         \/ lastSync' = lastSync
         \/ /\ runs'[callers[c].run].status = "SUCCESS"
            /\ lastSync' = runs'[callers[c].run].finishedAt,
         RowOfCall(c)'
  PROVE  IInv'
<1> DEFINE r == callers[c].run
<1>1. r \in RunIds /\ r <= inserted
  BY DEF IInv, Ownership
<1>2. \A d \in Callers \ {c} : callers[d].phase \in Working => callers[d].run # r
  BY DEF IInv, Ownership
<1>3. Shape'
  BY DEF ShapeAfter, Shape
<1>4. Ownership'
  <2>1. \A d \in Callers : callers'[d].phase \in Working =>
           callers'[d].run = callers[d].run /\ callers[d].phase \in Working
    OBVIOUS
  <2>2. \A q \in RunIds : q > inserted => q # r
    BY <1>1 DEF IInv, Shape, RunIds
  <2> QED
    BY <2>1, <2>2 DEF IInv, Ownership
<1>5. RowsOfCalls'
  <2> SUFFICES ASSUME NEW d \in Callers
               PROVE  RowOfCall(d)'
    BY DEF RowsOfCalls
  <2>1. CASE d = c
    BY <2>1
  <2>2. CASE d # c
    <3>1. callers'[d] = callers[d] /\ RowOfCall(d)
      BY <2>2 DEF IInv, RowsOfCalls
    <3>2. CASE callers[d].phase \in Working
      <4>1. runs'[callers[d].run] = runs[callers[d].run]
        BY <1>2, <2>2, <3>2 DEF IInv, Ownership
      <4> QED
        BY <3>1, <4>1 DEF RowOfCall
    <3>3. CASE callers[d].phase \notin Working
      BY <3>1, <3>3 DEF RowOfCall, Working
    <3> QED
      BY <3>2, <3>3
  <2> QED
    BY <2>1, <2>2
<1>6. SuccessIsWhole'
  BY <1>1 DEF IInv, SuccessIsWhole, WithStatus
<1>7. LastSyncProven'
  <2>1. CASE lastSync' = lastSync
    <3> SUFFICES ASSUME lastSync # Never
                 PROVE  \E q \in RunIds : /\ runs'[q].status = "SUCCESS"
                                          /\ runs'[q].finishedAt = lastSync
      BY <2>1 DEF LastSyncProven, WithStatus
    <3>1. PICK q \in RunIds : runs[q].status = "SUCCESS" /\ runs[q].finishedAt = lastSync
      BY DEF IInv, LastSyncProven, WithStatus
    <3> QED
      BY <3>1 DEF Kept
  <2>2. CASE runs'[r].status = "SUCCESS" /\ lastSync' = runs'[r].finishedAt
    BY <1>1, <2>2 DEF LastSyncProven, WithStatus
  <2> QED
    BY <2>1, <2>2
<1> QED
  BY <1>3, <1>4, <1>5, <1>6, <1>7 DEF IInv

\* A step that at most recovers rows and takes calls out of their work.
LEMMA OutsideStep ==
  ASSUME IInv, ShapeAfter, inserted' = inserted, lastSync' = lastSync,
         \A d \in Callers : callers'[d] = callers[d] \/ callers'[d].phase \notin Working,
         \A q \in RunIds : \/ runs'[q] = runs[q]
                           \/ /\ runs[q].status = "RUNNING"
                              /\ runs'[q].status = "FAILED"
                              /\ runs'[q].whole = runs[q].whole
  PROVE  IInv'
<1>1. Shape'
  BY DEF ShapeAfter, Shape
<1>2. Ownership'
  <2>1. \A q \in RunIds : q > inserted => runs'[q] = runs[q]
    BY DEF IInv, Ownership
  <2> QED
    BY <2>1 DEF IInv, Ownership
<1>3. RowsOfCalls'
  <2> SUFFICES ASSUME NEW d \in Callers
               PROVE  RowOfCall(d)'
    BY DEF RowsOfCalls
  <2>1. CASE callers'[d].phase \notin Working
    BY <2>1 DEF RowOfCall, Working
  <2>2. CASE callers'[d] = callers[d] /\ callers[d].phase \in Working
    <3>1. callers[d].run \in RunIds /\ RowOfCall(d)
      BY <2>2 DEF IInv, Ownership, RowsOfCalls
    <3> QED
      BY <2>2, <3>1 DEF RowOfCall
  <2> QED
    BY <2>1, <2>2
<1>4. SuccessIsWhole'
  BY DEF IInv, SuccessIsWhole, WithStatus
<1>5. LastSyncProven'
  <2> SUFFICES ASSUME lastSync # Never
               PROVE  \E q \in RunIds : /\ runs'[q].status = "SUCCESS"
                                        /\ runs'[q].finishedAt = lastSync
    BY DEF LastSyncProven, WithStatus
  <2>1. PICK q \in RunIds : runs[q].status = "SUCCESS" /\ runs[q].finishedAt = lastSync
    BY DEF IInv, LastSyncProven, WithStatus
  <2> QED
    BY <2>1
<1> QED
  BY <1>1, <1>2, <1>3, <1>4, <1>5 DEF IInv

---------------------------------------------------------------------------
(* The steps of an Amazon call                                             *)

LEMMA FetchAllStep ==
  ASSUME IInv, NEW c \in Callers, FetchAll(c)
  PROVE  IInv'
<1> DEFINE r == callers[c].run
<1>1. Shape /\ callers[c].phase = "begun" /\ callers[c].phase \in Working
  BY DEF IInv, FetchAll, Working
<1>2. r \in RunIds /\ runs[r].status # "SUCCESS"
  BY <1>1 DEF IInv, Ownership, RowsOfCalls, RowOfCall
<1>3. /\ runs' = [q \in RunIds |-> runs'[q]]
      /\ \A q \in RunIds : DOMAIN runs'[q] = RowFields /\ runs'[q].status \in RowStatuses
      /\ \A q \in RunIds \ {r} : runs'[q] = runs[q]
      /\ runs'[r].status = runs[r].status
      /\ runs'[r].whole
  BY <1>1, <1>2 DEF FetchAll, Shape, RowFields
<1>4. /\ callers' = [d \in Callers |-> callers'[d]]
      /\ \A d \in Callers : DOMAIN callers'[d] = CallerFields /\ callers'[d].phase \in Phases
      /\ \A d \in Callers \ {c} : callers'[d] = callers[d]
      /\ callers'[c].phase = "persisted"
      /\ callers'[c].run = r
  BY <1>1, MoveShape DEF FetchAll, Phases
<1>5. ShapeAfter /\ inserted' = inserted /\ lastSync' = lastSync
  BY <1>1, <1>3, <1>4 DEF ShapeAfter, FetchAll, Shape
<1>6. RowOfCall(c)'
  BY <1>2, <1>3, <1>4 DEF RowOfCall
<1>7. Kept(r) /\ (runs'[r].status = "SUCCESS" => runs'[r].whole)
  BY <1>2, <1>3 DEF Kept
<1> QED
  BY <1>1, <1>3, <1>4, <1>5, <1>6, <1>7, OwnRowStep

\* Only the call moves.
LEMMA MoveStep ==
  ASSUME IInv, NEW c \in Callers, callers[c].phase = "begun",
         NEW phase \in {"failing", "incomplete"}, Move(c, phase),
         UNCHANGED <<runs, inserted, lastSync, now>>
  PROVE  IInv'
<1> DEFINE r == callers[c].run
<1>1. Shape /\ callers[c].phase \in Working /\ phase \in Phases
  BY DEF IInv, Working, Phases
<1>2. r \in RunIds /\ runs[r].status # "SUCCESS"
  BY <1>1 DEF IInv, Ownership, RowsOfCalls, RowOfCall
<1>3. /\ callers' = [d \in Callers |-> callers'[d]]
      /\ \A d \in Callers : DOMAIN callers'[d] = CallerFields /\ callers'[d].phase \in Phases
      /\ \A d \in Callers \ {c} : callers'[d] = callers[d]
      /\ callers'[c].phase = phase
      /\ callers'[c].run = r
  BY <1>1, MoveShape
<1>4. ShapeAfter
  BY <1>1, <1>3 DEF ShapeAfter, Shape
<1>5. RowOfCall(c)' /\ Kept(r)
  BY <1>2, <1>3 DEF RowOfCall, Kept
<1> QED
  BY <1>1, <1>2, <1>3, <1>4, <1>5, OwnRowStep

\* A call that has finished with its row writes it and leaves, or, after a
\* success, goes on to mark the account.
LEMMA FinalWrite ==
  ASSUME IInv, NEW c \in Callers,
         callers[c].phase \in {"persisted", "incomplete", "failing"},
         runs' = Written(callers[c].run, IF callers[c].phase = "persisted"
                                         THEN "SUCCESS" ELSE "FAILED"),
         Leave(c) \/ (callers[c].phase = "persisted" /\ Move(c, "marking")),
         UNCHANGED <<inserted, lastSync, now>>
  PROVE  IInv'
<1> DEFINE r == callers[c].run
           status == IF callers[c].phase = "persisted" THEN "SUCCESS" ELSE "FAILED"
<1>1. Shape /\ callers[c].phase \in Working /\ "marking" \in Phases
  BY DEF IInv, Working, Phases
<1>2. /\ r \in RunIds
      /\ runs[r].status # "SUCCESS"
      /\ callers[c].phase = "persisted" => runs[r].whole
  BY <1>1 DEF IInv, Ownership, RowsOfCalls, RowOfCall
<1>3. status \in RowStatuses
  BY DEF RowStatuses
<1>4. runs' = Written(r, status)
  OBVIOUS
<1> HIDE DEF status
<1>5. /\ runs' = [q \in RunIds |-> runs'[q]]
      /\ \A q \in RunIds : DOMAIN runs'[q] = RowFields /\ runs'[q].status \in RowStatuses
      /\ \A q \in RunIds \ {r} : runs'[q] = runs[q]
      /\ runs'[r].status = status
      /\ runs'[r].whole = runs[r].whole
  BY <1>1, <1>2, <1>3, <1>4, WrittenShape
<1>6. /\ callers' = [d \in Callers |-> callers'[d]]
      /\ \A d \in Callers : DOMAIN callers'[d] = CallerFields /\ callers'[d].phase \in Phases
      /\ \A d \in Callers \ {c} : callers'[d] = callers[d]
      /\ \/ callers'[c].phase = "idle"
         \/ /\ callers[c].phase = "persisted"
            /\ callers'[c].phase = "marking"
            /\ callers'[c].run = r
  BY <1>1, MoveShape, LeaveShape
<1>7. ShapeAfter
  BY <1>1, <1>5, <1>6 DEF ShapeAfter, Shape
<1>8. status = "SUCCESS" <=> callers[c].phase = "persisted"
  BY DEF status
<1>9. RowOfCall(c)'
  BY <1>2, <1>5, <1>6, <1>8 DEF RowOfCall
<1>10. Kept(r) /\ (runs'[r].status = "SUCCESS" => runs'[r].whole)
  BY <1>2, <1>5, <1>8 DEF Kept
<1>11. callers'[c].phase \in Working => callers'[c].run = r
  BY <1>6 DEF Working
<1> QED
  BY <1>1, <1>5, <1>6, <1>7, <1>9, <1>10, <1>11, OwnRowStep

\* The account is marked, or not.
LEMMA MarkStep ==
  ASSUME IInv, NEW c \in Callers, callers[c].phase = "marking", Leave(c),
         lastSync' \in {lastSync, runs[callers[c].run].finishedAt},
         UNCHANGED <<runs, inserted, now>>
  PROVE  IInv'
<1> DEFINE r == callers[c].run
<1>1. Shape /\ callers[c].phase \in Working
  BY DEF IInv, Working
<1>2. r \in RunIds /\ runs[r].status = "SUCCESS" /\ runs[r].whole
  BY <1>1 DEF IInv, Ownership, RowsOfCalls, RowOfCall
<1>3. /\ callers' = [d \in Callers |-> callers'[d]]
      /\ \A d \in Callers : DOMAIN callers'[d] = CallerFields /\ callers'[d].phase \in Phases
      /\ \A d \in Callers \ {c} : callers'[d] = callers[d]
      /\ callers'[c].phase = "idle"
  BY <1>1, LeaveShape
<1>4. ShapeAfter
  BY <1>1, <1>3 DEF ShapeAfter, Shape
<1>5. RowOfCall(c)' /\ Kept(r) /\ callers'[c].phase \notin Working
  BY <1>3 DEF RowOfCall, Kept, Working
<1> QED
  BY <1>1, <1>2, <1>3, <1>4, <1>5, OwnRowStep

LEMMA ThrowStep ==
  ASSUME IInv, Provider = "AMAZON", NEW c \in Callers, StatementThrows(c)
  PROVE  IInv'
<1>1. PhaseAfterThrow(callers[c].phase) = "idle"
  BY DEF PhaseAfterThrow
<1>2. Leave(c) /\ UNCHANGED <<inserted, now>>
  BY <1>1 DEF StatementThrows
<1>3. CASE callers[c].phase = "marking"
  BY <1>2, <1>3, MarkStep DEF StatementThrows
<1>4. CASE callers[c].phase # "marking" /\ UNCHANGED <<runs, lastSync>>
  <2>1. ShapeAfter /\ callers'[c].phase = "idle" /\ \A d \in Callers \ {c} : callers'[d] = callers[d]
    BY <1>2, <1>4, LeaveShape DEF IInv, Shape, ShapeAfter
  <2> QED
    BY <1>2, <1>4, <2>1, OutsideStep DEF Working
<1>5. CASE callers[c].phase # "marking" /\ ~UNCHANGED <<runs, lastSync>>
  BY <1>2, <1>5, FinalWrite DEF StatementThrows
<1> QED
  BY <1>3, <1>4, <1>5

LEMMA BeginStep ==
  ASSUME IInv, ParametersAssumption, NEW c \in Callers, BeginRun(c)
  PROVE  IInv'
<1>1. Shape /\ callers[c].phase = "planned" /\ UNCHANGED <<lastSync, now>>
  BY DEF IInv, BeginRun
<1>2. CASE Running # {}
  <2>1. Leave(c) /\ UNCHANGED <<runs, inserted>>
    BY <1>2 DEF BeginRun
  <2>2. ShapeAfter /\ callers'[c].phase = "idle" /\ \A d \in Callers \ {c} : callers'[d] = callers[d]
    BY <1>1, <2>1, LeaveShape DEF Shape, ShapeAfter
  <2> QED
    BY <1>1, <2>1, <2>2, OutsideStep DEF Working
<1>3. CASE Running = {}
  <2> DEFINE m == inserted'
  <2>1. /\ runs' = [q \in RunIds |-> runs'[q]]
        /\ \A q \in RunIds : DOMAIN runs'[q] = RowFields /\ runs'[q].status \in RowStatuses
        /\ m = inserted + 1
        /\ m \in RunIds
        /\ \A q \in RunIds \ {m} : runs'[q] = runs[q]
        /\ runs'[m].status = "RUNNING"
        /\ callers' = [d \in Callers |-> callers'[d]]
        /\ \A d \in Callers : DOMAIN callers'[d] = CallerFields /\ callers'[d].phase \in Phases
        /\ \A d \in Callers \ {c} : callers'[d] = callers[d]
        /\ callers'[c].phase = "begun"
        /\ callers'[c].run = m
    BY <1>1, <1>3, BeginShape
  <2>2. inserted \in Nat /\ m > inserted /\ runs[m].status = "ABSENT"
    BY <1>1, <2>1 DEF IInv, Ownership, Shape
  <2>3. Shape'
    BY <1>1, <2>1, <2>2 DEF Shape
  <2>4. \A d \in Callers \ {c} : callers[d].phase \in Working =>
           callers[d].run \in RunIds /\ callers[d].run <= inserted /\ callers[d].run # m
    BY <2>2 DEF IInv, Ownership, RunIds
  <2>5. Ownership'
    <3>1. \A d \in Callers : callers'[d].phase \in Working =>
             callers'[d].run \in RunIds /\ callers'[d].run <= m
      BY <2>1, <2>2, <2>4 DEF RunIds
    <3>2. \A d, e \in Callers :
             d # e /\ callers'[d].phase \in Working /\ callers'[e].phase \in Working
                => callers'[d].run # callers'[e].run
      BY <2>1, <2>4 DEF IInv, Ownership
    <3>3. \A q \in RunIds : q > m => runs'[q].status = "ABSENT"
      BY <2>1, <2>2 DEF IInv, Ownership, RunIds
    <3> QED
      BY <3>1, <3>2, <3>3 DEF Ownership
  <2>6. RowsOfCalls'
    <3> SUFFICES ASSUME NEW d \in Callers
                 PROVE  RowOfCall(d)'
      BY DEF RowsOfCalls
    <3>1. CASE d = c
      BY <2>1, <3>1 DEF RowOfCall
    <3>2. CASE d # c /\ callers[d].phase \in Working
      <4>1. callers'[d] = callers[d] /\ runs'[callers[d].run] = runs[callers[d].run] /\ RowOfCall(d)
        BY <2>1, <2>4, <3>2 DEF IInv, RowsOfCalls
      <4> QED
        BY <4>1 DEF RowOfCall
    <3>3. CASE d # c /\ callers[d].phase \notin Working
      BY <2>1, <3>3 DEF RowOfCall, Working
    <3> QED
      BY <3>1, <3>2, <3>3
  <2>7. SuccessIsWhole'
    BY <2>1 DEF IInv, SuccessIsWhole, WithStatus
  <2>8. LastSyncProven'
    <3> SUFFICES ASSUME lastSync # Never
                 PROVE  \E q \in RunIds : /\ runs'[q].status = "SUCCESS"
                                          /\ runs'[q].finishedAt = lastSync
      BY <1>1 DEF LastSyncProven, WithStatus
    <3>1. PICK q \in RunIds : runs[q].status = "SUCCESS" /\ runs[q].finishedAt = lastSync
      BY DEF IInv, LastSyncProven, WithStatus
    <3> QED
      BY <2>1, <2>2, <3>1
  <2> QED
    BY <2>3, <2>5, <2>6, <2>7, <2>8 DEF IInv
<1> QED
  BY <1>2, <1>3

\* Steps that leave every call with a row alone.
LEMMA PlanStepKeeps ==
  ASSUME IInv, NEW c \in Callers, PlanStep(c)
  PROVE  IInv'
<1>1. Shape
  BY DEF IInv
<1>2. PICK w : Plan(c, w)
  BY DEF PlanStep, PlanIncremental, PlanChunk, PlanCustom
<1>3. /\ callers' = [d \in Callers |-> callers'[d]]
      /\ \A d \in Callers : DOMAIN callers'[d] = CallerFields /\ callers'[d].phase \in Phases
      /\ \A d \in Callers \ {c} : callers'[d] = callers[d]
      /\ callers'[c].phase = "planned"
  BY <1>1, <1>2, PlanShape
<1>4. (runs' = runs \/ runs' = RecoveredRuns) /\ UNCHANGED <<inserted, lastSync, now>>
  BY DEF PlanStep, PlanIncremental, PlanChunk, PlanCustom
<1>5. /\ runs' = [q \in RunIds |-> runs'[q]]
      /\ \A q \in RunIds : DOMAIN runs'[q] = RowFields /\ runs'[q].status \in RowStatuses
      /\ \A q \in RunIds : \/ runs'[q] = runs[q]
                           \/ /\ runs[q].status = "RUNNING"
                              /\ runs'[q].status = "FAILED"
                              /\ runs'[q].whole = runs[q].whole
  <2>1. CASE runs' = runs
    BY <1>1, <2>1 DEF Shape
  <2>2. CASE runs' = RecoveredRuns
    BY <1>1, <2>2, RecoveredShape
  <2> QED
    BY <1>4, <2>1, <2>2
<1>6. ShapeAfter
  BY <1>1, <1>3, <1>4, <1>5 DEF ShapeAfter, Shape
<1> QED
  BY <1>3, <1>4, <1>5, <1>6, OutsideStep DEF Working

LEMMA EnvironmentKeeps ==
  ASSUME IInv, (\E c \in Callers : Crash(c)) \/ RecoverStaleRuns \/ Tick \/ UNCHANGED vars
  PROVE  IInv'
<1>1. Shape
  BY DEF IInv
<1>2. ASSUME NEW c \in Callers, Crash(c)
      PROVE  IInv'
  <2>1. Leave(c) /\ UNCHANGED <<runs, inserted, lastSync, now>>
    BY <1>2 DEF Crash
  <2>2. ShapeAfter /\ callers'[c].phase = "idle" /\ \A d \in Callers \ {c} : callers'[d] = callers[d]
    BY <1>1, <2>1, LeaveShape DEF Shape, ShapeAfter
  <2> QED
    BY <2>1, <2>2, OutsideStep DEF Working
<1>3. CASE RecoverStaleRuns
  <2>1. runs' = RecoveredRuns /\ UNCHANGED <<inserted, callers, lastSync, now>>
    BY <1>3 DEF RecoverStaleRuns
  <2>2. /\ runs' = [q \in RunIds |-> runs'[q]]
        /\ \A q \in RunIds : DOMAIN runs'[q] = RowFields /\ runs'[q].status \in RowStatuses
        /\ \A q \in RunIds : \/ runs'[q] = runs[q]
                             \/ /\ runs[q].status = "RUNNING"
                                /\ runs'[q].status = "FAILED"
                                /\ runs'[q].whole = runs[q].whole
    BY <1>1, <2>1, RecoveredShape
  <2>3. ShapeAfter
    BY <1>1, <2>1, <2>2 DEF Shape, ShapeAfter
  <2> QED
    BY <2>1, <2>2, <2>3, OutsideStep
<1>4. CASE Tick \/ UNCHANGED vars
  <2>1. UNCHANGED <<runs, inserted, callers, lastSync>> /\ now' \in Nat
    BY <1>1, <1>4 DEF Tick, vars, Shape
  <2>2. ShapeAfter
    BY <1>1, <2>1 DEF Shape, ShapeAfter
  <2> QED
    BY <2>1, <2>2, OutsideStep
<1> QED
  BY <1>2, <1>3, <1>4

LEMMA InvariantStep ==
  ASSUME IInv, Provider = "AMAZON", ParametersAssumption, [Next]_vars
  PROVE  IInv'
<1>1. ASSUME NEW c \in Callers, FetchPart(c) \/ FetchFails(c)
      PROVE  IInv'
  <2>1. PICK phase \in {"failing", "incomplete"} : Move(c, phase)
    BY <1>1 DEF FetchPart, FetchFails, AfterPartialFetch
  <2> QED
    BY <1>1, <2>1, MoveStep DEF FetchPart, FetchFails
<1>2. ASSUME NEW c \in Callers,
             FinalizeSuccess(c) \/ FinalizeIncomplete(c) \/ FinalizeFailure(c)
      PROVE  IInv'
  BY <1>2, FinalWrite DEF FinalizeSuccess, FinalizeIncomplete, FinalizeFailure
<1>3. ASSUME NEW c \in Callers, MarkAccountSynced(c)
      PROVE  IInv'
  BY <1>3, MarkStep DEF MarkAccountSynced
<1> QED
  BY <1>1, <1>2, <1>3, PlanStepKeeps, BeginStep, FetchAllStep, ThrowStep, EnvironmentKeeps
  DEF Next, RunStep, FaultStep

---------------------------------------------------------------------------
(* Theorems                                                                *)

\* The inductive invariant of an Amazon account.
THEOREM AmazonInvariant ==
  ASSUME Provider = "AMAZON"
  PROVE  Spec => []IInv
<1>1. Init => IInv
  BY InvariantInit
<1>2. IInv /\ [Next]_vars => IInv'
  BY InvariantStep, ParametersAssumption
<1> QED
  BY <1>1, <1>2, PTL DEF Spec

\* Every SUCCESS row of an Amazon account was fetched in full.
THEOREM WholeTheorem ==
  ASSUME Provider = "AMAZON"
  PROVE  Spec => []SuccessIsWhole
<1>1. IInv => SuccessIsWhole
  BY DEF IInv
<1> QED
  BY <1>1, AmazonInvariant, PTL

\* The date of the last synchronisation is that of a SUCCESS row.
THEOREM LastSyncTheorem ==
  ASSUME Provider = "AMAZON"
  PROVE  Spec => []LastSyncProven
<1>1. IInv => LastSyncProven
  BY DEF IInv
<1> QED
  BY <1>1, AmazonInvariant, PTL

\* No step takes a SUCCESS row of an Amazon account back.
LEMMA SuccessStays ==
  ASSUME IInv, Provider = "AMAZON", ParametersAssumption, [Next]_vars,
         NEW r \in RunIds, runs[r].status = "SUCCESS"
  PROVE  runs'[r].status = "SUCCESS"
<1>1. Shape
  BY DEF IInv
<1>2. CASE runs' = runs
  BY <1>2
<1>3. CASE runs' = RecoveredRuns
  BY <1>1, <1>3, RecoveredShape
<1>4. ASSUME NEW c \in Callers, BeginRun(c), Running = {}
      PROVE  runs'[r].status = "SUCCESS"
  <2>1. r # inserted'
    BY <1>1, <1>4, BeginShape DEF IInv, Ownership, RunIds, Shape
  <2> QED
    BY <1>1, <1>4, <2>1, BeginShape
<1>5. ASSUME NEW c \in Callers, FetchAll(c)
      PROVE  runs'[r].status = "SUCCESS"
  BY <1>1, <1>5 DEF FetchAll, Shape, RowFields
<1>6. ASSUME NEW c \in Callers, NEW status \in RowStatuses, runs' = Written(callers[c].run, status),
             callers[c].phase \in {"persisted", "incomplete", "failing"}
      PROVE  runs'[r].status = "SUCCESS"
  <2>1. callers[c].run \in RunIds /\ callers[c].run # r
    BY <1>6 DEF IInv, Ownership, RowsOfCalls, RowOfCall, Working
  <2> QED
    BY <1>1, <1>6, <2>1, WrittenShape
<1>7. ASSUME NEW c \in Callers, RunStep(c)
      PROVE  runs'[r].status = "SUCCESS"
  BY <1>2, <1>4, <1>5, <1>6, <1>7
  DEF RunStep, BeginRun, FinalizeSuccess, FinalizeIncomplete, FinalizeFailure,
      MarkAccountSynced, RowStatuses
<1>8. ASSUME NEW c \in Callers, FaultStep(c)
      PROVE  runs'[r].status = "SUCCESS"
  BY <1>2, <1>6, <1>8
  DEF FaultStep, FetchPart, FetchFails, StatementThrows, Crash, RowStatuses
<1>9. ASSUME NEW c \in Callers, PlanStep(c)
      PROVE  runs'[r].status = "SUCCESS"
  BY <1>2, <1>3, <1>9 DEF PlanStep, PlanIncremental, PlanChunk, PlanCustom
<1> QED
  BY <1>2, <1>3, <1>7, <1>8, <1>9 DEF Next, RecoverStaleRuns, Tick, vars

\* The coverage of an Amazon account never shrinks.
THEOREM NeverShrinksTheorem ==
  ASSUME Provider = "AMAZON"
  PROVE  Spec => CoverageNeverShrinks
<1>1. IInv /\ [Next]_vars =>
         [\A r \in RunIds : runs[r].status = "SUCCESS" => runs'[r].status = "SUCCESS"]_runs
  BY SuccessStays, ParametersAssumption
<1> QED
  BY <1>1, AmazonInvariant, PTL DEF Spec, CoverageNeverShrinks

---------------------------------------------------------------------------
(* Types, for either marketplace                                           *)

\* A call at work has a row.
TypeInv ==
    /\ TypeOK
    /\ \A c \in Callers : callers[c].phase \in Working => callers[c].run \in RunIds

LEMMA RowAfterWrite ==
  ASSUME NEW row \in RunRow, NEW status \in RowStatuses, NEW at \in Nat
  PROVE  [row EXCEPT !.status = status, !.finishedAt = at] \in RunRow
  BY DEF RunRow, RowStatuses

LEMMA RowAfterFetch ==
  ASSUME NEW row \in RunRow
  PROVE  [row EXCEPT !.whole = TRUE] \in RunRow
  BY DEF RunRow

LEMMA CoveredIsWindowSet ==
  ASSUME ParametersAssumption, \A r \in RunIds : runs[r].from \in Int /\ runs[r].to \in Int
  PROVE  WindowSet(Covered)
<1> DEFINE S == WithStatus("SUCCESS")
           f == [r \in S |-> WindowOf(r)]
<1>1. IsFiniteSet(RunIds) /\ S \subseteq RunIds
  BY FS_Interval DEF RunIds, ParametersAssumption, WithStatus
<1>2. IsFiniteSet(S)
  BY <1>1, FS_Subset
<1>3. f \in Surjection(S, Covered)
  BY DEF Surjection, Covered
<1>4. IsFiniteSet(Covered)
  <2> HIDE DEF f, S
  <2> QED
    BY <1>2, <1>3, FS_Surjection
<1>5. Covered \subseteq AnyWindow
  BY <1>1 DEF Covered, WindowOf, Window, AnyWindow
<1> QED
  BY <1>4, <1>5 DEF WindowSet

\* The windows calls are planned with.
LEMMA PlannedWindow ==
  ASSUME ParametersAssumption, WindowSet(Covered), now \in Nat, NEW c \in Callers, PlanStep(c)
  PROVE  \E w \in AnyWindow : Plan(c, w)
<1>1. \A w \in AnyWindow : UpToCutoff(w) \in AnyWindow
  BY DEF UpToCutoff, AnyWindow, Window, Lesser, ParametersAssumption
<1>2. CASE PlanIncremental(c)
  <2> DEFINE w == IncrementalWindow(Intervals, OverlapDays, InitialDays, now)
  <2>1. CASE Intervals = <<>>
    <3>1. w \in AnyWindow
      BY <2>1 DEF IncrementalWindow, InitialWindow, Window, AnyWindow, ParametersAssumption
    <3> QED
      BY <1>1, <1>2, <3>1 DEF PlanIncremental
  <2>2. CASE Intervals # <<>>
    <3>1. LatestTo(Intervals) \in Int
      BY <2>2, NothingIsCovered, LatestToIsGreatest DEF Intervals
    <3>2. w \in AnyWindow
      BY <2>2, <3>1 DEF IncrementalWindow, Lesser, Window, AnyWindow, ParametersAssumption
    <3> QED
      BY <1>1, <1>2, <3>2 DEF PlanIncremental
  <2> QED
    BY <2>1, <2>2
<1>3. CASE PlanChunk(c)
  <2>1. OldestFrom(Covered) \in Int
    BY <1>3, OldestFromIsLeast DEF PlanChunk
  <2>2. ChunkWindow(OldestFrom(Covered), ChunkDays) \in AnyWindow
    BY <2>1 DEF ChunkWindow, Window, AnyWindow, ParametersAssumption
  <2> QED
    BY <1>3, <2>2 DEF PlanChunk
<1>4. CASE PlanCustom(c)
  BY <1>1, <1>4 DEF PlanCustom, ParametersAssumption, AnyWindow
<1> QED
  BY <1>2, <1>3, <1>4 DEF PlanStep

LEMMA TypeInitially ==
  ASSUME ParametersAssumption, Init
  PROVE  TypeInv
<1>1. AbsentRun \in RunRow
  BY DEF AbsentRun, RunRow
<1>2. IdleCaller \in Caller
  BY DEF IdleCaller, Caller, Phases
<1>3. custom \in BOOLEAN
  BY DEF Init
<1> QED
  BY <1>1, <1>2, <1>3 DEF Init, TypeInv, TypeOK, ParametersAssumption, IdleCaller, Working

\* A call that moves to another phase keeps its window and its row.
LEMMA CallAfterMove ==
  ASSUME TypeInv, NEW c \in Callers, callers[c].phase \in Working, NEW phase \in Phases,
         Move(c, phase)
  PROVE  /\ callers' \in [Callers -> Caller]
         /\ \A d \in Callers : callers'[d].phase \in Working => callers'[d].run \in RunIds
<1>1. callers[c] \in Caller /\ callers[c].run \in RunIds
  BY DEF TypeInv, TypeOK
<1> DEFINE k == [callers[c] EXCEPT !.phase = phase]
<1>2. k \in Caller /\ k.run \in RunIds
  BY <1>1 DEF Caller
<1>3. callers' = [callers EXCEPT ![c] = k]
  BY DEF Move, TypeInv, TypeOK
<1> HIDE DEF k
<1> QED
  BY <1>2, <1>3 DEF TypeInv, TypeOK

LEMMA CallAfterLeave ==
  ASSUME TypeInv, NEW c \in Callers, Leave(c)
  PROVE  /\ callers' \in [Callers -> Caller]
         /\ \A d \in Callers : callers'[d].phase \in Working => callers'[d].run \in RunIds
<1>1. IdleCaller \in Caller /\ IdleCaller.phase \notin Working
  BY DEF IdleCaller, Caller, Phases, Working
<1> QED
  BY <1>1 DEF Leave, TypeInv, TypeOK

LEMMA RunsAfterWrite ==
  ASSUME TypeInv, NEW r \in RunIds, NEW status \in RowStatuses, runs' = Written(r, status)
  PROVE  runs' \in [RunIds -> RunRow]
<1>1. [runs[r] EXCEPT !.status = status, !.finishedAt = now] \in RunRow
  BY RowAfterWrite DEF TypeInv, TypeOK
<1>2. runs' = [runs EXCEPT ![r] = [runs[r] EXCEPT !.status = status, !.finishedAt = now]]
  BY DEF Written, TypeInv, TypeOK
<1> QED
  BY <1>1, <1>2 DEF TypeInv, TypeOK

LEMMA RunsAfterRecovery ==
  ASSUME TypeInv, runs' = RecoveredRuns
  PROVE  runs' \in [RunIds -> RunRow]
<1>1. \A r \in RunIds : [runs[r] EXCEPT !.status = "FAILED", !.finishedAt = now] \in RunRow
  BY RowAfterWrite DEF TypeInv, TypeOK, RowStatuses
<1> QED
  BY <1>1 DEF RecoveredRuns, TypeInv, TypeOK

LEMMA TypePlan ==
  ASSUME ParametersAssumption, TypeInv, NEW c \in Callers, PlanStep(c)
  PROVE  TypeInv'
<1>1. WindowSet(Covered)
  BY CoveredIsWindowSet DEF TypeInv, TypeOK, RunRow
<1>2. PICK w \in AnyWindow : Plan(c, w)
  BY <1>1, PlannedWindow DEF TypeInv, TypeOK
<1> DEFINE k == [phase |-> "planned", from |-> w.from, to |-> w.to, at |-> now, run |-> 0]
<1>3. k \in Caller /\ k.phase \notin Working
  BY DEF TypeInv, TypeOK, Caller, Phases, AnyWindow, Working
<1>4. callers' = [callers EXCEPT ![c] = k]
  BY <1>2 DEF Plan
<1> HIDE DEF k
<1>5. runs' \in [RunIds -> RunRow]
  BY RunsAfterRecovery DEF PlanStep, PlanIncremental, PlanChunk, PlanCustom, TypeInv, TypeOK
<1>6. UNCHANGED <<inserted, lastSync, now, faults>>
  BY DEF PlanStep, PlanIncremental, PlanChunk, PlanCustom
<1>7. custom' \in BOOLEAN
  BY DEF PlanStep, PlanIncremental, PlanChunk, PlanCustom, TypeInv, TypeOK
<1> QED
  BY <1>3, <1>4, <1>5, <1>6, <1>7 DEF TypeInv, TypeOK

LEMMA TypeBegin ==
  ASSUME ParametersAssumption, TypeInv, NEW c \in Callers, BeginRun(c)
  PROVE  TypeInv'
<1>1. CASE Running # {}
  BY <1>1, CallAfterLeave DEF BeginRun, TypeInv, TypeOK
<1>2. CASE Running = {}
  <2> DEFINE m == inserted + 1
             k == [callers[c] EXCEPT !.phase = "begun", !.run = m]
  <2>1. m \in RunIds /\ inserted' = m /\ m \in 0..MaxRuns
    BY <1>2 DEF BeginRun, TypeInv, TypeOK, RunIds, ParametersAssumption
  <2>2. NewRun(c) \in RunRow
    BY DEF NewRun, RunRow, TypeInv, TypeOK, Caller
  <2>3. runs' = [runs EXCEPT ![m] = NewRun(c)]
    BY <1>2 DEF BeginRun
  <2>4. callers' = [callers EXCEPT ![c] = k]
    BY <1>2 DEF BeginRun, TypeInv, TypeOK
  <2>5. k \in Caller /\ k.run \in RunIds
    BY <2>1 DEF TypeInv, TypeOK, Caller, Phases
  <2>6. UNCHANGED <<lastSync, custom, now, faults>>
    BY DEF BeginRun
  <2> HIDE DEF m, k
  <2> QED
    BY <2>1, <2>2, <2>3, <2>4, <2>5, <2>6 DEF TypeInv, TypeOK
<1> QED
  BY <1>1, <1>2

LEMMA TypeFetchAll ==
  ASSUME TypeInv, NEW c \in Callers, FetchAll(c)
  PROVE  TypeInv'
<1> DEFINE r == callers[c].run
<1>1. callers[c].phase \in Working /\ "persisted" \in Phases
  BY DEF FetchAll, Working, Phases
<1>2. r \in RunIds
  BY <1>1 DEF TypeInv
<1>3. [runs[r] EXCEPT !.whole = TRUE] \in RunRow
  BY <1>2, RowAfterFetch DEF TypeInv, TypeOK
<1>4. runs' = [runs EXCEPT ![r] = [runs[r] EXCEPT !.whole = TRUE]]
  BY <1>2 DEF FetchAll, TypeInv, TypeOK
<1> HIDE DEF r
<1>5. runs' \in [RunIds -> RunRow]
  BY <1>2, <1>3, <1>4 DEF TypeInv, TypeOK
<1> QED
  BY <1>1, <1>5, CallAfterMove DEF FetchAll, TypeInv, TypeOK

LEMMA FaultType ==
  ASSUME ParametersAssumption, TypeInv, Fault
  PROVE  faults' \in 0..MaxFaults
  BY DEF ParametersAssumption, TypeInv, TypeOK, Fault

LEMMA TypeThrow ==
  ASSUME ParametersAssumption, TypeInv, NEW c \in Callers, StatementThrows(c)
  PROVE  TypeInv'
<1> DEFINE phase == callers[c].phase
           r == callers[c].run
<1>1. phase \in Working /\ r \in RunIds
  BY DEF StatementThrows, Working, TypeInv
<1>2. faults' \in 0..MaxFaults /\ UNCHANGED <<inserted, custom, now>>
  BY FaultType DEF StatementThrows
<1>3. /\ callers' \in [Callers -> Caller]
      /\ \A d \in Callers : callers'[d].phase \in Working => callers'[d].run \in RunIds
  <2>1. PhaseAfterThrow(phase) \in {"idle", "failing"} /\ "failing" \in Phases
    BY DEF PhaseAfterThrow, Phases
  <2>2. Leave(c) \/ Move(c, "failing")
    BY <2>1 DEF StatementThrows
  <2> QED
    BY <1>1, <2>1, <2>2, CallAfterMove, CallAfterLeave
<1>4. runs' \in [RunIds -> RunRow]
  <2>1. CASE runs' = runs
    BY <2>1 DEF TypeInv, TypeOK
  <2>2. CASE runs' # runs
    <3>1. PICK status \in RowStatuses : runs' = Written(r, status)
      BY <2>2 DEF StatementThrows, RowStatuses
    <3> QED
      BY <1>1, <3>1, RunsAfterWrite
  <2> QED
    BY <2>1, <2>2
<1>5. lastSync' \in Nat \cup {Never}
  BY <1>1 DEF StatementThrows, TypeInv, TypeOK, RunRow
<1> QED
  BY <1>2, <1>3, <1>4, <1>5 DEF TypeInv, TypeOK

LEMMA TypeStep ==
  ASSUME ParametersAssumption, TypeInv, [Next]_vars
  PROVE  TypeInv'
<1>1. ASSUME NEW c \in Callers,
             FinalizeSuccess(c) \/ FinalizeIncomplete(c) \/ FinalizeFailure(c)
      PROVE  TypeInv'
  <2>1. callers[c].phase \in Working /\ callers[c].run \in RunIds
    BY <1>1 DEF FinalizeSuccess, FinalizeIncomplete, FinalizeFailure, Working, TypeInv
  <2>2. runs' \in [RunIds -> RunRow]
    BY <1>1, <2>1, RunsAfterWrite
    DEF FinalizeSuccess, FinalizeIncomplete, FinalizeFailure, RowStatuses
  <2>3. Leave(c) \/ Move(c, "marking")
    BY <1>1 DEF FinalizeSuccess, FinalizeIncomplete, FinalizeFailure
  <2>4. /\ callers' \in [Callers -> Caller]
        /\ \A d \in Callers : callers'[d].phase \in Working => callers'[d].run \in RunIds
    BY <2>1, <2>3, CallAfterMove, CallAfterLeave DEF Phases
  <2> QED
    BY <1>1, <2>2, <2>4
    DEF FinalizeSuccess, FinalizeIncomplete, FinalizeFailure, TypeInv, TypeOK
<1>2. ASSUME NEW c \in Callers, MarkAccountSynced(c)
      PROVE  TypeInv'
  <2>1. callers[c].run \in RunIds
    BY <1>2 DEF MarkAccountSynced, Working, TypeInv
  <2>2. lastSync' \in Nat
    BY <1>2, <2>1 DEF MarkAccountSynced, TypeInv, TypeOK, RunRow
  <2> QED
    BY <1>2, <2>2, CallAfterLeave DEF MarkAccountSynced, TypeInv, TypeOK
<1>3. ASSUME NEW c \in Callers, FetchPart(c) \/ FetchFails(c)
      PROVE  TypeInv'
  <2>1. callers[c].phase \in Working
    BY <1>3 DEF FetchPart, FetchFails, Working
  <2>2. PICK phase \in Phases : Move(c, phase)
    BY <1>3 DEF FetchPart, FetchFails, AfterPartialFetch, Phases
  <2> QED
    BY <1>3, <2>1, <2>2, CallAfterMove, FaultType DEF FetchPart, FetchFails, TypeInv, TypeOK
<1>4. ASSUME NEW c \in Callers, Crash(c)
      PROVE  TypeInv'
  BY <1>4, CallAfterLeave, FaultType DEF Crash, TypeInv, TypeOK
<1>5. CASE RecoverStaleRuns
  BY <1>5, RunsAfterRecovery DEF RecoverStaleRuns, TypeInv, TypeOK
<1>6. CASE Tick \/ UNCHANGED vars
  BY <1>6 DEF Tick, vars, TypeInv, TypeOK
<1> QED
  BY <1>1, <1>2, <1>3, <1>4, <1>5, <1>6, TypePlan, TypeBegin, TypeFetchAll, TypeThrow
  DEF Next, RunStep, FaultStep

\* The rows and the calls of an account of either marketplace keep their types.
THEOREM TypeInvariant == Spec => []TypeInv
<1>1. Init => TypeInv
  BY TypeInitially, ParametersAssumption
<1>2. TypeInv /\ [Next]_vars => TypeInv'
  BY TypeStep, ParametersAssumption
<1> QED
  BY <1>1, <1>2, PTL DEF Spec

\* Every variable keeps its type: the windows are computed from a coverage that
\* has a first and a last instant.
THEOREM SyncTypeTheorem == Spec => []TypeOK
<1>1. TypeInv => TypeOK
  BY DEF TypeInv
<1> QED
  BY <1>1, TypeInvariant, PTL

---------------------------------------------------------------------------
(* Coverage in one piece                                                   *)

\* The synchronisations that run before the account has any coverage overlap:
\* none lasts longer than the period the first ones ask for.
FirstCallsAreShort ==
    Covered = {} =>
        \A c \in Callers : callers[c].phase # "idle"
                              => now - callers[c].at <= InitialDays - SearchBuffer

CallWindow(c) == Window(callers[c].from, callers[c].to)

\* The window of a call is that of its row, and touches the coverage; while
\* there is none, it is that of a first synchronisation.
CallIsSound(c) ==
    callers[c].phase # "idle" =>
        /\ callers[c].from <= callers[c].to
        /\ callers[c].to <= now - SearchBuffer
        /\ callers[c].at <= now
        /\ callers[c].phase \in Working =>
              /\ runs[callers[c].run].from = callers[c].from
              /\ runs[callers[c].run].to = callers[c].to
        /\ IF Covered = {}
           THEN /\ callers[c].from = callers[c].at - InitialDays
                /\ callers[c].to = callers[c].at - SearchBuffer
           ELSE \E v \in Covered : Touches(CallWindow(c), v)

PastAndProper == \A v \in Covered : v.from <= v.to /\ v.to <= now - SearchBuffer
CallsAreSound == \A c \in Callers : CallIsSound(c)

GapInv == PastAndProper /\ Unbroken(Covered) /\ CallsAreSound

\* No row changes its window, and calls only move on with their own or leave.
WindowsKept ==
    /\ \A q \in RunIds : runs'[q].from = runs[q].from /\ runs'[q].to = runs[q].to
    /\ \A d \in Callers :
          \/ callers'[d].phase = "idle"
          \/ /\ callers[d].phase # "idle"
             /\ callers'[d].phase \in Working => callers[d].phase \in Working
             /\ callers'[d].from = callers[d].from /\ callers'[d].to = callers[d].to
             /\ callers'[d].at = callers[d].at /\ callers'[d].run = callers[d].run

SameSuccesses ==
    \A q \in RunIds : runs'[q].status = "SUCCESS" <=> runs[q].status = "SUCCESS"

LEMMA SameCoverage ==
  ASSUME SameSuccesses,
         \A q \in RunIds : runs[q].status = "SUCCESS" =>
            runs'[q].from = runs[q].from /\ runs'[q].to = runs[q].to
  PROVE  Covered' = Covered
  BY DEF SameSuccesses, Covered, WithStatus, WindowOf

LEMMA QuietGap ==
  ASSUME ParametersAssumption, TypeInv, GapInv, WindowsKept, SameSuccesses,
         now' \in Nat, now <= now'
  PROVE  GapInv'
<1>1. Covered' = Covered
  BY SameCoverage DEF WindowsKept
<1>2. WindowSet(Covered) /\ SearchBuffer \in Nat /\ now \in Nat
  BY CoveredIsWindowSet DEF TypeInv, TypeOK, RunRow, ParametersAssumption
<1>3. PastAndProper'
  BY <1>1, <1>2 DEF GapInv, PastAndProper, WindowSet, AnyWindow
<1>4. Unbroken(Covered)'
  BY <1>1 DEF GapInv, Unbroken
<1>5. ASSUME NEW d \in Callers, callers'[d].phase # "idle"
      PROVE  CallIsSound(d)'
  <2>1. /\ CallIsSound(d) /\ callers[d].phase # "idle"
        /\ callers'[d].phase \in Working => callers[d].phase \in Working /\ callers[d].run \in RunIds
        /\ callers'[d].from = callers[d].from /\ callers'[d].to = callers[d].to
        /\ callers'[d].at = callers[d].at /\ callers'[d].run = callers[d].run
    BY <1>5 DEF WindowsKept, GapInv, CallsAreSound, TypeInv
  <2>2. callers[d].to \in Int /\ callers[d].at \in Nat
    BY DEF TypeInv, TypeOK, Caller
  <2>3. CallWindow(d)' = CallWindow(d)
    BY <2>1 DEF CallWindow
  <2>4. callers'[d].to <= now' - SearchBuffer /\ callers'[d].at <= now'
    BY <1>2, <2>1, <2>2 DEF CallIsSound
  <2>5. callers'[d].phase \in Working =>
              /\ runs'[callers'[d].run].from = callers'[d].from
              /\ runs'[callers'[d].run].to = callers'[d].to
    BY <2>1 DEF CallIsSound, WindowsKept
  <2>6. IF Covered' = {}
           THEN /\ callers'[d].from = callers'[d].at - InitialDays
                /\ callers'[d].to = callers'[d].at - SearchBuffer
           ELSE \E v \in Covered' : Touches(CallWindow(d)', v)
    BY <1>1, <2>1, <2>3 DEF CallIsSound
  <2> QED
    BY <2>1, <2>4, <2>5, <2>6 DEF CallIsSound
<1> QED
  BY <1>3, <1>4, <1>5 DEF GapInv, CallsAreSound, CallIsSound

\* The window of a call is added to the coverage.
LEMMA GrowGap ==
  ASSUME ParametersAssumption, TypeInv, GapInv, FirstCallsAreShort, WindowsKept, now' = now,
         NEW c \in Callers, callers[c].phase \in Working,
         runs'[callers[c].run].status = "SUCCESS",
         \A q \in RunIds \ {callers[c].run} :
            runs'[q].status = "SUCCESS" <=> runs[q].status = "SUCCESS"
  PROVE  GapInv'
<1> DEFINE w == CallWindow(c)
<1>1. callers[c].run \in RunIds /\ callers[c].phase # "idle" /\ CallIsSound(c)
  BY DEF TypeInv, Working, GapInv, CallsAreSound
<1>2. WindowSet(Covered) /\ SearchBuffer \in Nat /\ InitialDays \in Nat /\ now \in Nat
  BY CoveredIsWindowSet DEF TypeInv, TypeOK, RunRow, ParametersAssumption
<1>3. w \in AnyWindow /\ w.from <= w.to /\ w.to <= now - SearchBuffer
  BY <1>1 DEF TypeInv, TypeOK, Caller, CallWindow, Window, AnyWindow, CallIsSound
<1>4. Covered' = Covered \cup {w}
  <2>1. \A q \in RunIds : WindowOf(q)' = WindowOf(q)
    BY DEF WindowsKept, WindowOf
  <2>2. WindowOf(callers[c].run) = w
    BY <1>1 DEF CallIsSound, WindowOf, CallWindow
  <2>3. WithStatus("SUCCESS")' \subseteq WithStatus("SUCCESS") \cup {callers[c].run}
    BY DEF WithStatus
  <2>4. WithStatus("SUCCESS") \cup {callers[c].run} \subseteq WithStatus("SUCCESS")'
    BY <1>1 DEF WithStatus
  <2>5. WithStatus("SUCCESS") \cup {callers[c].run} \subseteq RunIds
    BY <1>1 DEF WithStatus
  <2>6. WithStatus("SUCCESS")' = WithStatus("SUCCESS") \cup {callers[c].run}
    BY <2>3, <2>4
  <2> QED
    BY <2>1, <2>2, <2>5, <2>6 DEF Covered
<1>5. Covered # {} => \E v \in Covered : Touches(w, v)
  BY <1>1 DEF CallIsSound
<1> HIDE DEF w
<1>6. PastAndProper'
  BY <1>3, <1>4 DEF GapInv, PastAndProper
<1>7. Unbroken(Covered)'
  <2>1. Unbroken(Covered \cup {w})
    BY <1>2, <1>3, <1>5, UnbrokenGrows DEF GapInv, WindowSet
  <2> QED
    BY <1>4, <2>1 DEF Unbroken
<1>8. ASSUME NEW d \in Callers, callers'[d].phase # "idle"
      PROVE  CallIsSound(d)'
  <2>1. /\ CallIsSound(d) /\ callers[d].phase # "idle"
        /\ callers'[d].phase \in Working => callers[d].phase \in Working /\ callers[d].run \in RunIds
        /\ callers'[d].from = callers[d].from /\ callers'[d].to = callers[d].to
        /\ callers'[d].at = callers[d].at /\ callers'[d].run = callers[d].run
    BY <1>8 DEF WindowsKept, GapInv, CallsAreSound, TypeInv
  <2>2. callers[d].at \in Nat /\ callers[c].at \in Nat /\ callers[c].at <= now
    BY <1>1 DEF TypeInv, TypeOK, Caller, CallIsSound
  <2>3. CallWindow(d)' = CallWindow(d)
    BY <2>1 DEF CallWindow
  <2>4. \E v \in Covered \cup {w} : Touches(CallWindow(d), v)
    <3>1. CASE Covered = {}
      <4>1. /\ now - callers[d].at <= InitialDays - SearchBuffer
            /\ now - callers[c].at <= InitialDays - SearchBuffer
            /\ callers[d].at <= now
        BY <1>1, <2>1, <3>1 DEF FirstCallsAreShort, CallIsSound
      <4>2. /\ CallWindow(d).from = callers[d].at - InitialDays
            /\ CallWindow(d).to = callers[d].at - SearchBuffer
            /\ w.from = callers[c].at - InitialDays
            /\ w.to = callers[c].at - SearchBuffer
        BY <1>1, <2>1, <3>1 DEF CallIsSound, CallWindow, Window, w
      <4>3. Touches(CallWindow(d), w)
        BY <1>2, <2>2, <4>1, <4>2 DEF Touches
      <4> QED
        BY <4>3
    <3>2. CASE Covered # {}
      BY <2>1, <3>2 DEF CallIsSound
    <3> QED
      BY <3>1, <3>2
  <2>5. callers'[d].phase \in Working =>
              /\ runs'[callers'[d].run].from = callers'[d].from
              /\ runs'[callers'[d].run].to = callers'[d].to
    BY <2>1 DEF CallIsSound, WindowsKept
  <2> QED
    BY <1>4, <2>1, <2>3, <2>4, <2>5 DEF CallIsSound
<1> QED
  BY <1>6, <1>7, <1>8 DEF GapInv, CallsAreSound, CallIsSound

\* A window planned for the button, the automatic cycle or a chunk ends before
\* the cutoff of Amazon and touches the coverage it was computed from.
LEMMA PlannedWindowTouches ==
  ASSUME ParametersAssumption, Provider = "AMAZON", SearchBuffer <= InitialDays,
         TypeInv, GapInv, NEW c \in Callers, PlanStep(c), ~custom'
  PROVE  \E w \in AnyWindow :
            /\ Plan(c, w)
            /\ w.from <= w.to
            /\ w.to <= now - SearchBuffer
            /\ IF Covered = {}
               THEN w.from = now - InitialDays /\ w.to = now - SearchBuffer
               ELSE \E v \in Covered : Touches(w, v)
<1>1. WindowSet(Covered) /\ now \in Nat
  BY CoveredIsWindowSet DEF TypeInv, TypeOK, RunRow
<1>2. {SearchBuffer, InitialDays, OverlapDays, ChunkDays} \subseteq Nat
  BY DEF ParametersAssumption
<1>3. \A v \in Covered : /\ v.from \in Int /\ v.to \in Int
                         /\ v.from <= v.to /\ v.to <= now - SearchBuffer
  BY <1>1 DEF WindowSet, AnyWindow, GapInv, PastAndProper
<1>4. Intervals = <<>> <=> Covered = {}
  BY <1>1, NothingIsCovered DEF Intervals
<1>5. CASE PlanIncremental(c) /\ Covered = {}
  <2> DEFINE w == Window(now - InitialDays, now - SearchBuffer)
  <2>1. UpToCutoff(IncrementalWindow(Intervals, OverlapDays, InitialDays, now)) = w
    BY <1>1, <1>2, <1>4, <1>5
    DEF UpToCutoff, IncrementalWindow, InitialWindow, Window, Lesser
  <2>2. w \in AnyWindow /\ w.from <= w.to
    BY <1>1, <1>2 DEF Window, AnyWindow
  <2>3. w.from = now - InitialDays /\ w.to = now - SearchBuffer /\ w.to <= now - SearchBuffer
    BY <1>1, <1>2 DEF Window
  <2>4. Plan(c, w)
    BY <1>5, <2>1 DEF PlanIncremental
  <2> QED
    BY <1>5, <2>2, <2>3, <2>4
<1>6. CASE PlanIncremental(c) /\ Covered # {}
  <2> DEFINE latest == LatestTo(Intervals)
             w == Window(latest - OverlapDays, now - SearchBuffer)
  <2>1. PICK v \in Covered : latest = v.to
    BY <1>1, <1>6, LatestToIsGreatest DEF Intervals
  <2>2. latest \in Int /\ latest <= now - SearchBuffer
    BY <1>3, <2>1
  <2>3. UpToCutoff(IncrementalWindow(Intervals, OverlapDays, InitialDays, now)) = w
    <3> HIDE DEF latest
    <3>1. IncrementalWindow(Intervals, OverlapDays, InitialDays, now)
             = Window(Lesser(latest - OverlapDays, now), now)
      BY <1>4, <1>6 DEF IncrementalWindow, latest
    <3>2. Lesser(latest - OverlapDays, now) = latest - OverlapDays
      BY <1>1, <1>2, <2>2 DEF Lesser
    <3>3. Lesser(now, now - SearchBuffer) = now - SearchBuffer
      BY <1>1, <1>2 DEF Lesser
    <3> QED
      BY <3>1, <3>2, <3>3 DEF UpToCutoff, Window
  <2> HIDE DEF latest
  <2>4. w \in AnyWindow /\ w.from <= w.to /\ w.to <= now - SearchBuffer
    BY <1>1, <1>2, <2>2 DEF Window, AnyWindow
  <2>5. Touches(w, v)
    <3>1. w.from = latest - OverlapDays /\ w.to = now - SearchBuffer
      BY DEF Window
    <3>2. /\ v.from \in Int /\ v.to \in Int /\ OverlapDays \in Nat /\ SearchBuffer \in Nat
          /\ v.from <= v.to /\ v.to <= now - SearchBuffer
      BY <1>2, <1>3
    <3> HIDE DEF w
    <3> QED
      BY <1>1, <2>1, <3>1, <3>2 DEF Touches
  <2>6. Plan(c, w)
    BY <1>6, <2>3 DEF PlanIncremental
  <2> QED
    BY <1>6, <2>4, <2>5, <2>6
<1>7. CASE PlanChunk(c)
  <2> DEFINE oldest == OldestFrom(Covered)
             w == Window(oldest - ChunkDays, oldest)
  <2>1. PICK v \in Covered : oldest = v.from
    BY <1>1, <1>7, OldestFromIsLeast DEF PlanChunk
  <2>2. oldest \in Int /\ oldest <= now - SearchBuffer
    BY <1>1, <1>2, <1>3, <2>1
  <2>3. ChunkWindow(OldestFrom(Covered), ChunkDays) = w
    BY DEF ChunkWindow
  <2> HIDE DEF oldest
  <2>4. w \in AnyWindow /\ w.from <= w.to /\ w.to <= now - SearchBuffer
    BY <1>2, <2>2 DEF Window, AnyWindow
  <2>5. Touches(w, v)
    BY <1>2, <1>3, <2>1, <2>2 DEF Touches, Window
  <2>6. Plan(c, w) /\ Covered # {}
    BY <1>7, <2>3 DEF PlanChunk
  <2> QED
    BY <2>4, <2>5, <2>6
<1>8. ~PlanCustom(c)
  BY DEF PlanCustom
<1> QED
  BY <1>5, <1>6, <1>7, <1>8 DEF PlanStep

\* What writing, fetching and recovering do to the windows: nothing.
LEMMA WindowsAfterWrite ==
  ASSUME TypeInv, NEW r \in RunIds, NEW status, runs' = Written(r, status)
  PROVE  /\ \A q \in RunIds : runs'[q].from = runs[q].from /\ runs'[q].to = runs[q].to
         /\ \A q \in RunIds \ {r} : runs'[q] = runs[q]
         /\ runs'[r].status = status
  BY DEF Written, TypeInv, TypeOK, RunRow

LEMMA WindowsAfterRecovery ==
  ASSUME TypeInv, runs' = RecoveredRuns
  PROVE  /\ \A q \in RunIds : runs'[q].from = runs[q].from /\ runs'[q].to = runs[q].to
         /\ SameSuccesses
  BY DEF RecoveredRuns, Stale, SameSuccesses, TypeInv, TypeOK, RunRow

\* A call that goes on with its window, and one that leaves.
LEMMA MovingCalls ==
  ASSUME TypeInv, NEW c \in Callers, callers[c].phase \in Working, NEW phase, Move(c, phase)
  PROVE  \A d \in Callers :
            /\ callers[d].phase = "idle" => callers'[d].phase = "idle"
            /\ callers'[d].phase \in Working => callers[d].phase \in Working
            /\ callers'[d].from = callers[d].from /\ callers'[d].to = callers[d].to
            /\ callers'[d].at = callers[d].at /\ callers'[d].run = callers[d].run
  BY DEF Move, TypeInv, TypeOK, Caller, Working

LEMMA LeavingCalls ==
  ASSUME TypeInv, NEW c \in Callers, Leave(c)
  PROVE  \A d \in Callers : callers'[d].phase = "idle" \/ callers'[d] = callers[d]
  BY DEF Leave, IdleCaller, TypeInv, TypeOK

LEMMA CallsKept ==
  ASSUME TypeInv, NEW c \in Callers,
         \/ Leave(c)
         \/ callers[c].phase \in Working /\ \E phase \in Phases : Move(c, phase)
         \/ callers' = callers
  PROVE  \A d \in Callers :
            \/ callers'[d].phase = "idle"
            \/ /\ callers[d].phase # "idle"
               /\ callers'[d].phase \in Working => callers[d].phase \in Working
               /\ callers'[d].from = callers[d].from /\ callers'[d].to = callers[d].to
               /\ callers'[d].at = callers[d].at /\ callers'[d].run = callers[d].run
<1>1. CASE Leave(c)
  BY <1>1, LeavingCalls
<1>2. CASE callers[c].phase \in Working /\ \E phase \in Phases : Move(c, phase)
  BY <1>2, MovingCalls
<1>3. CASE callers' = callers
  BY <1>3
<1> QED
  BY <1>1, <1>2, <1>3

LEMMA GapPlan ==
  ASSUME ParametersAssumption, Provider = "AMAZON", SearchBuffer <= InitialDays,
         TypeInv, GapInv, NEW c \in Callers, PlanStep(c), ~custom'
  PROVE  GapInv'
<1>1. PICK w \in AnyWindow :
            /\ Plan(c, w)
            /\ w.from <= w.to
            /\ w.to <= now - SearchBuffer
            /\ IF Covered = {}
               THEN w.from = now - InitialDays /\ w.to = now - SearchBuffer
               ELSE \E v \in Covered : Touches(w, v)
  BY PlannedWindowTouches
<1>2. /\ \A q \in RunIds : runs'[q].from = runs[q].from /\ runs'[q].to = runs[q].to
      /\ SameSuccesses
  <2>1. runs' = runs \/ runs' = RecoveredRuns
    BY DEF PlanStep, PlanIncremental, PlanChunk, PlanCustom
  <2> QED
    BY <2>1, WindowsAfterRecovery DEF SameSuccesses
<1>3. Covered' = Covered
  BY <1>2, SameCoverage
<1>4. now' = now /\ now \in Nat
  BY DEF PlanStep, PlanIncremental, PlanChunk, PlanCustom, TypeInv, TypeOK
<1>5. PastAndProper' /\ Unbroken(Covered)'
  BY <1>3, <1>4 DEF GapInv, PastAndProper, Unbroken
<1>6. /\ \A d \in Callers \ {c} : callers'[d] = callers[d]
      /\ callers'[c] = [phase |-> "planned", from |-> w.from, to |-> w.to, at |-> now, run |-> 0]
  BY <1>1 DEF Plan, TypeInv, TypeOK
<1>7. ASSUME NEW d \in Callers
      PROVE  CallIsSound(d)'
  <2>1. CASE d = c
    <3>1. callers'[c].phase = "planned" /\ "planned" \notin Working
      BY <1>6 DEF Working
    <3>2. callers'[c].from = w.from /\ callers'[c].to = w.to /\ callers'[c].at = now
      BY <1>6
    <3>3. CallWindow(c)' = w
      BY <3>2 DEF CallWindow, Window, AnyWindow
    <3> QED
      BY <1>1, <1>3, <1>4, <2>1, <3>1, <3>2, <3>3 DEF CallIsSound
  <2>2. CASE d # c
    <3>1. callers'[d] = callers[d] /\ CallWindow(d)' = CallWindow(d) /\ CallIsSound(d)
      BY <1>6, <2>2 DEF CallWindow, GapInv, CallsAreSound
    <3>2. callers[d].phase \in Working => callers[d].run \in RunIds
      BY DEF TypeInv
    <3> QED
      BY <1>2, <1>3, <1>4, <3>1, <3>2 DEF CallIsSound
  <2> QED
    BY <2>1, <2>2
<1> QED
  BY <1>5, <1>7 DEF GapInv, CallsAreSound

LEMMA GapBegin ==
  ASSUME ParametersAssumption, IInv, TypeInv, GapInv, NEW c \in Callers, BeginRun(c)
  PROVE  GapInv'
<1>1. CASE Running # {}
  <2>1. Leave(c) /\ runs' = runs /\ now' = now /\ now \in Nat
    BY <1>1 DEF BeginRun, TypeInv, TypeOK
  <2>2. WindowsKept /\ SameSuccesses
    BY <2>1, CallsKept DEF WindowsKept, SameSuccesses
  <2> QED
    BY <2>1, <2>2, QuietGap
<1>2. CASE Running = {}
  <2> DEFINE m == inserted + 1
  <2>1. m \in RunIds /\ m > inserted
    BY <1>2 DEF BeginRun, TypeInv, TypeOK, RunIds, ParametersAssumption
  <2>2. runs[m].status = "ABSENT" /\ \A d \in Callers : callers[d].phase \in Working => callers[d].run # m
    BY <2>1 DEF IInv, Ownership, TypeInv, TypeOK, RunIds
  <2>3. /\ runs' = [runs EXCEPT ![m] = NewRun(c)]
        /\ callers' = [callers EXCEPT ![c].phase = "begun", ![c].run = m]
        /\ now' = now
        /\ callers[c].phase = "planned"
    BY <1>2 DEF BeginRun
  <2> HIDE DEF m
  <2>4. /\ \A q \in RunIds \ {m} : runs'[q] = runs[q]
        /\ runs'[m].status = "RUNNING"
        /\ runs'[m].from = callers[c].from
        /\ runs'[m].to = callers[c].to
    BY <2>1, <2>3 DEF NewRun, TypeInv, TypeOK
  <2>5. /\ \A d \in Callers \ {c} : callers'[d] = callers[d]
        /\ callers'[c].phase = "begun"
        /\ callers'[c].from = callers[c].from
        /\ callers'[c].to = callers[c].to
        /\ callers'[c].at = callers[c].at
        /\ callers'[c].run = m
    BY <2>3 DEF TypeInv, TypeOK, Caller
  <2>6. Covered' = Covered
    <3>1. SameSuccesses
      BY <2>2, <2>4 DEF SameSuccesses
    <3>2. \A q \in RunIds : runs[q].status = "SUCCESS" => runs'[q] = runs[q]
      BY <2>2, <2>4
    <3> QED
      BY <3>1, <3>2, SameCoverage
  <2>7. PastAndProper' /\ Unbroken(Covered)'
    BY <2>3, <2>6 DEF GapInv, PastAndProper, Unbroken
  <2>8. ASSUME NEW d \in Callers
        PROVE  CallIsSound(d)'
    <3>1. CASE d = c
      <4>1. CallIsSound(c) /\ CallWindow(c)' = CallWindow(c)
        BY <2>5 DEF CallWindow, GapInv, CallsAreSound
      <4> QED
        BY <2>3, <2>4, <2>5, <2>6, <3>1, <4>1 DEF CallIsSound
    <3>2. CASE d # c
      <4>1. callers'[d] = callers[d] /\ CallWindow(d)' = CallWindow(d) /\ CallIsSound(d)
        BY <2>5, <3>2 DEF CallWindow, GapInv, CallsAreSound
      <4>2. callers[d].phase \in Working => callers[d].run \in RunIds /\ callers[d].run # m
        BY <2>2 DEF TypeInv
      <4> QED
        BY <2>3, <2>4, <2>6, <4>1, <4>2 DEF CallIsSound
    <3> QED
      BY <3>1, <3>2
  <2> QED
    BY <2>7, <2>8 DEF GapInv, CallsAreSound
<1> QED
  BY <1>1, <1>2

\* A call writes its row, which was not SUCCESS.
LEMMA GapWrite ==
  ASSUME ParametersAssumption, IInv, TypeInv, GapInv, FirstCallsAreShort, NEW c \in Callers,
         callers[c].phase \in {"persisted", "incomplete", "failing"},
         NEW status \in {"SUCCESS", "FAILED"}, runs' = Written(callers[c].run, status),
         Leave(c) \/ \E phase \in Phases : Move(c, phase), now' = now
  PROVE  GapInv'
<1> DEFINE r == callers[c].run
<1>1. callers[c].phase \in Working /\ r \in RunIds /\ runs[r].status # "SUCCESS"
  BY DEF Working, IInv, Ownership, RowsOfCalls, RowOfCall
<1>2. /\ \A q \in RunIds : runs'[q].from = runs[q].from /\ runs'[q].to = runs[q].to
      /\ \A q \in RunIds \ {r} : runs'[q] = runs[q]
      /\ runs'[r].status = status
  BY <1>1, WindowsAfterWrite
<1>3. WindowsKept
  BY <1>1, <1>2, CallsKept DEF WindowsKept
<1>4. now \in Nat /\ now <= now'
  BY DEF TypeInv, TypeOK
<1>5. CASE status = "SUCCESS"
  BY <1>1, <1>2, <1>3, <1>5, GrowGap
<1>6. CASE status = "FAILED"
  <2>1. SameSuccesses
    BY <1>1, <1>2, <1>6 DEF SameSuccesses
  <2> QED
    BY <1>3, <1>4, <2>1, QuietGap
<1> QED
  BY <1>5, <1>6

\* Steps that write no status.
LEMMA GapQuiet ==
  ASSUME ParametersAssumption, TypeInv, GapInv, NEW c \in Callers,
         \A q \in RunIds : /\ runs'[q].from = runs[q].from /\ runs'[q].to = runs[q].to
                           /\ runs'[q].status = "SUCCESS" <=> runs[q].status = "SUCCESS",
         \/ Leave(c)
         \/ callers[c].phase \in Working /\ \E phase \in Phases : Move(c, phase)
         \/ callers' = callers,
         now' = now
  PROVE  GapInv'
<1>1. WindowsKept /\ SameSuccesses
  BY CallsKept DEF WindowsKept, SameSuccesses
<1>2. now \in Nat /\ now <= now'
  BY DEF TypeInv, TypeOK
<1> QED
  BY <1>1, <1>2, QuietGap

LEMMA GapRun ==
  ASSUME ParametersAssumption, IInv, TypeInv, GapInv, FirstCallsAreShort,
         NEW c \in Callers, RunStep(c)
  PROVE  GapInv'
<1>1. CASE FetchAll(c)
  <2>1. callers[c].phase \in Working /\ Move(c, "persisted") /\ now' = now
    BY <1>1 DEF FetchAll, Working
  <2>2. \A q \in RunIds : /\ runs'[q].from = runs[q].from /\ runs'[q].to = runs[q].to
                          /\ runs'[q].status = "SUCCESS" <=> runs[q].status = "SUCCESS"
    BY <1>1 DEF FetchAll, TypeInv, TypeOK, RunRow
  <2> QED
    BY <2>1, <2>2, GapQuiet DEF Phases
<1>2. CASE FinalizeSuccess(c) \/ FinalizeIncomplete(c) \/ FinalizeFailure(c)
  BY <1>2, GapWrite DEF FinalizeSuccess, FinalizeIncomplete, FinalizeFailure, Phases
<1>3. CASE MarkAccountSynced(c)
  BY <1>3, GapQuiet DEF MarkAccountSynced
<1> QED
  BY <1>1, <1>2, <1>3, GapBegin DEF RunStep

LEMMA GapFault ==
  ASSUME ParametersAssumption, Provider = "AMAZON", IInv, TypeInv, GapInv, FirstCallsAreShort,
         NEW c \in Callers, FaultStep(c)
  PROVE  GapInv'
<1>1. CASE FetchPart(c) \/ FetchFails(c)
  <2>1. callers[c].phase \in Working /\ (\E phase \in Phases : Move(c, phase)) /\ UNCHANGED <<runs, now>>
    BY <1>1 DEF FetchPart, FetchFails, AfterPartialFetch, Working, Phases
  <2> QED
    BY <2>1, GapQuiet
<1>2. CASE Crash(c)
  BY <1>2, GapQuiet DEF Crash
<1>3. CASE StatementThrows(c)
  <2>1. Leave(c) /\ now' = now
    BY <1>3 DEF StatementThrows, PhaseAfterThrow
  <2>2. CASE runs' = runs
    BY <2>1, <2>2, GapQuiet
  <2>3. CASE runs' # runs
    <3>1. callers[c].phase \in {"persisted", "incomplete", "failing"}
      BY <1>3, <2>3 DEF StatementThrows
    <3>2. PICK status \in {"SUCCESS", "FAILED"} : runs' = Written(callers[c].run, status)
      BY <1>3, <2>3 DEF StatementThrows
    <3> QED
      BY <2>1, <3>1, <3>2, GapWrite
  <2> QED
    BY <2>2, <2>3
<1> QED
  BY <1>1, <1>2, <1>3 DEF FaultStep

LEMMA GapStep ==
  ASSUME ParametersAssumption, Provider = "AMAZON", SearchBuffer <= InitialDays,
         IInv, TypeInv, GapInv, FirstCallsAreShort, [Next]_vars, ~custom'
  PROVE  GapInv'
<1>1. now \in Nat
  BY DEF TypeInv, TypeOK
<1>2. CASE RecoverStaleRuns
  <2>1. WindowsKept /\ SameSuccesses
    BY <1>2, WindowsAfterRecovery DEF RecoverStaleRuns, WindowsKept
  <2> QED
    BY <1>1, <1>2, <2>1, QuietGap DEF RecoverStaleRuns
<1>3. CASE Tick \/ UNCHANGED vars
  <2>1. UNCHANGED <<runs, callers>> /\ now' \in Nat /\ now <= now'
    BY <1>1, <1>3 DEF Tick, vars
  <2>2. WindowsKept /\ SameSuccesses
    BY <2>1 DEF WindowsKept, SameSuccesses
  <2> QED
    BY <2>1, <2>2, QuietGap
<1> QED
  BY <1>2, <1>3, GapPlan, GapRun, GapFault DEF Next

LEMMA GapInitially ==
  ASSUME Init
  PROVE  GapInv
<1>1. Covered = {}
  BY DEF Init, Covered, WithStatus, AbsentRun
<1>2. \A c \in Callers : callers[c].phase = "idle"
  BY DEF Init, IdleCaller
<1> QED
  BY <1>1, <1>2 DEF GapInv, PastAndProper, Unbroken, CallsAreSound, CallIsSound

\* A period once asked for is not forgotten.
LEMMA CustomStays ==
  ASSUME [Next]_vars, custom
  PROVE  custom'
<1>1. ASSUME NEW c \in Callers, PlanStep(c)
      PROVE  custom'
  BY <1>1 DEF PlanStep, PlanIncremental, PlanChunk, PlanCustom
<1>2. ASSUME NEW c \in Callers, RunStep(c)
      PROVE  custom'
  BY <1>2 DEF RunStep, BeginRun, FetchAll, FinalizeSuccess, MarkAccountSynced,
              FinalizeIncomplete, FinalizeFailure
<1>3. ASSUME NEW c \in Callers, FaultStep(c)
      PROVE  custom'
  BY <1>3 DEF FaultStep, FetchPart, FetchFails, StatementThrows, Crash
<1> QED
  BY <1>1, <1>2, <1>3 DEF Next, RecoverStaleRuns, Tick, vars

\* The coverage of an Amazon account is a single interval, whatever overlaps,
\* is recovered, comes late or fails: until the user asks for a period of his
\* own, and provided that the first synchronisations overlap.
THEOREM GaplessTheorem ==
  ASSUME Provider = "AMAZON", SearchBuffer <= InitialDays
  PROVE  Spec /\ []FirstCallsAreShort => []CoverageGapless
<1> DEFINE Sound == ~custom => GapInv
<1>1. Init => Sound
  BY GapInitially
<1>2. IInv /\ TypeInv /\ Sound /\ FirstCallsAreShort /\ [Next]_vars => Sound'
  BY GapStep, CustomStays, ParametersAssumption
<1>3. TypeInv /\ Sound => CoverageGapless
  <2> SUFFICES ASSUME TypeInv, GapInv
               PROVE  Len(MergeIntervals(Covered)) <= 1
    BY DEF CoverageGapless, Intervals
  <2>1. WindowSet(Covered)
    BY ParametersAssumption, CoveredIsWindowSet DEF TypeInv, TypeOK, RunRow
  <2> QED
    BY <2>1, UnbrokenIsOneInterval DEF GapInv, PastAndProper, Proper
<1> HIDE DEF Sound
<1> QED
  BY <1>1, <1>2, <1>3, AmazonInvariant, TypeInvariant, PTL DEF Spec

===========================================================================
