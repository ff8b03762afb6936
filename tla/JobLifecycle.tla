--------------------------- MODULE JobLifecycle ---------------------------
(***************************************************************************)
(* What the durable backfill promises about its jobs, without workers,     *)
(* versions, leases or time: the states a job goes through, one live job   *)
(* per account, and no job that comes back once a newer one exists.        *)
(***************************************************************************)
EXTENDS Naturals

CONSTANTS Accounts, None, MaxJobs

VARIABLES
    owner,   \* the account of each job, None before it exists
    status   \* "ABSENT" before the job exists, then as in the status column

vars == <<owner, status>>

Jobs == 1..MaxJobs
Live == {"QUEUED", "RUNNING", "RETRY_WAIT", "PAUSED"}

Exists(j) == status[j] # "ABSENT"
LiveOf(a) == {j \in Jobs : owner[j] = a /\ status[j] \in Live}
Newest(j) == \A k \in Jobs : Exists(k) /\ owner[k] = owner[j] => k <= j

Init ==
    /\ owner = [j \in Jobs |-> None]
    /\ status = [j \in Jobs |-> "ABSENT"]

Trans(j, from, to) ==
    /\ status[j] \in from
    /\ status' = [status EXCEPT ![j] = to]

\* Jobs are numbered in the order of their creation.
Start(a, j) ==
    /\ LiveOf(a) = {}
    /\ \A k \in Jobs : k < j <=> Exists(k)
    /\ Trans(j, {"ABSENT"}, "QUEUED")
    /\ owner' = [owner EXCEPT ![j] = a]

\* A job that no worker holds stops at once.
Pause(j) ==
    /\ Trans(j, {"QUEUED", "RETRY_WAIT"}, "PAUSED")
    /\ UNCHANGED owner

Resume(j) ==
    /\ Newest(j)
    /\ Trans(j, {"PAUSED", "FAILED"}, "QUEUED")
    /\ UNCHANGED owner

\* Several jobs may be taken at a time.
Take(S) ==
    /\ \A j \in S : status[j] \in {"QUEUED", "RETRY_WAIT"}
    /\ status' = [j \in Jobs |-> IF j \in S THEN "RUNNING" ELSE status[j]]
    /\ UNCHANGED owner

\* The outcome of a chunk.
Return(j) ==
    /\ \E to \in {"QUEUED", "RETRY_WAIT", "PAUSED", "FAILED", "SAFETY_LIMIT_REACHED"} :
          Trans(j, {"RUNNING"}, to)
    /\ UNCHANGED owner

Next ==
    \/ \E a \in Accounts, j \in Jobs : Start(a, j)
    \/ \E j \in Jobs : Pause(j) \/ Resume(j) \/ Return(j)
    \/ \E S \in SUBSET Jobs : Take(S)

Spec == Init /\ [][Next]_vars

===========================================================================
