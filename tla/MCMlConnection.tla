--------------------------- MODULE MCMlConnection ---------------------------
(* Small instances of MlConnection for TLC.                                *)
EXTENDS MlConnection, TLC

CONSTANTS u1, u2, i1, i2

\* One user per instance; the job runs beside the first one.
TwoHomes == (u1 :> i1) @@ (u2 :> i2) @@ (Job :> i1)
OneHome == [c \in Callers |-> i1]

AnyStart == {"new", "connected", "legacy"}
NetworkFailure == {"temporary_failure"}
AnyLoss == {"temporary_failure", "outcome_unknown"}
===========================================================================
