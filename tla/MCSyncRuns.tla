---------------------------- MODULE MCSyncRuns ----------------------------
(* Small instances of SyncRuns for TLC.                                    *)
EXTENDS SyncRuns, TLC

\* A period long before anything the first synchronisation fetches.
OldPeriods == {Window(-18, -16)}
NoPeriods == {}

Symmetry == Permutations(Callers)
===========================================================================
