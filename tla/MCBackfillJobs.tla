-------------------------- MODULE MCBackfillJobs --------------------------
(***************************************************************************)
(* Small instances of BackfillJobs for TLC.                                *)
(***************************************************************************)
EXTENDS BackfillJobs, TLC

\* Instances and accounts are interchangeable in the safety runs.
Symmetry == Permutations(Workers) \cup Permutations(Accounts)
===========================================================================
