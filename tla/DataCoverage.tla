---------------------------- MODULE DataCoverage ----------------------------
(***************************************************************************)
(* What the dashboards say of the data behind a period: complete, partial  *)
(* or unknown, from the successful synchronisations of the accounts that   *)
(* are included.  The Mercado Livre dashboard (computeDataCoverage) and    *)
(* the consolidated one (computeConsolidatedCoverage) decide apart.        *)
(***************************************************************************)
EXTENDS CoverageIntervals, FiniteSets

CONSTANTS
    Sources,   \* accounts
    Horizon,   \* bound: instants 0 .. Horizon - 1
    MaxRuns    \* bound: successful runs of all accounts

ASSUME BoundsAssumption == Horizon \in Nat /\ MaxRuns \in Nat

VARIABLE succeeded  \* the windows of the SUCCESS runs of each account

Windows == {w \in [from : 0..Horizon, to : 0..Horizon] : w.from < w.to}

---------------------------------------------------------------------------
(* computeDataCoverage                                                     *)

Verdict(selected, comparison) ==
    IF selected /\ comparison THEN "complete" ELSE "partial"

DataCoverageOf(S, current, previous) ==
    IF S = {} THEN "unknown"
    ELSE Verdict(IsFullyCovered(MergeIntervals(S), current),
                 IsFullyCovered(MergeIntervals(S), previous))

---------------------------------------------------------------------------
(* computeSourceCoverage and computeConsolidatedCoverage                   *)

SourceCoverage(S, current, previous) ==
    LET merged == MergeIntervals(S) IN
    [intervals |-> S,
     selected |-> IsFullyCovered(merged, current),
     comparison |-> IsFullyCovered(merged, previous),
     hasAnySuccess |-> S # {}]

\* Mutant of Consolidated: accounts that never synchronised are left out.
ConsolidatedOfSynced(sources, current, previous) ==
    LET perSource == {SourceCoverage(succeeded[s], current, previous) : s \in sources}
        withSuccess == {p \in perSource : p.hasAnySuccess}
    IN  IF withSuccess = {} THEN "unknown"
        ELSE Verdict(\A p \in withSuccess : p.selected, \A p \in withSuccess : p.comparison)

Consolidated(sources, current, previous) ==
    LET perSource == {SourceCoverage(succeeded[s], current, previous) : s \in sources}
    IN  IF ~\E p \in perSource : p.hasAnySuccess THEN "unknown"
        ELSE Verdict(\A p \in perSource : p.selected, \A p \in perSource : p.comparison)

---------------------------------------------------------------------------
Init == succeeded = [s \in Sources |-> {}]

\* A run of an account ends as SUCCESS.
RunSucceeds(s) ==
    /\ Cardinality(UNION {{t} \X succeeded[t] : t \in Sources}) < MaxRuns
    /\ \E w \in Windows : succeeded' = [succeeded EXCEPT ![s] = @ \cup {w}]

Next == \E s \in Sources : RunSucceeds(s)

Spec == Init /\ [][Next]_succeeded

---------------------------------------------------------------------------
(* Properties                                                              *)

\* The merged intervals of an account cover exactly the instants its runs
\* covered, in order and with a real gap between two of them, in whatever
\* order and with whatever overlaps the runs came.
MergeIsExact ==
    \A s \in Sources :
        LET merged == MergeIntervals(succeeded[s]) IN
        /\ InstantsOf({merged[n] : n \in DOMAIN merged}) = InstantsOf(succeeded[s])
        /\ \A m, n \in DOMAIN merged : m < n => merged[m].to < merged[n].from

\* The dashboard calls a pair of periods complete exactly when there is no
\* instant of either that some included account has not synchronised, so a
\* hole between two runs, or an account without any, is never hidden.
CompleteIffNothingMissing ==
    \A sources \in (SUBSET Sources) \ {{}}, current, previous \in Windows :
        Consolidated(sources, current, previous) = "complete" <=>
            \A s \in sources :
                Instants(current) \cup Instants(previous) \subseteq InstantsOf(succeeded[s])

\* For a single account the two dashboards give the same answer.
DashboardsAgree ==
    \A s \in Sources, current, previous \in Windows :
        Consolidated({s}, current, previous) = DataCoverageOf(succeeded[s], current, previous)

\* What the dashboards say of a period is what the runs covered.
CoverageInv == MergeIsExact /\ CompleteIffNothingMissing /\ DashboardsAgree

===========================================================================
