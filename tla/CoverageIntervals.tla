------------------------- MODULE CoverageIntervals -------------------------
(***************************************************************************)
(* Windows of time, what the successful synchronisations of an account     *)
(* cover, and the windows the next synchronisation asks for.               *)
(*                                                                         *)
(* An instant is an integer; a window [from, to) holds the instants from   *)
(* .. to - 1.  Days, overlap and chunk lengths are parameters, in the unit *)
(* of the instants.                                                        *)
(***************************************************************************)
EXTENDS Integers, Sequences, SequencesExt

Window(from, to) == [from |-> from, to |-> to]
Instants(w) == w.from .. (w.to - 1)
InstantsOf(S) == UNION {Instants(w) : w \in S}

Lesser(m, n) == IF m < n THEN m ELSE n
Greater(m, n) == IF m > n THEN m ELSE n

---------------------------------------------------------------------------
(* Coverage                                                                *)

Absorb(merged, w) ==
    IF merged # <<>> /\ w.from <= Last(merged).to
    THEN [merged EXCEPT ![Len(merged)].to = Greater(@, w.to)]
    ELSE Append(merged, w)

\* one of the windows that start last
LatestStart(S) == CHOOSE w \in S : \A v \in S : v.from <= w.from

\* the windows are absorbed in the order of their starts
MergeIntervals(S) ==
    LET merge[T \in SUBSET S] ==
            IF T = {} THEN <<>>
            ELSE Absorb(merge[T \ {LatestStart(T)}], LatestStart(T))
    IN  merge[S]

IsFullyCovered(merged, w) ==
    \E n \in DOMAIN merged : merged[n].from <= w.from /\ w.to <= merged[n].to

---------------------------------------------------------------------------
(* The window of the next synchronisation                                  *)

InitialWindow(days, now) == Window(now - days, now)

LatestTo(merged) == CHOOSE t \in {merged[n].to : n \in DOMAIN merged} :
                        \A n \in DOMAIN merged : merged[n].to <= t

OldestFrom(S) == CHOOSE f \in {w.from : w \in S} : \A w \in S : f <= w.from

IncrementalWindow(merged, overlap, days, now) ==
    IF merged = <<>> THEN InitialWindow(days, now)
    ELSE Window(Lesser(LatestTo(merged) - overlap, now), now)

ChunkWindow(oldest, chunkDays) == Window(oldest - chunkDays, oldest)

HasReachedSafetyFloor(from, floorDays, now) == from <= now - floorDays

===========================================================================
