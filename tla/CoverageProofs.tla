--------------------------- MODULE CoverageProofs ---------------------------
(***************************************************************************)
(* What mergeIntervals returns for any finite set of windows, and what     *)
(* follows of the coverage of an account.  A fact about every finite set   *)
(* is proved by contradiction, at one of the smallest sets of which it is  *)
(* wrong (InnermostExists).                                                *)
(***************************************************************************)
EXTENDS CoverageIntervals, FiniteSetTheorems, WellFoundedInduction, SequenceTheorems, TLAPS

AnyWindow == [from : Int, to : Int]

---------------------------------------------------------------------------
(* Minimal elements: how a fact is proved about every finite set           *)

Family(B, S) == B \subseteq SUBSET S
Innermost(T, B) == T \in B /\ \A U \in B : ~(U \subseteq T /\ U # T)

\* Among subsets of a finite set, one has none of the others inside it.
LEMMA InnermostExists ==
  ASSUME NEW S, IsFiniteSet(S), NEW B, Family(B, S), B # {}
  PROVE  \E T : Innermost(T, B)
<1>1. IsWellFoundedOn(StrictSubsetOrdering(S), FiniteSubsetsOf(S))
  BY FS_StrictSubsetOrderingWellFounded
<1>2. B \subseteq FiniteSubsetsOf(S)
  BY FS_FiniteSubsetsOfFinite DEF Family
<1>3. PICK T \in B : \A U \in B : ~(<<U, T>> \in StrictSubsetOrdering(S))
  BY <1>1, <1>2, WFMin
<1>4. \A U \in B : ~(U \subseteq T /\ U # T)
  BY <1>3 DEF StrictSubsetOrdering, Family
<1> QED
  BY <1>4 DEF Innermost

\* A finite set of integers has a greatest element.
LEMMA Greatest ==
  ASSUME NEW S \in SUBSET Int, IsFiniteSet(S), S # {}
  PROVE  \E m \in S : \A n \in S : n <= m
<1> DEFINE HasGreatest(T) == \E m \in T : \A n \in T : n <= m
           B == {T \in SUBSET S : T # {} /\ ~HasGreatest(T)}
<1> SUFFICES ASSUME B # {} PROVE FALSE
  OBVIOUS
<1>0. Family(B, S)
  BY DEF Family
<1>1. PICK T : Innermost(T, B)
  <2> HIDE DEF B
  <2> QED
    BY <1>0, InnermostExists
<1>2. T \in SUBSET S /\ T # {} /\ ~HasGreatest(T) /\ \A U \in B : ~(U \subseteq T /\ U # T)
  BY <1>1 DEF Innermost
<1>3. PICK a \in T : TRUE
  BY <1>2
<1>4. CASE T \ {a} = {}
  BY <1>2, <1>3, <1>4
<1>5. CASE T \ {a} # {}
  <2>1. T \ {a} \subseteq T /\ T \ {a} # T /\ T \ {a} \in SUBSET S
    BY <1>2, <1>3
  <2>2. T \ {a} \notin B
    BY <1>2, <2>1
  <2>3. PICK m \in T \ {a} : \A n \in T \ {a} : n <= m
    BY <1>5, <2>1, <2>2
  <2>4. a \in Int /\ m \in Int
    BY <1>2, <1>3, <2>3
  <2>5. CASE a <= m
    <3>1. \A n \in T : n <= m
      BY <2>3, <2>5
    <3> QED
      BY <1>2, <2>3, <3>1
  <2>6. CASE m <= a
    <3>1. \A n \in T : n <= a
      BY <1>2, <2>3, <2>4, <2>6
    <3> QED
      BY <1>2, <1>3, <3>1
  <2> QED
    BY <2>4, <2>5, <2>6
<1> QED
  BY <1>4, <1>5

\* The window that starts last is one of the windows.
LEMMA LatestStartExists ==
  ASSUME NEW S \in SUBSET AnyWindow, IsFiniteSet(S), S # {}
  PROVE  LatestStart(S) \in S /\ \A v \in S : v.from <= LatestStart(S).from
<1> DEFINE From == {v.from : v \in S}
<1>1. IsFiniteSet(From)
  <2> DEFINE f == [v \in S |-> v.from]
  <2>1. f \in Surjection(S, From)
    BY DEF Surjection
  <2> QED
    BY <2>1, FS_Surjection
<1>2. From \in SUBSET Int /\ From # {}
  BY DEF AnyWindow
<1>3. PICK m \in From : \A n \in From : n <= m
  BY <1>1, <1>2, Greatest
<1>4. \E w \in S : \A v \in S : v.from <= w.from
  BY <1>3
<1> QED
  BY <1>4 DEF LatestStart

---------------------------------------------------------------------------
(* The recursion of MergeIntervals                                         *)

\* One call of the recursion, on the results f for smaller sets.
Absorbed(f, T) ==
    IF T = {} THEN <<>> ELSE Absorb(f[T \ {LatestStart(T)}], LatestStart(T))

IsMerge(f, S) == f = [T \in SUBSET S |-> Absorbed(f, T)]

LEMMA MergeIsChosen ==
  ASSUME NEW S
  PROVE  MergeIntervals(S) = (CHOOSE f : IsMerge(f, S))[S]
  BY DEF MergeIntervals, IsMerge, Absorbed

WindowSet(S) == S \subseteq AnyWindow /\ IsFiniteSet(S)

\* The rest without the window that starts last.
LEMMA RestSmaller ==
  ASSUME NEW T, WindowSet(T), T # {}
  PROVE  /\ WindowSet(T \ {LatestStart(T)})
         /\ T \ {LatestStart(T)} \subseteq T
         /\ T \ {LatestStart(T)} # T
         /\ LatestStart(T) \in T
         /\ LatestStart(T) \in AnyWindow
         /\ \A v \in T : v.from <= LatestStart(T).from
<1>1. LatestStart(T) \in T /\ \A v \in T : v.from <= LatestStart(T).from
  BY LatestStartExists DEF WindowSet
<1>2. IsFiniteSet(T \ {LatestStart(T)})
  BY FS_RemoveElement DEF WindowSet
<1> QED
  BY <1>1, <1>2 DEF WindowSet

LEMMA SubsetIsWindowSet ==
  ASSUME NEW S, WindowSet(S), NEW T, T \subseteq S
  PROVE  WindowSet(T)
  BY FS_Subset DEF WindowSet

\* Two recursions agree wherever both are defined.
LEMMA MergeUnique ==
  ASSUME NEW S, WindowSet(S), NEW f, IsMerge(f, S), NEW R, NEW g, IsMerge(g, R), S \subseteq R
  PROVE  \A T \in SUBSET S : f[T] = g[T]
<1> DEFINE B == {T \in SUBSET S : f[T] # g[T]}
<1> SUFFICES ASSUME B # {} PROVE FALSE
  OBVIOUS
<1>1. Family(B, S)
  BY DEF Family
<1>2. PICK T : Innermost(T, B)
  <2> HIDE DEF B
  <2> QED
    BY <1>1, InnermostExists DEF WindowSet
<1>3. T \in SUBSET S /\ f[T] # g[T] /\ \A U \in B : ~(U \subseteq T /\ U # T)
  BY <1>2 DEF Innermost
<1>4. f[T] = Absorbed(f, T) /\ g[T] = Absorbed(g, T)
  BY <1>3 DEF IsMerge
<1>5. CASE T = {}
  BY <1>3, <1>4, <1>5 DEF Absorbed
<1>6. CASE T # {}
  <2> DEFINE U == T \ {LatestStart(T)}
  <2>1. U \subseteq T /\ U # T
    BY <1>3, <1>6, RestSmaller, SubsetIsWindowSet
  <2>2. f[U] = g[U]
    BY <1>3, <2>1
  <2> QED
    BY <1>3, <1>4, <1>6, <2>2 DEF Absorbed
<1> QED
  BY <1>5, <1>6

\* What a recursion on S says of the subsets of a part of S.
LEMMA MergeRestricts ==
  ASSUME NEW S, WindowSet(S), NEW f, IsMerge(f, S), NEW R, R \subseteq S
  PROVE  IsMerge([T \in SUBSET R |-> f[T]], R)
<1> DEFINE g == [T \in SUBSET R |-> f[T]]
<1>1. ASSUME NEW T \in SUBSET R
      PROVE  g[T] = Absorbed(g, T)
  <2>1. g[T] = f[T] /\ f[T] = Absorbed(f, T)
    BY DEF IsMerge
  <2>2. CASE T = {}
    BY <2>1, <2>2 DEF Absorbed
  <2>3. CASE T # {}
    <3> DEFINE U == T \ {LatestStart(T)}
    <3>1. U \in SUBSET R
      OBVIOUS
    <3>2. g[U] = f[U]
      BY <3>1
    <3> QED
      BY <2>1, <2>3, <3>2 DEF Absorbed
  <2> QED
    BY <2>2, <2>3
<1>2. g = [T \in SUBSET R |-> g[T]]
  OBVIOUS
<1> HIDE DEF g
<1>3. IsMerge(g, R)
  BY <1>1, <1>2 DEF IsMerge
<1> QED
  BY <1>3 DEF g

\* The recursion is defined on every finite set of windows.
LEMMA MergeExists ==
  ASSUME NEW S, WindowSet(S)
  PROVE  \E f : IsMerge(f, S)
<1> DEFINE B == {T \in SUBSET S : ~\E f : IsMerge(f, T)}
<1> SUFFICES ASSUME B # {} PROVE FALSE
  OBVIOUS
<1>1. Family(B, S)
  BY DEF Family
<1>2. PICK T : Innermost(T, B)
  <2> HIDE DEF B
  <2> QED
    BY <1>1, InnermostExists DEF WindowSet
<1>3. T \in SUBSET S /\ (~\E f : IsMerge(f, T)) /\ \A U \in B : ~(U \subseteq T /\ U # T)
  BY <1>2 DEF Innermost
<1>4. \A U \in SUBSET T : U # T => \E f : IsMerge(f, U)
  BY <1>3
<1>5. WindowSet(T)
  BY <1>3, SubsetIsWindowSet
<1> DEFINE Of(U) == CHOOSE f : IsMerge(f, U)
           g == [U \in SUBSET T |-> IF U = {} THEN <<>>
                    ELSE Absorb(Of(U \ {LatestStart(U)})[U \ {LatestStart(U)}], LatestStart(U))]
<1>6. \A U \in SUBSET T : U # T => IsMerge(Of(U), U)
  BY <1>4
<1> HIDE DEF Of
<1>7. ASSUME NEW U \in SUBSET T, U # T
      PROVE  g[U] = Of(U)[U]
  <2>1. Of(U)[U] = Absorbed(Of(U), U)
    BY <1>6, <1>7 DEF IsMerge
  <2>2. CASE U = {}
    BY <2>1, <2>2 DEF Absorbed
  <2>3. CASE U # {}
    <3> DEFINE V == U \ {LatestStart(U)}
    <3>1. V \subseteq U /\ V \in SUBSET T /\ V # T /\ WindowSet(U) /\ WindowSet(V)
      BY <1>5, <1>7, <2>3, RestSmaller, SubsetIsWindowSet
    <3>2. IsMerge(Of(V), V) /\ IsMerge(Of(U), U)
      BY <1>6, <1>7, <3>1
    <3> HIDE DEF V
    <3>3. \A W \in SUBSET V : Of(V)[W] = Of(U)[W]
      BY <3>1, <3>2, MergeUnique
    <3>4. Of(V)[V] = Of(U)[V]
      BY <3>3
    <3> QED
      BY <2>1, <2>3, <3>4 DEF Absorbed, V
  <2> QED
    BY <2>2, <2>3
<1>8. ASSUME NEW U \in SUBSET T
      PROVE  g[U] = Absorbed(g, U)
  <2>1. CASE U = {}
    BY <2>1 DEF Absorbed
  <2>2. CASE U # {}
    <3> DEFINE V == U \ {LatestStart(U)}
    <3>1. V \in SUBSET T /\ V # T
      BY <1>5, <2>2, RestSmaller, SubsetIsWindowSet
    <3>2. g[V] = Of(V)[V]
      BY <1>7, <3>1
    <3>3. g[U] = Absorb(Of(V)[V], LatestStart(U))
      BY <2>2
    <3>4. Absorbed(g, U) = Absorb(g[V], LatestStart(U))
      BY <2>2 DEF Absorbed
    <3> HIDE DEF g, V
    <3> QED
      BY <3>2, <3>3, <3>4
  <2> QED
    BY <2>1, <2>2
<1>9. g = [U \in SUBSET T |-> g[U]]
  OBVIOUS
<1> HIDE DEF g
<1>10. IsMerge(g, T)
  BY <1>8, <1>9 DEF IsMerge
<1> QED
  BY <1>3, <1>10

LEMMA MergeNothing == MergeIntervals({}) = <<>>
<1> DEFINE f == CHOOSE h : IsMerge(h, {})
<1>1. WindowSet({})
  BY FS_EmptySet DEF WindowSet
<1>2. IsMerge(f, {})
  BY <1>1, MergeExists
<1> HIDE DEF f
<1>3. f[{}] = Absorbed(f, {})
  BY <1>2 DEF IsMerge
<1> QED
  BY <1>3, MergeIsChosen DEF Absorbed, f

\* The merge absorbs the window that starts last into the merge of the others.
LEMMA MergeAbsorbs ==
  ASSUME NEW S, WindowSet(S), S # {}
  PROVE  MergeIntervals(S) = Absorb(MergeIntervals(S \ {LatestStart(S)}), LatestStart(S))
<1> DEFINE R == S \ {LatestStart(S)}
           f == CHOOSE h : IsMerge(h, S)
           g == CHOOSE h : IsMerge(h, R)
<1>1. WindowSet(R) /\ R \subseteq S
  BY RestSmaller
<1>2. IsMerge(f, S) /\ IsMerge(g, R)
  BY <1>1, MergeExists
<1>3. MergeIntervals(S) = f[S] /\ MergeIntervals(R) = g[R]
  BY MergeIsChosen
<1> HIDE DEF f, g
<1>4. f[S] = Absorb(f[R], LatestStart(S))
  BY <1>2 DEF IsMerge, Absorbed
<1>5. \A T \in SUBSET R : g[T] = f[T]
  <2> HIDE DEF R
  <2> QED
    BY <1>1, <1>2, MergeUnique
<1>6. g[R] = f[R]
  BY <1>5
<1> QED
  BY <1>3, <1>4, <1>6

---------------------------------------------------------------------------
(* What MergeIntervals returns                                             *)

\* m is in order, with a real gap between two of its intervals; each starts
\* with a window of S and ends with one; every window is inside an interval;
\* and no instant that is in no window is.
MergeOf(m, S) ==
    /\ m \in Seq(AnyWindow)
    /\ m = <<>> <=> S = {}
    /\ \A i \in 1..Len(m) : \E v \in S : m[i].from = v.from /\ v.to <= m[i].to
    /\ \A i \in 1..Len(m) : \E v \in S : m[i].to = v.to
    /\ \A i, j \in 1..Len(m) : i < j => m[i].to < m[j].from
    /\ \A v \in S : \E i \in 1..Len(m) : m[i].from <= v.from /\ v.to <= m[i].to
    /\ \A t \in Int : (\E i \in 1..Len(m) : m[i].from <= t /\ t < m[i].to)
                         => \E v \in S : v.from <= t /\ t < v.to

\* A window that starts no earlier than the others is absorbed into their
\* merge by stretching the last interval,
LEMMA StretchMerges ==
  ASSUME NEW R, R \subseteq AnyWindow, NEW w \in AnyWindow, NEW m, MergeOf(m, R),
         \A v \in R : v.from <= w.from, m # <<>>, w.from <= Last(m).to
  PROVE  MergeOf(Absorb(m, w), R \cup {w})
<1> DEFINE n == Len(m)
           last == [from |-> m[n].from, to |-> Greater(m[n].to, w.to)]
           k == Absorb(m, w)
<1>1. m \in Seq(AnyWindow) /\ n \in Nat \ {0}
  BY EmptySeq DEF MergeOf
<1>2. m[n] \in AnyWindow
  BY <1>1, ElementOfSeq
<1>3. m[n].from \in Int /\ m[n].to \in Int /\ w.from \in Int /\ w.to \in Int
  BY <1>2 DEF AnyWindow
<1>4. last \in AnyWindow
  BY <1>3 DEF AnyWindow, Greater
<1>5. [m[n] EXCEPT !.to = Greater(@, w.to)] = last
  BY <1>2 DEF AnyWindow
<1>6. k = [m EXCEPT ![n] = last]
  BY <1>1, <1>5 DEF Absorb, Last
<1>7. /\ last.from = m[n].from
      /\ last.to = Greater(m[n].to, w.to)
      /\ m[n].to <= last.to
      /\ w.to <= last.to
      /\ last.to \in {m[n].to, w.to}
      /\ last.from <= w.from
      /\ w.from <= m[n].to
  <2>1. n \in 1..Len(m)
    BY <1>1
  <2>2. PICK v \in R : m[n].from = v.from
    BY <2>1 DEF MergeOf
  <2>3. m[n].from <= w.from
    BY <2>2
  <2> QED
    BY <1>1, <1>3, <2>3 DEF Greater, Last
<1> HIDE DEF last, k
<1>8. /\ k \in Seq(AnyWindow)
      /\ Len(k) = n
      /\ \A j \in 1..n : k[j] = IF j = n THEN last ELSE m[j]
  BY <1>1, <1>4, <1>6, ExceptSeq
<1>9. k # <<>>
  BY <1>1, <1>8, EmptySeq
<1>10. \A i \in 1..n : \E v \in R \cup {w} : k[i].from = v.from /\ v.to <= k[i].to
  <2> SUFFICES ASSUME NEW i \in 1..n
               PROVE  \E v \in R : k[i].from = v.from /\ v.to <= k[i].to
    OBVIOUS
  <2>1. PICK v \in R : m[i].from = v.from /\ v.to <= m[i].to
    BY DEF MergeOf
  <2>2. k[i].from = m[i].from /\ v.to \in Int
    BY <1>7, <1>8 DEF AnyWindow
  <2>3. CASE i = n
    BY <1>3, <1>4, <1>7, <1>8, <2>1, <2>2, <2>3 DEF AnyWindow
  <2>4. CASE i # n
    BY <1>8, <2>1, <2>2, <2>4
  <2> QED
    BY <2>3, <2>4
<1>11. \A i \in 1..n : \E v \in R \cup {w} : k[i].to = v.to
  BY <1>1, <1>7, <1>8 DEF MergeOf
<1>12. \A i, j \in 1..n : i < j => k[i].to < k[j].from
  <2> SUFFICES ASSUME NEW i \in 1..n, NEW j \in 1..n, i < j
               PROVE  k[i].to < k[j].from
    OBVIOUS
  <2>1. k[i] = m[i] /\ k[j].from = m[j].from
    BY <1>1, <1>7, <1>8
  <2> QED
    BY <2>1 DEF MergeOf
<1>13. \A v \in R \cup {w} : \E i \in 1..n : k[i].from <= v.from /\ v.to <= k[i].to
  <2>1. ASSUME NEW v \in R
        PROVE  \E i \in 1..n : k[i].from <= v.from /\ v.to <= k[i].to
    <3>1. PICK i \in 1..n : m[i].from <= v.from /\ v.to <= m[i].to
      BY DEF MergeOf
    <3>2. v.to \in Int
      BY DEF AnyWindow
    <3>3. CASE i = n
      <4>1. k[i].from <= v.from
        BY <1>7, <1>8, <3>1, <3>3
      <4>2. v.to <= k[i].to
        BY <1>3, <1>4, <1>7, <1>8, <3>1, <3>2, <3>3 DEF AnyWindow
      <4> QED
        BY <4>1, <4>2
    <3>4. CASE i # n
      BY <1>8, <3>1, <3>4
    <3> QED
      BY <3>3, <3>4
  <2>2. k[n].from <= w.from /\ w.to <= k[n].to
    BY <1>1, <1>7, <1>8
  <2> QED
    BY <1>1, <2>1, <2>2
<1>14. ASSUME NEW t \in Int, NEW i \in 1..n, k[i].from <= t, t < k[i].to
       PROVE  \E v \in R \cup {w} : v.from <= t /\ t < v.to
  <2>1. CASE m[i].from <= t /\ t < m[i].to
    BY <2>1 DEF MergeOf
  <2>2. CASE ~(m[i].from <= t /\ t < m[i].to)
    <3>1. i = n
      BY <1>8, <1>14, <2>2
    <3>2. w.from <= t /\ t < w.to
      BY <1>3, <1>7, <1>8, <1>14, <2>2, <3>1
    <3> QED
      BY <3>2
  <2> QED
    BY <2>1, <2>2
<1> QED
  BY <1>8, <1>9, <1>10, <1>11, <1>12, <1>13, <1>14 DEF MergeOf, k

\* or by starting a new one.
LEMMA AppendMerges ==
  ASSUME NEW R, R \subseteq AnyWindow, NEW w \in AnyWindow, NEW m, MergeOf(m, R),
         \A v \in R : v.from <= w.from, m # <<>> => w.from > Last(m).to
  PROVE  MergeOf(Absorb(m, w), R \cup {w})
<1> DEFINE n == Len(m)
           k == Absorb(m, w)
<1>1. m \in Seq(AnyWindow) /\ n \in Nat
  BY DEF MergeOf
<1>2. \A i \in 1..n : m[i] \in AnyWindow
  BY <1>1, ElementOfSeq
<1>3. \A i \in 1..n : m[i].from \in Int /\ m[i].to \in Int
  BY <1>2 DEF AnyWindow
<1>4. w.from \in Int /\ w.to \in Int
  BY DEF AnyWindow
<1>5. \A i \in 1..n : m[i].to < w.from
  <2> SUFFICES ASSUME NEW i \in 1..n
               PROVE  m[i].to < w.from
    OBVIOUS
  <2>1. m # <<>> /\ n \in 1..n
    BY <1>1
  <2>2. m[n].to < w.from
    BY <1>1, <1>3, <1>4, <2>1 DEF Last
  <2>3. CASE i < n
    <3>1. m[i].to < m[n].from
      BY <1>1, <2>1, <2>3 DEF MergeOf
    <3>2. m[n].from <= w.from
      BY <1>1, <2>1 DEF MergeOf
    <3> QED
      BY <1>3, <1>4, <2>1, <3>1, <3>2
  <2> QED
    BY <1>1, <2>2, <2>3
<1>6. k = Append(m, w)
  <2>1. m # <<>> => ~(w.from <= Last(m).to)
    <3> SUFFICES ASSUME m # <<>>
                 PROVE  ~(w.from <= m[n].to)
      BY DEF Last
    <3>1. n \in 1..n
      BY <1>1, EmptySeq
    <3> QED
      BY <1>3, <1>4, <1>5, <3>1
  <2> QED
    BY <2>1 DEF Absorb
<1> HIDE DEF k
<1>7. /\ k \in Seq(AnyWindow)
      /\ k # <<>>
      /\ Len(k) = n + 1
      /\ \A i \in 1..n : k[i] = m[i]
      /\ k[n + 1] = w
  BY <1>1, <1>6, AppendProperties
<1>8. \A i \in 1..n + 1 : i \in 1..n \/ i = n + 1
  BY <1>1
<1>9. \A i \in 1..n + 1 : \E v \in R \cup {w} : k[i].from = v.from /\ v.to <= k[i].to
  <2>1. ASSUME NEW i \in 1..n
        PROVE  \E v \in R : k[i].from = v.from /\ v.to <= k[i].to
    BY <1>7 DEF MergeOf
  <2> QED
    BY <1>4, <1>7, <1>8, <2>1
<1>10. \A i \in 1..n + 1 : \E v \in R \cup {w} : k[i].to = v.to
  BY <1>1, <1>7, <1>8 DEF MergeOf
<1>11. \A i, j \in 1..n + 1 : i < j => k[i].to < k[j].from
  <2> SUFFICES ASSUME NEW i \in 1..n + 1, NEW j \in 1..n + 1, i < j
               PROVE  k[i].to < k[j].from
    OBVIOUS
  <2>1. i \in 1..n
    BY <1>1
  <2>2. CASE j \in 1..n
    BY <1>7, <2>1, <2>2 DEF MergeOf
  <2>3. CASE j = n + 1
    BY <1>5, <1>7, <2>1, <2>3
  <2> QED
    BY <1>8, <2>2, <2>3
<1>12. \A v \in R \cup {w} : \E i \in 1..n + 1 : k[i].from <= v.from /\ v.to <= k[i].to
  <2>1. ASSUME NEW v \in R
        PROVE  \E i \in 1..n + 1 : k[i].from <= v.from /\ v.to <= k[i].to
    <3>1. PICK i \in 1..n : m[i].from <= v.from /\ v.to <= m[i].to
      BY DEF MergeOf
    <3> QED
      BY <1>1, <1>7, <3>1
  <2>2. n + 1 \in 1..n + 1 /\ k[n + 1].from <= w.from /\ w.to <= k[n + 1].to
    BY <1>1, <1>4, <1>7
  <2> QED
    BY <2>1, <2>2
<1>13. ASSUME NEW t \in Int, NEW i \in 1..n + 1, k[i].from <= t, t < k[i].to
       PROVE  \E v \in R \cup {w} : v.from <= t /\ t < v.to
  BY <1>7, <1>8, <1>13 DEF MergeOf
<1> QED
  BY <1>7, <1>9, <1>10, <1>11, <1>12, <1>13 DEF MergeOf, k

LEMMA NothingMerges == MergeOf(<<>>, {})
  BY EmptySeq DEF MergeOf

\* Of any finite set of windows, in whatever order they came: by the smallest
\* set of which it would be wrong.
THEOREM MergeTheorem ==
  ASSUME NEW S, WindowSet(S)
  PROVE  MergeOf(MergeIntervals(S), S)
<1> DEFINE B == {T \in SUBSET S : ~MergeOf(MergeIntervals(T), T)}
<1> SUFFICES ASSUME B # {} PROVE FALSE
  OBVIOUS
<1>1. Family(B, S)
  BY DEF Family
<1>2. PICK T : Innermost(T, B)
  <2> HIDE DEF B
  <2> QED
    BY <1>1, InnermostExists DEF WindowSet
<1>3. T \in SUBSET S /\ ~MergeOf(MergeIntervals(T), T) /\ \A U \in B : ~(U \subseteq T /\ U # T)
  BY <1>2 DEF Innermost
<1>4. WindowSet(T)
  BY <1>3, SubsetIsWindowSet
<1>5. T # {}
  BY <1>3, MergeNothing, NothingMerges
<1> DEFINE w == LatestStart(T)
           R == T \ {w}
<1>6. WindowSet(R) /\ R \subseteq T /\ R # T /\ w \in T /\ w \in AnyWindow /\ \A v \in T : v.from <= w.from
  BY <1>4, <1>5, RestSmaller
<1>7. MergeOf(MergeIntervals(R), R)
  BY <1>3, <1>6
<1>8. MergeIntervals(T) = Absorb(MergeIntervals(R), w)
  BY <1>4, <1>5, MergeAbsorbs
<1>9. T = R \cup {w}
  BY <1>6
<1> HIDE DEF w, R, B
<1> DEFINE m == MergeIntervals(R)
<1>10. R \subseteq AnyWindow /\ \A v \in R : v.from <= w.from
  BY <1>6 DEF WindowSet
<1>11. CASE m # <<>> /\ w.from <= Last(m).to
  <2>1. MergeOf(Absorb(m, w), R \cup {w})
    <3> HIDE DEF m
    <3> QED
      BY <1>6, <1>7, <1>10, <1>11, StretchMerges DEF m
  <2> QED
    BY <1>3, <1>8, <1>9, <2>1
<1>12. CASE ~(m # <<>> /\ w.from <= Last(m).to)
  <2>1. m # <<>> => w.from > Last(m).to
    <3> SUFFICES ASSUME m # <<>>
                 PROVE  w.from > Last(m).to
      OBVIOUS
    <3>1. m \in Seq(AnyWindow) /\ Len(m) \in 1..Len(m)
      BY <1>7, EmptySeq DEF MergeOf
    <3>2. m[Len(m)] \in AnyWindow
      BY <3>1, ElementOfSeq
    <3> QED
      BY <1>6, <1>12, <3>2 DEF Last, AnyWindow
  <2>2. MergeOf(Absorb(m, w), R \cup {w})
    <3> HIDE DEF m
    <3> QED
      BY <1>6, <1>7, <1>10, <2>1, AppendMerges DEF m
  <2> QED
    BY <1>3, <1>8, <1>9, <2>2
<1> QED
  BY <1>11, <1>12

---------------------------------------------------------------------------
(* The ends of a coverage                                                  *)

\* The least element, as the negative of the greatest one.
LEMMA Least ==
  ASSUME NEW S \in SUBSET Int, IsFiniteSet(S), S # {}
  PROVE  \E m \in S : \A n \in S : m <= n
<1> DEFINE f == [n \in S |-> 0 - n]
           T == {f[n] : n \in S}
<1>1. f \in Surjection(S, T)
  BY DEF Surjection
<1>2. IsFiniteSet(T)
  <2> HIDE DEF f, T
  <2> QED
    BY <1>1, FS_Surjection
<1>3. T \in SUBSET Int /\ T # {}
  <2>1. \A n \in S : f[n] \in Int
    OBVIOUS
  <2> HIDE DEF f
  <2> QED
    BY <2>1
<1>4. PICK m \in T : \A n \in T : n <= m
  <2> HIDE DEF T
  <2> QED
    BY <1>2, <1>3, Greatest
<1>5. PICK a \in S : m = 0 - a
  BY <1>4
<1>6. \A n \in S : 0 - n <= 0 - a
  BY <1>4, <1>5
<1>7. ASSUME NEW n \in S
      PROVE  a <= n
  <2>1. n \in Int /\ a \in Int /\ 0 - n <= 0 - a
    BY <1>6
  <2> HIDE DEF f, T
  <2> QED
    BY <2>1
<1> QED
  BY <1>7

LEMMA LatestToIsGreatest ==
  ASSUME NEW S, WindowSet(S), S # {}
  PROVE  /\ \E v \in S : LatestTo(MergeIntervals(S)) = v.to
         /\ LatestTo(MergeIntervals(S)) \in Int
         /\ \A v \in S : v.to <= LatestTo(MergeIntervals(S))
<1> DEFINE m == MergeIntervals(S)
           f == [i \in 1..Len(m) |-> m[i].to]
           T == {m[i].to : i \in DOMAIN m}
<1>1. MergeOf(m, S)
  BY MergeTheorem
<1> HIDE DEF m
<1>2. m \in Seq(AnyWindow) /\ Len(m) \in Nat \ {0} /\ DOMAIN m = 1..Len(m)
  BY <1>1, EmptySeq, LenProperties DEF MergeOf
<1>3. \A i \in 1..Len(m) : m[i] \in AnyWindow
  BY <1>2, ElementOfSeq
<1>4. IsFiniteSet(1..Len(m))
  BY <1>2, FS_Interval
<1>5. f \in Surjection(1..Len(m), T)
  BY <1>2 DEF Surjection
<1>6. IsFiniteSet(T)
  BY <1>4, <1>5, FS_Surjection
<1>7. T \in SUBSET Int /\ T # {}
  BY <1>2, <1>3 DEF AnyWindow
<1>8. \E t \in T : \A u \in T : u <= t
  BY <1>6, <1>7, Greatest
<1>9. LatestTo(m) \in T /\ \A i \in DOMAIN m : m[i].to <= LatestTo(m)
  BY <1>8 DEF LatestTo
<1>10. \E v \in S : LatestTo(m) = v.to
  BY <1>1, <1>2, <1>9 DEF MergeOf
<1>11. LatestTo(m) \in Int
  BY <1>7, <1>9
<1>12. ASSUME NEW v \in S
       PROVE  v.to <= LatestTo(m)
  <2>1. PICK i \in 1..Len(m) : v.to <= m[i].to
    BY <1>1 DEF MergeOf
  <2>2. m[i].to <= LatestTo(m) /\ m[i].to \in Int /\ v.to \in Int
    BY <1>2, <1>3, <1>9 DEF AnyWindow, WindowSet
  <2> QED
    BY <1>11, <2>1, <2>2
<1> QED
  BY <1>10, <1>11, <1>12 DEF m

LEMMA OldestFromIsLeast ==
  ASSUME NEW S, WindowSet(S), S # {}
  PROVE  /\ \E v \in S : OldestFrom(S) = v.from
         /\ OldestFrom(S) \in Int
         /\ \A v \in S : OldestFrom(S) <= v.from
<1> DEFINE f == [v \in S |-> v.from]
           T == {v.from : v \in S}
<1>1. f \in Surjection(S, T)
  BY DEF Surjection
<1>2. IsFiniteSet(T)
  BY <1>1, FS_Surjection DEF WindowSet
<1>3. T \in SUBSET Int /\ T # {}
  BY DEF WindowSet, AnyWindow
<1>4. \E t \in T : \A u \in T : t <= u
  BY <1>2, <1>3, Least
<1>5. \E t \in T : \A v \in S : t <= v.from
  BY <1>4
<1>6. OldestFrom(S) \in T /\ \A v \in S : OldestFrom(S) <= v.from
  BY <1>5 DEF OldestFrom
<1> QED
  BY <1>3, <1>6

LEMMA NothingIsCovered ==
  ASSUME NEW S, WindowSet(S)
  PROVE  MergeIntervals(S) = <<>> <=> S = {}
  BY MergeTheorem DEF MergeOf

---------------------------------------------------------------------------
(* Coverage in one piece                                                   *)

\* Wherever the line of time is cut between a start and an end of S, some
\* window lies across the cut.
Unbroken(S) ==
    \A t \in Int : (\E v \in S : v.from < t) /\ (\E v \in S : t <= v.to)
                      => \E v \in S : v.from < t /\ t <= v.to

Proper(S) == \A v \in S : v.from <= v.to
Touches(w, v) == w.from <= v.to /\ v.from <= w.to

LEMMA UnbrokenGrows ==
  ASSUME NEW S, S \subseteq AnyWindow, Unbroken(S), NEW w \in AnyWindow, w.from <= w.to,
         S # {} => \E v \in S : Touches(w, v)
  PROVE  Unbroken(S \cup {w})
<1> SUFFICES ASSUME NEW t \in Int, NEW x \in S \cup {w}, NEW y \in S \cup {w},
                    x.from < t, t <= y.to
             PROVE  \E v \in S \cup {w} : v.from < t /\ t <= v.to
  BY DEF Unbroken
<1>1. CASE x \in S /\ y \in S
  BY <1>1 DEF Unbroken
<1>2. CASE x = w /\ y = w
  BY <1>2
<1>3. CASE x = w /\ y \in S
  <2>1. PICK v \in S : w.from <= v.to /\ v.from <= w.to
    BY <1>3 DEF Touches
  <2>2. CASE t <= w.to
    BY <1>3, <2>2
  <2>3. CASE w.to < t
    <3>1. v.from < t
      BY <2>1, <2>3 DEF AnyWindow
    <3> QED
      BY <1>3, <3>1 DEF Unbroken
  <2> QED
    BY <2>2, <2>3 DEF AnyWindow
<1>4. CASE x \in S /\ y = w
  <2>1. PICK v \in S : w.from <= v.to /\ v.from <= w.to
    BY <1>4 DEF Touches
  <2>2. CASE w.from < t
    BY <1>4, <2>2
  <2>3. CASE t <= w.from
    <3>1. t <= v.to
      BY <2>1, <2>3 DEF AnyWindow
    <3> QED
      BY <1>4, <3>1 DEF Unbroken
  <2> QED
    BY <2>2, <2>3 DEF AnyWindow
<1> QED
  BY <1>1, <1>2, <1>3, <1>4

\* An unbroken coverage is a single interval.
LEMMA UnbrokenIsOneInterval ==
  ASSUME NEW S, WindowSet(S), Proper(S), Unbroken(S)
  PROVE  Len(MergeIntervals(S)) <= 1
<1> DEFINE m == MergeIntervals(S)
<1>1. MergeOf(m, S)
  BY MergeTheorem
<1> HIDE DEF m
<1>2. m \in Seq(AnyWindow) /\ Len(m) \in Nat
  BY <1>1 DEF MergeOf
<1> SUFFICES ASSUME Len(m) > 1
             PROVE  FALSE
  BY <1>2 DEF m
<1>3. 1 \in 1..Len(m) /\ 2 \in 1..Len(m)
  BY <1>2
<1>4. \A i \in 1..Len(m) : m[i] \in AnyWindow
  BY <1>2, ElementOfSeq
<1>5. \A i \in 1..Len(m) : m[i].from \in Int /\ m[i].to \in Int
  BY <1>4 DEF AnyWindow
<1>6. PICK x \in S : m[1].from = x.from /\ x.to <= m[1].to
  BY <1>1, <1>3 DEF MergeOf
<1>7. PICK y \in S : m[2].from = y.from /\ y.to <= m[2].to
  BY <1>1, <1>3 DEF MergeOf
<1>8. m[1].to < m[2].from
  BY <1>1, <1>3 DEF MergeOf
<1>9. x \in AnyWindow /\ y \in AnyWindow /\ x.from <= x.to /\ y.from <= y.to
  BY DEF WindowSet, Proper
<1>10. x.from < y.from
  BY <1>3, <1>5, <1>6, <1>7, <1>8, <1>9 DEF AnyWindow
<1>11. PICK v \in S : v.from < y.from /\ y.from <= v.to
  BY <1>9, <1>10 DEF Unbroken, AnyWindow
<1>12. v.from \in Int /\ v.to \in Int
  BY DEF WindowSet, AnyWindow
<1>13. PICK i \in 1..Len(m) : m[i].from <= v.from /\ v.to <= m[i].to
  BY <1>1 DEF MergeOf
<1>14. CASE i = 1
  BY <1>3, <1>5, <1>7, <1>8, <1>11, <1>12, <1>13, <1>14
<1>15. CASE i = 2
  BY <1>5, <1>7, <1>11, <1>12, <1>13, <1>15
<1>16. CASE i > 2
  <2>1. m[2].to < m[i].from
    BY <1>1, <1>3, <1>16 DEF MergeOf
  <2>2. m[2].from <= m[2].to
    BY <1>3, <1>5, <1>7, <1>9 DEF AnyWindow
  <2> QED
    BY <1>3, <1>5, <1>7, <1>11, <1>12, <1>13, <2>1, <2>2
<1> QED
  BY <1>14, <1>15, <1>16

---------------------------------------------------------------------------
(* What is said of a period                                                *)

\* The merged intervals hold the instants of the windows and no others.
THEOREM MergeKeepsInstants ==
  ASSUME NEW S, WindowSet(S)
  PROVE  LET m == MergeIntervals(S) IN
         /\ InstantsOf({m[n] : n \in DOMAIN m}) = InstantsOf(S)
         /\ \A i, j \in DOMAIN m : i < j => m[i].to < m[j].from
<1> DEFINE m == MergeIntervals(S)
           M == {m[n] : n \in DOMAIN m}
<1>1. MergeOf(m, S)
  BY MergeTheorem
<1> HIDE DEF m
<1>2. DOMAIN m = 1..Len(m)
  BY <1>1, LenProperties DEF MergeOf
<1>3. \A i \in 1..Len(m) : m[i].from \in Int /\ m[i].to \in Int
  <2>1. \A i \in 1..Len(m) : m[i] \in AnyWindow
    BY <1>1, ElementOfSeq DEF MergeOf
  <2> QED
    BY <2>1 DEF AnyWindow
<1>4. \A v \in S : v.from \in Int /\ v.to \in Int
  BY DEF WindowSet, AnyWindow
<1>5. ASSUME NEW t \in InstantsOf(M)
      PROVE  t \in InstantsOf(S)
  <2>1. PICK i \in 1..Len(m) : t \in m[i].from .. (m[i].to - 1)
    BY <1>2 DEF InstantsOf, Instants
  <2>2. t \in Int /\ m[i].from <= t /\ t < m[i].to
    BY <1>3, <2>1
  <2>3. PICK v \in S : v.from <= t /\ t < v.to
    BY <1>1, <2>2 DEF MergeOf
  <2>4. t \in Instants(v)
    BY <1>4, <2>2, <2>3 DEF Instants
  <2> QED
    BY <2>4 DEF InstantsOf
<1>6. ASSUME NEW t \in InstantsOf(S)
      PROVE  t \in InstantsOf(M)
  <2>1. PICK v \in S : t \in v.from .. (v.to - 1)
    BY DEF InstantsOf, Instants
  <2>2. t \in Int /\ v.from <= t /\ t < v.to
    BY <1>4, <2>1
  <2>3. PICK i \in 1..Len(m) : m[i].from <= v.from /\ v.to <= m[i].to
    BY <1>1 DEF MergeOf
  <2>4. t \in Instants(m[i])
    BY <1>3, <1>4, <2>2, <2>3 DEF Instants
  <2> QED
    BY <1>2, <2>4 DEF InstantsOf
<1>7. InstantsOf(M) = InstantsOf(S)
  BY <1>5, <1>6
<1>8. \A i, j \in DOMAIN m : i < j => m[i].to < m[j].from
  BY <1>1, <1>2 DEF MergeOf
<1> QED
  BY <1>7, <1>8 DEF m

\* A period is fully covered when no instant of it is missing.
THEOREM FullyCoveredTheorem ==
  ASSUME NEW S, WindowSet(S), NEW w \in AnyWindow, w.from < w.to
  PROVE  IsFullyCovered(MergeIntervals(S), w) <=> Instants(w) \subseteq InstantsOf(S)
<1> DEFINE m == MergeIntervals(S)
<1>1. MergeOf(m, S)
  BY MergeTheorem
<1> HIDE DEF m
<1>2. DOMAIN m = 1..Len(m) /\ Len(m) \in Nat
  BY <1>1, LenProperties DEF MergeOf
<1>3. \A i \in 1..Len(m) : m[i].from \in Int /\ m[i].to \in Int
  <2>1. \A i \in 1..Len(m) : m[i] \in AnyWindow
    BY <1>1, ElementOfSeq DEF MergeOf
  <2> QED
    BY <2>1 DEF AnyWindow
<1>4. \A v \in S : v.from \in Int /\ v.to \in Int
  BY DEF WindowSet, AnyWindow
<1>5. w.from \in Int /\ w.to \in Int
  BY DEF AnyWindow
<1>6. ASSUME IsFullyCovered(m, w), NEW t \in Instants(w)
      PROVE  t \in InstantsOf(S)
  <2>1. PICK i \in 1..Len(m) : m[i].from <= w.from /\ w.to <= m[i].to
    BY <1>2, <1>6 DEF IsFullyCovered
  <2>2. t \in Int /\ w.from <= t /\ t < w.to
    BY <1>5, <1>6 DEF Instants
  <2>3. m[i].from <= t /\ t < m[i].to
    BY <1>3, <1>5, <2>1, <2>2
  <2>4. PICK v \in S : v.from <= t /\ t < v.to
    BY <1>1, <2>2, <2>3 DEF MergeOf
  <2>5. t \in Instants(v)
    BY <1>4, <2>2, <2>4 DEF Instants
  <2> QED
    BY <2>5 DEF InstantsOf
\* An instant of a window is in the interval that holds the window.
<1>7. ASSUME NEW t \in Int, t \in InstantsOf(S)
      PROVE  \E i \in 1..Len(m) : m[i].from <= t /\ t < m[i].to
  <2>1. PICK v \in S : t \in v.from .. (v.to - 1)
    BY <1>7 DEF InstantsOf, Instants
  <2>2. v.from <= t /\ t < v.to
    BY <1>4, <2>1
  <2>3. PICK i \in 1..Len(m) : m[i].from <= v.from /\ v.to <= m[i].to
    BY <1>1 DEF MergeOf
  <2> QED
    BY <1>3, <1>4, <2>2, <2>3
<1>8. ASSUME Instants(w) \subseteq InstantsOf(S)
      PROVE  IsFullyCovered(m, w)
  <2>1. w.from \in Instants(w)
    BY <1>5 DEF Instants
  <2>2. PICK i \in 1..Len(m) : m[i].from <= w.from /\ w.from < m[i].to
    BY <1>5, <1>7, <1>8, <2>1
  <2>3. CASE w.to <= m[i].to
    BY <1>2, <2>2, <2>3 DEF IsFullyCovered
  <2>4. CASE m[i].to < w.to
    <3> DEFINE t == m[i].to
    <3>1. t \in Int /\ t \in Instants(w)
      BY <1>3, <1>5, <2>2, <2>4 DEF Instants
    <3>2. PICK j \in 1..Len(m) : m[j].from <= t /\ t < m[j].to
      BY <1>7, <1>8, <3>1
    <3>3. CASE i < j
      <4>1. m[i].to < m[j].from
        BY <1>1, <3>3 DEF MergeOf
      <4> QED
        BY <1>3, <3>2, <4>1
    <3>4. CASE j < i
      <4>1. m[j].to < m[i].from
        BY <1>1, <3>4 DEF MergeOf
      <4> QED
        BY <1>3, <1>5, <2>2, <3>2, <4>1
    <3>5. CASE i = j
      BY <1>3, <3>2, <3>5
    <3> QED
      BY <1>2, <3>3, <3>4, <3>5
  <2> QED
    BY <1>3, <1>5, <2>3, <2>4
<1> QED
  BY <1>6, <1>8 DEF m

---------------------------------------------------------------------------
(* Sums over finite sets (SumFunctionOnSet), in whatever order they are    *)
(* added up                                                                *)

Some(T) == CHOOSE x \in T : TRUE

\* One call of the recursion, on the results f for smaller sets.
Added(f, fun, T) == IF T = {} THEN 0 ELSE fun[Some(T)] + f[T \ {Some(T)}]

IsSum(f, fun, S) == f = [T \in SUBSET S |-> Added(f, fun, T)]

LEMMA SumIsChosen ==
  ASSUME NEW S, NEW fun
  PROVE  SumFunctionOnSet(fun, S) = (CHOOSE f : IsSum(f, fun, S))[S]
  BY DEF SumFunctionOnSet, FoldFunctionOnSet, MapThenFoldSet, IsSum, Added, Some

\* The rest without one of its members.
LEMMA OneLess ==
  ASSUME NEW T, IsFiniteSet(T), T # {}
  PROVE  IsFiniteSet(T \ {Some(T)}) /\ T \ {Some(T)} # T /\ Some(T) \in T
  BY FS_RemoveElement DEF Some

LEMMA SumUnique ==
  ASSUME NEW S, IsFiniteSet(S), NEW fun, NEW f, IsSum(f, fun, S),
         NEW R, NEW g, IsSum(g, fun, R), S \subseteq R
  PROVE  \A T \in SUBSET S : f[T] = g[T]
<1> DEFINE B == {T \in SUBSET S : f[T] # g[T]}
<1> SUFFICES ASSUME B # {} PROVE FALSE
  OBVIOUS
<1>1. Family(B, S)
  BY DEF Family
<1>2. PICK T : Innermost(T, B)
  <2> HIDE DEF B
  <2> QED
    BY <1>1, InnermostExists
<1>3. T \in SUBSET S /\ f[T] # g[T] /\ \A U \in B : ~(U \subseteq T /\ U # T)
  BY <1>2 DEF Innermost
<1>4. f[T] = Added(f, fun, T) /\ g[T] = Added(g, fun, T)
  BY <1>3 DEF IsSum
<1>5. CASE T = {}
  BY <1>3, <1>4, <1>5 DEF Added
<1>6. CASE T # {}
  <2> DEFINE U == T \ {Some(T)}
  <2>1. U \subseteq T /\ U # T
    BY <1>6 DEF Some
  <2>2. f[U] = g[U]
    BY <1>3, <2>1
  <2> QED
    BY <1>3, <1>4, <1>6, <2>2 DEF Added
<1> QED
  BY <1>5, <1>6

\* The recursion is defined on every finite set.
LEMMA SumExists ==
  ASSUME NEW S, IsFiniteSet(S), NEW fun
  PROVE  \E f : IsSum(f, fun, S)
<1> DEFINE B == {T \in SUBSET S : ~\E f : IsSum(f, fun, T)}
<1> SUFFICES ASSUME B # {} PROVE FALSE
  OBVIOUS
<1>1. Family(B, S)
  BY DEF Family
<1>2. PICK T : Innermost(T, B)
  <2> HIDE DEF B
  <2> QED
    BY <1>1, InnermostExists
<1>3. T \in SUBSET S /\ (~\E f : IsSum(f, fun, T)) /\ \A U \in B : ~(U \subseteq T /\ U # T)
  BY <1>2 DEF Innermost
<1>4. \A U \in SUBSET T : U # T => \E f : IsSum(f, fun, U)
  BY <1>3
<1>5. \A U \in SUBSET T : IsFiniteSet(U)
  BY <1>3, FS_Subset
<1> DEFINE Of(U) == CHOOSE f : IsSum(f, fun, U)
           g == [U \in SUBSET T |-> IF U = {} THEN 0
                    ELSE fun[Some(U)] + Of(U \ {Some(U)})[U \ {Some(U)}]]
<1>6. \A U \in SUBSET T : U # T => IsSum(Of(U), fun, U)
  BY <1>4
<1> HIDE DEF Of
<1>7. ASSUME NEW U \in SUBSET T, U # T
      PROVE  g[U] = Of(U)[U]
  <2>1. Of(U)[U] = Added(Of(U), fun, U)
    BY <1>6, <1>7 DEF IsSum
  <2>2. CASE U = {}
    BY <2>1, <2>2 DEF Added
  <2>3. CASE U # {}
    <3> DEFINE V == U \ {Some(U)}
    <3>1. V \subseteq U /\ V \in SUBSET T /\ V # T /\ IsFiniteSet(V)
      BY <1>5, <1>7, <2>3, OneLess
    <3>2. IsSum(Of(V), fun, V) /\ IsSum(Of(U), fun, U)
      BY <1>6, <1>7, <3>1
    <3> HIDE DEF V
    <3>3. \A W \in SUBSET V : Of(V)[W] = Of(U)[W]
      BY <3>1, <3>2, SumUnique
    <3>4. Of(V)[V] = Of(U)[V]
      BY <3>3
    <3> QED
      BY <2>1, <2>3, <3>4 DEF Added, V
  <2> QED
    BY <2>2, <2>3
<1>8. ASSUME NEW U \in SUBSET T
      PROVE  g[U] = Added(g, fun, U)
  <2>1. CASE U = {}
    BY <2>1 DEF Added
  <2>2. CASE U # {}
    <3> DEFINE V == U \ {Some(U)}
    <3>1. V \in SUBSET T /\ V # T
      BY <1>5, <2>2, OneLess
    <3>2. g[V] = Of(V)[V]
      BY <1>7, <3>1
    <3>3. g[U] = fun[Some(U)] + Of(V)[V]
      BY <2>2
    <3>4. Added(g, fun, U) = fun[Some(U)] + g[V]
      BY <2>2 DEF Added
    <3> HIDE DEF g, V
    <3> QED
      BY <3>2, <3>3, <3>4
  <2> QED
    BY <2>1, <2>2
<1>9. g = [U \in SUBSET T |-> g[U]]
  OBVIOUS
<1> HIDE DEF g
<1>10. IsSum(g, fun, T)
  BY <1>8, <1>9 DEF IsSum
<1> QED
  BY <1>3, <1>10

\* The sum is what the recursion says of a set.
LEMMA SumStep ==
  ASSUME NEW S, IsFiniteSet(S), NEW fun
  PROVE  SumFunctionOnSet(fun, S) =
            IF S = {} THEN 0
            ELSE fun[Some(S)] + SumFunctionOnSet(fun, S \ {Some(S)})
<1> DEFINE f == CHOOSE h : IsSum(h, fun, S)
<1>1. IsSum(f, fun, S)
  BY SumExists
<1>2. SumFunctionOnSet(fun, S) = f[S]
  BY SumIsChosen
<1> HIDE DEF f
<1>3. f[S] = Added(f, fun, S)
  BY <1>1 DEF IsSum
<1>4. CASE S = {}
  BY <1>2, <1>3, <1>4 DEF Added
<1>5. CASE S # {}
  <2> DEFINE R == S \ {Some(S)}
             g == CHOOSE h : IsSum(h, fun, R)
  <2>1. IsFiniteSet(R) /\ R \subseteq S
    BY <1>5, OneLess
  <2> HIDE DEF R
  <2>2. IsSum(g, fun, R)
    BY <2>1, SumExists
  <2>3. SumFunctionOnSet(fun, R) = g[R]
    BY SumIsChosen
  <2> HIDE DEF g
  <2>4. \A T \in SUBSET R : g[T] = f[T]
    BY <1>1, <2>1, <2>2, SumUnique
  <2>5. g[R] = f[R]
    BY <2>4
  <2> QED
    BY <1>2, <1>3, <1>5, <2>3, <2>5 DEF Added, R
<1> QED
  BY <1>4, <1>5

\* A sum of natural numbers is one.
LEMMA SumIsNat ==
  ASSUME NEW S, IsFiniteSet(S), NEW fun, \A x \in S : fun[x] \in Nat
  PROVE  SumFunctionOnSet(fun, S) \in Nat
<1> DEFINE Sum(T) == SumFunctionOnSet(fun, T)
           B == {T \in SUBSET S : ~(Sum(T) \in Nat)}
<1> SUFFICES ASSUME B # {} PROVE FALSE
  OBVIOUS
<1>1. Family(B, S)
  BY DEF Family
<1>2. PICK T : Innermost(T, B)
  <2> HIDE DEF B
  <2> QED
    BY <1>1, InnermostExists
<1>3. T \in SUBSET S /\ ~(Sum(T) \in Nat) /\ \A U \in B : ~(U \subseteq T /\ U # T)
  BY <1>2 DEF Innermost
<1>4. IsFiniteSet(T)
  BY <1>3, FS_Subset
<1>5. Sum(T) = IF T = {} THEN 0 ELSE fun[Some(T)] + Sum(T \ {Some(T)})
  BY <1>4, SumStep
<1>6. CASE T # {}
  <2>1. T \ {Some(T)} # T /\ Some(T) \in T
    BY <1>4, <1>6, OneLess
  <2>2. Sum(T \ {Some(T)}) \in Nat
    BY <1>3, <2>1
  <2> HIDE DEF Sum
  <2> QED
    BY <1>3, <1>5, <1>6, <2>1, <2>2
<1> HIDE DEF Sum
<1> QED
  BY <1>3, <1>5, <1>6

\* It does not matter which summand is added last.
LEMMA SumWithout ==
  ASSUME NEW S, IsFiniteSet(S), NEW fun, \A x \in S : fun[x] \in Nat, NEW y \in S
  PROVE  SumFunctionOnSet(fun, S) = fun[y] + SumFunctionOnSet(fun, S \ {y})
<1> DEFINE Sum(T) == SumFunctionOnSet(fun, T)
           B == {T \in SUBSET S : ~\A z \in T : Sum(T) = fun[z] + Sum(T \ {z})}
<1> SUFFICES ASSUME B # {} PROVE FALSE
  OBVIOUS
<1>1. Family(B, S)
  BY DEF Family
<1>2. PICK T : Innermost(T, B)
  <2> HIDE DEF B
  <2> QED
    BY <1>1, InnermostExists
<1>3. /\ T \in SUBSET S /\ \A U \in B : ~(U \subseteq T /\ U # T)
      /\ ~\A z \in T : Sum(T) = fun[z] + Sum(T \ {z})
  BY <1>2 DEF Innermost
<1>4. PICK z \in T : Sum(T) # fun[z] + Sum(T \ {z})
  BY <1>3
<1> DEFINE x == Some(T)
<1>5. IsFiniteSet(T) /\ T # {} /\ x \in T /\ T \ {x} # T
  BY <1>3, <1>4, FS_Subset, OneLess
<1>6. Sum(T) = fun[x] + Sum(T \ {x})
  BY <1>5, SumStep
<1> HIDE DEF x
<1>7. x # z
  BY <1>4, <1>6
<1>8. \A U \in SUBSET T : U # T => \A v \in U : Sum(U) = fun[v] + Sum(U \ {v})
  BY <1>3
<1>9. \A U \in SUBSET T : Sum(U) \in Nat
  BY <1>3, FS_Subset, SumIsNat
<1> HIDE DEF Sum
<1>10. /\ Sum(T \ {x}) = fun[z] + Sum((T \ {x}) \ {z})
       /\ Sum(T \ {z}) = fun[x] + Sum((T \ {z}) \ {x})
  BY <1>4, <1>5, <1>7, <1>8
<1>11. (T \ {x}) \ {z} = (T \ {z}) \ {x}
  OBVIOUS
<1> DEFINE r == Sum((T \ {z}) \ {x})
<1>12. r \in Nat /\ fun[x] \in Nat /\ fun[z] \in Nat
  BY <1>3, <1>4, <1>5, <1>9
<1>13. Sum(T) = fun[x] + (fun[z] + r) /\ Sum(T \ {z}) = fun[x] + r
  BY <1>6, <1>10, <1>11
<1> HIDE DEF r
<1>14. Sum(T) = fun[z] + (fun[x] + r)
  BY <1>12, <1>13
<1> QED
  BY <1>4, <1>13, <1>14

LEMMA SumOfNothing == \A fun : SumFunctionOnSet(fun, {}) = 0
  BY SumStep, FS_EmptySet

\* Only the values on the set count.
LEMMA SumSame ==
  ASSUME NEW S, IsFiniteSet(S), NEW fun, NEW gun, \A x \in S : fun[x] = gun[x]
  PROVE  SumFunctionOnSet(fun, S) = SumFunctionOnSet(gun, S)
<1> DEFINE F(T) == SumFunctionOnSet(fun, T)
           G(T) == SumFunctionOnSet(gun, T)
           B == {T \in SUBSET S : F(T) # G(T)}
<1> SUFFICES ASSUME B # {} PROVE FALSE
  OBVIOUS
<1>1. Family(B, S)
  BY DEF Family
<1>2. PICK T : Innermost(T, B)
  <2> HIDE DEF B
  <2> QED
    BY <1>1, InnermostExists
<1>3. T \in SUBSET S /\ F(T) # G(T) /\ \A U \in B : ~(U \subseteq T /\ U # T)
  BY <1>2 DEF Innermost
<1>4. IsFiniteSet(T)
  BY <1>3, FS_Subset
<1>5. /\ F(T) = IF T = {} THEN 0 ELSE fun[Some(T)] + F(T \ {Some(T)})
      /\ G(T) = IF T = {} THEN 0 ELSE gun[Some(T)] + G(T \ {Some(T)})
  BY <1>4, SumStep
<1>6. CASE T = {}
  BY <1>3, <1>5, <1>6
<1>7. CASE T # {}
  <2>1. Some(T) \in T /\ T \ {Some(T)} # T
    BY <1>4, <1>7, OneLess
  <2>2. F(T \ {Some(T)}) = G(T \ {Some(T)})
    BY <1>3, <2>1
  <2>3. fun[Some(T)] = gun[Some(T)]
    BY <1>3, <2>1
  <2> HIDE DEF F, G
  <2> QED
    BY <1>3, <1>5, <1>7, <2>2, <2>3
<1> QED
  BY <1>6, <1>7

\* A summand is at most the sum.
LEMMA SummandBelow ==
  ASSUME NEW S, IsFiniteSet(S), NEW fun, \A x \in S : fun[x] \in Nat, NEW y \in S
  PROVE  fun[y] <= SumFunctionOnSet(fun, S)
<1>1. SumFunctionOnSet(fun, S) = fun[y] + SumFunctionOnSet(fun, S \ {y})
  BY SumWithout
<1>2. SumFunctionOnSet(fun, S \ {y}) \in Nat
  BY FS_Subset, SumIsNat
<1> QED
  BY <1>1, <1>2

\* The sum over two sets without a common member.
LEMMA SumOfUnion ==
  ASSUME NEW S, NEW R, IsFiniteSet(S), IsFiniteSet(R), S \cap R = {},
         NEW fun, \A x \in S \cup R : fun[x] \in Nat
  PROVE  SumFunctionOnSet(fun, S \cup R) = SumFunctionOnSet(fun, S) + SumFunctionOnSet(fun, R)
<1> DEFINE Sum(T) == SumFunctionOnSet(fun, T)
           B == {T \in SUBSET R : Sum(S \cup T) # Sum(S) + Sum(T)}
<1> SUFFICES ASSUME B # {} PROVE FALSE
  OBVIOUS
<1>1. Family(B, R)
  BY DEF Family
<1>2. PICK T : Innermost(T, B)
  <2> HIDE DEF B
  <2> QED
    BY <1>1, InnermostExists
<1>3. /\ T \in SUBSET R /\ Sum(S \cup T) # Sum(S) + Sum(T)
      /\ \A U \in B : ~(U \subseteq T /\ U # T)
  BY <1>2 DEF Innermost
<1>4. IsFiniteSet(T) /\ IsFiniteSet(S \cup T)
  BY <1>3, FS_Subset, FS_Union
<1>5. Sum(S) \in Nat
  BY SumIsNat
<1>6. CASE T = {}
  <2>1. Sum({}) = 0
    BY SumOfNothing
  <2>2. S \cup {} = S
    OBVIOUS
  <2>3. Sum(S \cup {}) = Sum(S)
    BY <2>2
  <2> HIDE DEF Sum
  <2> QED
    BY <1>3, <1>5, <1>6, <2>1, <2>3
<1>7. CASE T # {}
  <2> PICK y \in T : TRUE
    BY <1>7
  <2>1. y \in S \cup T /\ T \ {y} # T /\ (S \cup T) \ {y} = S \cup (T \ {y})
    BY <1>3
  <2>2. Sum(T) = fun[y] + Sum(T \ {y})
    BY <1>3, <1>4, SumWithout
  <2>3. Sum(S \cup T) = fun[y] + Sum((S \cup T) \ {y})
    BY <1>3, <1>4, <2>1, SumWithout
  <2>4. Sum(S \cup (T \ {y})) = Sum(S) + Sum(T \ {y})
    BY <1>3, <2>1
  <2>5. IsFiniteSet(T \ {y}) /\ \A x \in T \ {y} : fun[x] \in Nat
    BY <1>3, <1>4, FS_Subset
  <2>6. Sum(T \ {y}) \in Nat /\ fun[y] \in Nat
    BY <1>3, <2>5, SumIsNat
  <2> HIDE DEF Sum
  <2> QED
    BY <1>3, <1>5, <2>1, <2>2, <2>3, <2>4, <2>6
<1> QED
  BY <1>6, <1>7

\* A part of a sum is at most the sum.
LEMMA SumOfPart ==
  ASSUME NEW T, IsFiniteSet(T), NEW S, S \subseteq T, NEW fun, \A x \in T : fun[x] \in Nat
  PROVE  /\ SumFunctionOnSet(fun, S) \in Nat /\ SumFunctionOnSet(fun, T) \in Nat
         /\ SumFunctionOnSet(fun, S) <= SumFunctionOnSet(fun, T)
<1> DEFINE R == T \ S
<1>1. IsFiniteSet(S) /\ IsFiniteSet(R)
  BY FS_Subset
<1>2. S \cap R = {} /\ S \cup R = T /\ (\A x \in S : fun[x] \in Nat) /\ \A x \in R : fun[x] \in Nat
  OBVIOUS
<1> HIDE DEF R
<1>3. SumFunctionOnSet(fun, S) \in Nat /\ SumFunctionOnSet(fun, R) \in Nat
  BY <1>1, <1>2, SumIsNat
<1>4. SumFunctionOnSet(fun, S \cup R) = SumFunctionOnSet(fun, S) + SumFunctionOnSet(fun, R)
  BY <1>1, <1>2, SumOfUnion
<1>5. SumFunctionOnSet(fun, T) = SumFunctionOnSet(fun, S) + SumFunctionOnSet(fun, R)
  BY <1>2, <1>4
<1> QED
  BY <1>3, <1>5

\* The sums of disjoint parts add up to the sum over all of them.
LEMMA SumOfParts ==
  ASSUME NEW K, IsFiniteSet(K), NEW S, IsFiniteSet(S), NEW fun, \A x \in S : fun[x] \in Nat,
         NEW cut, \A k \in K : cut[k] \subseteq S,
         \A j, k \in K : j # k => cut[j] \cap cut[k] = {},
         NEW sums, \A k \in K : sums[k] = SumFunctionOnSet(fun, cut[k])
  PROVE  SumFunctionOnSet(sums, K) = SumFunctionOnSet(fun, UNION {cut[k] : k \in K})
<1> DEFINE Whole(T) == UNION {cut[k] : k \in T}
           B == {T \in SUBSET K : SumFunctionOnSet(sums, T) # SumFunctionOnSet(fun, Whole(T))}
<1> SUFFICES ASSUME B # {} PROVE FALSE
  OBVIOUS
<1>1. Family(B, K)
  BY DEF Family
<1>2. PICK T : Innermost(T, B)
  <2> HIDE DEF B
  <2> QED
    BY <1>1, InnermostExists
<1>3. /\ T \in SUBSET K /\ SumFunctionOnSet(sums, T) # SumFunctionOnSet(fun, Whole(T))
      /\ \A U \in B : ~(U \subseteq T /\ U # T)
  BY <1>2 DEF Innermost
<1>4. IsFiniteSet(T)
  BY <1>3, FS_Subset
<1>5. CASE T = {}
  <2>1. Whole(T) = {}
    BY <1>5
  <2> HIDE DEF Whole
  <2> QED
    BY <1>3, <1>5, <2>1, SumOfNothing
<1>6. CASE T # {}
  <2> DEFINE x == Some(T)
             U == T \ {x}
  <2>1. x \in T /\ U # T /\ U \subseteq T /\ x \in K
    BY <1>3, <1>4, <1>6, OneLess
  <2>2. SumFunctionOnSet(sums, T) = sums[x] + SumFunctionOnSet(sums, U)
    BY <1>4, <1>6, SumStep
  <2>3. SumFunctionOnSet(sums, U) = SumFunctionOnSet(fun, Whole(U))
    BY <1>3, <2>1
  <2> HIDE DEF x
  <2>4. Whole(T) = cut[x] \cup Whole(U)
    BY <2>1
  <2>5. cut[x] \cap Whole(U) = {}
    BY <1>3, <2>1
  <2>6. cut[x] \subseteq S /\ Whole(U) \subseteq S
    BY <1>3, <2>1
  <2> HIDE DEF U, Whole
  <2>7. IsFiniteSet(cut[x]) /\ IsFiniteSet(Whole(U))
    BY <2>6, FS_Subset
  <2>8. \A y \in cut[x] \cup Whole(U) : fun[y] \in Nat
    BY <2>6
  <2>9. SumFunctionOnSet(fun, cut[x] \cup Whole(U))
           = SumFunctionOnSet(fun, cut[x]) + SumFunctionOnSet(fun, Whole(U))
    BY <2>5, <2>7, <2>8, SumOfUnion
  <2>10. sums[x] = SumFunctionOnSet(fun, cut[x])
    BY <2>1
  <2> QED
    BY <1>3, <2>2, <2>3, <2>4, <2>9, <2>10
<1> QED
  BY <1>5, <1>6

\* To count is to add up ones.
LEMMA CountIsSum ==
  ASSUME NEW S, IsFiniteSet(S), NEW fun, \A x \in S : fun[x] = 1
  PROVE  Cardinality(S) = SumFunctionOnSet(fun, S)
<1> DEFINE B == {T \in SUBSET S : Cardinality(T) # SumFunctionOnSet(fun, T)}
<1> SUFFICES ASSUME B # {} PROVE FALSE
  OBVIOUS
<1>1. Family(B, S)
  BY DEF Family
<1>2. PICK T : Innermost(T, B)
  <2> HIDE DEF B
  <2> QED
    BY <1>1, InnermostExists
<1>3. /\ T \in SUBSET S /\ Cardinality(T) # SumFunctionOnSet(fun, T)
      /\ \A U \in B : ~(U \subseteq T /\ U # T)
  BY <1>2 DEF Innermost
<1>4. IsFiniteSet(T)
  BY <1>3, FS_Subset
<1>5. CASE T = {}
  BY <1>3, <1>5, SumOfNothing, FS_EmptySet
<1>6. CASE T # {}
  <2> DEFINE x == Some(T)
             U == T \ {x}
  <2>1. x \in T /\ U # T /\ U \subseteq T
    BY <1>4, <1>6, OneLess
  <2>2. SumFunctionOnSet(fun, T) = fun[x] + SumFunctionOnSet(fun, U)
    BY <1>4, <1>6, SumStep
  <2>3. Cardinality(U) = SumFunctionOnSet(fun, U)
    BY <1>3, <2>1
  <2>4. fun[x] = 1
    BY <1>3, <2>1
  <2> HIDE DEF x
  <2>5. Cardinality(U) = Cardinality(T) - 1 /\ Cardinality(T) \in Nat
    BY <1>4, <2>1, FS_RemoveElement, FS_CardinalityType
  <2> HIDE DEF U
  <2> QED
    BY <1>3, <2>2, <2>3, <2>4, <2>5
<1> QED
  BY <1>5, <1>6

===========================================================================
