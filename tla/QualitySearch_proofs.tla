-------------------------- MODULE QualitySearch_proofs --------------------------
(***************************************************************************)
(* TLAPS proofs about QualitySearch, for every range, granularity, step    *)
(* limit, start, set of targets and course of measurements: its types,     *)
(* that it never proposes an attempted quality, that its best point is the *)
(* optimum of what it recorded and the attempt the encoder promotes, and,  *)
(* on falling curves, that it ends at the frontier.                        *)
(***************************************************************************)
EXTENDS QualitySearch, FiniteSetTheorems, WellFoundedInduction, TLAPS

USE DEF Abs, Dist

Fractions == [num : Int, den : Nat \ {0}]
Ends      == [q : Qualities, sentinel : BOOLEAN]
Curves    == [Qualities -> Metrics \cup {Untested}]

\* What record() may return after the attempts T.
Proposable(T) == {q \in Qualities : T[q] = Untested} \cup {None}
--------------------------------------------------------------------------------
(* Arithmetic of the post-processing pipeline.                             *)

\* The range of the codec is an interval of integers that holds both its ends.
LEMMA QualitiesType ==
    /\ Qualities \subseteq Int
    /\ Better \in Qualities /\ Worse \in Qualities /\ Default \in Qualities
    /\ None \notin Qualities
BY RangeAssumption, DataAssumption DEF Qualities

\* A fraction normalised by the sign of its denominator is a fraction.
LEMMA FracType ==
    ASSUME NEW n \in Int, NEW d \in Int, d # 0
    PROVE  Frac(n, d) \in Fractions
BY DEF Frac, Fractions

\* Rounding half to even gives an integer.
LEMMA RoundType ==
    ASSUME NEW n \in Int, NEW d \in Nat \ {0}
    PROVE  RoundHalfEven(n, d) \in Int
<1>1. n \div d \in Int
  OBVIOUS
<1>2. QED
  BY <1>1 DEF RoundHalfEven

\* The step clamp keeps a raw candidate a fraction.
LEMMA StepClampType ==
    ASSUME NEW raw \in Fractions, NEW from \in Int
    PROVE  StepClamp(raw, from) \in Fractions
<1>1. Frac(from + MaxStep, 1) \in Fractions /\ Frac(from - MaxStep, 1) \in Fractions
  BY FracType, RangeAssumption
<1>2. QED
  BY <1>1 DEF StepClamp

\* Snapping to the granularity gives an integer.
LEMMA SnapType ==
    ASSUME NEW raw \in Fractions
    PROVE  Snap(raw) \in Int
<1>1. raw.den * Granularity \in Nat \ {0}
  BY RangeAssumption DEF Fractions
<1>2. RoundHalfEven(raw.num, raw.den * Granularity) \in Int
  BY <1>1, RoundType DEF Fractions
<1>3. QED
  BY <1>2, RangeAssumption DEF Snap

\* The clamp stays within its two ends, and strictly between attempted ones.
LEMMA ClampRange ==
    ASSUME NEW q \in Int, NEW worse \in Ends, NEW better \in Ends
    PROVE  LET c == ClampToRange(q, worse, better) IN
           /\ c \in Qualities \cup {None}
           /\ c # None /\ ~worse.sentinel /\ ~better.sentinel =>
                \/ better.q < c /\ c < worse.q
                \/ worse.q < c /\ c < better.q
<1> DEFINE lower == IF better.q <= worse.q THEN better.q ELSE worse.q
           upper == IF better.q <= worse.q THEN worse.q ELSE better.q
           Open(e) == \E p \in {worse, better} : p.sentinel /\ p.q = e
           lo == IF Open(lower) THEN lower ELSE lower + Granularity
           hi == IF Open(upper) THEN upper ELSE upper - Granularity
           capped == IF hi <= q THEN hi ELSE q
           c == IF lo > hi THEN None ELSE IF lo >= capped THEN lo ELSE capped
<1>1. /\ worse.q \in Int /\ better.q \in Int
      /\ worse.q \in Qualities /\ better.q \in Qualities
  BY QualitiesType DEF Ends
<1>2. \A x \in Int : lower <= x /\ x <= upper => x \in Qualities
  BY <1>1, RangeAssumption DEF Qualities
<1>3. lo \in Int /\ hi \in Int /\ lower <= lo /\ hi <= upper
  BY <1>1, RangeAssumption
<1>4. c # None => c \in Int /\ lo <= c /\ c <= hi
  BY <1>3
<1>5. c \in Qualities \cup {None}
  <2> HIDE DEF lower, upper, lo, hi, c
  <2> lower \in Int /\ upper \in Int
    BY <1>1 DEF lower, upper
  <2> QED
    BY <1>2, <1>3, <1>4
<1>6. ASSUME c # None, ~worse.sentinel, ~better.sentinel
      PROVE  \/ better.q < c /\ c < worse.q
             \/ worse.q < c /\ c < better.q
  <2>1. lo = lower + Granularity /\ hi = upper - Granularity
    BY <1>6
  <2>2. lower < c /\ c < upper
    <3> HIDE DEF lower, upper, lo, hi, c
    <3> lower \in Int /\ upper \in Int
      BY <1>1 DEF lower, upper
    <3> QED
      BY <1>3, <1>4, <1>6, <2>1, RangeAssumption
  <2>3. QED
    <3> HIDE DEF c
    <3> QED
      BY <1>1, <2>2
<1>7. ClampToRange(q, worse, better) = c
  BY DEF ClampToRange
<1>8. QED
  BY <1>5, <1>6, <1>7
--------------------------------------------------------------------------------
(* Sums over finite sets, as the folds of the community modules build them.*)

\* A family of subsets in which every member has a smaller member is empty.
LEMMA NoneBad ==
    ASSUME NEW S, IsFiniteSet(S), NEW B \in SUBSET (SUBSET S),
           \A s \in B : \E r \in B : r \subseteq s /\ r # s
    PROVE  B = {}
<1> SUFFICES ASSUME B # {} PROVE FALSE
  OBVIOUS
<1> DEFINE R == StrictSubsetOrdering(S)
<1>1. IsWellFoundedOn(R, FiniteSubsetsOf(S)) /\ B \subseteq FiniteSubsetsOf(S)
  BY FS_StrictSubsetOrderingWellFounded, FS_FiniteSubsetsOfFinite
<1>2. PICK s \in B : \A r \in B : <<r, s>> \notin R
  <2> HIDE DEF R
  <2> QED  BY <1>1, WFMin
<1>3. PICK r \in B : r \subseteq s /\ r # s
  OBVIOUS
<1>4. <<r, s>> \in R
  BY <1>3 DEF StrictSubsetOrdering
<1> QED  BY <1>2, <1>3, <1>4

\* The function that sums w over the subsets of S, taking out a chosen member each time.
Pick(s) == CHOOSE x \in s : TRUE
Sums(g, w, S) == g = [s \in SUBSET S |-> IF s = {} THEN 0 ELSE w[Pick(s)] + g[s \ {Pick(s)}]]
Adds(g, w, s) == Pick(s) \in s /\ g[s] = w[Pick(s)] + g[s \ {Pick(s)}]

\* Such a function is zero on the empty set and adds one member elsewhere.
LEMMA SumStep ==
    ASSUME NEW S, NEW w, NEW g, Sums(g, w, S), NEW s, s \subseteq S
    PROVE  /\ g[{}] = 0
           /\ s # {} => Adds(g, w, s)
<1>1. s # {} => Pick(s) \in s
  BY DEF Pick
<1>2. g[s] = IF s = {} THEN 0 ELSE w[Pick(s)] + g[s \ {Pick(s)}]
  BY DEF Sums
<1>3. g[{}] = 0
  BY DEF Sums
<1> QED  BY <1>1, <1>2, <1>3 DEF Adds

\* Two such functions agree wherever both are defined.
LEMMA SumUnique ==
    ASSUME NEW S, NEW U, NEW w, NEW g, NEW h, Sums(g, w, S), Sums(h, w, U),
           NEW s, s \subseteq S, s \subseteq U, IsFiniteSet(s)
    PROVE  g[s] = h[s]
<1> DEFINE B == {r \in SUBSET s : g[r] # h[r]}
<1>1. ASSUME NEW r \in B PROVE \E q \in B : q \subseteq r /\ q # r
  <2>1. r \subseteq S /\ r \subseteq U /\ g[r] # h[r]
    OBVIOUS
  <2>2. g[{}] = 0 /\ h[{}] = 0
    BY SumStep
  <2>3. r # {}
    BY <2>1, <2>2
  <2>4. Adds(g, w, r) /\ Adds(h, w, r)
    BY <2>1, <2>3, SumStep
  <2> QED  BY <2>1, <2>4 DEF Adds
<1>2. B = {}
  <2> HIDE DEF B
  <2>1. B \in SUBSET (SUBSET s)
    BY DEF B
  <2> QED  BY <1>1, <2>1, NoneBad
<1> QED  BY <1>2

\* There is one.
LEMMA SumExists ==
    ASSUME NEW S, IsFiniteSet(S), NEW w
    PROVE  \E g : Sums(g, w, S)
<1> DEFINE B == {T \in SUBSET S : ~\E g : Sums(g, w, T)}
           G(r) == CHOOSE g : Sums(g, w, r)
<1>1. ASSUME NEW T \in B PROVE \E r \in B : r \subseteq T /\ r # T
  <2> SUFFICES ASSUME \A r \in SUBSET T : r # T => \E g : Sums(g, w, r) PROVE FALSE
    OBVIOUS
  <2>1. \A r \in SUBSET T : r # T => Sums(G(r), w, r)
    OBVIOUS
  <2> DEFINE h == [s \in SUBSET T |-> IF s = {} THEN 0 ELSE w[Pick(s)] + G(s \ {Pick(s)})[s \ {Pick(s)}]]
  <2>2. ASSUME NEW r \in SUBSET T, r # T PROVE h[r] = G(r)[r]
    <3> HIDE DEF G
    <3>1. Sums(G(r), w, r)
      BY <2>1, <2>2
    <3>2. CASE r = {}
      <4>1. G(r)[{}] = 0
        BY <3>1, SumStep
      <4> QED  BY <3>2, <4>1
    <3>3. CASE r # {}
      <4> DEFINE q == r \ {Pick(r)}
      <4>1. Pick(r) \in r /\ q \in SUBSET r /\ q # T /\ G(r)[r] = w[Pick(r)] + G(r)[q]
        <5>1. Adds(G(r), w, r)
          BY <3>1, <3>3, SumStep
        <5> QED  BY <2>2, <5>1 DEF Adds
      <4>2. Sums(G(q), w, q) /\ IsFiniteSet(q)
        BY <2>1, <4>1, FS_Subset
      <4>3. G(r)[q] = G(q)[q]
        <5> HIDE DEF q
        <5> QED  BY <3>1, <4>1, <4>2, SumUnique
      <4>4. h[r] = w[Pick(r)] + G(q)[q]
        BY <3>3
      <4> QED  BY <4>1, <4>3, <4>4
    <3> QED  BY <3>2, <3>3
  <2>3. \A s \in SUBSET T : s # {} => s \ {Pick(s)} \in SUBSET T /\ s \ {Pick(s)} # T
    BY DEF Pick
  <2>4. \A s \in SUBSET T : s # {} => h[s] = w[Pick(s)] + h[s \ {Pick(s)}]
    <3>1. \A s \in SUBSET T : s # {} => h[s] = w[Pick(s)] + G(s \ {Pick(s)})[s \ {Pick(s)}]
      OBVIOUS
    <3> HIDE DEF h, G
    <3> QED  BY <2>2, <2>3, <3>1
  <2>5. Sums(h, w, T)
    <3>1. h = [s \in SUBSET T |-> h[s]] /\ \A s \in SUBSET T : s = {} => h[s] = 0
      OBVIOUS
    <3> HIDE DEF h
    <3> QED  BY <2>4, <3>1 DEF Sums
  <2> QED  BY <2>5
<1>2. B = {}
  <2> HIDE DEF B
  <2>1. B \in SUBSET (SUBSET S)
    BY DEF B
  <2> QED  BY <1>1, <2>1, NoneBad
<1> QED  BY <1>2

\* A sum of integers is an integer.
LEMMA SumType ==
    ASSUME NEW S, IsFiniteSet(S), NEW w, \A t \in S : w[t] \in Int, NEW g, Sums(g, w, S)
    PROVE  \A s \in SUBSET S : g[s] \in Int
<1> DEFINE B == {s \in SUBSET S : g[s] \notin Int}
<1>1. ASSUME NEW s \in B PROVE \E r \in B : r \subseteq s /\ r # s
  <2>1. s \subseteq S /\ g[s] \notin Int /\ g[{}] = 0
    BY SumStep
  <2>2. Adds(g, w, s)
    BY <2>1, SumStep
  <2>3. Pick(s) \in s /\ w[Pick(s)] \in Int /\ g[s] = w[Pick(s)] + g[s \ {Pick(s)}]
    BY <2>1, <2>2 DEF Adds
  <2>4. g[s \ {Pick(s)}] \notin Int
    BY <2>1, <2>3
  <2> QED  BY <2>1, <2>3, <2>4
<1>2. B = {}
  <2> HIDE DEF B
  <2>1. B \in SUBSET (SUBSET S)
    BY DEF B
  <2> QED  BY <1>1, <2>1, NoneBad
<1> QED  BY <1>2

\* Any member may be taken out: the order does not matter.
LEMMA SumTakes ==
    ASSUME NEW S, IsFiniteSet(S), NEW w, \A t \in S : w[t] \in Int, NEW g, Sums(g, w, S)
    PROVE  \A s \in SUBSET S : \A x \in s : g[s] = w[x] + g[s \ {x}]
<1> DEFINE B == {s \in SUBSET S : \E x \in s : g[s] # w[x] + g[s \ {x}]}
<1>1. ASSUME NEW s \in B PROVE \E r \in B : r \subseteq s /\ r # s
  <2> SUFFICES ASSUME \A r \in SUBSET s : r # s => r \notin B PROVE FALSE
    OBVIOUS
  <2>1. PICK x \in s : g[s] # w[x] + g[s \ {x}]
    OBVIOUS
  <2> DEFINE y == Pick(s)
             rest == (s \ {y}) \ {x}
  <2>0. Adds(g, w, s)
    BY <2>1, SumStep
  <2>2. y \in s /\ g[s] = w[y] + g[s \ {y}]
    BY <2>0 DEF Adds
  <2> HIDE DEF y
  <2>3. x # y
    BY <2>1, <2>2
  <2>4. s \ {y} \notin B /\ s \ {x} \notin B
    BY <2>2
  <2>5. g[s \ {y}] = w[x] + g[rest]
    BY <2>2, <2>3, <2>4
  <2>6. g[s \ {x}] = w[y] + g[rest]
    <3>1. (s \ {x}) \ {y} = rest
      OBVIOUS
    <3> QED  BY <2>2, <2>3, <2>4, <3>1
  <2>7. g[rest] \in Int /\ w[x] \in Int /\ w[y] \in Int
    BY <2>2, SumType
  <2> QED  BY <2>1, <2>2, <2>5, <2>6, <2>7
<1>2. B = {}
  <2> HIDE DEF B
  <2>1. B \in SUBSET (SUBSET S)
    BY DEF B
  <2> QED  BY <1>1, <2>1, NoneBad
<1> QED  BY <1>2

\* A non-empty sum with smaller summands is smaller.
LEMMA SumSmaller ==
    ASSUME NEW S, IsFiniteSet(S), NEW v, NEW w,
           \A t \in S : v[t] \in Int, \A t \in S : w[t] \in Int,
           NEW g, NEW h, Sums(g, v, S), Sums(h, w, S),
           NEW s \in SUBSET S, s # {}, \A t \in s : v[t] < w[t]
    PROVE  g[s] < h[s]
<1> DEFINE B == {r \in SUBSET s : r # {} /\ ~(g[r] < h[r])}
<1>1. ASSUME NEW r \in B PROVE \E q \in B : q \subseteq r /\ q # r
  <2> DEFINE x == Pick(r)
             q == r \ {x}
  <2>1. r \subseteq S /\ q \in SUBSET S /\ r # {} /\ g[{}] = 0 /\ h[{}] = 0
    BY SumStep
  <2>2. Adds(g, v, r) /\ Adds(h, w, r)
    BY <2>1, SumStep
  <2>3. x \in r /\ v[x] < w[x] /\ g[r] = v[x] + g[q] /\ h[r] = w[x] + h[q]
    BY <2>2 DEF Adds
  <2>4. g[q] \in Int
    BY <2>1, SumType
  <2>5. h[q] \in Int
    BY <2>1, SumType
  <2> HIDE DEF x
  <2>6. v[x] \in Int /\ w[x] \in Int
    BY <2>1, <2>3
  <2>7. ~(g[q] < h[q]) /\ q # {}
    BY <2>1, <2>3, <2>4, <2>5, <2>6
  <2> QED  BY <2>3, <2>7
<1>2. B = {}
  <2> HIDE DEF B
  <2>1. B \in SUBSET (SUBSET s) /\ IsFiniteSet(s)
    BY FS_Subset DEF B
  <2> QED  BY <1>1, <2>1, NoneBad
<1>3. s \in SUBSET s
  OBVIOUS
<1> QED  BY <1>2, <1>3

\* More summands that are not above zero never make a sum larger.
LEMMA SumMore ==
    ASSUME NEW S, IsFiniteSet(S), NEW w, \A t \in S : w[t] \in Int, NEW g, Sums(g, w, S),
           NEW s \in SUBSET S, NEW u \in SUBSET s, \A t \in s \ u : w[t] <= 0
    PROVE  g[s] <= g[u]
<1> DEFINE B == {r \in SUBSET s : u \subseteq r /\ ~(g[r] <= g[u])}
<1>1. ASSUME NEW r \in B PROVE \E q \in B : q \subseteq r /\ q # r
  <2>1. g[u] \in Int /\ g[r] \in Int
    BY SumType
  <2>2. PICK x \in r \ u : TRUE
    BY <2>1
  <2>3. g[r] = w[x] + g[r \ {x}] /\ g[r \ {x}] \in Int
    BY SumTakes, SumType
  <2>4. ~(g[r \ {x}] <= g[u])
    BY <2>1, <2>3
  <2> QED  BY <2>4
<1>2. B = {}
  <2> HIDE DEF B
  <2>1. B \in SUBSET (SUBSET s) /\ IsFiniteSet(s)
    BY FS_Subset DEF B
  <2> QED  BY <1>1, <2>1, NoneBad
<1> QED  BY <1>2

\* A sum has the sign of its summands.
LEMMA SumSign ==
    ASSUME NEW S, IsFiniteSet(S), NEW w, \A t \in S : w[t] \in Int, NEW g, Sums(g, w, S), NEW s \in SUBSET S
    PROVE  /\ (\A t \in s : w[t] >= 0) => g[s] >= 0
           /\ (\A t \in s : w[t] < 0) /\ s # {} => g[s] < 0
<1>1. ASSUME \A t \in s : w[t] >= 0 PROVE g[s] >= 0
  <2> DEFINE B == {r \in SUBSET s : ~(g[r] >= 0)}
  <2>1. ASSUME NEW r \in B PROVE \E q \in B : q \subseteq r /\ q # r
    <3>1. r \subseteq S /\ g[{}] = 0 /\ ~(g[r] >= 0)
      BY SumStep
    <3>2. Adds(g, w, r)
      BY <3>1, SumStep
    <3>3. Pick(r) \in r /\ g[r] = w[Pick(r)] + g[r \ {Pick(r)}]
      BY <3>2 DEF Adds
    <3>4. r \ {Pick(r)} \in SUBSET S
      BY <3>1
    <3>5. g[r \ {Pick(r)}] \in Int
      BY <3>4, SumType
    <3>6. w[Pick(r)] \in Int /\ w[Pick(r)] >= 0
      BY <1>1, <3>1, <3>3
    <3>7. ~(g[r \ {Pick(r)}] >= 0)
      BY <3>1, <3>3, <3>5, <3>6
    <3> QED  BY <3>3, <3>7
  <2>2. B = {}
    <3> HIDE DEF B
    <3>1. B \in SUBSET (SUBSET s) /\ IsFiniteSet(s)
      BY FS_Subset DEF B
    <3> QED  BY <2>1, <3>1, NoneBad
  <2> QED  BY <2>2
<1>2. ASSUME \A t \in s : w[t] < 0, s # {} PROVE g[s] < 0
  <2>1. PICK x \in s : TRUE
    BY <1>2
  <2> DEFINE q == s \ {x}
  <2>2. q \in SUBSET S /\ {} \in SUBSET q /\ {} \in SUBSET S /\ x \in S
    OBVIOUS
  <2>3. \A t \in q \ {} : w[t] <= 0
    BY <1>2
  <2>4. g[s] = w[x] + g[q]
    BY SumTakes
  <2> HIDE DEF q
  <2>5. g[q] \in Int /\ w[x] \in Int /\ w[x] < 0
    BY <1>2, <2>2, SumType
  <2>6. g[q] <= g[{}]
    BY <2>2, <2>3, SumMore
  <2>7. g[{}] = 0
    BY SumStep
  <2> QED  BY <2>4, <2>5, <2>6, <2>7
<1> QED  BY <1>1, <1>2

\* The fold of the products of two functions over a set is the sum.
Fold(W, m, S) == MapThenSumSet(LAMBDA t : W[t] * m[t], S)

LEMMA FoldIsSum ==
    ASSUME NEW S, IsFiniteSet(S), NEW W, NEW m, NEW w, \A t \in S : w[t] = W[t] * m[t]
    PROVE  \E g : Sums(g, w, S) /\ Fold(W, m, S) = g[S]
<1> DEFINE It(g) == g = [s \in SUBSET S |-> IF s = {} THEN 0
             ELSE W[CHOOSE x \in s : TRUE] * m[CHOOSE x \in s : TRUE] + g[s \ {CHOOSE x \in s : TRUE}]]
<1>1. Fold(W, m, S) = (CHOOSE g : It(g))[S]
  BY DEF Fold, MapThenSumSet, MapThenFoldSet
<1>2. \A g : It(g) <=> Sums(g, w, S)
  <2>1. \A s \in SUBSET S : s # {} =>
           W[CHOOSE x \in s : TRUE] * m[CHOOSE x \in s : TRUE] = w[Pick(s)] /\ Pick(s) = CHOOSE x \in s : TRUE
    BY DEF Pick
  <2> TAKE g
  <2> DEFINE L(s) == IF s = {} THEN 0
             ELSE W[CHOOSE x \in s : TRUE] * m[CHOOSE x \in s : TRUE] + g[s \ {CHOOSE x \in s : TRUE}]
             R(s) == IF s = {} THEN 0 ELSE w[Pick(s)] + g[s \ {Pick(s)}]
  <2>2. ASSUME NEW s \in SUBSET S PROVE L(s) = R(s)
    <3>1. CASE s = {}
      BY <3>1
    <3>2. CASE s # {}
      <4>1. W[CHOOSE x \in s : TRUE] * m[CHOOSE x \in s : TRUE] = w[Pick(s)] /\ Pick(s) = CHOOSE x \in s : TRUE
        BY <2>1, <3>2
      <4>2. L(s) = W[CHOOSE x \in s : TRUE] * m[CHOOSE x \in s : TRUE] + g[s \ {CHOOSE x \in s : TRUE}]
        BY <3>2
      <4>3. R(s) = w[Pick(s)] + g[s \ {Pick(s)}]
        BY <3>2
      <4> QED  BY <4>1, <4>2, <4>3
    <3> QED  BY <3>1, <3>2
  <2>3. (It(g) <=> g = [s \in SUBSET S |-> L(s)]) /\ (Sums(g, w, S) <=> g = [s \in SUBSET S |-> R(s)])
    BY DEF Sums
  <2> HIDE DEF L, R, It
  <2>4. [s \in SUBSET S |-> L(s)] = [s \in SUBSET S |-> R(s)]
    BY <2>2
  <2> QED  BY <2>3, <2>4
<1> HIDE DEF It
<1>3. \E g : It(g)
  BY <1>2, SumExists
<1> QED  BY <1>1, <1>2, <1>3
--------------------------------------------------------------------------------
(* The score of a measurement.                                             *)

\* The weighted deficits of a measurement, and the function that sums them.
Weighted(m) == [t \in Targets |-> Weight[t] * m[t]]
Total(m)    == CHOOSE g : Sums(g, Weighted(m), Targets)
Missed(m)   == {t \in Targets : m[t] < 0}

\* The weighted deficits are integers of the sign of the deficits.
LEMMA WeightedType ==
    ASSUME NEW m \in Metrics
    PROVE  /\ \A t \in Targets : Weighted(m)[t] \in Int
           /\ \A t \in Targets : m[t] < 0 => Weighted(m)[t] < 0
           /\ \A t \in Targets : m[t] >= 0 => Weighted(m)[t] >= 0
<1> SUFFICES ASSUME NEW t \in Targets
             PROVE  /\ Weighted(m)[t] \in Int
                    /\ m[t] < 0 => Weighted(m)[t] < 0
                    /\ m[t] >= 0 => Weighted(m)[t] >= 0
  OBVIOUS
<1>1. m[t] \in Int /\ Weight[t] \in Nat \ {0}
  BY DataAssumption DEF Metrics
<1>2. \A a \in Nat \ {0}, d \in Int : a * d \in Int /\ (d < 0 => a * d < 0) /\ (d >= 0 => a * d >= 0)
  OBVIOUS
<1>3. Weighted(m)[t] = Weight[t] * m[t]
  BY DEF Weighted
<1> QED  BY <1>1, <1>2, <1>3

\* There is a total of the weighted deficits, for every set of targets.
LEMMA TotalSums ==
    ASSUME NEW m \in Metrics
    PROVE  /\ Sums(Total(m), Weighted(m), Targets)
           /\ \A S \in SUBSET Targets :
                /\ Total(m)[S] \in Int
                /\ Fold(Weight, m, S) = Total(m)[S]
<1>1. Sums(Total(m), Weighted(m), Targets)
  BY SumExists, DataAssumption DEF Total
<1>2. ASSUME NEW S \in SUBSET Targets
      PROVE  Fold(Weight, m, S) = Total(m)[S]
  <2>1. IsFiniteSet(S)
    BY FS_Subset, DataAssumption
  <2>2. \A t \in S : Weighted(m)[t] = Weight[t] * m[t]
    BY DEF Weighted
  <2>3. PICK g : Sums(g, Weighted(m), S) /\ Fold(Weight, m, S) = g[S]
    BY <2>1, <2>2, FoldIsSum
  <2>4. S \subseteq S
    OBVIOUS
  <2>5. g[S] = Total(m)[S]
    <3> DEFINE w == Weighted(m)
               h == Total(m)
    <3>1. Sums(g, w, S) /\ Sums(h, w, Targets) /\ S \subseteq Targets
      BY <1>1, <2>3
    <3> HIDE DEF w, h
    <3>2. g[S] = h[S]
      BY <2>1, <2>4, <3>1, SumUnique
    <3> QED  BY <3>2 DEF h
  <2> QED  BY <2>3, <2>5
<1>3. \A S \in SUBSET Targets : Total(m)[S] \in Int
  BY <1>1, WeightedType, SumType, DataAssumption
<1> QED  BY <1>1, <1>2, <1>3

\* The score in terms of the totals.
LEMMA ScoreIs ==
    ASSUME NEW m \in Metrics
    PROVE  Score(m) = IF Missed(m) # {} THEN Total(m)[Missed(m)]
                      ELSE IF m[WorstTarget(m)] <= Delta[WorstTarget(m)] THEN 0
                      ELSE Total(m)[Targets]
<1>1. Missed(m) \in SUBSET Targets /\ Targets \in SUBSET Targets
  BY DEF Missed
<1>2. Fold(Weight, m, Missed(m)) = Total(m)[Missed(m)]
  BY <1>1, TotalSums
<1>3. Fold(Weight, m, Targets) = Total(m)[Targets]
  BY <1>1, TotalSums
<1>4. Score(m) = IF Missed(m) # {} THEN Fold(Weight, m, Missed(m))
                 ELSE IF m[WorstTarget(m)] <= Delta[WorstTarget(m)] THEN 0
                 ELSE Fold(Weight, m, Targets)
  BY DEF Score, Missed, Fold
<1> QED  BY <1>2, <1>3, <1>4

\* A score is an integer, and it is a pass exactly when every target is met.
LEMMA ScoreSign ==
    ASSUME NEW m \in Metrics
    PROVE  /\ Score(m) \in Int
           /\ Score(m) >= 0 <=> \A t \in Targets : m[t] >= 0
           /\ Missed(m) = {} <=> \A t \in Targets : m[t] >= 0
<1>1. \A t \in Targets : m[t] \in Int
  BY DataAssumption DEF Metrics
<1>2. Missed(m) \in SUBSET Targets /\ Targets \in SUBSET Targets /\ \A t \in Missed(m) : m[t] < 0
  BY DEF Missed
<1>3. Missed(m) = {} <=> \A t \in Targets : m[t] >= 0
  BY <1>1 DEF Missed
<1>4. Total(m)[Missed(m)] \in Int /\ Total(m)[Targets] \in Int
  BY <1>2, TotalSums
<1>5. Missed(m) # {} => Total(m)[Missed(m)] < 0
  <2>1. \A t \in Missed(m) : Weighted(m)[t] < 0
    BY <1>2, WeightedType
  <2>2. \A t \in Targets : Weighted(m)[t] \in Int
    BY WeightedType
  <2>3. Sums(Total(m), Weighted(m), Targets)
    BY TotalSums
  <2> QED  BY <1>2, <2>1, <2>2, <2>3, SumSign, DataAssumption
<1>6. ASSUME Missed(m) = {} PROVE Total(m)[Targets] >= 0
  <2> DEFINE w == Weighted(m)
             g == Total(m)
  <2>1. \A t \in Targets : w[t] >= 0
    BY <1>3, <1>6, WeightedType
  <2>2. \A t \in Targets : w[t] \in Int
    BY WeightedType
  <2>3. Sums(g, w, Targets)
    BY TotalSums
  <2>4. Targets \in SUBSET Targets
    OBVIOUS
  <2>5. IsFiniteSet(Targets)
    BY DataAssumption
  <2> HIDE DEF w, g
  <2>6. g[Targets] >= 0
    BY <2>1, <2>2, <2>3, <2>4, <2>5, SumSign
  <2> QED  BY <2>6 DEF g
<1> QED  BY <1>3, <1>4, <1>5, <1>6, ScoreIs

\* Everywhere smaller deficits make a smaller score: below zero always, above zero
\* unless the smaller one is accepted at once.
LEMMA ScoreFalls ==
    ASSUME NEW m \in Metrics, NEW n \in Metrics, \A t \in Targets : m[t] < n[t]
    PROVE  /\ Score(m) >= 0 => Score(n) >= 0
           /\ Score(n) < 0 => Score(m) < Score(n)
           /\ Score(m) >= 0 /\ Score(n) # 0 => Score(m) < Score(n)
<1>1. \A t \in Targets : m[t] \in Int /\ n[t] \in Int /\ Weight[t] \in Nat \ {0}
  BY DataAssumption DEF Metrics
<1>2. \A t \in Targets : Weighted(m)[t] < Weighted(n)[t]
  <2> SUFFICES ASSUME NEW t \in Targets PROVE Weighted(m)[t] < Weighted(n)[t]
    OBVIOUS
  <2>1. \A a \in Nat \ {0}, c, d \in Int : c < d => a * c < a * d
    <3> SUFFICES ASSUME NEW a \in Nat \ {0}, NEW c \in Int, NEW d \in Int, c < d PROVE a * c < a * d
      OBVIOUS
    <3>1. a * (d - c) > 0
      OBVIOUS
    <3> QED  BY <3>1
  <2> QED  BY <1>1, <2>1 DEF Weighted
<1>3. Missed(n) \subseteq Missed(m) /\ Missed(m) \subseteq Targets
  BY <1>1 DEF Missed
<1>4. /\ Score(m) \in Int /\ Score(n) \in Int
      /\ Score(m) >= 0 <=> Missed(m) = {}
      /\ Score(n) >= 0 <=> Missed(n) = {}
  BY ScoreSign
<1>5. \A t \in Targets : Weighted(m)[t] \in Int /\ Weighted(n)[t] \in Int
  BY WeightedType
<1>6. Sums(Total(m), Weighted(m), Targets) /\ Sums(Total(n), Weighted(n), Targets)
  BY TotalSums
<1>7. ASSUME NEW s \in SUBSET Targets, s # {} PROVE Total(m)[s] < Total(n)[s]
  BY <1>2, <1>5, <1>6, <1>7, SumSmaller, DataAssumption
<1>8. ASSUME Score(n) < 0 PROVE Score(m) < Score(n)
  <2>1. Missed(n) # {} /\ Missed(m) # {}
    BY <1>3, <1>4, <1>8
  <2>2. \A t \in Missed(m) \ Missed(n) : Weighted(m)[t] <= 0
    <3>1. \A t \in Missed(m) : Weighted(m)[t] < 0
      BY WeightedType DEF Missed
    <3> QED  BY <1>3, <1>5, <3>1
  <2>3. Total(m)[Missed(m)] <= Total(m)[Missed(n)]
    <3>1. Missed(m) \in SUBSET Targets /\ Missed(n) \in SUBSET Missed(m)
      BY <1>3
    <3> QED  BY <1>5, <1>6, <2>2, <3>1, SumMore, DataAssumption
  <2>4. Total(m)[Missed(n)] < Total(n)[Missed(n)]
    BY <1>3, <1>7, <2>1
  <2>5. /\ Total(m)[Missed(m)] \in Int /\ Total(m)[Missed(n)] \in Int /\ Total(n)[Missed(n)] \in Int
    BY <1>3, TotalSums
  <2>6. Score(m) = Total(m)[Missed(m)] /\ Score(n) = Total(n)[Missed(n)]
    BY <2>1, ScoreIs
  <2> QED  BY <2>3, <2>4, <2>5, <2>6
<1>9. ASSUME Score(m) >= 0, Score(n) # 0 PROVE Score(m) < Score(n)
  <2>1. Missed(m) = {} /\ Missed(n) = {} /\ Score(n) > 0
    BY <1>3, <1>4, <1>9
  <2>2. Score(n) = Total(n)[Targets] /\ Score(m) \in {0, Total(m)[Targets]}
    BY <1>9, <2>1, ScoreIs
  <2>3. Total(m)[Targets] < Total(n)[Targets]
    BY <1>7, DataAssumption
  <2> QED  BY <2>1, <2>2, <2>3
<1>10. Score(m) >= 0 => Score(n) >= 0
  BY <1>3, <1>4
<1> QED  BY <1>8, <1>9, <1>10
--------------------------------------------------------------------------------
(* The choices the search makes exist.                                     *)

\* find_worst_target finds a target: the precedence "smaller deficit, then
\* earlier in the list" is total, and a target with the fewest predecessors
\* has none.
LEMMA WorstTargetType ==
    ASSUME NEW m \in Metrics
    PROVE  WorstTarget(m) \in Targets
<1> DEFINE Before(u, t) == m[u] < m[t] \/ (m[u] = m[t] /\ u < t)
           Pred(t) == {u \in Targets : Before(u, t)}
           R == StrictSubsetOrdering(Targets)
           Preds == {Pred(t) : t \in Targets}
<1>1. \A t \in Targets : m[t] \in Int /\ t \in Nat
  BY DataAssumption DEF Metrics
<1>2. IsWellFoundedOn(R, FiniteSubsetsOf(Targets))
  BY FS_StrictSubsetOrderingWellFounded
<1>3. Preds \subseteq FiniteSubsetsOf(Targets) /\ Preds # {}
  <2>1. FiniteSubsetsOf(Targets) = SUBSET Targets
    BY FS_FiniteSubsetsOfFinite, DataAssumption
  <2>2. \A t \in Targets : Pred(t) \in SUBSET Targets
    OBVIOUS
  <2>3. Preds \subseteq SUBSET Targets
    BY <2>2
  <2>4. Preds # {}
    <3> PICK t \in Targets : TRUE
      BY DataAssumption
    <3> Pred(t) \in Preds
      OBVIOUS
    <3> QED OBVIOUS
  <2>5. QED
    BY <2>1, <2>3, <2>4
<1>4. PICK P \in Preds : \A Q \in Preds : <<Q, P>> \notin R
  <2> HIDE DEF R, Preds
  <2> QED BY <1>2, <1>3, WFMin
<1>5. PICK t \in Targets : P = Pred(t)
  BY <1>4
<1>6. Pred(t) = {}
  <2>1. SUFFICES ASSUME NEW u \in Pred(t) PROVE FALSE
    OBVIOUS
  <2>2. Pred(u) \subseteq Pred(t)
    BY <2>1, <1>1
  <2>3. u \notin Pred(u)
    BY <2>1, <1>1
  <2>4. Pred(u) \in Preds /\ <<Pred(u), P>> \in R
    BY <2>1, <2>2, <2>3, <1>5 DEF StrictSubsetOrdering
  <2>5. QED
    BY <2>4, <1>4
<1>7. \A u \in Targets : m[t] < m[u] \/ (m[t] = m[u] /\ t <= u)
  BY <1>1, <1>6
<1>8. QED
  BY <1>7 DEF WorstTarget

\* A non-empty set of qualities has a member nearest to any quality.
LEMMA NearestExists ==
    ASSUME NEW S, S \subseteq Qualities, S # {}, NEW b \in Qualities
    PROVE  /\ Nearest(S, b) \in S
           /\ \A p \in S : Dist(Nearest(S, b), b) <= Dist(p, b)
<1> DEFINE D == {Dist(q, b) : q \in S}
           R == OpToRel(<, Nat)
<1>1. D \subseteq Nat /\ D # {}
  <2>1. \A q \in S : q \in Int /\ b \in Int
    BY QualitiesType
  <2>2. \A q \in S : Dist(q, b) \in Nat
    BY <2>1
  <2>3. QED
    BY <2>2
<1>2. PICK d \in D : \A e \in D : <<e, d>> \notin R
  <2> HIDE DEF D, R
  <2> QED BY <1>1, NatLessThanWellFounded, WFMin DEF R
<1>3. \A e \in D : d <= e
  <2> SUFFICES ASSUME NEW e \in D, ~(d <= e) PROVE FALSE
    OBVIOUS
  <2>1. e \in Nat /\ d \in Nat
    BY <1>1
  <2>2. <<e, d>> \in R
    <3> HIDE DEF D
    <3> QED BY <2>1 DEF OpToRel
  <2>3. QED
    BY <1>2, <2>2
<1>4. \E q \in S : \A p \in S : Dist(q, b) <= Dist(p, b)
  BY <1>3
<1>5. QED
  BY <1>4 DEF Nearest
--------------------------------------------------------------------------------
(* The forks.                                                              *)

\* Two attempts are neighbours when no attempt lies between them.
Neighbours(T, p, n) ==
    \A q \in Tried(T) : ~(p < q /\ q < n) /\ ~(n < q /\ q < p)

\* An attempted quality has been measured.
LEMMA TriedType ==
    ASSUME NEW T \in Curves, NEW q \in Tried(T)
    PROVE  q \in Qualities /\ q \in Int /\ T[q] \in Metrics /\ Point(q) \in Ends
BY QualitiesType DEF Tried, Curves, Point, Ends

\* _finalize_q gives a quality of the range or exhausts.
LEMMA FinalizeType ==
    ASSUME NEW raw \in Fractions, NEW from \in Qualities,
           NEW worse \in Ends, NEW better \in Ends
    PROVE  FinalizeQ(raw, from, worse, better) \in Qualities \cup {None}
BY StepClampType, SnapType, ClampRange, QualitiesType DEF FinalizeQ

\* _next_or_exhaust lets only unattempted qualities through.
LEMMA NextOrExhaustFresh ==
    ASSUME NEW T \in Curves, NEW q \in Qualities \cup {None}
    PROVE  NextOrExhaust(T, q) \in Proposable(T)
BY DEF NextOrExhaust, Proposable, Tried, Curves

\* A projected crossing of a target with a slope is a fraction, and so is a middle.
LEMMA ProjectType ==
    ASSUME NEW T \in Curves, NEW a \in Tried(T), NEW b \in Tried(T),
           NEW t \in Targets, Slopes(T, t, a, b)
    PROVE  Project(T, t, a, b) \in Fractions
<1>1. a \in Int /\ b \in Int /\ T[a][t] \in Int /\ T[b][t] \in Int
  BY TriedType, DataAssumption DEF Metrics
<1> DEFINE x == T[a][t]
           y == T[b][t]
<1>2. x - y \in Int /\ x - y # 0 /\ a * (x - y) + x * (b - a) \in Int
  <2> x \in Int /\ y \in Int /\ x # y
    BY <1>1 DEF Slopes
  <2> HIDE DEF x, y
  <2>1. a * (x - y) \in Int /\ x * (b - a) \in Int
    BY <1>1
  <2>2. QED
    BY <2>1
<1>3. QED
  BY <1>2, FracType DEF Project

LEMMA MidType ==
    ASSUME NEW a \in Int, NEW b \in Int
    PROVE  Mid(a, b) \in Fractions
BY FracType DEF Mid

\* The first step proposes only what may be proposed.
LEMMA FirstStepFresh ==
    ASSUME NEW T \in Curves, NEW new \in Tried(T)
    PROVE  FirstStep(T, new) \subseteq Proposable(T)
<1> DEFINE pass == Passes(T, new)
           boundary == IF pass THEN Worse ELSE Better
           worse  == IF pass THEN Sentinel(Worse) ELSE Point(new)
           better == IF pass THEN Point(new) ELSE Sentinel(Better)
<1>1. Mid(new, boundary) \in Fractions
  BY MidType, TriedType, QualitiesType
<1>2. worse \in Ends /\ better \in Ends
  BY TriedType, QualitiesType DEF Sentinel, Ends
<1>3. FinalizeQ(Mid(new, boundary), new, worse, better) \in Qualities \cup {None}
  <2> HIDE DEF boundary, worse, better
  <2> QED BY <1>1, <1>2, TriedType, FinalizeType
<1>4. FirstStep(T, new) =
        {NextOrExhaust(T, FinalizeQ(Mid(new, boundary), new, worse, better))}
  BY DEF FirstStep
<1>5. QED
  BY <1>3, <1>4, NextOrExhaustFresh

\* Interpolation proposes only what may be proposed.
LEMMA InterpolateFresh ==
    ASSUME NEW T \in Curves, NEW new \in Tried(T), NEW pass \in Tried(T), NEW fail \in Tried(T)
    PROVE  Interpolate(T, new, pass, fail) \subseteq Proposable(T)
<1> DEFINE own      == WorstTarget(T[new])
           opposite == WorstTarget(T[IF Passes(T, new) THEN fail ELSE pass])
           raw == IF Slopes(T, own, pass, fail) THEN Project(T, own, pass, fail)
                  ELSE IF Slopes(T, opposite, pass, fail) THEN Project(T, opposite, pass, fail)
                  ELSE Mid(pass, fail)
<1>1. own \in Targets /\ opposite \in Targets
  BY TriedType, WorstTargetType
<1>2. raw \in Fractions
  <2> HIDE DEF own, opposite
  <2> QED BY <1>1, ProjectType, MidType, TriedType
<1>3. FinalizeQ(raw, new, Point(fail), Point(pass)) \in Qualities \cup {None}
  <2> HIDE DEF raw
  <2> QED BY <1>2, TriedType, FinalizeType
<1>4. Interpolate(T, new, pass, fail)
        = {NextOrExhaust(T, FinalizeQ(raw, new, Point(fail), Point(pass)))}
  BY DEF Interpolate
<1>5. QED
  BY <1>3, <1>4, NextOrExhaustFresh

\* Extrapolation proposes only what may be proposed.
LEMMA ExtrapolateFresh ==
    ASSUME NEW T \in Curves, NEW new \in Tried(T), NEW p1 \in Tried(T), NEW p2 \in Tried(T)
    PROVE  ExtrapolateOutward(T, new, p1, p2) \subseteq Proposable(T)
<1> DEFINE closer  == IF Abs(Score(T[p1])) <= Abs(Score(T[p2])) THEN p1 ELSE p2
           further == IF closer = p1 THEN p2 ELSE p1
           others  == {q \in Tried(T) : Passes(T, q) # Passes(T, p1)}
           clamps  == IF others # {} THEN {Point(q) : q \in ClosestToZero(T, others)}
                      ELSE {Sentinel(IF Passes(T, p1) THEN Worse ELSE Better)}
           t       == WorstTarget(T[further])
           Raw(c)  == IF Slopes(T, t, closer, further) THEN Project(T, t, closer, further)
                      ELSE Mid(further, c.q)
<1>1. closer \in Tried(T) /\ further \in Tried(T)
  OBVIOUS
<1>2. \A c \in clamps : c \in Ends
  <2>1. \A q \in ClosestToZero(T, others) : Point(q) \in Ends
    BY TriedType DEF ClosestToZero
  <2>2. Sentinel(IF Passes(T, p1) THEN Worse ELSE Better) \in Ends
    BY QualitiesType DEF Sentinel, Ends
  <2>3. QED
    BY <2>1, <2>2
<1>3. \A c \in clamps : Raw(c) \in Fractions
  <2> TAKE c \in clamps
  <2>1. c.q \in Int
    BY <1>2, QualitiesType DEF Ends
  <2>2. t \in Targets
    <3> HIDE DEF closer, further
    <3> QED BY <1>1, TriedType, WorstTargetType
  <2> HIDE DEF closer, further, t, clamps
  <2>3. QED
    BY <1>1, <2>1, <2>2, ProjectType, MidType, TriedType
<1>4. \A c \in clamps : FinalizeQ(Raw(c), new, c, Point(closer)) \in Qualities \cup {None}
  <2> HIDE DEF closer, further, t, clamps, Raw
  <2> QED BY <1>1, <1>2, <1>3, TriedType, FinalizeType
<1>5. ExtrapolateOutward(T, new, p1, p2) =
        {NextOrExhaust(T, FinalizeQ(Raw(c), new, c, Point(closer))) : c \in clamps}
  BY DEF ExtrapolateOutward
<1>6. QED
  <2> HIDE DEF closer, clamps, Raw
  <2> QED BY <1>4, <1>5, NextOrExhaustFresh

\* The middle of two neighbours was never attempted, with no check of the code's:
\* the clamp excludes both ends and nothing was attempted between them.
LEMMA BetweenFresh ==
    ASSUME NEW T \in Curves, NEW new \in Tried(T), NEW p1 \in Tried(T), NEW p2 \in Tried(T),
           Neighbours(T, p1, p2)
    PROVE  Between(new, p1, p2) \subseteq Proposable(T)
<1> DEFINE w == IF Dist(p1, Worse) < Dist(p2, Worse) THEN p1 ELSE p2
           b == IF Dist(p1, Worse) < Dist(p2, Worse) THEN p2 ELSE p1
           raw == StepClamp(Mid(p1, p2), new)
           c == ClampToRange(Snap(raw), Point(w), Point(b))
<1>1. w \in Tried(T) /\ b \in Tried(T) /\ Neighbours(T, w, b)
  BY DEF Neighbours
<1>2. Snap(raw) \in Int
  <2>1. raw \in Fractions
    BY MidType, TriedType, StepClampType
  <2>2. QED
    <3> HIDE DEF raw
    <3> QED BY <2>1, SnapType
<1>3. c \in Proposable(T)
  <2> HIDE DEF w, b, raw
  <2>1. /\ c \in Qualities \cup {None}
        /\ c # None => (b < c /\ c < w) \/ (w < c /\ c < b)
    BY <1>1, <1>2, TriedType, ClampRange DEF Point
  <2>2. QED
    BY <1>1, <2>1 DEF Neighbours, Proposable, Tried
<1>4. Between(new, p1, p2) = {c}
  BY DEF Between, FinalizeQ
<1>5. QED
  BY <1>3, <1>4

\* Dispatch from the best of at least two attempts proposes only what may be
\* proposed.
LEMMA DispatchFresh ==
    ASSUME NEW T \in Curves, NEW new \in Tried(T), NEW b \in Tried(T), NEW p \in BOOLEAN,
           \E q \in Tried(T) : q # b
    PROVE  Dispatch(T, b, p, new) \subseteq Proposable(T)
<1>1. Tried(T) \subseteq Int /\ Tried(T) \subseteq Qualities /\ Better \in Int /\ Worse \in Int
  BY TriedType, QualitiesType, RangeAssumption
<1>2. \A q \in Tried(T) : q = b \/ q \in BetterSide(T, b) \/ q \in WorseSide(T, b)
  BY <1>1 DEF BetterSide, WorseSide, Qualities
<1>3. ASSUME BetterSide(T, b) # {}
      PROVE  Nearest(BetterSide(T, b), b) \in Tried(T) /\ Neighbours(T, b, Nearest(BetterSide(T, b), b))
  <2> DEFINE n == Nearest(BetterSide(T, b), b)
  <2>1. n \in BetterSide(T, b) /\ \A q \in BetterSide(T, b) : Dist(n, b) <= Dist(q, b)
    BY <1>1, <1>3, NearestExists DEF BetterSide
  <2> HIDE DEF n
  <2>2. ASSUME NEW q \in Tried(T), (b < q /\ q < n) \/ (n < q /\ q < b) PROVE FALSE
    <3>1. q \in BetterSide(T, b)
      BY <1>1, <2>1, <2>2 DEF BetterSide, Qualities
    <3>2. QED
      BY <1>1, <2>1, <2>2, <3>1 DEF BetterSide
  <2>3. QED
    BY <2>1, <2>2 DEF Neighbours, BetterSide, n
<1>4. ASSUME WorseSide(T, b) # {}
      PROVE  Nearest(WorseSide(T, b), b) \in Tried(T) /\ Neighbours(T, b, Nearest(WorseSide(T, b), b))
  <2> DEFINE n == Nearest(WorseSide(T, b), b)
  <2>1. n \in WorseSide(T, b) /\ \A q \in WorseSide(T, b) : Dist(n, b) <= Dist(q, b)
    BY <1>1, <1>4, NearestExists DEF WorseSide
  <2> HIDE DEF n
  <2>2. ASSUME NEW q \in Tried(T), (b < q /\ q < n) \/ (n < q /\ q < b) PROVE FALSE
    <3>1. q \in WorseSide(T, b)
      BY <1>1, <2>1, <2>2 DEF WorseSide, Qualities
    <3>2. QED
      BY <1>1, <2>1, <2>2, <3>1 DEF WorseSide
  <2>3. QED
    BY <2>1, <2>2 DEF Neighbours, WorseSide, n
<1>5. ASSUME NEW n \in Tried(T), Neighbours(T, b, n)
      PROVE  Fork2(T, b, n, p, new) \subseteq Proposable(T)
  <2>1. {None} \subseteq Proposable(T)
    BY DEF Proposable
  <2>2. QED
    BY <1>5, <2>1, InterpolateFresh, ExtrapolateFresh, BetweenFresh DEF Fork2
<1>6. ASSUME NEW l \in Tried(T), NEW u \in Tried(T), Neighbours(T, b, l), Neighbours(T, b, u)
      PROVE  Fork3(T, b, l, u, new) \subseteq Proposable(T)
  <2>1. {None} \subseteq Proposable(T)
    BY DEF Proposable
  <2>2. Neighbours(T, l, b)
    BY <1>6 DEF Neighbours
  <2>3. Between(new, l, b) \subseteq Proposable(T) /\ Between(new, b, u) \subseteq Proposable(T)
    BY <1>6, <2>2, BetweenFresh
  <2>4. \A n \in {l, u} : Interpolate(T, new, IF Passes(T, b) THEN b ELSE n,
                                              IF Passes(T, b) THEN n ELSE b) \subseteq Proposable(T)
    BY InterpolateFresh
  <2>5. QED
    BY <2>1, <2>3, <2>4 DEF Fork3
<1>7. QED
  BY <1>2, <1>3, <1>4, <1>5, <1>6 DEF Dispatch
--------------------------------------------------------------------------------
(* The inductive invariant.                                                *)

\* The slots of encode_chunk follow the search's best point all along.
SlotsFollowBest ==
    /\ best = None => proposal # None /\ finalAttempt = None /\ bestFail = None
    /\ best # None => IF Passes(tested, best) THEN finalAttempt = best
                      ELSE finalAttempt = None /\ bestFail = best

\* Besides the properties, the best point is one of the attempts and exists once
\* there is one: what the dispatch needs to find its neighbours.
IInv ==
    /\ TypeOK
    /\ FreshProposal
    /\ SlotsFollowBest
    /\ best # None => best \in Tried(tested)
    /\ best = None => Tried(tested) = {}

\* The initial state satisfies the invariant.
LEMMA InitIInv == Init => IInv
<1> SUFFICES ASSUME Init PROVE IInv
  OBVIOUS
<1>1. tested \in Curves /\ Tried(tested) = {}
  BY DEF Init, Curves, Tried
<1>2. TypeOK
  BY <1>1, QualitiesType DEF Init, TypeOK, Curves
<1>3. FreshProposal
  BY QualitiesType DEF Init, FreshProposal
<1>4. SlotsFollowBest
  BY QualitiesType DEF Init, SlotsFollowBest
<1>5. QED
  BY <1>1, <1>2, <1>3, <1>4 DEF Init, IInv

\* Recording an attempt preserves the invariant.
LEMMA RecordIInv ==
    ASSUME IInv, NEW m \in Metrics, Record(m)
    PROVE  IInv'
<1> DEFINE T == [tested EXCEPT ![proposal] = m]
           b == IF Score(m) = 0 \/ Improves(T, proposal) THEN proposal ELSE best
           flag == probed /\ b = best
           only == Tried(tested) = {}
<1>1. /\ proposal \in Qualities /\ tested[proposal] = Untested
      /\ tested \in Curves /\ probed \in BOOLEAN
      /\ best \in Qualities \cup {None}
      /\ finalAttempt \in Qualities \cup {None} /\ bestFail \in Qualities \cup {None}
  BY DEF IInv, TypeOK, FreshProposal, Record, Curves
<1>2. T \in Curves /\ Tried(T) = Tried(tested) \cup {proposal}
  BY <1>1, DataAssumption DEF Curves, Tried
<1>3. b \in Tried(T)
  <2>1. best = None => b = proposal
    BY DEF Improves
  <2>2. QED
    <3> HIDE DEF b
    <3>1. b \in {best, proposal}
      BY DEF b
    <3>2. QED
      BY <1>2, <2>1, <3>1 DEF IInv
<1>4. proposal \notin Tried(tested)
  BY <1>1 DEF Tried
<1>5. proposal' \in Proposable(T)
  <2>1. CASE Score(m) = 0
    BY <2>1 DEF Record, Proposable
  <2>2. CASE Score(m) # 0 /\ only
    <3>1. proposal' \in FirstStep(T, proposal)
      BY <2>2 DEF Record
    <3>2. QED
      <4> HIDE DEF T
      <4> QED BY <1>2, <3>1, FirstStepFresh
  <2>3. CASE Score(m) # 0 /\ ~only
    <3>1. proposal' \in Dispatch(T, b, flag, proposal)
      BY <2>3 DEF Record
    <3>2. \E q \in Tried(T) : q # b
      <4> PICK q \in Tried(tested) : TRUE
        BY <2>3
      <4> q \in Tried(T) /\ proposal \in Tried(T) /\ q # proposal
        BY <1>2, <1>4
      <4> HIDE DEF T, b
      <4> QED OBVIOUS
    <3>3. flag \in BOOLEAN
      BY <1>1
    <3>4. QED
      <4> HIDE DEF T, b, flag
      <4> QED BY <1>2, <1>3, <3>1, <3>2, <3>3, DispatchFresh
  <2>4. QED
    BY <2>1, <2>2, <2>3
<1>6. /\ tested' = T /\ best' = b
      /\ finalAttempt' \in {proposal, finalAttempt} /\ bestFail' \in {proposal, bestFail}
      /\ probed' \in BOOLEAN
  BY DEF Record
<1>7. TypeOK'
  <2> HIDE DEF T, b
  <2> QED BY <1>1, <1>2, <1>3, <1>5, <1>6, TriedType DEF TypeOK, Curves, Proposable
<1>8. FreshProposal'
  <2> HIDE DEF T
  <2> QED BY <1>5, <1>6 DEF FreshProposal, Proposable
<1>9. SlotsFollowBest'
  <2>1. b # None
    <3> HIDE DEF b, T
    <3> QED BY <1>3, TriedType, <1>2, QualitiesType
  <2>2. CASE b = proposal
    <3>1. Passes(T, b) => finalAttempt' = b
      BY <1>1, <1>4, <2>2 DEF Record, IInv
    <3>2. ~Passes(T, b) => bestFail' = b /\ finalAttempt' = finalAttempt
      BY <2>2 DEF Record
    <3>3. best # None => T[best] = tested[best]
      BY <1>1, <1>4 DEF IInv, Curves, Tried
    <3>4. ~Passes(T, b) => finalAttempt = None
      <4> SUFFICES ASSUME ~Passes(T, b), best # None PROVE finalAttempt = None
        BY DEF IInv, SlotsFollowBest
      <4>1. Score(T[proposal]) = Score(m) /\ ~(Score(m) >= 0) /\ Score(m) # 0
        BY <1>1, <2>2 DEF Passes, Curves
      <4>2. Improves(T, proposal)
        BY <1>1, <1>4, <2>2, <4>1 DEF IInv
      <4>3. ~Passes(T, best)
        BY <4>1, <4>2 DEF Improves
      <4>4. ~Passes(tested, best)
        BY <3>3, <4>3 DEF Passes
      <4>5. QED
        BY <4>4 DEF IInv, SlotsFollowBest
    <3>5. QED
      <4> HIDE DEF T, b
      <4> QED BY <1>6, <2>1, <3>1, <3>2, <3>4 DEF SlotsFollowBest
  <2>3. CASE b # proposal
    <3>1. b = best /\ best # None
      BY <2>1, <2>3
    <3>2. Passes(T, best) <=> Passes(tested, best)
      BY <1>1, <2>3, <3>1 DEF Passes, Curves, IInv, Tried
    <3>3. finalAttempt' = finalAttempt /\ bestFail' = bestFail
      BY <2>3, <3>1 DEF Record
    <3>4. QED
      <4> HIDE DEF T, b
      <4> QED BY <1>6, <3>1, <3>2, <3>3 DEF SlotsFollowBest, IInv
  <2>4. QED
    BY <2>2, <2>3
<1>10. QED
  <2> HIDE DEF T, b
  <2>1. Tried(T) \subseteq Qualities /\ b # None
    BY <1>3, QualitiesType DEF Tried
  <2>2. QED
    BY <1>3, <1>6, <1>7, <1>8, <1>9, <2>1 DEF IInv, Tried

\* The invariant holds throughout.
LEMMA Invariance == Spec => []IInv
<1>1. IInv /\ [Next]_vars => IInv'
  <2> SUFFICES ASSUME IInv, [Next]_vars PROVE IInv'
    OBVIOUS
  <2>1. CASE Next
    BY <2>1, RecordIInv DEF Next
  <2>2. CASE UNCHANGED vars
    BY <2>2 DEF vars, IInv, TypeOK, FreshProposal, SlotsFollowBest, Passes, Tried
  <2>3. QED
    BY <2>1, <2>2
<1>2. QED
  BY InitIInv, <1>1, PTL DEF Spec

\* The search keeps its types, and proposes only qualities of the range.
THEOREM TypeCorrect == Spec => []TypeOK
<1>1. IInv => TypeOK
  BY DEF IInv
<1>2. QED
  BY Invariance, <1>1, PTL

\* The search never proposes a quality it has already attempted, whatever the
\* encodes measure: the attempt loop makes progress with every turn.
THEOREM NeverRepeats == Spec => []FreshProposal
<1>1. IInv => FreshProposal
  BY DEF IInv
<1>2. QED
  BY Invariance, <1>1, PTL

\* The attempt encode_chunk promotes is the search's best point, and it is taken
\* for a pass exactly when it passes.
THEOREM PromotesBest == Spec => []WinnerIsBest
<1>1. IInv => WinnerIsBest
  <2> SUFFICES ASSUME IInv, Done PROVE Winner = best /\ (Passes(tested, best) <=> finalAttempt # None)
    BY DEF WinnerIsBest
  <2>1. best # None
    BY DEF IInv, SlotsFollowBest, Done
  <2>2. QED
    BY <2>1 DEF IInv, SlotsFollowBest, Winner
<1>2. QED
  BY Invariance, <1>1, PTL
--------------------------------------------------------------------------------
(* The best point is the optimum of what was recorded.                     *)

\* What BestIsOptimal says of the attempts T and the best point b.
Optimal(T, b) ==
    \A q \in Tried(T) :
        /\ b \in Tried(T)
        /\ Passes(T, q) => Passes(T, b) /\ Score(T[b]) <= Score(T[q])
        /\ ~Passes(T, b) => Score(T[q]) <= Score(T[b])

\* record()'s comparison with the best point keeps it the optimum.
LEMMA RecordOptimal ==
    ASSUME IInv, BestIsOptimal, NEW m \in Metrics, Record(m)
    PROVE  BestIsOptimal'
<1> DEFINE T == [tested EXCEPT ![proposal] = m]
           b == IF Score(m) = 0 \/ Improves(T, proposal) THEN proposal ELSE best
<1>1. /\ proposal \in Qualities /\ tested[proposal] = Untested /\ tested \in Curves
      /\ best # None => best \in Tried(tested)
      /\ best = None => Tried(tested) = {}
  BY DEF IInv, TypeOK, FreshProposal, Record, Curves
<1>2. T \in Curves /\ Tried(T) = Tried(tested) \cup {proposal} /\ proposal \notin Tried(tested)
  BY <1>1, DataAssumption DEF Curves, Tried
<1>3. T[proposal] = m /\ \A q \in Tried(tested) : T[q] = tested[q]
  BY <1>1, <1>2 DEF Curves, Tried
<1>4. \A q \in Tried(T) : Score(T[q]) \in Int
  BY <1>2, TriedType, ScoreSign
<1>5. \A q \in Tried(tested) :
        /\ Passes(T, q) => Passes(T, best) /\ Score(T[best]) <= Score(T[q])
        /\ ~Passes(T, best) => Score(T[q]) <= Score(T[best])
  <2>1. \A q \in Tried(tested) : best \in Tried(tested)
    BY <1>1
  <2> QED  BY <1>3, <2>1 DEF BestIsOptimal, Passes
<1>6. tested' = T /\ best' = b
  BY DEF Record
<1>7. Improves(T, proposal) <=>
        \/ best = None
        \/ Score(T[proposal]) >= 0 /\ ~Passes(T, best)
        \/ Score(T[proposal]) >= 0 /\ Score(T[proposal]) < Score(T[best])
        \/ Score(T[proposal]) < 0 /\ ~Passes(T, best) /\ Score(T[proposal]) > Score(T[best])
  BY DEF Improves
<1>8. Optimal(T, b)
  <2> HIDE DEF T
  <2>1. CASE best = None
    BY <1>1, <1>2, <1>3, <1>4, <1>7, <2>1 DEF Optimal, Passes
  <2>2. CASE best # None
    <3>1. best \in Tried(tested) /\ best \in Tried(T) /\ Score(T[best]) \in Int /\ Score(T[proposal]) \in Int
      BY <1>1, <1>2, <1>4, <2>2
    <3>2. CASE b = proposal
      <4>1. Score(T[proposal]) = 0 \/ Improves(T, proposal)
        BY <1>2, <1>3, <3>1, <3>2
      <4> HIDE DEF b
      <4> QED  BY <1>2, <1>4, <1>5, <1>7, <2>2, <3>1, <3>2, <4>1 DEF Optimal, Passes
    <3>3. CASE b # proposal
      <4>1. b = best /\ Score(T[proposal]) # 0 /\ ~Improves(T, proposal)
        BY <1>3, <3>3
      <4> HIDE DEF b
      <4> QED  BY <1>2, <1>4, <1>5, <1>7, <2>2, <3>1, <4>1 DEF Optimal, Passes
    <3> QED  BY <3>2, <3>3
  <2> QED  BY <2>1, <2>2
<1>9. (Optimal(tested, best))'
  <2> HIDE DEF T, b
  <2> QED  BY <1>6, <1>8 DEF Optimal, Tried, Passes
<1> QED  BY <1>9 DEF Optimal, BestIsOptimal

\* The search's best point is always the optimum of everything it has recorded,
\* whatever the encodes measure: the pass with the smallest surplus once anything
\* passed, the miss closest to the targets before.
THEOREM ReportsOptimum == Spec => []BestIsOptimal
<1>1. Init => BestIsOptimal
  BY QualitiesType DEF Init, BestIsOptimal, Tried
<1>2. IInv /\ BestIsOptimal /\ [Next]_vars => BestIsOptimal'
  <2> SUFFICES ASSUME IInv, BestIsOptimal, [Next]_vars PROVE BestIsOptimal'
    OBVIOUS
  <2>1. CASE Next
    BY <2>1, RecordOptimal DEF Next
  <2>2. CASE UNCHANGED vars
    BY <2>2 DEF vars, BestIsOptimal, Passes, Tried
  <2> QED  BY <2>1, <2>2
<1> QED  BY Invariance, <1>1, <1>2, PTL DEF Spec

\* What the encoder promotes as a pass meets every one of its targets, and what it
\* promotes as a miss proves that no attempt met them all.
THEOREM PromotesMet ==
    Spec => [](Done => /\ finalAttempt # None => \A t \in Targets : tested[Winner][t] >= 0
                       /\ finalAttempt = None =>
                            \A q \in Tried(tested) : \E t \in Targets : tested[q][t] < 0)
<1> DEFINE Met == Done => /\ finalAttempt # None => \A t \in Targets : tested[Winner][t] >= 0
                          /\ finalAttempt = None =>
                               \A q \in Tried(tested) : \E t \in Targets : tested[q][t] < 0
<1>1. IInv /\ BestIsOptimal => Met
  <2> SUFFICES ASSUME IInv, BestIsOptimal, Done PROVE Met
    OBVIOUS
  <2>1. best # None /\ best \in Tried(tested) /\ tested \in Curves
    BY DEF IInv, SlotsFollowBest, Done, TypeOK, Curves
  <2>2. \A q \in Tried(tested) : Score(tested[q]) >= 0 <=> \A t \in Targets : tested[q][t] >= 0
    BY <2>1, TriedType, ScoreSign
  <2>3. \A q \in Tried(tested) : \A t \in Targets : tested[q][t] \in Int
    BY <2>1, TriedType, DataAssumption DEF Metrics
  <2>4. Passes(tested, best) <=> finalAttempt # None
    BY <2>1 DEF IInv, SlotsFollowBest
  <2>5. finalAttempt # None => Winner = best
    BY <2>1, <2>4 DEF IInv, SlotsFollowBest, Winner
  <2>6. finalAttempt # None => \A t \in Targets : tested[Winner][t] >= 0
    BY <2>1, <2>2, <2>4, <2>5 DEF Passes
  <2>7. ASSUME finalAttempt = None, NEW q \in Tried(tested) PROVE \E t \in Targets : tested[q][t] < 0
    <3>1. ~Passes(tested, q)
      BY <2>4, <2>7 DEF BestIsOptimal
    <3> QED  BY <2>2, <2>3, <3>1 DEF Passes
  <2> QED  BY <2>6, <2>7
<1> HIDE DEF Met
<1>2. Spec => []Met
  BY Invariance, ReportsOptimum, <1>1, PTL
<1> QED  BY <1>2 DEF Met
--------------------------------------------------------------------------------
(* The grid of the granularity.                                            *)

\* A quality is on the grid when it is a whole number of steps of the granularity.
OnGrid(q) == \E k \in Int : q = Granularity * k

\* The ends of the range and every attempt are on the grid.
Grid(T) == OnGrid(Better) /\ OnGrid(Worse) /\ \A q \in Tried(T) : OnGrid(q)

\* The next quality of the grid is one granularity away, and none is nearer.
LEMMA GridSteps ==
    ASSUME NEW a \in Int, OnGrid(a)
    PROVE  /\ OnGrid(a + Granularity) /\ OnGrid(a - Granularity)
           /\ \A b \in Int : OnGrid(b) /\ a < b => a + Granularity <= b
<1>1. PICK k \in Int : a = Granularity * k
  BY DEF OnGrid
<1>2. Granularity \in Nat \ {0}
  BY RangeAssumption
<1>3. a + Granularity = Granularity * (k + 1) /\ a - Granularity = Granularity * (k - 1)
  BY <1>1, <1>2
<1>4. ASSUME NEW b \in Int, OnGrid(b), a < b PROVE a + Granularity <= b
  <2>1. PICK j \in Int : b = Granularity * j
    BY <1>4 DEF OnGrid
  <2>2. j > k
    <3> SUFFICES ASSUME j <= k PROVE FALSE
      OBVIOUS
    <3>1. Granularity * (k - j) >= 0
      BY <1>2
    <3> QED  BY <1>1, <1>2, <1>4, <2>1, <3>1
  <2>3. Granularity * (j - (k + 1)) >= 0
    BY <1>2, <2>2
  <2> QED  BY <1>2, <1>3, <2>1, <2>3
<1>5. k + 1 \in Int /\ k - 1 \in Int
  OBVIOUS
<1> QED  BY <1>3, <1>4, <1>5 DEF OnGrid

\* Snapping puts a candidate on the grid.
LEMMA SnapOnGrid ==
    ASSUME NEW raw \in Fractions
    PROVE  Snap(raw) \in Int /\ OnGrid(Snap(raw))
<1>1. raw.den * Granularity \in Nat \ {0}
  BY RangeAssumption DEF Fractions
<1>2. RoundHalfEven(raw.num, raw.den * Granularity) \in Int
  BY <1>1, RoundType DEF Fractions
<1> QED  BY <1>2, SnapType DEF Snap, OnGrid

\* Between ends on the grid the clamp stays on the grid; it finds nothing between two
\* attempts only when no step is left between them, and always something between an
\* attempt and an end of the range beyond it.
LEMMA ClampFinds ==
    ASSUME NEW q \in Int, OnGrid(q), NEW worse \in Ends, NEW better \in Ends,
           OnGrid(worse.q), OnGrid(better.q), worse.q # better.q
    PROVE  LET c == ClampToRange(q, worse, better) IN
           /\ c # None => OnGrid(c)
           /\ c = None /\ ~worse.sentinel /\ ~better.sentinel => Dist(worse.q, better.q) = Granularity
           /\ worse.sentinel /\ ~better.sentinel => c # None /\ Dist(c, worse.q) < Dist(better.q, worse.q)
           /\ better.sentinel /\ ~worse.sentinel => c # None /\ Dist(c, better.q) < Dist(worse.q, better.q)
<1> DEFINE lower == IF better.q <= worse.q THEN better.q ELSE worse.q
           upper == IF better.q <= worse.q THEN worse.q ELSE better.q
           Open(e) == \E p \in {worse, better} : p.sentinel /\ p.q = e
           lo == IF Open(lower) THEN lower ELSE lower + Granularity
           hi == IF Open(upper) THEN upper ELSE upper - Granularity
           capped == IF hi <= q THEN hi ELSE q
           c == IF lo > hi THEN None ELSE IF lo >= capped THEN lo ELSE capped
<1>1. worse.q \in Int /\ better.q \in Int /\ worse.sentinel \in BOOLEAN /\ better.sentinel \in BOOLEAN
  BY QualitiesType DEF Ends
<1>2. /\ lower \in Int /\ upper \in Int /\ lower < upper
      /\ OnGrid(lower) /\ OnGrid(upper)
  BY <1>1
<1>3. Granularity \in Nat \ {0} /\ None \notin Int
  BY RangeAssumption, DataAssumption
<1>4. lower + Granularity <= upper
  BY <1>2, GridSteps
<1>5. OnGrid(lower + Granularity) /\ OnGrid(upper - Granularity)
  BY <1>2, GridSteps
<1>6. lo \in Int /\ hi \in Int /\ OnGrid(lo) /\ OnGrid(hi)
  <2> HIDE DEF lower, upper
  <2> QED  BY <1>2, <1>3, <1>5
<1>7. (lo > hi => c = None) /\ (lo <= hi => c \in Int /\ lo <= c /\ c <= hi /\ c \in {lo, hi, q})
  <2> HIDE DEF lower, upper, lo, hi
  <2> QED  BY <1>6
<1>8. c # None => OnGrid(c)
  <2> HIDE DEF lower, upper, lo, hi, c
  <2> QED  BY <1>6, <1>7
<1>9. ASSUME c = None, ~worse.sentinel, ~better.sentinel PROVE Dist(worse.q, better.q) = Granularity
  <2>1. lo = lower + Granularity /\ hi = upper - Granularity
    BY <1>9
  <2>2. lo > hi
    <3> HIDE DEF lower, upper, lo, hi, c
    <3> QED  BY <1>3, <1>6, <1>7, <1>9
  <2>3. ~(lower + Granularity < upper)
    <3> SUFFICES ASSUME lower + Granularity < upper PROVE FALSE
      OBVIOUS
    <3> HIDE DEF lower, upper, lo, hi
    <3>1. lower + Granularity \in Int
      BY <1>2, <1>3
    <3>2. lower + Granularity + Granularity <= upper
      BY <1>2, <1>5, <3>1, GridSteps
    <3> QED  BY <1>2, <1>3, <2>1, <2>2, <3>2
  <2>4. upper - lower = Granularity
    <3> HIDE DEF lower, upper
    <3> QED  BY <1>2, <1>3, <1>4, <2>3
  <2> QED  BY <1>1, <2>4
<1>10. ASSUME worse.sentinel, ~better.sentinel
       PROVE  c # None /\ Dist(c, worse.q) < Dist(better.q, worse.q)
  <2>1. CASE better.q < worse.q
    <3>1. lower = better.q /\ upper = worse.q
      BY <1>1, <2>1
    <3>2. lo = lower + Granularity /\ hi = upper
      BY <1>1, <1>10, <2>1
    <3> HIDE DEF lower, upper, lo, hi, c
    <3> QED  BY <1>1, <1>2, <1>3, <1>4, <1>7, <3>1, <3>2
  <2>2. CASE worse.q < better.q
    <3>1. lower = worse.q /\ upper = better.q
      BY <1>1, <2>2
    <3>2. lo = lower /\ hi = upper - Granularity
      BY <1>1, <1>10, <2>2
    <3> HIDE DEF lower, upper, lo, hi, c
    <3> QED  BY <1>1, <1>2, <1>3, <1>4, <1>7, <3>1, <3>2
  <2> QED  BY <1>1, <2>1, <2>2
<1>11. ASSUME better.sentinel, ~worse.sentinel
       PROVE  c # None /\ Dist(c, better.q) < Dist(worse.q, better.q)
  <2>1. CASE better.q < worse.q
    <3>1. lower = better.q /\ upper = worse.q
      BY <1>1, <2>1
    <3>2. lo = lower /\ hi = upper - Granularity
      BY <1>1, <1>11, <2>1
    <3> HIDE DEF lower, upper, lo, hi, c
    <3> QED  BY <1>1, <1>2, <1>3, <1>4, <1>7, <3>1, <3>2
  <2>2. CASE worse.q < better.q
    <3>1. lower = worse.q /\ upper = better.q
      BY <1>1, <2>2
    <3>2. lo = lower + Granularity /\ hi = upper
      BY <1>1, <1>11, <2>2
    <3> HIDE DEF lower, upper, lo, hi, c
    <3> QED  BY <1>1, <1>2, <1>3, <1>4, <1>7, <3>1, <3>2
  <2> QED  BY <1>1, <2>1, <2>2
<1>12. ClampToRange(q, worse, better) = c
  BY DEF ClampToRange
<1> HIDE DEF c
<1> QED  BY <1>8, <1>9, <1>10, <1>11, <1>12
--------------------------------------------------------------------------------
(* Where the forks end the search.                                         *)

\* _finalize_q on the grid: what the clamp does to any candidate.
LEMMA FinalizeFinds ==
    ASSUME NEW raw \in Fractions, NEW from \in Int, NEW worse \in Ends, NEW better \in Ends,
           OnGrid(worse.q), OnGrid(better.q), worse.q # better.q
    PROVE  LET c == FinalizeQ(raw, from, worse, better) IN
           /\ c # None => OnGrid(c)
           /\ c = None /\ ~worse.sentinel /\ ~better.sentinel => Dist(worse.q, better.q) = Granularity
           /\ worse.sentinel /\ ~better.sentinel => c # None /\ Dist(c, worse.q) < Dist(better.q, worse.q)
           /\ better.sentinel /\ ~worse.sentinel => c # None /\ Dist(c, better.q) < Dist(worse.q, better.q)
<1> DEFINE s == Snap(StepClamp(raw, from))
<1>1. s \in Int /\ OnGrid(s)
  <2>1. StepClamp(raw, from) \in Fractions
    BY StepClampType
  <2> QED  BY <2>1, SnapOnGrid
<1>2. FinalizeQ(raw, from, worse, better) = ClampToRange(s, worse, better)
  BY DEF FinalizeQ
<1> HIDE DEF s
<1> QED  BY <1>1, <1>2, ClampFinds

\* What a search may propose when it is not over: a quality of the grid.
Continues(p) == p # None /\ OnGrid(p)

\* The second attempt is made unless the first was at the end it would move to.
LEMMA FirstStepFinds ==
    ASSUME NEW T \in Curves, NEW new \in Tried(T), Tried(T) = {new}, Grid(T),
           NEW p \in FirstStep(T, new)
    PROVE  IF new = (IF Passes(T, new) THEN Worse ELSE Better) THEN p = None ELSE Continues(p)
<1> DEFINE end == IF Passes(T, new) THEN Worse ELSE Better
           worse  == IF Passes(T, new) THEN Sentinel(Worse) ELSE Point(new)
           better == IF Passes(T, new) THEN Point(new) ELSE Sentinel(Better)
           c == FinalizeQ(Mid(new, end), new, worse, better)
<1>1. new \in Int /\ end \in Int /\ end \in Qualities /\ Mid(new, end) \in Fractions
  BY TriedType, QualitiesType, MidType
<1>2. worse \in Ends /\ better \in Ends
  BY TriedType, QualitiesType DEF Sentinel, Ends
<1>3. OnGrid(worse.q) /\ OnGrid(better.q) /\ (new # end => worse.q # better.q)
  BY DEF Grid, Sentinel, Point
<1>4. c \in Qualities \cup {None}
  <2> HIDE DEF end, worse, better
  <2> QED  BY <1>1, <1>2, TriedType, FinalizeType
<1>5. ASSUME new # end PROVE c # None /\ OnGrid(c) /\ Dist(c, end) < Dist(new, end)
  <2>1. CASE Passes(T, new)
    <3>1. worse = Sentinel(Worse) /\ better = Point(new) /\ end = Worse
      BY <2>1
    <3>2. worse.sentinel /\ ~better.sentinel /\ worse.q = end /\ better.q = new
      BY <3>1 DEF Sentinel, Point
    <3> HIDE DEF end, worse, better
    <3> QED  BY <1>1, <1>2, <1>3, <1>5, <3>2, FinalizeFinds
  <2>2. CASE ~Passes(T, new)
    <3>1. better = Sentinel(Better) /\ worse = Point(new) /\ end = Better
      BY <2>2
    <3>2. better.sentinel /\ ~worse.sentinel /\ better.q = end /\ worse.q = new
      BY <3>1 DEF Sentinel, Point
    <3> HIDE DEF end, worse, better
    <3> QED  BY <1>1, <1>2, <1>3, <1>5, <3>2, FinalizeFinds
  <2> QED  BY <2>1, <2>2
<1>6. p = NextOrExhaust(T, c)
  BY DEF FirstStep
<1>7. new # end => c \notin Tried(T)
  <2> HIDE DEF c, end
  <2> QED  BY <1>1, <1>5
<1>8. ASSUME new = end PROVE c = new
  <2> DEFINE s == Snap(StepClamp(Mid(new, end), new))
  <2>1. s \in Int
    <3>1. StepClamp(Mid(new, end), new) \in Fractions
      BY <1>1, StepClampType
    <3> QED  BY <3>1, SnapType
  <2>2. c = ClampToRange(s, worse, better)
    BY DEF FinalizeQ
  <2>3. worse.q = new /\ better.q = new /\ (worse.sentinel \/ better.sentinel)
    BY <1>8 DEF Sentinel, Point
  <2> HIDE DEF s, c, worse, better, end
  <2> QED  BY <1>1, <2>1, <2>2, <2>3 DEF ClampToRange
<1> HIDE DEF c, end
<1> QED  BY <1>5, <1>6, <1>7, <1>8 DEF NextOrExhaust, Continues, end

\* Interpolation between a pass and a miss goes on until they are one granularity apart.
LEMMA InterpolateFinds ==
    ASSUME NEW T \in Curves, NEW new \in Tried(T), NEW pass \in Tried(T), NEW fail \in Tried(T),
           pass # fail, Neighbours(T, pass, fail), Grid(T),
           NEW p \in Interpolate(T, new, pass, fail)
    PROVE  /\ p # None => OnGrid(p)
           /\ p = None => Dist(pass, fail) = Granularity
<1> DEFINE own      == WorstTarget(T[new])
           opposite == WorstTarget(T[IF Passes(T, new) THEN fail ELSE pass])
           raw == IF Slopes(T, own, pass, fail) THEN Project(T, own, pass, fail)
                  ELSE IF Slopes(T, opposite, pass, fail) THEN Project(T, opposite, pass, fail)
                  ELSE Mid(pass, fail)
           s == Snap(StepClamp(raw, new))
           c == FinalizeQ(raw, new, Point(fail), Point(pass))
<1>1. own \in Targets /\ opposite \in Targets
  BY TriedType, WorstTargetType
<1>2. raw \in Fractions
  <2> HIDE DEF own, opposite
  <2> QED BY <1>1, ProjectType, MidType, TriedType
<1>3. p = NextOrExhaust(T, c)
  BY DEF Interpolate
<1> HIDE DEF raw
<1>4. /\ pass \in Int /\ fail \in Int /\ new \in Int
      /\ Point(pass) \in Ends /\ Point(fail) \in Ends
      /\ Point(pass).q = pass /\ Point(fail).q = fail
      /\ ~Point(pass).sentinel /\ ~Point(fail).sentinel
      /\ OnGrid(pass) /\ OnGrid(fail)
  BY TriedType DEF Grid, Point
<1>5. /\ c # None => OnGrid(c)
      /\ c = None => Dist(fail, pass) = Granularity
  BY <1>2, <1>4, FinalizeFinds
<1>6. c # None => (fail < c /\ c < pass) \/ (pass < c /\ c < fail)
  <2>1. s \in Int
    <3>1. StepClamp(raw, new) \in Fractions
      BY <1>2, <1>4, StepClampType
    <3> QED  BY <3>1, SnapType
  <2>2. c = ClampToRange(s, Point(fail), Point(pass))
    BY DEF FinalizeQ
  <2> HIDE DEF s, c
  <2> QED  BY <1>4, <2>1, <2>2, ClampRange
<1> HIDE DEF c
<1>7. c # None => c \notin Tried(T)
  BY <1>6 DEF Neighbours
<1> QED  BY <1>3, <1>4, <1>5, <1>7 DEF NextOrExhaust

\* Extrapolation from attempts that all lie on one side always goes on, until the end
\* of the range it moves to has itself been attempted.
LEMMA ExtrapolateFinds ==
    ASSUME NEW T \in Curves, NEW new \in Tried(T), NEW p1 \in Tried(T), NEW p2 \in Tried(T), Grid(T),
           NEW end, end = (IF Passes(T, p1) THEN Worse ELSE Better), end # p1,
           Abs(Score(T[p1])) <= Abs(Score(T[p2])),
           \A q \in Tried(T) : Passes(T, q) = Passes(T, p1),
           \A q \in Tried(T) : Dist(p1, end) <= Dist(q, end),
           NEW p \in ExtrapolateOutward(T, new, p1, p2)
    PROVE  Continues(p)
<1> DEFINE closer  == IF Abs(Score(T[p1])) <= Abs(Score(T[p2])) THEN p1 ELSE p2
           further == IF closer = p1 THEN p2 ELSE p1
           others  == {q \in Tried(T) : Passes(T, q) # Passes(T, p1)}
           clamps  == IF others # {} THEN {Point(q) : q \in ClosestToZero(T, others)}
                      ELSE {Sentinel(IF Passes(T, p1) THEN Worse ELSE Better)}
           t       == WorstTarget(T[further])
           Raw(c)  == IF Slopes(T, t, closer, further) THEN Project(T, t, closer, further)
                      ELSE Mid(further, c.q)
           e == Sentinel(end)
           raw == Raw(e)
           r == FinalizeQ(raw, new, e, Point(p1))
<1>1. closer = p1 /\ others = {} /\ clamps = {e} /\ further \in Tried(T)
  OBVIOUS
<1>2. ExtrapolateOutward(T, new, p1, p2) =
        {NextOrExhaust(T, FinalizeQ(Raw(c), new, c, Point(closer))) : c \in clamps}
  BY DEF ExtrapolateOutward
<1>3. p = NextOrExhaust(T, r)
  <2> HIDE DEF closer, clamps, Raw
  <2> QED  BY <1>1, <1>2 DEF r, raw
<1>4. end \in Qualities /\ end \in Int /\ p1 \in Int /\ p1 \in Qualities /\ new \in Int /\ e \in Ends /\ e.q = end /\ e.sentinel
  BY TriedType, QualitiesType DEF Sentinel, Ends
<1>5. raw \in Fractions
  <2>1. t \in Targets
    <3> HIDE DEF closer, further
    <3> QED BY <1>1, TriedType, WorstTargetType
  <2> HIDE DEF closer, further, t, e
  <2> QED  BY <1>1, <1>4, <2>1, ProjectType, MidType, TriedType DEF raw, Raw
<1>6. Point(p1) \in Ends /\ Point(p1).q = p1 /\ ~Point(p1).sentinel /\ OnGrid(p1) /\ OnGrid(end)
  BY TriedType DEF Point, Grid
<1>7. r # None /\ OnGrid(r) /\ Dist(r, end) < Dist(p1, end)
  <2> HIDE DEF raw, e
  <2> QED  BY <1>4, <1>5, <1>6, FinalizeFinds
<1>8. r \notin Tried(T)
  <2> HIDE DEF r
  <2> SUFFICES ASSUME r \in Tried(T) PROVE FALSE
    OBVIOUS
  <2>1. r \in Int /\ Dist(p1, end) <= Dist(r, end)
    BY TriedType
  <2> QED  BY <1>4, <1>7, <2>1
<1> HIDE DEF r
<1> QED  BY <1>3, <1>7, <1>8 DEF NextOrExhaust, Continues

\* The middle of two attempts is on the grid.
LEMMA BetweenOnGrid ==
    ASSUME NEW T \in Curves, NEW new \in Tried(T), NEW p1 \in Tried(T), NEW p2 \in Tried(T),
           p1 # p2, Grid(T), NEW p \in Between(new, p1, p2)
    PROVE  p # None => OnGrid(p)
<1> DEFINE w == IF Dist(p1, Worse) < Dist(p2, Worse) THEN p1 ELSE p2
           b == IF Dist(p1, Worse) < Dist(p2, Worse) THEN p2 ELSE p1
<1>1. w \in Tried(T) /\ b \in Tried(T) /\ w # b
  OBVIOUS
<1>2. p = FinalizeQ(Mid(p1, p2), new, Point(w), Point(b))
  BY DEF Between
<1> HIDE DEF w, b
<1>3. /\ Point(w) \in Ends /\ Point(b) \in Ends /\ Point(w).q # Point(b).q
      /\ OnGrid(Point(w).q) /\ OnGrid(Point(b).q)
  BY <1>1, TriedType DEF Grid, Point
<1>4. Mid(p1, p2) \in Fractions /\ new \in Int
  BY TriedType, MidType
<1> QED  BY <1>2, <1>3, <1>4, FinalizeFinds

\* The attempts T lie on curves that fall from Better to Worse.
Falls(T) ==
    \A p, q \in Tried(T) : Dist(p, Better) < Dist(q, Better) => \A t \in Targets : T[p][t] > T[q][t]

\* No attempt of T was accepted at once.
Pending(T) == \A q \in Tried(T) : Score(T[q]) # 0

\* What FrontierFound says of the attempts T and the best point b.
Found(T, b) ==
    \/ Score(T[b]) = 0
    \/ Passes(T, b) /\ b = Worse
    \/ /\ Passes(T, b)
       /\ \E q \in Tried(T) : ~Passes(T, q) /\ Dist(b, q) = Granularity
    \/ b = Better /\ ~Passes(T, b)

\* On falling curves the best point splits the attempts: if it passes, what is better
\* passes and what is worse misses; if it misses, it is the attempt nearest to Better
\* and all attempts miss.
LEMMA BestSplits ==
    ASSUME NEW T \in Curves, NEW b \in Tried(T), Falls(T), Pending(T), Optimal(T, b)
    PROVE  /\ Passes(T, b) => \A q \in Tried(T) : Passes(T, q) <=> Dist(q, Better) <= Dist(b, Better)
           /\ ~Passes(T, b) => \A q \in Tried(T) : ~Passes(T, q) /\ Dist(b, Better) <= Dist(q, Better)
<1>1. \A q \in Tried(T) : q \in Int /\ T[q] \in Metrics /\ Score(T[q]) \in Int /\ Score(T[q]) # 0
  BY TriedType, ScoreSign DEF Pending
<1>2. Better \in Int
  BY RangeAssumption
<1>3. ASSUME NEW p \in Tried(T), NEW q \in Tried(T), Dist(p, Better) < Dist(q, Better)
      PROVE  /\ Score(T[q]) >= 0 => Score(T[p]) >= 0
             /\ Score(T[q]) < Score(T[p])
  <2>1. \A t \in Targets : T[p][t] > T[q][t]
    BY <1>3 DEF Falls
  <2>2. \A t \in Targets : T[p][t] \in Int /\ T[q][t] \in Int
    BY <1>1, DataAssumption DEF Metrics
  <2>3. \A t \in Targets : T[q][t] < T[p][t]
    BY <2>1, <2>2
  <2>4. /\ Score(T[q]) >= 0 => Score(T[p]) >= 0
        /\ Score(T[p]) < 0 => Score(T[q]) < Score(T[p])
        /\ Score(T[q]) >= 0 /\ Score(T[p]) # 0 => Score(T[q]) < Score(T[p])
    BY <1>1, <2>3, ScoreFalls
  <2> QED  BY <1>1, <2>4
<1>4. ASSUME Passes(T, b), NEW q \in Tried(T) PROVE Passes(T, q) <=> Dist(q, Better) <= Dist(b, Better)
  <2>1. CASE Dist(q, Better) < Dist(b, Better)
    BY <1>1, <1>2, <1>3, <1>4, <2>1 DEF Passes
  <2>2. CASE Dist(b, Better) < Dist(q, Better)
    <3>1. Score(T[q]) < Score(T[b])
      BY <1>3, <2>2
    <3>2. Passes(T, q) => Score(T[b]) <= Score(T[q])
      BY DEF Optimal
    <3>3. ~Passes(T, q)
      BY <1>1, <3>1, <3>2
    <3> QED  BY <1>1, <1>2, <2>2, <3>3
  <2>3. CASE Dist(q, Better) = Dist(b, Better)
    <3>1. q = b
      BY <1>1, <1>2, <2>3, TriedType, RangeAssumption DEF Qualities
    <3> QED  BY <1>1, <1>2, <1>4, <3>1
  <2> QED  BY <1>1, <1>2, <2>1, <2>2, <2>3
<1>5. ASSUME ~Passes(T, b), NEW q \in Tried(T) PROVE ~Passes(T, q) /\ Dist(b, Better) <= Dist(q, Better)
  <2>1. ~Passes(T, q) /\ Score(T[q]) <= Score(T[b])
    BY <1>5 DEF Optimal
  <2>2. ~(Dist(q, Better) < Dist(b, Better))
    BY <1>1, <1>3, <2>1
  <2> QED  BY <1>1, <1>2, <2>1, <2>2
<1> QED  BY <1>4, <1>5

\* From the best of at least two attempts on falling curves, none of them accepted, the
\* dispatch either goes on or has found the frontier.
LEMMA DispatchFinds ==
    ASSUME NEW T \in Curves, NEW new \in Tried(T), NEW b \in Tried(T), NEW flag \in BOOLEAN,
           \E q \in Tried(T) : q # b,
           Falls(T), Pending(T), Optimal(T, b), Grid(T),
           NEW p \in Dispatch(T, b, flag, new)
    PROVE  (p # None => OnGrid(p)) /\ (p = None => Found(T, b))
<1> DEFINE worse  == Nearest(WorseSide(T, b), b)
           better == Nearest(BetterSide(T, b), b)
<1>1. /\ Tried(T) \subseteq Int /\ Tried(T) \subseteq Qualities
      /\ Better \in Int /\ Worse \in Int /\ Better \in Qualities /\ Worse \in Qualities
  BY TriedType, QualitiesType, RangeAssumption
<1>2. \A q \in Tried(T) : q = b \/ q \in BetterSide(T, b) \/ q \in WorseSide(T, b)
  BY <1>1 DEF BetterSide, WorseSide, Qualities
<1>3. ASSUME WorseSide(T, b) # {}
      PROVE  worse \in Tried(T) /\ Neighbours(T, b, worse) /\ Dist(worse, Better) > Dist(b, Better)
  <2>1. worse \in WorseSide(T, b) /\ \A q \in WorseSide(T, b) : Dist(worse, b) <= Dist(q, b)
    BY <1>1, <1>3, NearestExists DEF WorseSide
  <2> HIDE DEF worse
  <2>2. ASSUME NEW q \in Tried(T), (b < q /\ q < worse) \/ (worse < q /\ q < b) PROVE FALSE
    <3>1. q \in WorseSide(T, b)
      BY <1>1, <2>1, <2>2 DEF WorseSide, Qualities
    <3> QED  BY <1>1, <2>1, <2>2, <3>1 DEF WorseSide
  <2> QED  BY <2>1, <2>2 DEF Neighbours, WorseSide
<1>4. ASSUME BetterSide(T, b) # {}
      PROVE  better \in Tried(T) /\ Dist(better, Better) < Dist(b, Better)
  BY <1>1, <1>4, NearestExists DEF BetterSide
<1>5. \A q \in Tried(T) : Score(T[q]) \in Int
  BY TriedType, ScoreSign
<1> HIDE DEF worse, better
\* Interpolation between the best, which passes, and the miss next to it.
<1>6. ASSUME Passes(T, b), WorseSide(T, b) # {}
      PROVE  /\ ~Passes(T, worse)
             /\ p \in Interpolate(T, new, b, worse) => (p # None => OnGrid(p)) /\ (p = None => Found(T, b))
  <2>1. worse \in Tried(T) /\ Neighbours(T, b, worse) /\ Dist(worse, Better) > Dist(b, Better)
    BY <1>3, <1>6
  <2>2. ~Passes(T, worse)
    <3>1. Passes(T, worse) <=> Dist(worse, Better) <= Dist(b, Better)
      BY <1>6, <2>1, BestSplits
    <3> QED  BY <1>1, <2>1, <3>1
  <2>3. worse # b
    BY <1>6, <2>2
  <2>4. ASSUME p \in Interpolate(T, new, b, worse)
        PROVE  (p # None => OnGrid(p)) /\ (p = None => Dist(b, worse) = Granularity)
    BY <2>1, <2>3, <2>4, InterpolateFinds
  <2>5. Dist(b, worse) = Granularity => Found(T, b)
    BY <1>6, <2>1, <2>2 DEF Found
  <2> QED  BY <2>2, <2>4, <2>5
\* Extrapolation past the best, when its own end of the range was not attempted.
<1>7. ASSUME ~OutwardTested(T, b), NEW n \in Tried(T),
             \A q \in Tried(T) : Passes(T, q) = Passes(T, b),
             Passes(T, b) => WorseSide(T, b) = {}, p \in ExtrapolateOutward(T, new, b, n)
      PROVE  Continues(p)
  <2> DEFINE end == IF Passes(T, b) THEN Worse ELSE Better
  <2>1. end # b /\ end \notin Tried(T)
    BY <1>7 DEF OutwardTested
  <2>2. Abs(Score(T[b])) <= Abs(Score(T[n]))
    <3>1. CASE Passes(T, b)
      <4>1. Passes(T, n) /\ Score(T[b]) <= Score(T[n])
        BY <1>7, <3>1 DEF Optimal
      <4> QED  BY <1>5, <3>1, <4>1 DEF Passes
    <3>2. CASE ~Passes(T, b)
      <4>1. ~Passes(T, n) /\ Score(T[n]) <= Score(T[b])
        BY <1>7, <3>2 DEF Optimal
      <4> QED  BY <1>5, <3>2, <4>1 DEF Passes
    <3> QED  BY <3>1, <3>2
  <2>3. ASSUME NEW q \in Tried(T) PROVE Dist(b, end) <= Dist(q, end)
    <3>1. CASE Passes(T, b)
      <4>1. q \notin WorseSide(T, b) /\ end = Worse
        BY <1>7, <3>1
      <4> HIDE DEF end
      <4> QED  BY <1>1, <4>1 DEF WorseSide, Qualities
    <3>2. CASE ~Passes(T, b)
      <4>1. end = Better /\ Dist(b, Better) <= Dist(q, Better)
        BY <3>2, BestSplits
      <4> HIDE DEF end
      <4> QED  BY <4>1
    <3> QED  BY <3>1, <3>2
  <2>4. end = (IF Passes(T, b) THEN Worse ELSE Better)
    OBVIOUS
  <2> HIDE DEF end
  <2> QED  BY <1>7, <2>1, <2>2, <2>3, <2>4, ExtrapolateFinds
<1>8. CASE ~Passes(T, b)
  <2>1. \A q \in Tried(T) : ~Passes(T, q) /\ Dist(b, Better) <= Dist(q, Better)
    BY <1>8, BestSplits
  <2>2. BetterSide(T, b) = {}
    BY <1>1, <2>1 DEF BetterSide
  <2>3. WorseSide(T, b) # {}
    BY <1>2, <2>2
  <2>4. worse \in Tried(T) /\ ~Passes(T, worse) /\ worse # b
    BY <1>1, <1>3, <2>1, <2>3
  <2>5. p \in Fork2(T, b, worse, flag, new)
    BY <2>2 DEF Dispatch, worse
  <2>8. \A q \in Tried(T) : Passes(T, q) = Passes(T, b)
    BY <1>5, <1>8, <2>1 DEF Passes
  <2>6. CASE ~OutwardTested(T, b)
    <3>1. p \in ExtrapolateOutward(T, new, b, worse)
      BY <2>4, <2>5, <2>6, <2>8 DEF Fork2
    <3>2. Continues(p)
      BY <1>7, <1>8, <2>4, <2>6, <2>8, <3>1
    <3> QED  BY <3>2 DEF Continues
  <2>7. CASE OutwardTested(T, b)
    <3>1. Better \in Tried(T)
      BY <1>8, <2>7 DEF OutwardTested
    <3>2. b = Better
      BY <1>1, <2>1, <3>1
    <3>3. p \in Between(new, b, worse) \/ p = None
      BY <2>4, <2>5, <2>7, <2>8 DEF Fork2
    <3>4. p # None => OnGrid(p)
      BY <2>4, <3>3, BetweenOnGrid
    <3> QED  BY <1>8, <3>2, <3>4 DEF Found
  <2> QED  BY <2>6, <2>7
<1>9. CASE Passes(T, b) /\ WorseSide(T, b) = {}
  <2>1. BetterSide(T, b) # {}
    BY <1>2, <1>9
  <2>2. \A q \in Tried(T) : Passes(T, q)
    <3> SUFFICES ASSUME NEW q \in Tried(T) PROVE Passes(T, q)
      OBVIOUS
    <3>1. q \notin WorseSide(T, b)
      BY <1>9
    <3>2. Dist(q, Better) <= Dist(b, Better)
      BY <1>1, <3>1 DEF WorseSide
    <3> QED  BY <1>9, <3>2, BestSplits
  <2>3. better \in Tried(T) /\ Passes(T, better)
    BY <1>4, <2>1, <2>2
  <2>4. p \in Fork2(T, b, better, flag, new)
    BY <1>9, <2>1 DEF Dispatch, better
  <2>5. CASE ~OutwardTested(T, b)
    <3>1. p \in ExtrapolateOutward(T, new, b, better)
      BY <1>9, <2>3, <2>4, <2>5 DEF Fork2
    <3>2. Continues(p)
      BY <1>7, <1>9, <2>2, <2>3, <2>5, <3>1
    <3> QED  BY <3>2 DEF Continues
  <2>6. CASE OutwardTested(T, b)
    <3>1. Worse \in Tried(T)
      BY <1>9, <2>6 DEF OutwardTested
    <3>2. b = Worse
      BY <1>1, <1>9, <3>1 DEF WorseSide, Qualities
    <3>3. p = None
      BY <1>9, <2>3, <2>4, <2>6 DEF Fork2, MidpointDue
    <3> QED  BY <1>9, <3>2, <3>3 DEF Found
  <2> QED  BY <2>5, <2>6
<1>10. CASE Passes(T, b) /\ WorseSide(T, b) # {}
  <2>1. ~Passes(T, worse)
    BY <1>6, <1>10
  <2>2. p \in Interpolate(T, new, b, worse)
    <3>1. CASE BetterSide(T, b) = {}
      <4>1. p \in Fork2(T, b, worse, flag, new)
        BY <3>1 DEF Dispatch, worse
      <4> QED  BY <1>10, <2>1, <4>1 DEF Fork2
    <3>2. CASE BetterSide(T, b) # {}
      <4>1. p \in Fork3(T, b, better, worse, new)
        BY <1>10, <3>2 DEF Dispatch, worse, better
      <4> QED  BY <1>10, <2>1, <4>1 DEF Fork3
    <3> QED  BY <3>1, <3>2
  <2> QED  BY <1>6, <1>10, <2>2
<1> QED  BY <1>8, <1>9, <1>10

\* Besides what IInv and BestIsOptimal say: the attempts lie on falling curves, they and
\* the next proposal on the grid, and a search that goes on has accepted nothing.
FrontierInv ==
    /\ IInv
    /\ BestIsOptimal
    /\ Falls(tested)
    /\ Grid(tested)
    /\ proposal # None => OnGrid(proposal) /\ Pending(tested)
    /\ FrontierFound

\* Recording an attempt on falling curves preserves the invariant.
LEMMA RecordFrontier ==
    ASSUME Monotone, FrontierInv, NEW m \in Metrics, Record(m)
    PROVE  FrontierInv'
<1> DEFINE T == [tested EXCEPT ![proposal] = m]
           b == IF Score(m) = 0 \/ Improves(T, proposal) THEN proposal ELSE best
           flag == probed /\ b = best
           only == Tried(tested) = {}
<1>1. /\ proposal \in Qualities /\ tested[proposal] = Untested /\ tested \in Curves /\ probed \in BOOLEAN
      /\ best = None => Tried(tested) = {}
      /\ proposal # None
  BY DEF FrontierInv, IInv, TypeOK, FreshProposal, Record, Curves
<1>2. T \in Curves /\ Tried(T) = Tried(tested) \cup {proposal} /\ proposal \notin Tried(tested)
  BY <1>1, DataAssumption DEF Curves, Tried
<1>3. T[proposal] = m /\ \A q \in Tried(tested) : T[q] = tested[q]
  BY <1>1, <1>2 DEF Curves, Tried
<1>4. tested' = T /\ best' = b
  BY DEF Record
<1>5. IInv' /\ BestIsOptimal'
  BY RecordIInv, RecordOptimal DEF FrontierInv
<1>6. b \in Tried(T) /\ Optimal(T, b)
  <2> HIDE DEF T, b
  <2>1. \A q \in Tried(T) : b \in Tried(T) /\ (Passes(T, q) => Passes(T, b) /\ Score(T[b]) <= Score(T[q]))
                            /\ (~Passes(T, b) => Score(T[q]) <= Score(T[b]))
    BY <1>4, <1>5 DEF BestIsOptimal, Tried, Passes
  <2> QED  BY <1>2, <2>1 DEF Optimal
<1>7. Falls(T)
  <2>1. \A p \in Tried(tested) : \A t \in Targets :
          /\ Dist(p, Better) < Dist(proposal, Better) => tested[p][t] > m[t]
          /\ Dist(p, Better) > Dist(proposal, Better) => tested[p][t] < m[t]
    BY DEF Record, Measurable
  <2>2. \A p \in Tried(T) : p \in Int /\ \A t \in Targets : T[p][t] \in Int
    <3> HIDE DEF T
    <3>1. \A p \in Tried(T) : p \in Int /\ T[p] \in Metrics
      BY <1>2, TriedType
    <3> QED  BY <3>1, DataAssumption DEF Metrics
  <2>3. Falls(tested) /\ Better \in Int
    BY RangeAssumption DEF FrontierInv
  <2> SUFFICES ASSUME NEW p \in Tried(T), NEW q \in Tried(T), Dist(p, Better) < Dist(q, Better), NEW t \in Targets
               PROVE  T[p][t] > T[q][t]
    BY DEF Falls
  <2>4. CASE p = proposal /\ q = proposal
    <3>1. proposal \in Int
      BY <1>1, QualitiesType
    <3> HIDE DEF T
    <3> QED  BY <2>3, <2>4, <3>1
  <2>5. CASE p # proposal /\ q # proposal
    <3>1. p \in Tried(tested) /\ q \in Tried(tested) /\ T[p] = tested[p] /\ T[q] = tested[q]
      BY <1>2, <1>3, <2>5
    <3> HIDE DEF T
    <3> QED  BY <2>3, <3>1 DEF Falls
  <2>6. CASE p # proposal /\ q = proposal
    <3>1. p \in Tried(tested) /\ T[p] = tested[p] /\ T[q] = m
      BY <1>2, <1>3, <2>6
    <3> HIDE DEF T
    <3> QED  BY <2>1, <2>6, <3>1
  <2>7. CASE p = proposal /\ q # proposal
    <3>1. q \in Tried(tested) /\ T[q] = tested[q] /\ T[p] = m
      BY <1>2, <1>3, <2>7
    <3> HIDE DEF T
    <3>2. Dist(q, Better) > Dist(proposal, Better) /\ T[p][t] \in Int /\ T[q][t] \in Int
      BY <2>2, <2>3, <2>7
    <3> QED  BY <2>1, <3>1, <3>2
  <2> QED  BY <2>4, <2>5, <2>6, <2>7
<1>8. Grid(T)
  BY <1>1, <1>2 DEF FrontierInv, Grid
<1>9. ASSUME Score(m) # 0 PROVE Pending(T)
  BY <1>1, <1>2, <1>3, <1>9 DEF FrontierInv, Pending
<1>10. /\ proposal' # None => OnGrid(proposal') /\ Pending(T)
       /\ proposal' = None => Found(T, b)
  <2>1. CASE Score(m) = 0
    <3>1. proposal' = None /\ b = proposal
      BY <2>1 DEF Record
    <3> QED  BY <1>3, <2>1, <3>1 DEF Found
  <2>2. CASE Score(m) # 0 /\ only
    <3>1. Tried(T) = {proposal} /\ b = proposal
      BY <1>2, <1>6, <2>2
    <3>2. proposal' \in FirstStep(T, proposal)
      BY <2>2 DEF Record
    <3> HIDE DEF T, b
    <3>3. PICK p : p = proposal'
      OBVIOUS
    <3>4. IF proposal = (IF Passes(T, proposal) THEN Worse ELSE Better) THEN p = None ELSE Continues(p)
      BY <1>2, <1>8, <3>1, <3>2, <3>3, FirstStepFinds
    <3>5. p # None => OnGrid(p)
      BY <3>4 DEF Continues
    <3>6. p = None => Found(T, b)
      BY <3>1, <3>4 DEF Continues, Found
    <3> QED  BY <1>9, <2>2, <3>3, <3>5, <3>6
  <2>3. CASE Score(m) # 0 /\ ~only
    <3>1. proposal' \in Dispatch(T, b, flag, proposal)
      BY <2>3 DEF Record
    <3>2. \E q \in Tried(T) : q # b
      <4> PICK q \in Tried(tested) : TRUE
        BY <2>3
      <4> q \in Tried(T) /\ proposal \in Tried(T) /\ q # proposal
        BY <1>2
      <4> HIDE DEF T, b
      <4> QED OBVIOUS
    <3>3. flag \in BOOLEAN
      BY <1>1
    <3>4. proposal \in Tried(T) /\ Pending(T)
      BY <1>2, <1>9, <2>3
    <3> HIDE DEF T, b, flag
    <3>5. PICK p : p = proposal'
      OBVIOUS
    <3>6. (p # None => OnGrid(p)) /\ (p = None => Found(T, b))
      BY <1>2, <1>6, <1>7, <1>8, <3>1, <3>2, <3>3, <3>4, <3>5, DispatchFinds
    <3> QED  BY <3>4, <3>5, <3>6
  <2> QED  BY <2>1, <2>2, <2>3
<1> HIDE DEF T, b
<1>11. Falls(tested)' /\ Grid(tested)' /\ (Pending(T) => Pending(tested)') /\ (Found(T, b) => Found(tested, best)')
  BY <1>4, <1>7, <1>8 DEF Falls, Grid, Pending, Found, Tried, OnGrid, Passes
<1>12. (proposal' # None => OnGrid(proposal)' /\ Pending(tested)')
  BY <1>10, <1>11 DEF OnGrid
<1>13. FrontierFound'
  BY <1>10, <1>11 DEF FrontierFound, Done, Found
<1> QED  BY <1>5, <1>11, <1>12, <1>13 DEF FrontierInv

\* On curves that fall from Better to Worse, with the ends and the start of the search on
\* the grid of the granularity, every search that ends has an attempt accepted at once, or
\* the last pass of the grid before a known miss (or before the end of the range), or a miss
\* at the very best quality: for every range, granularity, step limit, set of targets and
\* set of deficits.
THEOREM FindsFrontier ==
    ASSUME Monotone, OnGrid(Better), OnGrid(Worse), OnGrid(Default)
    PROVE  Spec => []FrontierFound
<1>1. Init => FrontierInv
  <2> SUFFICES ASSUME Init PROVE FrontierInv
    OBVIOUS
  <2>1. Tried(tested) = {} /\ proposal = Default /\ ~Done
    BY QualitiesType DEF Init, Tried, Done
  <2> QED  BY <2>1, InitIInv DEF FrontierInv, BestIsOptimal, Falls, Grid, Pending, FrontierFound
<1>2. FrontierInv /\ [Next]_vars => FrontierInv'
  <2> SUFFICES ASSUME FrontierInv, [Next]_vars PROVE FrontierInv'
    OBVIOUS
  <2>1. CASE Next
    BY <2>1, RecordFrontier DEF Next
  <2>2. CASE UNCHANGED vars
    BY <2>2 DEF vars, FrontierInv, IInv, TypeOK, FreshProposal, SlotsFollowBest, BestIsOptimal, Falls, Grid,
                OnGrid, Pending, FrontierFound, Done, Passes, Tried
  <2> QED  BY <2>1, <2>2
<1>3. FrontierInv => FrontierFound
  BY DEF FrontierInv
<1> QED  BY <1>1, <1>2, <1>3, PTL DEF Spec

\* Every turn of the attempt loop leaves fewer qualities of the range untried, and the
\* range is finite: the loop cannot go on for ever, whatever the encodes measure.
Left == Qualities \ Tried(tested)
THEOREM Advances == Spec => [][Left' \subseteq Left /\ Left' # Left /\ IsFiniteSet(Left)]_vars
<1> DEFINE Fewer == Left' \subseteq Left /\ Left' # Left /\ IsFiniteSet(Left)
<1>1. IInv /\ [Next]_vars => [Fewer]_vars
  <2> SUFFICES ASSUME IInv, NEW m \in Metrics, Record(m) PROVE Fewer
    BY DEF Next
  <2> DEFINE T == [tested EXCEPT ![proposal] = m]
  <2>1. proposal \in Qualities /\ tested[proposal] = Untested /\ tested \in Curves /\ tested' = T
    BY DEF IInv, TypeOK, FreshProposal, Record, Curves
  <2>2. Tried(T) = Tried(tested) \cup {proposal} /\ proposal \notin Tried(tested)
    BY <2>1, DataAssumption DEF Curves, Tried
  <2>3. Left' = Qualities \ Tried(T)
    <3> HIDE DEF T
    <3> QED  BY <2>1 DEF Left, Tried
  <2>4. IsFiniteSet(Left)
    <3>1. IsFiniteSet(Qualities)
      BY FS_Interval, RangeAssumption DEF Qualities
    <3> QED  BY <3>1, FS_Subset DEF Left
  <2> HIDE DEF T
  <2> QED  BY <2>1, <2>2, <2>3, <2>4 DEF Left
<1> HIDE DEF Fewer
<1>2. Spec => [][Fewer]_vars
  BY Invariance, <1>1, PTL DEF Spec
<1> QED  BY <1>2 DEF Fewer
================================================================================
