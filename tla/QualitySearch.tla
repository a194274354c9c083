----------------------------- MODULE QualitySearch -----------------------------
(***************************************************************************)
(* The per-chunk quality search: QualitySearchV3 (quality.py) driven by    *)
(* the attempt loop of ChunkEncoder.encode_chunk (phases/encoding.py).     *)
(*                                                                         *)
(* Qualities are integers counting units of the exponent of the codec's    *)
(* granularity (0.5 = 5 units of 0.1).  A measurement is one integer       *)
(* deficit per target (MetricInfo.deficit: >= 0 meets the target).  The    *)
(* interpolation runs on exact fractions; the code's float t is taken at   *)
(* its exact value.                                                        *)
(***************************************************************************)
EXTENDS Integers, FiniteSetsExt

CONSTANTS
    Better, Worse,   \* codec.quality_better / quality_worse: the two ends of the range
    Granularity,     \* codec.quality_granularity
    MaxStep,         \* codec.quality_max_step; 0 stands for its None
    Default,         \* codec.default_quality, where encode_chunk starts
    Targets,         \* the quality targets, numbered in their list order
    Weight,          \* target -> common multiple of the comparison_ranges / its own
    Delta,           \* target -> acceptance_delta
    Deficits,        \* the deficits a measurement can show
    Monotone,        \* TRUE: every curve strictly falls from Better to Worse
    Untested, None   \* no measurement yet; no quality

Qualities == IF Better <= Worse THEN Better .. Worse ELSE Worse .. Better
Metrics   == [Targets -> Deficits]

ASSUME RangeAssumption ==
    /\ Better \in Int /\ Worse \in Int
    /\ Granularity \in Nat \ {0} /\ MaxStep \in Nat
    /\ Default \in Qualities
ASSUME DataAssumption ==
    /\ IsFiniteSet(Targets) /\ Targets # {} /\ Targets \subseteq Nat
    /\ Deficits \subseteq Int
    /\ Weight \in [Targets -> Nat \ {0}]
    /\ Untested \notin Metrics
    /\ None \notin Int

VARIABLES
    tested,        \* _attempted_points: quality -> its metrics
    best,          \* _best_score_point.q
    probed,        \* _midpoint_probe_flag
    proposal,      \* encode_chunk's current_q; None once the search is exhausted
    finalAttempt,  \* encode_chunk's final_attempt (its quality)
    bestFail       \* encode_chunk's best_fail_attempt (its quality)
vars == <<tested, best, probed, proposal, finalAttempt, bestFail>>
--------------------------------------------------------------------------------
(* Scoring.                                                                *)

\* find_worst_target: the first target with the smallest deficit.
WorstTarget(m) ==
    CHOOSE t \in Targets : \A u \in Targets : m[t] < m[u] \/ (m[t] = m[u] /\ t <= u)

\* _score_attempt: negative sum of the misses, else 0 when the tightest
\* surplus is within its delta, else the sum of the surpluses.
Score(m) ==
    LET failing == {t \in Targets : m[t] < 0}
        tight   == WorstTarget(m)
        Sum(S)  == MapThenSumSet(LAMBDA t : Weight[t] * m[t], S)
    IN  IF failing # {} THEN Sum(failing)
        ELSE IF m[tight] <= Delta[tight] THEN 0 ELSE Sum(Targets)

Abs(n) == IF n < 0 THEN -n ELSE n
Dist(p, q) == Abs(p - q)

Tried(T)   == {q \in Qualities : T[q] # Untested}
Passes(T, q) == Score(T[q]) >= 0

\* The attempts whose score is closest to zero among S.  min() takes the first
\* recorded of equals; the order of recording is not kept, so any of them may be it.
ClosestToZero(T, S) == {q \in S : \A p \in S : Abs(Score(T[q])) <= Abs(Score(T[p]))}
--------------------------------------------------------------------------------
(* Post-processing of a raw candidate: step clamp, granularity snap, range *)
(* clamp.  A raw candidate is a fraction [num, den] with den > 0.          *)

Frac(n, d) == IF d < 0 THEN [num |-> -n, den |-> -d] ELSE [num |-> n, den |-> d]

\* Decimal.to_integral_value(ROUND_HALF_EVEN) of n/d.
RoundHalfEven(n, d) ==
    LET f == n \div d
        r == 2 * (n % d)
    IN  IF r < d \/ (r = d /\ f % 2 = 0) THEN f ELSE f + 1

\* Mutant: the candidate is rounded to the unit of the exponent.
SnapToUnit(raw) == RoundHalfEven(raw.num, raw.den)
Snap(raw) == Granularity * RoundHalfEven(raw.num, raw.den * Granularity)

StepClamp(raw, from) ==
    LET step == raw.num - from * raw.den
    IN  IF MaxStep = 0 \/ Abs(step) <= MaxStep * raw.den THEN raw
        ELSE Frac(IF step > 0 THEN from + MaxStep ELSE from - MaxStep, 1)

\* A boundary of a clamp: an attempted point, or the untested end of the range.
Point(q)    == [q |-> q, sentinel |-> FALSE]
Sentinel(q) == [q |-> q, sentinel |-> TRUE]

\* Mutant: the lower bound is computed and never applied.
ClampAbove(q, worse, better) ==
    LET lower  == IF better.q <= worse.q THEN better.q ELSE worse.q
        upper  == IF better.q <= worse.q THEN worse.q ELSE better.q
        hi == IF \E p \in {worse, better} : p.sentinel /\ p.q = upper
              THEN upper ELSE upper - Granularity
    IN  IF lower > hi THEN None ELSE IF hi <= q THEN hi ELSE q

\* _clamp_to_range: an attempted end is excluded, a sentinel end is included.
ClampToRange(q, worse, better) ==
    LET lower  == IF better.q <= worse.q THEN better.q ELSE worse.q
        upper  == IF better.q <= worse.q THEN worse.q ELSE better.q
        Open(e) == \E p \in {worse, better} : p.sentinel /\ p.q = e
        lo == IF Open(lower) THEN lower ELSE lower + Granularity
        hi == IF Open(upper) THEN upper ELSE upper - Granularity
        capped == IF hi <= q THEN hi ELSE q
    IN  IF lo > hi THEN None ELSE IF lo >= capped THEN lo ELSE capped

FinalizeQ(raw, from, worse, better) ==
    ClampToRange(Snap(StepClamp(raw, from)), worse, better)

\* Mutant: the repeated candidate is returned.
NextAlways(T, q) == q

\* _next_or_exhaust.
NextOrExhaust(T, q) == IF q \in Tried(T) THEN None ELSE q
--------------------------------------------------------------------------------
(* The forks.  Each gives the set of the proposals it may return.          *)

\* Where the deficits of target t at qualities a and b put the zero crossing;
\* defined when they differ.
Project(T, t, a, b) ==
    LET span == T[a][t] - T[b][t]
    IN  Frac(a * span + T[a][t] * (b - a), span)
Slopes(T, t, a, b) == T[a][t] # T[b][t]
Mid(a, b) == Frac(a + b, 2)

\* _phase0_first_attempt: half the distance to the relevant end.
FirstStep(T, new) ==
    LET pass     == Passes(T, new)
        boundary == IF pass THEN Worse ELSE Better
    IN  {NextOrExhaust(T,
           FinalizeQ(Mid(new, boundary), new,
                     IF pass THEN Sentinel(Worse) ELSE Point(new),
                     IF pass THEN Point(new) ELSE Sentinel(Better)))}

\* _fork_2point_different_sides with _compute_next_quality: the crossing of the
\* newest attempt's worst target, else of the opposite end's, else the middle.
Interpolate(T, new, pass, fail) ==
    LET own      == WorstTarget(T[new])
        opposite == WorstTarget(T[IF Passes(T, new) THEN fail ELSE pass])
        raw == IF Slopes(T, own, pass, fail) THEN Project(T, own, pass, fail)
               ELSE IF Slopes(T, opposite, pass, fail) THEN Project(T, opposite, pass, fail)
               ELSE Mid(pass, fail)
    IN  {NextOrExhaust(T, FinalizeQ(raw, new, Point(fail), Point(pass)))}

\* _extrapolate_outward: past the two same-side attempts p1 (the best) and p2,
\* up to the closest attempt of the other side, else to the end of the range.
ExtrapolateOutward(T, new, p1, p2) ==
    LET closer  == IF Abs(Score(T[p1])) <= Abs(Score(T[p2])) THEN p1 ELSE p2
        further == IF closer = p1 THEN p2 ELSE p1
        others  == {q \in Tried(T) : Passes(T, q) # Passes(T, p1)}
        clamps  == IF others # {} THEN {Point(q) : q \in ClosestToZero(T, others)}
                   ELSE {Sentinel(IF Passes(T, p1) THEN Worse ELSE Better)}
        t       == WorstTarget(T[further])
        Raw(c)  == IF Slopes(T, t, closer, further) THEN Project(T, t, closer, further)
                   ELSE Mid(further, c.q)
    IN  {NextOrExhaust(T, FinalizeQ(Raw(c), new, c, Point(closer))) : c \in clamps}

\* The middle of two neighbouring attempts (_midpoint_probe, _fork_3point_same_side).
Between(new, p1, p2) ==
    LET p1Worse == Dist(p1, Worse) < Dist(p2, Worse)
    IN  {FinalizeQ(Mid(p1, p2), new, Point(IF p1Worse THEN p1 ELSE p2),
                                     Point(IF p1Worse THEN p2 ELSE p1))}

\* Mutant: the best and its neighbour are taken for all there is on their side.
OutwardAssumed(T, b) == TRUE

\* _fork_2point_same_side extrapolates until the outward end itself is attempted.
OutwardTested(T, b) == (IF Passes(T, b) THEN Worse ELSE Better) \in Tried(T)
MidpointDue(T, b, p) == OutwardTested(T, b) /\ ~p /\ ~Passes(T, b)

\* _fork_2point: the best has one neighbour n; p is the midpoint-probe flag.
Fork2(T, b, n, p, new) ==
    IF Passes(T, b) # Passes(T, n)
    THEN Interpolate(T, new, IF Passes(T, b) THEN b ELSE n, IF Passes(T, b) THEN n ELSE b)
    ELSE IF ~OutwardTested(T, b) THEN ExtrapolateOutward(T, new, b, n)
    ELSE IF MidpointDue(T, b, p) THEN Between(new, b, n)
    ELSE {None}

\* _fork_3point: lower is the best's neighbour on the better-quality side, upper
\* the one on the worse-quality side.
Fork3(T, b, lower, upper, new) ==
    LET Pair(n) == Interpolate(T, new, IF Passes(T, b) THEN b ELSE n,
                                       IF Passes(T, b) THEN n ELSE b)
        left  == Dist(b, lower)
        right == Dist(upper, b)
    IN  IF Passes(T, upper) # Passes(T, b) THEN Pair(upper)
        ELSE IF Passes(T, lower) # Passes(T, b) THEN Pair(lower)
        ELSE IF left >= right
             THEN IF left <= Granularity THEN {None} ELSE Between(new, lower, b)
             ELSE IF right <= Granularity THEN {None} ELSE Between(new, b, upper)

\* The best's neighbours among the attempts, sorted from Better to Worse.
Nearest(S, b) == CHOOSE q \in S : \A p \in S : Dist(q, b) <= Dist(p, b)
BetterSide(T, b) == {q \in Tried(T) : Dist(q, Better) < Dist(b, Better)}
WorseSide(T, b)  == {q \in Tried(T) : Dist(q, Better) > Dist(b, Better)}

\* _phase_select_and_dispatch.
Dispatch(T, b, p, new) ==
    IF BetterSide(T, b) = {} THEN Fork2(T, b, Nearest(WorseSide(T, b), b), p, new)
    ELSE IF WorseSide(T, b) = {} THEN Fork2(T, b, Nearest(BetterSide(T, b), b), p, new)
    ELSE Fork3(T, b, Nearest(BetterSide(T, b), b), Nearest(WorseSide(T, b), b), new)

\* The one case of Dispatch that sets _midpoint_probe_flag.
ProbesMidpoint(T, b, p) ==
    LET n == Nearest(IF BetterSide(T, b) = {} THEN WorseSide(T, b) ELSE BetterSide(T, b), b)
    IN  /\ BetterSide(T, b) = {} \/ WorseSide(T, b) = {}
        /\ Passes(T, b) = Passes(T, n)
        /\ MidpointDue(T, b, p)
--------------------------------------------------------------------------------
(* The search driven by the attempt loop.                                  *)

\* Mutant: any pass replaces the best, however generous.
ImprovesByPassing(T, new) ==
    LET s == Score(T[new])
    IN  best = None \/ s >= 0 \/ (~Passes(T, best) /\ s > Score(T[best]))

\* record(): whether the new attempt replaces the best one.
Improves(T, new) ==
    LET s == Score(T[new])
    IN  \/ best = None
        \/ s >= 0 /\ ~Passes(T, best)
        \/ s >= 0 /\ s < Score(T[best])
        \/ s < 0 /\ ~Passes(T, best) /\ s > Score(T[best])

\* What encoding at q may measure: anything, or a value on a falling curve.
Measurable(q, m) ==
    Monotone => \A p \in Tried(tested) : \A t \in Targets :
                   /\ Dist(p, Better) < Dist(q, Better) => tested[p][t] > m[t]
                   /\ Dist(p, Better) > Dist(q, Better) => tested[p][t] < m[t]

\* One turn of encode_chunk's loop: the attempt at the proposed quality is
\* measured, recorded, and the two attempt slots follow the search's best.
Record(m) ==
    LET new  == proposal
        T    == [tested EXCEPT ![new] = m]
        b    == IF Score(m) = 0 \/ Improves(T, new) THEN new ELSE best
        flag == probed /\ b = best
        only == Tried(tested) = {}
    IN  /\ proposal # None
        /\ Measurable(new, m)
        /\ tested' = T
        /\ best' = b
        /\ probed' = (flag \/ (Score(m) # 0 /\ ~only /\ ProbesMidpoint(T, b, flag)))
        /\ IF Score(m) = 0 THEN proposal' = None
           ELSE IF only THEN proposal' \in FirstStep(T, new)
           ELSE proposal' \in Dispatch(T, b, flag, new)
        /\ finalAttempt' = IF Passes(T, b) /\ (best = None \/ b # best) THEN new ELSE finalAttempt
        /\ bestFail' = IF ~Passes(T, b) /\ b = new THEN new ELSE bestFail

Init ==
    /\ tested = [q \in Qualities |-> Untested]
    /\ best = None
    /\ probed = FALSE
    /\ proposal = Default
    /\ finalAttempt = None
    /\ bestFail = None

Next == \E m \in Metrics : Record(m)

Done == proposal = None

Spec == Init /\ [][Next]_vars

\* Weak fairness of the loop, WF_vars(Next), with its ENABLED written out: a turn
\* of the loop is possible until record() returns None.
FairSpec == Spec /\ ([]<>Done \/ []<><<TRUE>>_vars)
--------------------------------------------------------------------------------

\* Mutant: the failed attempt takes precedence.
WinnerOfFails == IF bestFail # None THEN bestFail ELSE finalAttempt

\* The winner encode_chunk promotes.
Winner == IF finalAttempt # None THEN finalAttempt ELSE bestFail

\* Every variable keeps its type; in particular every proposal record() returns
\* lies inside the codec's range.
TypeOK ==
    /\ tested \in [Qualities -> Metrics \cup {Untested}]
    /\ {best, proposal, finalAttempt, bestFail} \subseteq Qualities \cup {None}
    /\ probed \in BOOLEAN

\* record() never returns a quality that was already attempted: an attempt is
\* never paid for twice and the loop cannot cycle.
FreshProposal == proposal # None => tested[proposal] = Untested

\* The best point is the optimum of everything recorded: the pass with the
\* smallest surplus when anything passed, else the miss closest to zero.
BestIsOptimal ==
    \A q \in Tried(tested) :
        /\ best \in Tried(tested)
        /\ Passes(tested, q) => Passes(tested, best) /\ Score(tested[best]) <= Score(tested[q])
        /\ ~Passes(tested, best) => Score(tested[q]) <= Score(tested[best])

\* When the loop ends, the attempt encode_chunk promotes is the one the search
\* reports as best_quality, whose value is written on the winner sidecar.
WinnerIsBest == Done => Winner = best /\ (Passes(tested, best) <=> finalAttempt # None)

\* On curves that fall from Better to Worse, the search ends with the cheapest
\* quality that meets the targets: an early acceptance, the worse end of the
\* range, or a pass whose next worse step is known to miss; and it gives up on
\* the targets only after the best quality of the range itself missed them.
FrontierFound ==
    Done => \/ Score(tested[best]) = 0
            \/ Passes(tested, best) /\ best = Worse
            \/ /\ Passes(tested, best)
               /\ \E q \in Tried(tested) : ~Passes(tested, q) /\ Dist(best, q) = Granularity
            \/ best = Better /\ ~Passes(tested, best)

\* The attempt loop ends.
Terminates == <>Done
================================================================================
