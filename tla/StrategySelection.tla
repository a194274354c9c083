--------------------------- MODULE StrategySelection ---------------------------
(***************************************************************************)
(* OptimizationPhase as a decision: which strategies a run goes on with,   *)
(* which of them anchors the measurements, and what of that decision       *)
(* survives in optimization.yaml for the next run.  EncodingStore has the  *)
(* attempts behind the winners; here a winner appears or does not, and     *)
(* what matters is what it weighs and how it measures.                     *)
(*                                                                         *)
(* A goal stands for the mode of a run and its key: a set of quality       *)
(* targets, or (in Fixed) a map of fixed qualities.  A winner encoded for  *)
(* a goal is the same file whenever it is encoded.  Runs measure (the      *)
(* measurement opt-out is not in Configs); the other keys of the ladder    *)
(* are EncodingStore's subject.  A run may be killed before any step.      *)
(***************************************************************************)
EXTENDS Integers, FiniteSetsExt

CONSTANTS
    Strategies,   \* numbers: the order of the plan
    Chunks, Goals, Fixed, Stats,
    Worlds,       \* goal -> strategy -> chunk -> the size and the statistics of the winner
    Delta,        \* statistic -> acceptance_delta of its metric
    Bases,        \* the test bases a fresh sample may pick
    Configs,      \* the configurations a run may come with
    MaxRuns, MaxKills, MaxFailures,
    None

Pairs == Strategies \X Chunks

ASSUME SelectionAssumption ==
    /\ Strategies \subseteq Nat /\ IsFiniteSet(Strategies) /\ IsFiniteSet(Chunks)
    /\ Fixed \subseteq Goals /\ Stats # {} /\ None \notin Goals
    /\ Delta \in [Stats -> Nat]
    /\ Bases \subseteq (SUBSET Chunks) \ {{}}
    /\ \A k \in Configs :
          /\ k.goal \in Goals /\ k.plan \subseteq Strategies /\ k.plan # {}
          /\ k.tolerance \in Nat /\ k.optimize \in BOOLEAN
    /\ {MaxRuns, MaxKills, MaxFailures} \subseteq Nat
    /\ Worlds \subseteq
          [Goals -> [Strategies -> [Chunks -> [size : Nat \ {0}, stats : [Stats -> Nat]]]]]

VARIABLES
    world,     \* what every winner would weigh and measure
    record,    \* optimization.yaml: the mode key (None: no file), test_chunks and summary
    winner,    \* <<strategy, chunk>> -> the goal its winner was encoded for, or None
    cfg,       \* the configuration of the current or last run
    step,      \* where the run is
    tests,     \* _test_chunks
    lost,      \* the pairs whose encode failed in this phase
    answer,    \* the phase's result: rows, selection, anchor
    settled,   \* the last answer this configuration was given without a loss
    budget     \* runs, kills and failures still to come
vars == <<world, record, winner, cfg, step, tests, lost, answer, settled, budget>>
disk == <<record, winner>>
--------------------------------------------------------------------------------
(* The comparison.  A row is the size and the worst statistics of a        *)
(* strategy's test winners; one without winners weighs 0 and measures      *)
(* nothing.                                                                *)
WorstOf(maps) == [t \in UNION {DOMAIN m : m \in maps} |->
                     Min({m[t] : m \in {n \in maps : t \in DOMAIN n}})]

Total(sizes) == MapThenSumSet(LAMBDA c : sizes[c], DOMAIN sizes)

\* A total of sizes is a number, and nothing only when there is nothing to add.
Sizes == {w[g][s][c].size : w \in Worlds, g \in Goals, s \in Strategies, c \in Chunks}
ASSUME TotalAssumption ==
    \A basis \in SUBSET Chunks : \A sizes \in [basis -> Sizes] :
        Total(sizes) \in Nat /\ (Total(sizes) = 0 <=> basis = {})

RowOf(takes) == [size  |-> Total([c \in DOMAIN takes |-> takes[c].size]),
                 stats |-> WorstOf({takes[c].stats : c \in DOMAIN takes})]

Row(s, basis) ==
    RowOf([c \in {d \in basis : winner[<<s, d>>] # None} |-> world[winner[<<s, c>>]][s][c]])

Table(plan, basis) == [s \in plan |-> Row(s, basis)]

Candidates(rows) == {s \in DOMAIN rows : rows[s].size > 0}
WithinBand(a, b, tolerance) == a.size * 100 <= b.size * (100 + tolerance)

\* Mutant: among near-equals the size does not decide.
DominatesAlike(a, b, tolerance) ==
    /\ DOMAIN a.stats # {} /\ DOMAIN a.stats = DOMAIN b.stats
    /\ WithinBand(a, b, tolerance)
    /\ \A t \in DOMAIN a.stats : a.stats[t] >= b.stats[t] - Delta[t]

\* a is at least as good as b up to the tolerances, and the size breaks the tie.
Dominates(a, b, tolerance) ==
    /\ DOMAIN a.stats # {} /\ DOMAIN a.stats = DOMAIN b.stats
    /\ WithinBand(a, b, tolerance)
    /\ \A t \in DOMAIN a.stats : a.stats[t] >= b.stats[t] - Delta[t]
    /\ \/ a.size < b.size
       \/ a.size = b.size /\ \A t \in DOMAIN a.stats : a.stats[t] > b.stats[t]

Survivors(rows, tolerance) ==
    {s \in Candidates(rows) :
        ~\E o \in Candidates(rows) \ {s} : Dominates(rows[o], rows[s], tolerance)}
NearSmallest(rows, tolerance) ==
    {s \in Candidates(rows) : \A o \in Candidates(rows) : WithinBand(rows[s], rows[o], tolerance)}

\* The smallest survivor that was measured, the first of the plan among equals.
Before(rows, s, o) == rows[s].size < rows[o].size \/ (rows[s].size = rows[o].size /\ s <= o)
Anchor(rows, survivors) ==
    LET eligible == {s \in survivors : DOMAIN rows[s].stats # {}}
    IN IF eligible = {} THEN None
       ELSE CHOOSE s \in eligible : \A o \in eligible : Before(rows, s, o)

Verdict(rows, k, replayed) ==
    LET picked == IF k.goal \in Fixed THEN Survivors(rows, k.tolerance)
                  ELSE NearSmallest(rows, k.tolerance)
    IN [rows |-> rows, selected |-> picked, replayed |-> replayed,
        anchor |-> IF k.goal \in Fixed THEN Anchor(rows, picked) ELSE None]
--------------------------------------------------------------------------------
(* The run. *)
NoRows     == [s \in {} |-> None]
Fresh(g)   == [goal |-> g, tests |-> {}, rows |-> NoRows]
\* Mutant: winners no record vouches for are kept.
OutdatedByRecord == record.goal \notin {None, cfg.goal}
Outdated   == record.goal # cfg.goal

\* Without a comparison to make every strategy of the plan goes on.
Compares == cfg.optimize /\ (cfg.goal \in Fixed \/ Cardinality(cfg.plan) > 1)

Missing(plan, basis) == {p \in plan \X basis : winner[p] = None}
Covers  == cfg.plan \subseteq DOMAIN record.rows

\* Mutant: the persisted table is not narrowed to the plan.
ReplayedWhole == record.rows
Replayed      == [s \in cfg.plan |-> record.rows[s]]

Ended == {"idle", "done", "failed", "crashed"}

Init == /\ world \in Worlds
        /\ record = Fresh(None) /\ winner = [p \in Pairs |-> None]
        /\ cfg = None /\ step = "idle" /\ tests = {} /\ lost = {}
        /\ answer = None /\ settled = None
        /\ budget = [runs |-> MaxRuns, kills |-> MaxKills, failures |-> MaxFailures]

Start(k) ==
    /\ step \in Ended /\ budget.runs > 0
    /\ cfg' = k /\ step' = "ladder" /\ tests' = {} /\ lost' = {} /\ answer' = None
    /\ settled' = IF k = cfg THEN settled ELSE None
    /\ budget' = [budget EXCEPT !.runs = @ - 1]
    /\ UNCHANGED <<world, disk>>

Kill == /\ step \notin Ended /\ budget.kills > 0
        /\ step' = "idle" /\ tests' = {} /\ lost' = {} /\ answer' = None
        /\ budget' = [budget EXCEPT !.kills = @ - 1]
        /\ UNCHANGED <<world, disk, cfg, settled>>

AfterLadder == IF Compares THEN "recover" ELSE "skip"

\* _wipe_encoded_dir, winner by winner.
Wipe(p) == /\ step = "ladder" /\ Outdated /\ winner[p] # None
           /\ winner' = [winner EXCEPT ![p] = None]
           /\ UNCHANGED <<world, record, cfg, step, tests, lost, answer, settled, budget>>

Ladder == /\ step = "ladder" /\ (Outdated => \A p \in Pairs : winner[p] = None)
          /\ record' = IF record.goal # None /\ Outdated THEN Fresh(cfg.goal) ELSE record
          /\ step' = AfterLadder
          /\ UNCHANGED <<world, winner, cfg, tests, lost, answer, settled, budget>>

\* _all_strategies
Everyone == [rows |-> NoRows, selected |-> cfg.plan, replayed |-> FALSE, anchor |-> None]
Skip == /\ step = "skip"
        /\ record' = Fresh(cfg.goal)
        /\ answer' = Everyone
        /\ settled' = answer' /\ step' = "curate"
        /\ UNCHANGED <<world, winner, cfg, tests, lost, budget>>

\* The persisted basis, or a fresh sample; then the table is replayed when no pair is missing.
\* Mutant: every run samples anew.
BasisAnew == Bases
Basis == IF record.tests # {} THEN {record.tests} ELSE Bases

Concluded(given) ==
    /\ answer' = given
    /\ step' = (IF given.selected = {} THEN "crashed" ELSE "curate")

Recover ==
    /\ step = "recover"
    /\ \E basis \in Basis :
          /\ tests' = basis
          /\ IF Missing(cfg.plan, basis) = {} /\ Covers
             THEN Concluded(Verdict(Replayed, cfg, TRUE))
             ELSE step' = "test" /\ UNCHANGED answer
    /\ UNCHANGED <<world, disk, cfg, lost, settled, budget>>

Encoded(p) == /\ winner' = [winner EXCEPT ![p] = cfg.goal] /\ UNCHANGED <<lost, budget>>
Failed(p)  == /\ budget.failures > 0
              /\ lost' = lost \cup {p} /\ budget' = [budget EXCEPT !.failures = @ - 1]
              /\ UNCHANGED winner

Test(p) == /\ step = "test" /\ p \in Missing(cfg.plan, tests) \ lost
           /\ Encoded(p) \/ Failed(p)
           /\ UNCHANGED <<world, record, cfg, step, tests, answer, settled>>

\* InsufficientSpaceError: the phase fails and saves nothing.
Refuse == /\ step = "test" /\ Missing(cfg.plan, tests) \ lost # {} /\ budget.failures > 0
          /\ step' = "failed" /\ budget' = [budget EXCEPT !.failures = @ - 1]
          /\ UNCHANGED <<world, disk, cfg, tests, lost, answer, settled>>

Compare ==
    /\ step = "test" /\ Missing(cfg.plan, tests) \subseteq lost
    /\ LET rows == Table(cfg.plan, tests)
       IN /\ record' = [goal |-> cfg.goal, tests |-> tests, rows |-> rows]
          /\ Concluded(Verdict(rows, cfg, FALSE))
          /\ settled' = IF lost = {} THEN answer' ELSE None
    /\ UNCHANGED <<world, winner, cfg, tests, lost, budget>>
--------------------------------------------------------------------------------
(* EncodingPhase, as far as it touches the winners. *)
Unselected(p) == p[1] \notin answer.selected

Prune(p) == /\ step = "curate" /\ Unselected(p) /\ winner[p] # None
            /\ winner' = [winner EXCEPT ![p] = None]
            /\ UNCHANGED <<world, record, cfg, step, tests, lost, answer, settled, budget>>

Curated == /\ step = "curate" /\ \A p \in Pairs : Unselected(p) => winner[p] = None
           /\ step' = "encode" /\ lost' = {}
           /\ UNCHANGED <<world, disk, cfg, tests, answer, settled, budget>>

Encode(p) == /\ step = "encode" /\ p \in Missing(answer.selected, Chunks) \ lost
             /\ Encoded(p) \/ Failed(p)
             /\ UNCHANGED <<world, record, cfg, step, tests, answer, settled>>

Finish == /\ step = "encode" /\ Missing(answer.selected, Chunks) \subseteq lost
          /\ step' = "done"
          /\ UNCHANGED <<world, disk, cfg, tests, lost, answer, settled, budget>>

Next == \/ \E k \in Configs : Start(k)
        \/ \E p \in Pairs : Wipe(p) \/ Test(p) \/ Prune(p) \/ Encode(p)
        \/ Kill \/ Ladder \/ Skip \/ Recover \/ Refuse \/ Compare \/ Curated \/ Finish
Spec == Init /\ [][Next]_vars
--------------------------------------------------------------------------------
(* Properties. *)
IsTable(rows) ==
    /\ DOMAIN rows \subseteq Strategies
    /\ \A s \in DOMAIN rows :
          /\ rows[s].size \in Nat /\ DOMAIN rows[s].stats \subseteq Stats
          /\ \A t \in DOMAIN rows[s].stats : rows[s].stats[t] \in Nat

RecordOK == /\ DOMAIN record = {"goal", "tests", "rows"} /\ record.goal \in Goals \cup {None}
            /\ record.tests \in Bases \cup {{}} /\ IsTable(record.rows)
AnswerOK(given) == given # None => /\ IsTable(given.rows) /\ given.replayed \in BOOLEAN
                                   /\ given.selected \subseteq cfg.plan
                                   /\ given.anchor \in given.selected \cup {None}

\* Every variable stays in its range: what is recorded and answered is about strategies of
\* the plan, and selections never leave the plan.
TypeOK ==
    /\ world \in Worlds
    /\ winner \in [Pairs -> Goals \cup {None}]
    /\ cfg \in Configs \cup {None} /\ (step # "idle" => cfg \in Configs)
    /\ step \in Ended \cup {"ladder", "skip", "recover", "test", "curate", "encode"}
    /\ tests \in Bases \cup {{}} /\ lost \subseteq Pairs
    /\ budget \in [runs : Nat, kills : Nat, failures : Nat]
    /\ RecordOK /\ AnswerOK(answer) /\ AnswerOK(settled)

\* Whenever anything was measured, one of the smallest measured strategies survives: the
\* selection is not empty (the assertion of _make_result cannot fail for want of a
\* survivor, although dominance is not transitive), and a fixed run's anchor weighs no more
\* than any strategy of the table, the pruned ones included.
SmallestSurvives ==
    answer # None => LET rows == answer.rows IN
        Candidates(rows) # {} =>
            /\ \E s \in answer.selected : \A o \in Candidates(rows) : rows[s].size <= rows[o].size
            /\ cfg.goal \in Fixed =>
                  /\ answer.anchor \in answer.selected
                  /\ \A o \in Candidates(rows) : rows[answer.anchor].size <= rows[o].size

TrueRow(s, basis) == RowOf([c \in basis |-> world[cfg.goal][s][c]])

\* A run that compared and lost no test encode compared what its goal's winners really
\* weigh and measure over the test basis, whatever earlier runs of other goals, kills and
\* failures left in encoded/.
ComparedTrue ==
    answer # None /\ answer = settled /\ DOMAIN answer.rows # {} =>
        answer.rows = [s \in cfg.plan |-> TrueRow(s, tests)]

SameDecision(a, b) == a.rows = b.rows /\ a.selected = b.selected /\ a.anchor = b.anchor

\* Runs of one configuration decide alike: once one of them compared and lost no test
\* encode, the next that loses none gives the same rows, selection and anchor, although the
\* pruned strategies' winners are deleted and tested again, and whatever was killed between
\* them.
Steadfast ==
    [][answer = None /\ answer' # None /\ settled # None /\ lost = {} =>
          SameDecision(answer', settled)]_vars

\* The fast exit answers what the winners on disk give: "freshness guaranteed by the
\* pending gate" (optimization.py:104).
ReplayFresh ==
    [][answer = None /\ answer' # None /\ answer'.replayed =>
          answer'.rows = Table(cfg.plan, tests')]_vars
================================================================================
