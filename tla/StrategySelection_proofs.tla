------------------------ MODULE StrategySelection_proofs ------------------------
(***************************************************************************)
(* The decision of OptimizationPhase, for every plan, every basis and      *)
(* every weight and measure of the winners.                                *)
(***************************************************************************)
EXTENDS StrategySelection, FiniteSetTheorems, WellFoundedInduction, TLAPS

\* What a table made of winners has beyond its type: who weighs something was measured.
Sound(rows) == \A s \in DOMAIN rows : rows[s].size > 0 => rows[s].stats \in [Stats -> Nat]

\* Every answer is the verdict over its rows, or there was nothing to compare.
Judged(given) ==
    given # None => /\ Sound(given.rows)
                    /\ DOMAIN given.rows = {} \/ given = Verdict(given.rows, cfg, given.replayed)
Decided == Sound(record.rows) /\ Judged(answer) /\ Judged(settled)

\* The record vouches for the winners, and past the ladder both are of this run's goal.
PastLadder == {"skip", "recover", "test", "curate", "encode"}
Current ==
    /\ record.goal # None => \A p \in Pairs : winner[p] \in {None, record.goal}
    /\ step \in PastLadder => /\ record.goal \in {None, cfg.goal}
                             /\ \A p \in Pairs : winner[p] \in {None, cfg.goal}

\* What a settled answer rests on is still on record.
Grounded ==
    /\ record.goal = cfg.goal /\ record.tests # {}
    /\ record.rows = [s \in cfg.plan |-> TrueRow(s, record.tests)]
    /\ settled = Verdict(record.rows, cfg, FALSE)
Settles ==
    /\ step \in {"recover", "test"} => Compares
    /\ step = "skip" => ~Compares
    /\ settled # None => IF Compares THEN Grounded ELSE settled = Everyone
    /\ step = "test" => tests # {} /\ (settled # None => tests = record.tests)
    /\ step \in {"idle", "ladder", "skip", "recover", "test"} => answer = None

Inv == TypeOK /\ Decided /\ Current /\ Settles /\ ComparedTrue
--------------------------------------------------------------------------------
(* The comparison. *)

\* A nonempty set of numbers has a least one.
Less == {p \in Nat \X Nat : p[1] < p[2]}

LEMMA LessWellFounded == IsWellFoundedOn(Less, Nat)
  BY NatLessThanWellFounded DEF OpToRel, Less

LEMMA MinNat == ASSUME NEW S, S \subseteq Nat, S # {} PROVE Min(S) \in S /\ \A x \in S : Min(S) <= x
<1>1. PICK x \in S : \A y \in S : <<y, x>> \notin Less  BY LessWellFounded, WFMin
<1>2. ASSUME NEW y \in S PROVE x <= y
  <2>1. <<y, x>> \in Nat \X Nat /\ <<y, x>>[1] = y /\ <<y, x>>[2] = x  OBVIOUS
  <2>2. ~(y < x)  BY <1>1, <2>1 DEF Less
  <2> QED  BY <2>2
<1>3. \E z \in S : \A y \in S : z <= y  BY <1>2
<1> QED  BY <1>3 DEF Min

LEMMA Least ==
  ASSUME NEW S, S # {}, NEW f \in [S -> Nat] PROVE \E s \in S : \A o \in S : f[s] <= f[o]
<1> DEFINE vals == {f[s] : s \in S}
<1>1. vals \subseteq Nat /\ vals # {}  OBVIOUS
<1>2. Min(vals) \in vals /\ \A x \in vals : Min(vals) <= x  BY <1>1, MinNat
<1> QED  BY <1>2

\* What is taken from a world: a size that counts, and a value of every statistic.
Takes(basis) == [basis -> [size : Sizes, stats : [Stats -> Nat]]]

LEMMA SizesPositive == Sizes \subseteq Nat \ {0}
  BY SelectionAssumption DEF Sizes

LEMMA TakesOfWorld ==
  ASSUME NEW w \in Worlds, NEW s \in Strategies, NEW basis \in SUBSET Chunks,
         NEW h \in [basis -> Goals]
  PROVE  [c \in basis |-> w[h[c]][s][c]] \in Takes(basis)
<1> SUFFICES ASSUME NEW c \in basis PROVE w[h[c]][s][c] \in [size : Sizes, stats : [Stats -> Nat]]
  BY DEF Takes
<1>1. w[h[c]][s][c] \in [size : Nat \ {0}, stats : [Stats -> Nat]]
  <2>1. w \in [Goals -> [Strategies -> [Chunks -> [size : Nat \ {0}, stats : [Stats -> Nat]]]]]
    BY SelectionAssumption
  <2>2. w[h[c]] \in [Strategies -> [Chunks -> [size : Nat \ {0}, stats : [Stats -> Nat]]]]
    BY <2>1
  <2>3. w[h[c]][s] \in [Chunks -> [size : Nat \ {0}, stats : [Stats -> Nat]]]  BY <2>2
  <2> QED  BY <2>3
<1>2. w[h[c]][s][c].size \in Sizes  BY DEF Sizes
<1> QED  BY <1>1, <1>2

\* The row of some winners: a number and every statistic; of none, nothing.
LEMMA RowTyped ==
  ASSUME NEW basis \in SUBSET Chunks, NEW takes \in Takes(basis)
  PROVE  /\ RowOf(takes).size \in Nat
         /\ RowOf(takes).size = 0 <=> basis = {}
         /\ basis # {} => RowOf(takes).stats \in [Stats -> Nat]
         /\ basis = {} => DOMAIN RowOf(takes).stats = {}
<1> DEFINE sizes == [c \in basis |-> takes[c].size]
           maps  == {takes[c].stats : c \in basis}
<1>1. DOMAIN takes = basis /\ RowOf(takes) = [size |-> Total(sizes), stats |-> WorstOf(maps)]
  BY DEF RowOf, Takes
<1>2. sizes \in [basis -> Sizes]  BY DEF Takes
<1>3. Total(sizes) \in Nat /\ (Total(sizes) = 0 <=> basis = {})
  BY <1>2, TotalAssumption
<1>4. maps \subseteq [Stats -> Nat]  BY DEF Takes
<1>5. ASSUME basis # {} PROVE WorstOf(maps) \in [Stats -> Nat]
  <2>1. UNION {DOMAIN m : m \in maps} = Stats
    <3>1. \A m \in maps : DOMAIN m = Stats  BY <1>4
    <3>2. maps # {}  BY <1>5
    <3> QED  BY <3>1, <3>2
  <2>2. ASSUME NEW t \in Stats PROVE Min({m[t] : m \in {n \in maps : t \in DOMAIN n}}) \in Nat
    <3> DEFINE vals == {m[t] : m \in {n \in maps : t \in DOMAIN n}}
    <3>1. vals \subseteq Nat  BY <1>4
    <3>2. vals # {}
      <4>1. PICK c \in basis : TRUE  BY <1>5
      <4>2. takes[c].stats \in maps /\ t \in DOMAIN takes[c].stats  BY <1>4
      <4> QED  BY <4>2
    <3> QED  BY <3>1, <3>2, MinNat
  <2> QED  BY <2>1, <2>2 DEF WorstOf
<1>6. ASSUME basis = {} PROVE DOMAIN WorstOf(maps) = {}
  BY <1>6 DEF WorstOf
<1> QED  BY <1>1, <1>3, <1>5, <1>6

\* Among the measured rows of a table one of the smallest is dominated by no other: a
\* dominator of a smallest row weighs the same and measures more of every statistic, and
\* the row with the fewest such rows above it has none.
LEMMA SmallestUndominated ==
  ASSUME NEW rows, NEW tolerance \in Nat, IsTable(rows), Sound(rows), Candidates(rows) # {}
  PROVE  \E s \in Survivors(rows, tolerance) :
             \A o \in Candidates(rows) : rows[s].size <= rows[o].size
<1> DEFINE C == Candidates(rows)
<1>1. PICK t \in Stats : TRUE  BY SelectionAssumption
<1>2. IsFiniteSet(C) /\ C \subseteq Strategies
  BY SelectionAssumption, FS_Subset DEF Candidates, IsTable
<1>3. \A s \in C : rows[s].size \in Nat /\ rows[s].stats \in [Stats -> Nat]
  BY DEF Candidates, IsTable, Sound
<1> DEFINE above(s) == {o \in C : \/ rows[o].size < rows[s].size
                                  \/ rows[o].size = rows[s].size
                                     /\ rows[o].stats[t] > rows[s].stats[t]}
           rank == [s \in C |-> Cardinality(above(s))]
<1>4. \A s \in C : IsFiniteSet(above(s)) /\ Cardinality(above(s)) \in Nat
  BY <1>2, FS_Subset, FS_CardinalityType
<1>5. PICK s \in C : \A o \in C : Cardinality(above(s)) <= Cardinality(above(o))
  <2>1. rank \in [C -> Nat]  BY <1>4
  <2>2. PICK s \in C : \A o \in C : rank[s] <= rank[o]  BY <2>1, Least
  <2>3. \A o \in C : rank[o] = Cardinality(above(o))  OBVIOUS
  <2> HIDE DEF rank, above
  <2> QED  BY <2>2, <2>3
<1>6. above(s) = {}
  <2> SUFFICES ASSUME NEW o \in above(s) PROVE FALSE  OBVIOUS
  <2>1. above(o) \subseteq above(s)  BY <1>3, <1>1
  <2>2. o \in C /\ o \notin above(o)  BY <1>3, <1>1
  <2>3. Cardinality(above(o)) <= Cardinality(above(s)) /\ Cardinality(above(o)) # Cardinality(above(s))
    BY <2>1, <2>2, <1>4, FS_Subset
  <2>4. Cardinality(above(s)) <= Cardinality(above(o))  BY <1>5, <2>2
  <2>5. Cardinality(above(s)) \in Nat /\ Cardinality(above(o)) \in Nat  BY <1>4, <2>2
  <2> HIDE DEF above
  <2> QED  BY <2>3, <2>4, <2>5
<1>7. \A o \in C : rows[s].size <= rows[o].size  BY <1>6, <1>3
<1>8. ASSUME NEW o \in C, Dominates(rows[o], rows[s], tolerance) PROVE FALSE
  <2>1. DOMAIN rows[o].stats = Stats  BY <1>3
  <2>2. \/ rows[o].size < rows[s].size
        \/ rows[o].size = rows[s].size /\ \A u \in Stats : rows[o].stats[u] > rows[s].stats[u]
    BY <1>8, <2>1 DEF Dominates
  <2>3. o \in above(s)  BY <2>2, <1>1
  <2> QED  BY <2>3, <1>6
<1>9. s \in Survivors(rows, tolerance)  BY <1>8 DEF Survivors
<1> QED  BY <1>7, <1>9

\* The smallest row is within any band of itself.
LEMMA SmallestNear ==
  ASSUME NEW rows, NEW tolerance \in Nat, IsTable(rows), Candidates(rows) # {}
  PROVE  \E s \in NearSmallest(rows, tolerance) :
             \A o \in Candidates(rows) : rows[s].size <= rows[o].size
<1> DEFINE C == Candidates(rows)
           size == [s \in C |-> rows[s].size]
<1>1. \A s \in C : rows[s].size \in Nat  BY DEF Candidates, IsTable
<1>2. size \in [C -> Nat]  BY <1>1
<1>3. PICK s \in C : \A o \in C : rows[s].size <= rows[o].size
  <2>1. PICK s \in C : \A o \in C : size[s] <= size[o]
    <3> HIDE DEF size, C
    <3> QED  BY <1>2, Least DEF C
  <2> QED  BY <2>1
<1>4. ASSUME NEW a \in Nat, NEW b \in Nat, a <= b PROVE a * 100 <= b * (100 + tolerance)
  <2>1. b * (100 + tolerance) = b * 100 + b * tolerance  OBVIOUS
  <2>2. b * tolerance \in Nat  OBVIOUS
  <2> HIDE DEF C
  <2>3. a * 100 <= b * 100  BY <1>4
  <2> QED  BY <2>1, <2>2, <2>3
<1>5. s \in NearSmallest(rows, tolerance)
  BY <1>1, <1>3, <1>4 DEF NearSmallest, WithinBand
<1> QED  BY <1>3, <1>5

\* The anchor is the smallest of the survivors that were measured, when there is one.
LEMMA AnchorChosen ==
  ASSUME NEW rows, IsTable(rows), NEW survivors, survivors \subseteq DOMAIN rows,
         NEW m \in survivors, DOMAIN rows[m].stats # {}
  PROVE  /\ Anchor(rows, survivors) \in survivors
         /\ \A o \in survivors : DOMAIN rows[o].stats # {} =>
               rows[Anchor(rows, survivors)].size <= rows[o].size
<1> DEFINE E == {s \in survivors : DOMAIN rows[s].stats # {}}
           size == [s \in E |-> rows[s].size]
<1>1. \A s \in E : rows[s].size \in Nat /\ s \in Nat
  BY SelectionAssumption DEF IsTable
<1>2. m \in E  OBVIOUS
<1>3. PICK z \in E : \A o \in E : rows[z].size <= rows[o].size
  <2>1. size \in [E -> Nat]  BY <1>1
  <2>2. PICK z \in E : \A o \in E : size[z] <= size[o]
    <3> HIDE DEF size, E
    <3> QED  BY <2>1, <1>2, Least
  <2> QED  BY <2>2
<1> DEFINE L == {s \in E : rows[s].size = rows[z].size}
<1>4. PICK a \in L : \A o \in L : a <= o
  <2>1. L \subseteq Nat /\ L # {}  BY <1>1, <1>3
  <2>2. Min(L) \in L /\ \A x \in L : Min(L) <= x  BY <2>1, MinNat
  <2> QED  BY <2>2
<1>5. \A o \in E : Before(rows, a, o)  BY <1>1, <1>3, <1>4 DEF Before
<1>6. Anchor(rows, survivors) = CHOOSE s \in E : \A o \in E : Before(rows, s, o)
  BY <1>2 DEF Anchor
<1>7. /\ Anchor(rows, survivors) \in E
      /\ \A o \in E : Before(rows, Anchor(rows, survivors), o)
  BY <1>5, <1>6
<1> QED  BY <1>7, <1>1 DEF Before

\* The verdict over a table: it selects from the table, and of what was measured a smallest
\* row, which in a fixed run is the anchor.
LEMMA VerdictFits ==
  ASSUME NEW rows, IsTable(rows), Sound(rows), NEW k \in Configs, NEW replayed
  PROVE  LET v == Verdict(rows, k, replayed)
         IN /\ v.rows = rows /\ v.replayed = replayed
            /\ v.selected \subseteq DOMAIN rows /\ v.anchor \in v.selected \cup {None}
            /\ Candidates(rows) # {} =>
                  /\ \E s \in v.selected : \A o \in Candidates(rows) : rows[s].size <= rows[o].size
                  /\ k.goal \in Fixed =>
                        /\ v.anchor \in v.selected
                        /\ \A o \in Candidates(rows) : rows[v.anchor].size <= rows[o].size
<1> DEFINE v == Verdict(rows, k, replayed)
           C == Candidates(rows)
<1>1. k.tolerance \in Nat  BY SelectionAssumption
<1>2. v.rows = rows /\ v.replayed = replayed  BY DEF Verdict
<1>3. CASE k.goal \notin Fixed
  <2>1. v.selected = NearSmallest(rows, k.tolerance) /\ v.anchor = None  BY <1>3 DEF Verdict
  <2>2. v.selected \subseteq DOMAIN rows  BY <2>1 DEF NearSmallest, Candidates
  <2> HIDE DEF v
  <2> QED  BY <1>1, <1>2, <1>3, <2>1, <2>2, SmallestNear DEF v
<1>4. CASE k.goal \in Fixed
  <2> DEFINE S == Survivors(rows, k.tolerance)
  <2>1. v.selected = S /\ v.anchor = Anchor(rows, S)  BY <1>4 DEF Verdict
  <2>2. S \subseteq DOMAIN rows /\ S \subseteq C  BY DEF Survivors, Candidates
  <2>3. v.anchor \in S \cup {None}
    <3>1. CASE \E m \in S : DOMAIN rows[m].stats # {}  BY <3>1, <2>1, <2>2, AnchorChosen
    <3>2. CASE ~\E m \in S : DOMAIN rows[m].stats # {}  BY <3>2, <2>1 DEF Anchor
    <3> QED  BY <3>1, <3>2
  <2>4. ASSUME C # {}
        PROVE  /\ \E s \in S : \A o \in C : rows[s].size <= rows[o].size
               /\ Anchor(rows, S) \in S /\ \A o \in C : rows[Anchor(rows, S)].size <= rows[o].size
    <3>1. PICK s \in S : \A o \in C : rows[s].size <= rows[o].size
      BY <1>1, <2>4, SmallestUndominated
    <3>2. \A o \in C : rows[o].size \in Nat /\ rows[o].size > 0 /\ rows[o].stats \in [Stats -> Nat]
      BY DEF Candidates, IsTable, Sound
    <3>3. DOMAIN rows[s].stats # {}  BY <3>2, <2>2, SelectionAssumption
    <3>4. Anchor(rows, S) \in S /\ rows[Anchor(rows, S)].size <= rows[s].size
      <4> HIDE DEF S
      <4> QED  BY <3>3, <2>2, AnchorChosen
    <3> HIDE DEF S
    <3>5. ASSUME NEW o \in C PROVE rows[Anchor(rows, S)].size <= rows[o].size
      BY <3>1, <3>2, <3>4, <2>2
    <3> QED  BY <3>1, <3>4, <3>5
  <2> HIDE DEF v, S
  <2> QED  BY <1>2, <2>1, <2>2, <2>3, <2>4 DEF v
<1> QED  BY <1>3, <1>4
--------------------------------------------------------------------------------
(* The run. *)

\* The rows read off the winners on disk.
LEMMA TableFits ==
  ASSUME TypeOK, NEW plan \in SUBSET Strategies, NEW basis \in SUBSET Chunks
  PROVE  IsTable(Table(plan, basis)) /\ Sound(Table(plan, basis)) /\ DOMAIN Table(plan, basis) = plan
<1> SUFFICES ASSUME NEW s \in plan
             PROVE  /\ Row(s, basis).size \in Nat /\ DOMAIN Row(s, basis).stats \subseteq Stats
                    /\ \A t \in DOMAIN Row(s, basis).stats : Row(s, basis).stats[t] \in Nat
                    /\ Row(s, basis).size > 0 => Row(s, basis).stats \in [Stats -> Nat]
  BY DEF Table, IsTable, Sound
<1> DEFINE wins == {c \in basis : winner[<<s, c>>] # None}
           h == [c \in wins |-> winner[<<s, c>>]]
           takes == [c \in wins |-> world[h[c]][s][c]]
<1>1. wins \in SUBSET Chunks  OBVIOUS
<1>2. h \in [wins -> Goals]
  <2> SUFFICES ASSUME NEW c \in wins PROVE winner[<<s, c>>] \in Goals  OBVIOUS
  <2>1. <<s, c>> \in Pairs  BY DEF Pairs
  <2> QED  BY <2>1 DEF TypeOK
<1>3. takes \in Takes(wins)
  <2> HIDE DEF h, wins
  <2> QED  BY <1>1, <1>2, TakesOfWorld DEF TypeOK
<1>4. Row(s, basis) = RowOf(takes)  BY DEF Row
<1> HIDE DEF takes, wins
<1> QED  BY <1>1, <1>3, <1>4, RowTyped

(* Preservation. *)

\* What a step leaves alone stays as it was.
LEMMA RecordKept == ASSUME TypeOK, UNCHANGED record PROVE RecordOK'
  BY DEF TypeOK, RecordOK
LEMMA AnswerKept == ASSUME TypeOK, UNCHANGED <<answer, cfg>> PROVE AnswerOK(answer)'
  BY DEF TypeOK, AnswerOK
LEMMA SettledKept == ASSUME TypeOK, UNCHANGED <<settled, cfg>> PROVE AnswerOK(settled)'
  BY DEF TypeOK, AnswerOK

Plain == /\ world \in Worlds
         /\ winner \in [Pairs -> Goals \cup {None}]
         /\ cfg \in Configs \cup {None} /\ (step # "idle" => cfg \in Configs)
         /\ step \in Ended \cup {"ladder", "skip", "recover", "test", "curate", "encode"}
         /\ tests \in Bases \cup {{}} /\ lost \subseteq Pairs
         /\ budget \in [runs : Nat, kills : Nat, failures : Nat]
LEMMA Parts == TypeOK <=> Plain /\ RecordOK /\ AnswerOK(answer) /\ AnswerOK(settled)
  BY DEF TypeOK, Plain
LEMMA PartsPrime == TypeOK' <=> (Plain' /\ RecordOK' /\ AnswerOK(answer)' /\ AnswerOK(settled)')
  BY DEF TypeOK, Plain

\* Every step keeps the plain types.
LEMMA PlainPreserved ==
  ASSUME TypeOK, [Next]_vars PROVE Plain'
<1>1. ASSUME NEW k \in Configs, Start(k) PROVE Plain'
  BY <1>1 DEF Start, TypeOK, Plain, Ended, disk
<1>2. CASE Kill
  BY <1>2 DEF Kill, TypeOK, Plain, Ended, disk
<1>3. ASSUME NEW p \in Pairs, Wipe(p) PROVE Plain'
  BY <1>3 DEF Wipe, TypeOK, Plain, Ended, disk
<1>4. CASE Ladder
  BY <1>4 DEF Ladder, TypeOK, Plain, Ended, disk, AfterLadder
<1>5. CASE Skip
  BY <1>5 DEF Skip, TypeOK, Plain, Ended, disk
<1>6. CASE Recover
  BY <1>6 DEF Recover, TypeOK, Plain, Ended, disk, Concluded, Basis, RecordOK
<1>7. ASSUME NEW p \in Pairs, Test(p) PROVE Plain'
  <2>1. /\ UNCHANGED <<world, cfg, step, tests>> /\ cfg \in Configs /\ cfg.goal \in Goals
        /\ step \in {"test", "encode"}
    BY <1>7, SelectionAssumption DEF Test, TypeOK
  <2>2. CASE Encoded(p)  BY <2>1, <2>2 DEF Encoded, TypeOK, Plain, Ended
  <2>3. CASE Failed(p)
    <3>1. budget' \in [runs : Nat, kills : Nat, failures : Nat]  BY <2>3 DEF Failed, TypeOK
    <3> QED  BY <2>1, <2>3, <3>1 DEF Failed, TypeOK, Plain, Ended
  <2> QED  BY <1>7, <2>2, <2>3 DEF Test
<1>8. CASE Refuse
  BY <1>8 DEF Refuse, TypeOK, Plain, Ended, disk
<1>9. CASE Compare
  BY <1>9 DEF Compare, TypeOK, Plain, Ended, disk, Concluded
<1>10. ASSUME NEW p \in Pairs, Prune(p) PROVE Plain'
  BY <1>10 DEF Prune, TypeOK, Plain, Ended, disk
<1>11. CASE Curated
  BY <1>11 DEF Curated, TypeOK, Plain, Ended, disk
<1>12. ASSUME NEW p \in Pairs, Encode(p) PROVE Plain'
  <2>1. /\ UNCHANGED <<world, cfg, step, tests>> /\ cfg \in Configs /\ cfg.goal \in Goals
        /\ step \in {"test", "encode"}
    BY <1>12, SelectionAssumption DEF Encode, TypeOK
  <2>2. CASE Encoded(p)  BY <2>1, <2>2 DEF Encoded, TypeOK, Plain, Ended
  <2>3. CASE Failed(p)
    <3>1. budget' \in [runs : Nat, kills : Nat, failures : Nat]  BY <2>3 DEF Failed, TypeOK
    <3> QED  BY <2>1, <2>3, <3>1 DEF Failed, TypeOK, Plain, Ended
  <2> QED  BY <1>12, <2>2, <2>3 DEF Encode
<1>13. CASE Finish
  BY <1>13 DEF Finish, TypeOK, Plain, Ended, disk
<1>14. CASE UNCHANGED vars
  BY <1>14 DEF vars, TypeOK, Plain, Ended, disk
<1> QED  BY <1>1, <1>2, <1>3, <1>4, <1>5, <1>6, <1>7, <1>8, <1>9, <1>10, <1>11, <1>12, <1>13, <1>14 DEF Next

\* A table that is replayed is one again, and as sound.
LEMMA ReplayFits ==
  ASSUME TypeOK, Decided, cfg \in Configs, Covers
  PROVE  IsTable(Replayed) /\ Sound(Replayed) /\ DOMAIN Replayed = cfg.plan
<1>1. cfg.plan \subseteq DOMAIN record.rows  BY DEF Covers
<1>2. IsTable(record.rows) /\ Sound(record.rows)  BY DEF TypeOK, RecordOK, Decided
<1> QED  BY <1>1, <1>2 DEF Replayed, IsTable, Sound

LEMMA NothingFits == IsTable(NoRows) /\ Sound(NoRows) /\ DOMAIN NoRows = {}
  BY DEF IsTable, Sound, NoRows

\* What Compare puts on record and answers.
LEMMA ComparedFits ==
  ASSUME TypeOK, Compare
  PROVE  LET rows == Table(cfg.plan, tests)
         IN IsTable(rows) /\ Sound(rows) /\ DOMAIN rows = cfg.plan /\ cfg \in Configs
<1>1. cfg \in Configs  BY DEF TypeOK, Compare
<1>2. cfg.plan \in SUBSET Strategies  BY <1>1, SelectionAssumption
<1>3. tests \in SUBSET Chunks  BY SelectionAssumption DEF TypeOK
<1> QED  BY <1>1, <1>2, <1>3, TableFits

\* The three steps that write optimization.yaml write a record.
LEMMA RecordPreserved ==
  ASSUME TypeOK, Decided, [Next]_vars PROVE RecordOK' /\ Sound(record'.rows)
<1>1. CASE UNCHANGED record
  BY <1>1, RecordKept DEF Decided
<1>2. ASSUME cfg \in Configs, record' = Fresh(cfg.goal)
      PROVE  RecordOK' /\ Sound(record'.rows)
  BY <1>2, NothingFits, SelectionAssumption DEF RecordOK, Fresh
<1>3. CASE Ladder
  <2>1. cfg \in Configs  BY <1>3 DEF Ladder, TypeOK
  <2> QED  BY <1>1, <1>2, <1>3, <2>1 DEF Ladder
<1>4. CASE Skip
  <2>1. cfg \in Configs  BY <1>4 DEF Skip, TypeOK
  <2> QED  BY <1>2, <1>4, <2>1 DEF Skip
<1>5. CASE Compare
  <2>1. record' = [goal |-> cfg.goal, tests |-> tests, rows |-> Table(cfg.plan, tests)]
    BY <1>5 DEF Compare
  <2> QED  BY <1>5, <2>1, ComparedFits, SelectionAssumption DEF RecordOK, TypeOK
<1> QED
  BY <1>1, <1>3, <1>4, <1>5
  DEF Next, vars, disk, Start, Kill, Wipe, Recover, Test, Refuse, Prune, Curated, Encode, Finish

\* A verdict over a sound table of the plan is an answer.
LEMMA VerdictAnswers ==
  ASSUME NEW rows, IsTable(rows), Sound(rows), cfg \in Configs, DOMAIN rows = cfg.plan,
         NEW replayed \in BOOLEAN
  PROVE  AnswerOK(Verdict(rows, cfg, replayed)) /\ Judged(Verdict(rows, cfg, replayed))
<1> DEFINE v == Verdict(rows, cfg, replayed)
<1>1. /\ v.rows = rows /\ v.replayed = replayed
      /\ v.selected \subseteq DOMAIN rows /\ v.anchor \in v.selected \cup {None}
  BY VerdictFits
<1> HIDE DEF v
<1> QED  BY <1>1 DEF AnswerOK, Judged, v

LEMMA EveryoneAnswers == ASSUME cfg \in Configs PROVE AnswerOK(Everyone) /\ Judged(Everyone)
  BY NothingFits DEF AnswerOK, Judged, Everyone

Answers(given) == AnswerOK(given) /\ Judged(given)

\* Every answer a step gives or keeps is one.
LEMMA AnswersPreserved ==
  ASSUME TypeOK, Decided, [Next]_vars PROVE Answers(answer)' /\ Answers(settled)'
<1>1. ASSUME UNCHANGED cfg PROVE UNCHANGED answer => Answers(answer)'
  BY <1>1 DEF Answers, TypeOK, Decided, AnswerOK, Judged
<1>2. ASSUME UNCHANGED cfg PROVE UNCHANGED settled => Answers(settled)'
  BY <1>2 DEF Answers, TypeOK, Decided, AnswerOK, Judged
<1>3. answer' = None => Answers(answer)'  BY DEF Answers, AnswerOK, Judged
<1>4. settled' = None => Answers(settled)'  BY DEF Answers, AnswerOK, Judged
<1>5. ASSUME UNCHANGED cfg, NEW given, Answers(given), answer' = given PROVE Answers(answer)'
  BY <1>5 DEF Answers, AnswerOK, Judged
<1>6. ASSUME UNCHANGED cfg, NEW given, Answers(given), settled' = given PROVE Answers(settled)'
  BY <1>6 DEF Answers, AnswerOK, Judged
<1>7. ASSUME NEW k \in Configs, Start(k) PROVE Answers(answer)' /\ Answers(settled)'
  <2>1. answer' = None /\ cfg' = k /\ settled' = IF k = cfg THEN settled ELSE None
    BY <1>7 DEF Start
  <2> QED  BY <2>1, <1>2, <1>3, <1>4
<1>8. CASE Kill
  BY <1>8, <1>2, <1>3 DEF Kill
<1>9. CASE Skip
  <2>1. answer' = Everyone /\ settled' = Everyone /\ UNCHANGED cfg /\ cfg \in Configs
    BY <1>9 DEF Skip, TypeOK
  <2>2. Answers(Everyone)  BY <2>1, EveryoneAnswers DEF Answers
  <2> QED  BY <2>1, <2>2, <1>5, <1>6
<1>10. CASE Recover
  <2>1. UNCHANGED <<cfg, settled>> /\ cfg \in Configs  BY <1>10 DEF Recover, TypeOK
  <2>2. \/ Covers /\ answer' = Verdict(Replayed, cfg, TRUE)
        \/ UNCHANGED answer
    BY <1>10 DEF Recover, Concluded
  <2>3. ASSUME Covers PROVE Answers(Verdict(Replayed, cfg, TRUE))
    <3> QED  BY <2>1, <2>3, ReplayFits, VerdictAnswers DEF Answers
  <2> QED  BY <2>1, <2>2, <2>3, <1>1, <1>2, <1>5
<1>11. CASE Compare
  <2> DEFINE given == Verdict(Table(cfg.plan, tests), cfg, FALSE)
  <2>1. UNCHANGED cfg /\ answer' = given /\ settled' \in {given, None}
    BY <1>11 DEF Compare, Concluded
  <2>2. Answers(given)  BY <1>11, ComparedFits, VerdictAnswers DEF Answers
  <2> HIDE DEF given
  <2> QED  BY <2>1, <2>2, <1>4, <1>5, <1>6
<1>12. CASE UNCHANGED <<cfg, answer, settled>>
  BY <1>12, <1>1, <1>2
<1> QED
  BY <1>7, <1>8, <1>9, <1>10, <1>11, <1>12
  DEF Next, vars, Wipe, Ladder, Test, Refuse, Prune, Curated, Encode, Finish

LEMMA TypePreserved == ASSUME TypeOK, Decided, [Next]_vars PROVE TypeOK' /\ Decided'
<1>1. Plain'  BY PlainPreserved
<1>2. RecordOK' /\ Sound(record'.rows)  BY RecordPreserved
<1>3. Answers(answer)' /\ Answers(settled)'  BY AnswersPreserved
<1>4. TypeOK'  BY <1>1, <1>2, <1>3, PartsPrime DEF Answers
<1>5. Decided'  BY <1>2, <1>3 DEF Decided, Answers
<1> QED  BY <1>4, <1>5

\* The record keeps vouching for the winners.
LEMMA CurrentPreserved ==
  ASSUME TypeOK, Current, [Next]_vars PROVE Current'
<1>1. ASSUME NEW k \in Configs, Start(k) PROVE Current'
  BY <1>1 DEF Start, Current, PastLadder, Ended, disk
<1>2. CASE Kill
  BY <1>2 DEF Kill, Current, PastLadder, Ended, disk
<1>3. ASSUME NEW p \in Pairs, Wipe(p) PROVE Current'
  BY <1>3 DEF Wipe, Current, PastLadder, Ended, disk, TypeOK
<1>4. CASE Ladder
  <2>1. cfg.goal \in Goals /\ cfg.goal # None /\ UNCHANGED <<cfg, winner>>
    BY <1>4, SelectionAssumption DEF Ladder, TypeOK
  <2>2. CASE Outdated
    <3>1. \A p \in Pairs : winner[p] = None  BY <1>4, <2>2 DEF Ladder
    <3>2. (record' = record /\ record.goal = None) \/ record'.goal = cfg.goal
      BY <1>4, <2>2 DEF Ladder, Fresh
    <3> QED  BY <2>1, <3>1, <3>2 DEF Current
  <2>3. CASE ~Outdated
    <3>1. record' = record /\ record.goal = cfg.goal  BY <1>4, <2>3 DEF Ladder, Outdated
    <3> QED  BY <2>1, <3>1 DEF Current
  <2> QED  BY <2>2, <2>3
<1>5. CASE Skip
  BY <1>5 DEF Skip, Current, PastLadder, Ended, disk, Fresh
<1>6. CASE Recover
  BY <1>6 DEF Recover, Current, PastLadder, Ended, disk, Concluded
<1>7. ASSUME NEW p \in Pairs, Test(p) PROVE Current'
  BY <1>7 DEF Test, Encoded, Failed, Current, PastLadder, Ended, disk, TypeOK
<1>8. CASE Refuse
  BY <1>8 DEF Refuse, Current, PastLadder, Ended, disk
<1>9. CASE Compare
  BY <1>9 DEF Compare, Current, PastLadder, Ended, disk, Concluded
<1>10. ASSUME NEW p \in Pairs, Prune(p) PROVE Current'
  BY <1>10 DEF Prune, Current, PastLadder, Ended, disk, TypeOK
<1>11. CASE Curated
  BY <1>11 DEF Curated, Current, PastLadder, Ended, disk
<1>12. ASSUME NEW p \in Pairs, Encode(p) PROVE Current'
  BY <1>12 DEF Encode, Encoded, Failed, Current, PastLadder, Ended, disk, TypeOK
<1>13. CASE Finish
  BY <1>13 DEF Finish, Current, PastLadder, Ended, disk
<1>14. CASE UNCHANGED vars
  BY <1>14 DEF vars, Current, PastLadder, Ended, disk
<1> QED  BY <1>1, <1>2, <1>3, <1>4, <1>5, <1>6, <1>7, <1>8, <1>9, <1>10, <1>11, <1>12, <1>13, <1>14 DEF Next

\* A comparison in which nothing was lost compared what the winners of the goal make.
LEMMA ComparesTruly ==
  ASSUME TypeOK, Current, Compare, lost = {}
  PROVE  Table(cfg.plan, tests) = [s \in cfg.plan |-> TrueRow(s, tests)]
<1>1. \A p \in cfg.plan \X tests : winner[p] # None
  BY DEF Compare, Missing
<1>2. cfg \in Configs /\ cfg.plan \subseteq Strategies /\ tests \subseteq Chunks
  BY SelectionAssumption DEF Compare, TypeOK
<1>3. \A p \in cfg.plan \X tests : winner[p] = cfg.goal
  <2>1. \A p \in Pairs : winner[p] \in {None, cfg.goal}  BY DEF Compare, Current, PastLadder
  <2> QED  BY <1>1, <1>2, <2>1 DEF Pairs
<1> SUFFICES ASSUME NEW s \in cfg.plan PROVE Row(s, tests) = TrueRow(s, tests)
  BY DEF Table
<1>4. \A c \in tests : winner[<<s, c>>] = cfg.goal /\ winner[<<s, c>>] # None
  BY <1>1, <1>3
<1>5. {d \in tests : winner[<<s, d>>] # None} = tests  BY <1>4
<1>6. [c \in {d \in tests : winner[<<s, d>>] # None} |-> world[winner[<<s, c>>]][s][c]]
      = [c \in tests |-> world[cfg.goal][s][c]]
  BY <1>4, <1>5
<1> QED  BY <1>6 DEF Row, TrueRow

\* What was compared without a loss stays what the goal's winners make.
LEMMA ComparedTruePreserved ==
  ASSUME TypeOK, Decided, Current, Settles, ComparedTrue, [Next]_vars PROVE ComparedTrue'
<1>1. ASSUME NEW k \in Configs, Start(k) PROVE ComparedTrue'
  BY <1>1 DEF Start, ComparedTrue, TrueRow, disk
<1>2. CASE Kill
  BY <1>2 DEF Kill, ComparedTrue, TrueRow, disk
<1>3. ASSUME NEW p \in Pairs, Wipe(p) PROVE ComparedTrue'
  BY <1>3 DEF Wipe, ComparedTrue, TrueRow, disk
<1>4. CASE Ladder
  BY <1>4 DEF Ladder, ComparedTrue, TrueRow, disk
<1>5. CASE Skip
  BY <1>5, NothingFits DEF Skip, ComparedTrue, Everyone
<1>6. CASE Recover
  <2>1. CASE UNCHANGED answer
    <3>1. answer = None  BY <1>6 DEF Recover, Settles
    <3> QED  BY <2>1, <3>1 DEF ComparedTrue
  <2>2. CASE answer' = Verdict(Replayed, cfg, TRUE)
    <3>1. answer'.replayed = TRUE  BY <2>2 DEF Verdict
    <3>2. settled' # None => settled'.replayed = FALSE
      <4>1. settled' = settled  BY <1>6 DEF Recover
      <4>2. settled # None => settled = Everyone \/ settled = Verdict(record.rows, cfg, FALSE)
        BY DEF Settles, Grounded
      <4> QED  BY <4>1, <4>2 DEF Everyone, Verdict
    <3> QED  BY <3>1, <3>2 DEF ComparedTrue
  <2> QED  BY <1>6, <2>1, <2>2 DEF Recover, Concluded
<1>7. ASSUME NEW p \in Pairs, Test(p) PROVE ComparedTrue'
  BY <1>7 DEF Test, Encoded, Failed, ComparedTrue, TrueRow, disk
<1>8. CASE Refuse
  BY <1>8 DEF Refuse, ComparedTrue, TrueRow, disk
<1>9. CASE Compare
  <2> DEFINE given == Verdict(Table(cfg.plan, tests), cfg, FALSE)
  <2>1. /\ answer' = given /\ settled' = (IF lost = {} THEN given ELSE None)
        /\ UNCHANGED <<world, cfg, tests>>
    BY <1>9 DEF Compare, Concluded
  <2>2. given.rows = Table(cfg.plan, tests)  BY DEF Verdict
  <2>3. lost = {} => given.rows = [s \in cfg.plan |-> TrueRow(s, tests)]
    BY <1>9, <2>2, ComparesTruly
  <2> HIDE DEF given
  <2> QED  BY <2>1, <2>3 DEF ComparedTrue, TrueRow
<1>10. ASSUME NEW p \in Pairs, Prune(p) PROVE ComparedTrue'
  BY <1>10 DEF Prune, ComparedTrue, TrueRow, disk
<1>11. CASE Curated
  BY <1>11 DEF Curated, ComparedTrue, TrueRow, disk
<1>12. ASSUME NEW p \in Pairs, Encode(p) PROVE ComparedTrue'
  BY <1>12 DEF Encode, Encoded, Failed, ComparedTrue, TrueRow, disk
<1>13. CASE Finish
  BY <1>13 DEF Finish, ComparedTrue, TrueRow, disk
<1>14. CASE UNCHANGED vars
  BY <1>14 DEF vars, ComparedTrue, TrueRow, disk
<1> QED  BY <1>1, <1>2, <1>3, <1>4, <1>5, <1>6, <1>7, <1>8, <1>9, <1>10, <1>11, <1>12, <1>13, <1>14 DEF Next

\* As long as the record and the configuration stand, so does what a settled answer rests on.
LEMMA GroundStands ==
  ASSUME UNCHANGED <<world, record, cfg, settled>>
  PROVE  /\ Grounded => Grounded'
         /\ settled = Everyone => settled' = Everyone'
         /\ Compares' <=> Compares
  BY DEF Grounded, TrueRow, Everyone, Compares

\* What a settled answer rests on stays on record until the configuration changes.
LEMMA SettlesPreserved ==
  ASSUME TypeOK, Decided, Current, Settles, [Next]_vars PROVE Settles'
<1>1. ASSUME NEW k \in Configs, Start(k) PROVE Settles'
  <2>1. CASE k = cfg  BY <1>1, <2>1, GroundStands DEF Start, Settles, disk
  <2>2. CASE k # cfg  BY <1>1, <2>2 DEF Start, Settles
  <2> QED  BY <2>1, <2>2
<1>2. CASE Kill
  BY <1>2, GroundStands DEF Kill, Settles, disk
<1>3. ASSUME NEW p \in Pairs, Wipe(p) PROVE Settles'
  BY <1>3, GroundStands DEF Wipe, Settles
<1>4. CASE Ladder
  <2>1. step = "ladder" /\ answer = None /\ UNCHANGED <<world, cfg, tests, answer, settled>>
    BY <1>4 DEF Ladder, Settles
  <2>2. step' = IF Compares THEN "recover" ELSE "skip"  BY <1>4 DEF Ladder, AfterLadder
  <2>3. Compares' <=> Compares  BY <2>1 DEF Compares
  <2>4. CASE settled # None /\ Compares
    <3>1. Grounded  BY <2>4 DEF Settles
    <3>2. ~Outdated  BY <3>1 DEF Grounded, Outdated
    <3>3. record' = record  BY <1>4, <3>2 DEF Ladder
    <3> QED  BY <2>1, <2>2, <2>4, <3>1, <3>3, GroundStands DEF Settles
  <2>5. CASE settled # None /\ ~Compares
    <3>1. settled' = Everyone'  BY <2>1, <2>5 DEF Settles, Everyone
    <3> QED  BY <2>1, <2>2, <2>3, <2>5, <3>1 DEF Settles
  <2>6. CASE settled = None
    BY <2>1, <2>2, <2>3, <2>6 DEF Settles
  <2> QED  BY <2>4, <2>5, <2>6
<1>5. CASE Skip
  <2>1. ~Compares /\ UNCHANGED cfg /\ settled' = Everyone /\ step' = "curate"
    BY <1>5 DEF Skip, Settles
  <2>2. ~Compares' /\ settled' = Everyone'  BY <2>1 DEF Compares, Everyone
  <2> QED  BY <2>1, <2>2 DEF Settles
<1>6. CASE Recover
  <2>1. Compares /\ answer = None /\ UNCHANGED <<world, record, cfg, settled>>
    BY <1>6 DEF Recover, Settles, disk
  <2>2. tests' \in Basis  BY <1>6 DEF Recover
  <2>3. settled # None => record.tests # {}  BY <2>1 DEF Settles, Grounded
  <2>4. tests' # {} /\ (settled # None => tests' = record.tests)
    BY <2>2, <2>3, SelectionAssumption DEF Basis
  <2>5. \/ step' = "test" /\ answer' = None
        \/ step' \in {"crashed", "curate"}
    BY <1>6, <2>1 DEF Recover, Concluded
  <2> QED  BY <2>1, <2>4, <2>5, GroundStands DEF Settles
<1>7. ASSUME NEW p \in Pairs, Test(p) PROVE Settles'
  BY <1>7, GroundStands DEF Test, Encoded, Failed, Settles
<1>8. CASE Refuse
  BY <1>8, GroundStands DEF Refuse, Settles, disk
<1>9. CASE Compare
  <2> DEFINE rows == Table(cfg.plan, tests)
             given == Verdict(rows, cfg, FALSE)
  <2>1. /\ answer' = given /\ settled' = (IF lost = {} THEN given ELSE None)
        /\ record' = [goal |-> cfg.goal, tests |-> tests, rows |-> rows]
        /\ UNCHANGED <<world, cfg>> /\ step' \in {"crashed", "curate"}
    BY <1>9 DEF Compare, Concluded
  <2>2. Compares /\ tests # {}  BY <1>9 DEF Compare, Settles
  <2>3. lost = {} => rows = [s \in cfg.plan |-> TrueRow(s, tests)]
    BY <1>9, ComparesTruly
  <2>5. Compares'  BY <2>1, <2>2 DEF Compares
  <2>6. CASE lost = {}
    <3>1. record'.goal = cfg.goal /\ record'.tests = tests /\ record'.rows = rows  BY <2>1
    <3> HIDE DEF rows
    <3>2. Grounded'
      BY <2>1, <2>2, <2>3, <2>6, <3>1 DEF Grounded, TrueRow
    <3> QED  BY <2>1, <2>5, <3>2 DEF Settles
  <2>7. CASE lost # {}
    BY <2>1, <2>7 DEF Settles
  <2> QED  BY <2>6, <2>7
<1>10. ASSUME NEW p \in Pairs, Prune(p) PROVE Settles'
  BY <1>10, GroundStands DEF Prune, Settles
<1>11. CASE Curated
  BY <1>11, GroundStands DEF Curated, Settles, disk
<1>12. ASSUME NEW p \in Pairs, Encode(p) PROVE Settles'
  BY <1>12, GroundStands DEF Encode, Encoded, Failed, Settles
<1>13. CASE Finish
  BY <1>13, GroundStands DEF Finish, Settles, disk
<1>14. CASE UNCHANGED vars
  BY <1>14, GroundStands DEF vars, Settles
<1> QED  BY <1>1, <1>2, <1>3, <1>4, <1>5, <1>6, <1>7, <1>8, <1>9, <1>10, <1>11, <1>12, <1>13, <1>14 DEF Next
--------------------------------------------------------------------------------
(* Theorems. *)
LEMMA Begins == Init => Inv
<1> SUFFICES ASSUME Init PROVE Inv  OBVIOUS
<1>1. record = Fresh(None) /\ answer = None /\ settled = None /\ step = "idle"  BY DEF Init
<1>2. TypeOK
  <2>1. RecordOK  BY <1>1, NothingFits DEF RecordOK, Fresh
  <2>2. AnswerOK(answer) /\ AnswerOK(settled)  BY <1>1 DEF AnswerOK
  <2>3. Plain  BY SelectionAssumption DEF Init, Plain, Ended
  <2> QED  BY <2>1, <2>2, <2>3, Parts
<1>3. Decided  BY <1>1, NothingFits DEF Decided, Judged, Fresh
<1>4. Current  BY <1>1 DEF Current, PastLadder, Fresh
<1>5. Settles  BY <1>1 DEF Settles
<1>6. ComparedTrue  BY <1>1 DEF ComparedTrue
<1> QED  BY <1>2, <1>3, <1>4, <1>5, <1>6 DEF Inv

LEMMA Preserves == Inv /\ [Next]_vars => Inv'
  BY TypePreserved, CurrentPreserved, SettlesPreserved, ComparedTruePreserved DEF Inv

\* The inductive invariant: types, what answers are, whom the record vouches for, and what a
\* settled answer rests on.
LEMMA Invariance == Spec => []Inv
  BY Begins, Preserves, PTL DEF Spec

\* Selections never leave the plan, whatever tables earlier plans left on record.
THEOREM TypeCorrect == Spec => []TypeOK
<1>1. Inv => TypeOK  BY DEF Inv
<1> QED  BY <1>1, Invariance, PTL

\* For every weight and measure, tolerance and acceptance delta: pruning leaves one of the
\* smallest measured strategies, and the anchor is no larger than any of them.
THEOREM Survives == Spec => []SmallestSurvives
<1>1. ASSUME Inv, answer # None, Candidates(answer.rows) # {}
      PROVE  /\ \E s \in answer.selected :
                    \A o \in Candidates(answer.rows) : answer.rows[s].size <= answer.rows[o].size
             /\ cfg.goal \in Fixed =>
                   /\ answer.anchor \in answer.selected
                   /\ \A o \in Candidates(answer.rows) :
                         answer.rows[answer.anchor].size <= answer.rows[o].size
  <2>1. IsTable(answer.rows) /\ Sound(answer.rows)
    BY <1>1 DEF Inv, TypeOK, AnswerOK, Decided, Judged
  <2>2. answer = Verdict(answer.rows, cfg, answer.replayed)
    BY <1>1 DEF Inv, Decided, Judged, Candidates
  <2>3. cfg \in Configs
    <3>1. step = "idle" => answer = None  BY <1>1 DEF Inv, Settles
    <3> QED  BY <1>1, <3>1 DEF Inv, TypeOK
  <2> DEFINE rows == answer.rows
             v == Verdict(rows, cfg, answer.replayed)
  <2>4. /\ \E s \in v.selected : \A o \in Candidates(rows) : rows[s].size <= rows[o].size
        /\ cfg.goal \in Fixed =>
              /\ v.anchor \in v.selected
              /\ \A o \in Candidates(rows) : rows[v.anchor].size <= rows[o].size
    BY <1>1, <2>1, <2>3, VerdictFits
  <2>5. answer = v  BY <2>2
  <2> QED  BY <2>4, <2>5
<1>2. Inv => SmallestSurvives  BY <1>1 DEF SmallestSurvives
<1> QED  BY <1>2, Invariance, PTL

\* Kills, failed encodes and runs of other goals never get into the comparison of a run that
\* loses nothing itself.
THEOREM ComparesTrue == Spec => []ComparedTrue
<1>1. Inv => ComparedTrue  BY DEF Inv
<1> QED  BY <1>1, Invariance, PTL

\* A configuration that has been decided without a loss is decided alike in every later run
\* without one.
THEOREM DecidesAlike == Spec => Steadfast
<1> DEFINE Alike == answer = None /\ answer' # None /\ settled # None /\ lost = {} =>
                        SameDecision(answer', settled)
<1>1. ASSUME Inv, [Next]_vars PROVE Alike
  <2> SUFFICES ASSUME answer = None, answer' # None, settled # None, lost = {}
               PROVE  SameDecision(answer', settled)
    OBVIOUS
  <2>1. Skip \/ Recover \/ Compare
    BY <1>1 DEF Next, vars, disk, Start, Kill, Wipe, Ladder, Test, Refuse, Prune, Curated, Encode,
                Encoded, Failed, Finish
  <2>2. CASE Skip
    BY <1>1, <2>2 DEF Inv, Settles, Skip, Everyone, SameDecision
  <2>3. ASSUME Compares
        PROVE  /\ record.rows = [s \in cfg.plan |-> TrueRow(s, record.tests)]
               /\ settled = Verdict(record.rows, cfg, FALSE)
    BY <1>1, <2>3 DEF Inv, Settles, Grounded
  <2>4. ASSUME NEW rows, NEW replayed
        PROVE  SameDecision(Verdict(rows, cfg, replayed), Verdict(rows, cfg, FALSE))
    BY DEF Verdict, SameDecision
  <2>5. CASE Recover
    <3>1. Compares /\ answer' = Verdict(Replayed, cfg, TRUE)
      BY <1>1, <2>5 DEF Inv, Settles, Recover, Concluded
    <3>2. Replayed = record.rows  BY <2>3, <3>1 DEF Replayed
    <3> QED  BY <2>3, <2>4, <3>1, <3>2
  <2>6. CASE Compare
    <3>1. Compares /\ tests = record.tests  BY <1>1, <2>6 DEF Inv, Settles, Compare
    <3>2. answer' = Verdict(Table(cfg.plan, tests), cfg, FALSE)  BY <2>6 DEF Compare, Concluded
    <3>3. Table(cfg.plan, tests) = record.rows
      BY <1>1, <2>3, <2>6, <3>1, ComparesTruly DEF Inv
    <3> QED  BY <2>3, <2>4, <3>1, <3>2, <3>3
  <2> QED  BY <2>1, <2>2, <2>5, <2>6
<1>2. Inv /\ [Next]_vars => [Alike]_vars  BY <1>1
<1> QED  BY <1>2, Invariance, PTL DEF Spec, Steadfast

================================================================================
