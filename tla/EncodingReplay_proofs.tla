-------------------------- MODULE EncodingReplay_proofs -------------------------
(***************************************************************************)
(* A run that repeats a concluded run encodes nothing, for all strategies, *)
(* chunks, trails and configurations, and any number of runs and kills.    *)
(***************************************************************************)
EXTENDS EncodingStore_proofs

\* What is left of the bounds.
Spent == /\ budget \in [runs : Nat, kills : Nat, failures : Nat]
         /\ budget.failures <= Budgets[cfg.work].failures

\* No pair is lost, and none gets lost in this step.
NoneLost  == lost = {}
NoneFails == \A p \in Pairs : ~EncodeFails(p)

\* The attempts the search for a goal makes are all there.
OnTrail(goal, q) == \E i \in DOMAIN Trail[goal][cfg.range] : q = Trail[goal][cfg.range][i]
Trailed(p, goal) == \A a \in Addresses : <<a[1], a[2]>> = p /\ OnTrail(goal, a[3]) => attempt[a].file # None
AllTrailed(goal) == \A p \in Pairs : winner[p].file # None => Trailed(p, goal)

\* The ladder would find nothing to do.
Agrees == record # None => record.pixels = cfg.pixels /\ Changed(cfg) = {} /\ ~BandDiffers(cfg)

\* A winner stands for a whole trail of the goal it was searched for.
Invested ==
    /\ record # None => AllTrailed(record.goal)
    /\ pc = "ladder" => Separate(cfg)
    /\ pc \in {"unknown", "wipe winners", "wipe attempts"} => record = None
    /\ pc = "wipe attempts" => \A p \in Pairs : winner[p] = Bare
    /\ pc = "drop" => record # None /\ record.goal = cfg.goal
    /\ pc \in Settled => AllTrailed(cfg.goal) /\ Agrees

\* What a search has passed is there, also when it has ended.
Climbs(p) ==
    /\ job[p].stage \in {"seek", "measure"} => \A i \in DOMAIN Goal(cfg) :
          i < job[p].at => attempt[<<p[1], p[2], Goal(cfg)[i]>>].file # None
    /\ job[p].stage \in {"promote", "copy", "certify"} => Trailed(p, cfg.goal)
Climbing == \A p \in Begun : Climbs(p)

\* The rows of the record's table are of its whole test basis.
WholeRows == record # None =>
    /\ record.tests \subseteq record.chunks
    /\ DOMAIN record.rows # {} => record.tests # {}
    /\ \A s \in DOMAIN record.rows : DOMAIN record.rows[s] = record.tests

\* Nothing that is due gets out of sight.
Due == IF pc = "testing" THEN TestPairs ELSE AllPairs
Pursued ==
    /\ pc = "testing" => ~Skips(cfg) /\ todo \cup Begun \subseteq TestPairs
    /\ pc \in Encoding \cup {"curate"} => \A p \in Due : Complete(p) \/ p \in todo \cup Begun
    /\ pc = "merge" => \A p \in AllPairs : Complete(p)

\* What a run selects depends on its configuration and the basis only.
Level(basis) ==
    LET size(s) == Cost[s] * Cardinality(basis)
        successful == {s \in cfg.plan : size(s) > 0}
    IN  {s \in successful : \A t \in successful : size(s) * 100 <= size(t) * (100 + Tolerance)}
Choice == IF Skips(cfg) THEN cfg.plan ELSE Level(TestChunks)
Tested == ~Skips(cfg) => \A p \in TestPairs : Trailed(p, cfg.goal)
Decided == pc \in {"recover", "curate", "encoding", "merge"} => selected = Choice /\ record # None /\ Tested

\* Nothing is left to encode for this configuration.
Repeatable == record # None /\ Agrees /\ Tested /\ \A p \in Choice \X cfg.chunks : Complete(p)
Repeating ==
    /\ pc = "done" => Repeatable
    /\ replay => ~encoded
    /\ replay => \/ pc \in {"killed", "failed"}
                 \/ Repeatable /\ pc \in {"ladder", "settled", "testing", "recover", "curate", "encoding", "merge", "done"}
    /\ replay /\ pc \in {"curate", "encoding"} => todo = {} /\ Begun = {}

\* Besides BaseInv: nothing was lost, what a winner stands for is kept, what is due stays in
\* sight, and what is selected, and hence asked for, is the same in the next run.
ReplayInv == NoneLost /\ Invested /\ Climbing /\ WholeRows /\ Pursued /\ Decided /\ Repeating
--------------------------------------------------------------------------------
(* Trails.                                                                 *)

LEMMA TrailStays ==
    ASSUME cfg'.range = cfg.range, NEW p, NEW goal, Trailed(p, goal),
           \A a \in Addresses : <<a[1], a[2]>> = p /\ attempt[a].file # None => attempt'[a].file # None
    PROVE  Trailed(p, goal)'
BY DEF Trailed, OnTrail

\* A winner that stays keeps its attempts.
Spares == \A p \in Pairs : winner'[p].file # None =>
    /\ winner[p].file # None
    /\ \A a \in Addresses : <<a[1], a[2]>> = p => attempt'[a].file = attempt[a].file

LEMMA TrailsStay ==
    ASSUME cfg'.range = cfg.range, Spares, NEW goal, AllTrailed(goal)
    PROVE  AllTrailed(goal)'
<1> SUFFICES ASSUME NEW p \in Pairs, winner'[p].file # None PROVE Trailed(p, goal)'
  BY DEF AllTrailed
<1> QED  BY TrailStays DEF Spares, AllTrailed

LEMMA RangeKept == ASSUME OneRange, BaseInv, BaseInv' PROVE cfg'.range = cfg.range
BY DEF OneRange, BaseInv, Types

LEMMA SparesSame == ASSUME UNCHANGED <<attempt, winner>> PROVE Spares
BY DEF Spares

LEMMA SparesWinners == ASSUME Deletes, UNCHANGED attempt PROVE Spares
BY DEF Deletes, Spares

LEMMA InvestedKeeps ==
    ASSUME Invested, Spares, UNCHANGED cfg, pc' # "ladder",
           record' = None \/ record' = record \/ (record'.goal = cfg.goal /\ AllTrailed(cfg.goal)'),
           pc' \in {"unknown", "wipe winners", "wipe attempts"} => record' = None,
           pc' = "wipe attempts" => \A p \in Pairs : winner'[p] = Bare,
           pc' = "drop" => record' # None /\ record'.goal = cfg.goal,
           pc' \in Settled => Agrees' /\ (pc \in Settled \/ AllTrailed(cfg.goal)')
    PROVE  Invested'
<1>1. \A goal : AllTrailed(goal) => AllTrailed(goal)'
  BY TrailsStay
<1>2. record' # None => AllTrailed(record.goal)'
  <2>1. CASE record' = record
    <3>1. PICK g : g = record.goal
      OBVIOUS
    <3>2. record # None => AllTrailed(g)'
      BY <1>1, <3>1 DEF Invested
    <3> QED  BY <2>1, <3>1, <3>2 DEF AllTrailed, Trailed, OnTrail
  <2>2. CASE record'.goal = cfg.goal /\ AllTrailed(cfg.goal)'
    BY <2>2 DEF AllTrailed, Trailed, OnTrail
  <2> QED  BY <2>1, <2>2
<1>3. pc' \in Settled => AllTrailed(cfg.goal)'
  <2>1. PICK g : g = cfg.goal
    OBVIOUS
  <2>2. pc \in Settled => AllTrailed(g)'
    BY <1>1, <2>1 DEF Invested
  <2> QED  BY <2>1, <2>2 DEF AllTrailed, Trailed, OnTrail
<1> QED  BY <1>2, <1>3 DEF Invested

LEMMA Rewrites ==
    ASSUME UNCHANGED cfg, NEW tests, NEW rows, record' = RecordOf(cfg, tests, rows)
    PROVE  /\ Agrees' /\ record'.goal = cfg.goal /\ record'.chunks = cfg.chunks
           /\ record'.tests = tests /\ record'.rows = rows
<1>1. /\ record'.goal = cfg.goal /\ record'.chunks = cfg.chunks /\ record'.sampling = cfg.sampling
      /\ record'.pixels = cfg.pixels /\ record'.args = [s \in cfg.plan |-> cfg.args[s]]
      /\ record'.tests = tests /\ record'.rows = rows
  BY DEF RecordOf
<1>2. Changed(cfg)' = {} /\ BandDiffers(cfg)' = FALSE
  BY <1>1 DEF Changed, BandDiffers
<1> QED  BY <1>1, <1>2 DEF Agrees
--------------------------------------------------------------------------------
(* Winners stand for whole trails.                                         *)

LEMMA BareTrailed == ASSUME \A p \in Pairs : winner[p] = Bare PROVE \A goal : AllTrailed(goal)
BY DEF Bare, AllTrailed

LEMMA StartInvested ==
    ASSUME OneRange, "separate" \in Assumed, BaseInv, Invested, NEW k \in Configs, Start(k)
    PROVE  Invested'
<1>1. Separate(k) /\ cfg' = k /\ pc' = "ladder" /\ UNCHANGED <<record, attempt, winner>>
  BY DEF Start, Goto, disk
<1>2. cfg'.range = cfg.range
  BY <1>1 DEF OneRange, BaseInv, Types
<1>3. record # None => AllTrailed(record.goal)'
  <2>1. PICK g : g = record.goal
    OBVIOUS
  <2>2. record # None => AllTrailed(g)'
    BY <1>1, <1>2, <2>1, SparesSame, TrailsStay DEF Invested
  <2> QED  BY <1>1, <2>1, <2>2 DEF AllTrailed, Trailed, OnTrail
<1>4. Separate(cfg)'
  BY <1>1 DEF Separate, Changed, BandDiffers
<1> QED  BY <1>1, <1>3, <1>4 DEF Invested, Settled

LEMMA DropSpares ==
    ASSUME BaseInv, DropStrategy
    PROVE  Spares
<1>1. PICK s \in Changed(cfg) :
         \/ (\E c \in Chunks, f \in {"file", "card"} : winner' = [winner EXCEPT ![<<s, c>>][f] = None])
            /\ UNCHANGED attempt
         \/ /\ \A c \in Chunks : winner[<<s, c>>] = Bare
            /\ \E a \in Addresses, f \in {"file", "card"} :
                  a[1] = s /\ attempt' = [attempt EXCEPT ![a][f] = None]
            /\ UNCHANGED winner
  BY DEF DropStrategy
<1>2. CASE UNCHANGED attempt
  <2>1. Deletes
    BY QuietSteps DEF QuietStep, Invalidate
  <2> QED  BY <1>2, <2>1, SparesWinners
<1>3. CASE UNCHANGED winner /\ \A c \in Chunks : winner[<<s, c>>] = Bare
  <2> SUFFICES ASSUME NEW p \in Pairs, winner'[p].file # None, NEW a \in Addresses, <<a[1], a[2]>> = p
               PROVE  attempt'[a].file = attempt[a].file
    BY <1>3 DEF Spares
  <2>1. p[1] # s
    BY <1>3, PairFacts DEF Bare
  <2>2. a[1] # s
    BY <2>1, PairFacts
  <2>3. attempt'[a] = attempt[a]
    BY <1>1, <1>3, <2>2 DEF BaseInv, Types
  <2> QED  BY <2>3
<1> QED  BY <1>1, <1>2, <1>3

LEMMA LadderInvested == ASSUME BaseInv, Invested, Invalidate PROVE Invested'
<1>1. Deletes /\ UNCHANGED cfg
  BY QuietSteps DEF QuietStep, Quiet
<1>2. Types
  BY DEF BaseInv
<1>3. CASE Compare
  <2>1. Spares /\ UNCHANGED <<record, winner>> /\ pc = "ladder"
    BY <1>3, SparesSame DEF Compare, disk
  <2>2. /\ pc' = "unknown" => record = None
        /\ pc' = "drop" => /\ record # None /\ record.pixels = cfg.pixels /\ Changed(cfg) # {}
        /\ pc' = "settled" => Agrees /\ record # None
        /\ pc' \in {"unknown", "unlink", "failed", "drop", "band", "settled"}
    BY <1>3 DEF Compare, Goto, Foreign, Agrees
  <2>3. pc' = "drop" => record # None /\ record.goal = cfg.goal
    BY <2>1, <2>2 DEF Invested, Separate, BandDiffers
  <2>4. pc' = "settled" => AllTrailed(cfg.goal) /\ Agrees'
    BY <1>1, <2>1, <2>2 DEF Agrees, BandDiffers, Invested, Changed
  <2>5. pc' = "settled" => AllTrailed(cfg.goal)'
    BY <1>1, <1>3, <2>4 DEF AllTrailed, Trailed, OnTrail, Compare, disk
  <2> QED  BY <1>1, <2>1, <2>2, <2>3, <2>4, <2>5, InvestedKeeps DEF Settled
<1>4. CASE Unlink
  BY <1>1, <1>4, SparesSame, InvestedKeeps DEF Unlink, Goto, Settled
<1>5. CASE WipeWinner
  BY <1>1, <1>5, SparesWinners, InvestedKeeps DEF WipeWinner, Settled, Invested
<1>6. CASE WinnersWiped
  <2>1. \A p \in Pairs : winner[p] = Bare
    BY <1>6 DEF WinnersWiped
  <2>2. Spares /\ UNCHANGED <<attempt, winner>>
    BY <1>6, SparesSame DEF WinnersWiped
  <2>3. AllTrailed(cfg.goal)'
    BY <2>1, <2>2 DEF AllTrailed, Bare
  <2>4. CASE pc = "wipe winners"
    BY <1>1, <1>6, <2>1, <2>2, <2>4, InvestedKeeps DEF WinnersWiped, Goto, Settled, Invested
  <2>5. CASE pc = "band"
    <3>1. record' = RecordOf(cfg, {}, NoRows) /\ pc' = "settled"
      BY <1>6, <2>5 DEF WinnersWiped, Goto
    <3>2. Agrees' /\ record'.goal = cfg.goal
      BY <1>1, <3>1, Rewrites
    <3> QED  BY <1>1, <2>2, <2>3, <3>1, <3>2, InvestedKeeps DEF Settled
  <2>6. CASE pc = "unknown"
    <3>1. record' = None /\ pc' = "settled"
      BY <1>6, <2>6 DEF WinnersWiped, Goto, Invested
    <3>2. Agrees'
      BY <3>1 DEF Agrees
    <3> QED  BY <1>1, <2>2, <2>3, <3>1, <3>2, InvestedKeeps DEF Settled
  <2> QED  BY <1>6, <2>4, <2>5, <2>6 DEF WinnersWiped
<1>7. CASE WipeAttempt
  <2>1. \A p \in Pairs : winner'[p] = Bare
    BY <1>7 DEF WipeAttempt, Invested
  <2>2. Spares
    BY <2>1 DEF Spares, Bare
  <2> QED  BY <1>1, <1>7, <2>1, <2>2, InvestedKeeps DEF WipeAttempt, Settled, Invested
<1>8. CASE AttemptsWiped
  <2>1. Spares /\ UNCHANGED record /\ record = None /\ pc' = "settled" /\ \A p \in Pairs : winner'[p] = Bare
    BY <1>8, SparesSame DEF AttemptsWiped, Goto, disk, Invested
  <2>2. AllTrailed(cfg.goal)'
    BY <2>1 DEF AllTrailed, Bare
  <2>3. Agrees'
    BY <2>1 DEF Agrees
  <2> QED  BY <1>1, <2>1, <2>2, <2>3, InvestedKeeps DEF Settled
<1>9. CASE DropStrategy
  <2>1. Spares
    BY <1>9, DropSpares
  <2> QED  BY <1>1, <1>9, <2>1, InvestedKeeps DEF DropStrategy, Settled, Invested
<1>10. CASE StrategiesDropped
  <2>1. /\ pc = "drop" /\ pc' = "settled" /\ record' = RecordOf(cfg, {}, NoRows)
        /\ UNCHANGED <<attempt, winner>>
    BY <1>10 DEF StrategiesDropped, Goto
  <2>2. Agrees' /\ record'.goal = cfg.goal
    BY <1>1, <2>1, Rewrites
  <2>3. AllTrailed(cfg.goal)
    BY <2>1 DEF Invested
  <2>4. AllTrailed(cfg.goal)'
    BY <1>1, <2>1, <2>3 DEF AllTrailed, Trailed, OnTrail
  <2> QED  BY <1>1, <2>1, <2>2, <2>4, SparesSame, InvestedKeeps DEF Settled
<1> QED
  BY <1>3, <1>4, <1>5, <1>6, <1>7, <1>8, <1>9, <1>10 DEF Invalidate
--------------------------------------------------------------------------------
(* The steps of a pair.                                                    *)

LEMMA Grows ==
    ASSUME Kept, BaseInv, NEW p \in Pairs, PairStep(p)
    PROVE  /\ \A a \in Addresses : attempt[a].file # None => attempt'[a].file # None
           /\ \A r \in Pairs : /\ winner[r].file # None => winner'[r].file # None
                               /\ winner[r].card # None => winner'[r].card # None
                               /\ Complete(r) => Complete(r)'
<1>1. cfg.cleanup = "none" /\ Best(cfg) # None
  BY ConfigFacts, NoneAssumption DEF Kept, BaseInv, Types
<1>2. \A a \in Addresses : attempt[a].file # None => attempt'[a].file # None
  BY <1>1 DEF PairStep, Makes
<1>3. \A r \in Pairs : /\ winner[r].file # None => winner'[r].file # None
                       /\ winner[r].card # None => winner'[r].card # None
  BY <1>1 DEF PairStep, Own, Makes
<1> QED  BY <1>2, <1>3 DEF Complete

LEMMA Links ==
    ASSUME BaseInv, NEW p \in Pairs, Encodes(p)
    PROVE  \A r \in Pairs : winner'[r].file = winner[r].file \/ (r = p /\ job[p].stage \in {"promote", "copy"})
<1>1. winner \in [Pairs -> Winners]
  BY DEF BaseInv, Types
<1>2. CASE Promote(p) \/ Copy(p) \/ Copied(p)
  BY <1>1, <1>2 DEF Promote, Copy, Copied, Copying, Link
<1>3. CASE Certify(p)
  <2> DEFINE w == [winner[p] EXCEPT !.card = Wanted(cfg, p).q]
  <2>1. winner' = [winner EXCEPT ![p] = w]
    BY <1>1, <1>3 DEF Certify
  <2>2. w.file = winner[p].file
    BY <1>1 DEF Winners
  <2> HIDE DEF w
  <2> QED  BY <1>1, <2>1, <2>2
<1>4. CASE UNCHANGED winner
  BY <1>4
<1> QED  BY <1>2, <1>3, <1>4 DEF Encodes, Accept, Encode, EncodeFails, Measure, Sweep, SweepCard, disk

\* All but the pair keep their place.
LEMMA OthersClimb ==
    ASSUME Kept, BaseInv, NEW p \in Pairs, PairStep(p), NEW r \in Begun, Climbs(r), job'[r] = job[r]
    PROVE  Climbs(r)'
<1>1. r \in Pairs /\ cfg \in Configs /\ UNCHANGED cfg
  BY DEF BaseInv, Types, PairStep, Own
<1>2. \A i \in DOMAIN Goal(cfg) : <<r[1], r[2], Goal(cfg)[i]>> \in Addresses
  BY <1>1, ConfigFacts, PairFacts DEF Addresses
<1>3. Trailed(r, cfg.goal) => Trailed(r, cfg.goal)'
  <2>1. PICK g : g = cfg.goal
    OBVIOUS
  <2>2. Trailed(r, g) => Trailed(r, g)'
    BY <1>1, Grows, TrailStays
  <2> QED  BY <1>1, <2>1, <2>2 DEF Trailed, OnTrail
<1>4. job[r].stage \in {"seek", "measure"} => \A i \in DOMAIN Goal(cfg) :
         i < job[r].at => attempt'[<<r[1], r[2], Goal(cfg)[i]>>].file # None
  BY <1>2, Grows DEF Climbs
<1>5. Goal(cfg)' = Goal(cfg)
  BY <1>1 DEF Goal
<1> QED  BY <1>1, <1>3, <1>4, <1>5, Grows DEF Climbs

\* The measured attempt is the last of the trail, or the search goes on behind it.
LEMMA AdvanceClimbs ==
    ASSUME Kept, BaseInv, NEW p \in Pairs, PairStep(p), Climbs(p), job[p].stage \in {"seek", "measure"},
           attempt[Address(p)].file # None, Advance(p)
    PROVE  Climbs(p)'
<1>1. /\ p \in Begun /\ Fitting(p) /\ Types /\ cfg \in Configs /\ UNCHANGED cfg
      /\ Address(p) = <<p[1], p[2], Goal(cfg)[job[p].at]>>
  BY DEF BaseInv, Types, Working, PairStep, Own, Address
<1>2. /\ job[p].at \in DOMAIN Goal(cfg) /\ job[p].at \in Nat /\ Len(Goal(cfg)) \in Nat
      /\ Goal(cfg) \in Seq(Nat) /\ DOMAIN Goal(cfg) = 1..Len(Goal(cfg))
  BY <1>1, Reached, ConfigFacts
<1>3. \A i \in DOMAIN Goal(cfg) : i \in Nat /\ <<p[1], p[2], Goal(cfg)[i]>> \in Addresses
  BY <1>1, ConfigFacts, PairFacts DEF Addresses
<1>4. \A i \in DOMAIN Goal(cfg) :
         i < job[p].at + 1 => attempt[<<p[1], p[2], Goal(cfg)[i]>>].file # None
  <2>1. \A i \in DOMAIN Goal(cfg) : i < job[p].at + 1 => i < job[p].at \/ i = job[p].at
    BY <1>2
  <2>2. \A i \in DOMAIN Goal(cfg) : i < job[p].at => attempt[<<p[1], p[2], Goal(cfg)[i]>>].file # None
    BY DEF Climbs
  <2> QED  BY <1>1, <2>1, <2>2
<1>5. \A i \in DOMAIN Goal(cfg) :
         i < job[p].at + 1 => attempt'[<<p[1], p[2], Goal(cfg)[i]>>].file # None
  BY <1>3, <1>4, Grows
<1>6. Goal(cfg)' = Goal(cfg)
  BY <1>1 DEF Goal
<1>7. CASE job[p].at < Len(Goal(cfg))
  <2>1. job'[p] = [stage |-> "seek", at |-> job[p].at + 1]
    BY <1>1, <1>7 DEF Advance, Types, Begun
  <2> QED  BY <1>5, <1>6, <2>1 DEF Climbs
<1>8. CASE ~(job[p].at < Len(Goal(cfg)))
  <2>1. job'[p] = [stage |-> "promote", at |-> job[p].at]
    BY <1>1, <1>8 DEF Advance, Types, Begun
  <2>2. \A i \in DOMAIN Goal(cfg) : attempt'[<<p[1], p[2], Goal(cfg)[i]>>].file # None
    BY <1>2, <1>5, <1>8
  <2>3. Trailed(p, cfg.goal)'
    BY <1>1, <2>2, AddressFacts, PairFacts DEF Trailed, OnTrail, Goal
  <2> QED  BY <2>1, <2>3 DEF Climbs
<1> QED  BY <1>7, <1>8

LEMMA EncodesClimbing ==
    ASSUME Kept, BaseInv, Climbing, NEW p \in Pairs, Encodes(p)
    PROVE  Climbing'
<1>1. PairStep(p) /\ p \in Begun /\ Fitting(p) /\ Types /\ Climbs(p) /\ UNCHANGED cfg /\ cfg.cleanup = "none"
  BY EncodesInv DEF BaseInv, Types, Working, PairStep, Own, Climbing, Kept
<1>2. ASSUME NEW r \in Begun, job'[r] = job[r] PROVE Climbs(r)'
  BY <1>1, <1>2, OthersClimb DEF Climbing
<1>3. ASSUME Finish(p) PROVE Climbing'
  BY <1>2, <1>3 DEF Finish, Climbing, Begun
<1>4. ASSUME Climbs(p)', NEW j, job' = [job EXCEPT ![p] = j] PROVE Climbing'
  <2>1. Begun' = Begun /\ \A r \in Begun : r # p => job'[r] = job[r]
    BY <1>1, <1>4 DEF Types, Begun
  <2> QED  BY <1>2, <1>4, <2>1 DEF Climbing
<1>5. ASSUME NEW stage, Stage(p, stage) PROVE job'[p].stage = stage /\ job'[p].at = job[p].at
  BY <1>1, <1>5 DEF Stage, Types, Jobs, Begun
<1>6. CASE Accept(p) \/ Measure(p)
  <2>1. job[p].stage \in {"seek", "measure"} /\ Advance(p) /\ attempt[Address(p)].file # None
    BY <1>1, <1>6, NoneAssumption DEF Accept, Measure, Fitting
  <2>2. Climbs(p)'
    BY <1>1, <2>1, AdvanceClimbs
  <2> QED  BY <1>4, <2>1, <2>2 DEF Advance
<1>7. CASE Encode(p)
  <2>1. job[p].stage = "seek" /\ Stage(p, "measure")
    BY <1>7 DEF Encode
  <2>2. job'[p].stage = "measure" /\ job'[p].at = job[p].at
    BY <1>5, <2>1
  <2>3. \A i \in DOMAIN Goal(cfg) : <<p[1], p[2], Goal(cfg)[i]>> \in Addresses
    BY <1>1, ConfigFacts, PairFacts DEF Addresses, Types
  <2>4. Climbs(p)'
    BY <1>1, <2>1, <2>2, <2>3, Grows DEF Climbs, Goal
  <2> QED  BY <1>4, <2>1, <2>4 DEF Stage
<1>8. CASE Promote(p) \/ Copy(p) \/ Copied(p)
  <2>1. /\ job[p].stage \in {"promote", "copy"} /\ UNCHANGED attempt
        /\ \E stage \in {"copy", "certify"} : Stage(p, stage)
    BY <1>8 DEF Promote, Copy, Copied, Copying
  <2>2. job'[p].stage \in {"copy", "certify"}
    BY <1>5, <2>1
  <2>3. Trailed(p, cfg.goal)'
    BY <1>1, <2>1 DEF Climbs, Trailed, OnTrail
  <2>4. Climbs(p)'
    BY <2>2, <2>3 DEF Climbs
  <2> QED  BY <1>4, <2>1, <2>4 DEF Stage
<1>9. CASE EncodeFails(p) \/ Certify(p)
  BY <1>1, <1>3, <1>9 DEF EncodeFails, Certify, KeepsAttempts, Return
<1>10. CASE Sweep(p) \/ SweepCard(p)
  BY <1>1, <1>10 DEF Sweep, SweepCard, Fitting
<1> QED  BY <1>6, <1>7, <1>8, <1>9, <1>10 DEF Encodes

LEMMA EncodesInvested ==
    ASSUME Kept, BaseInv, Invested, Climbing, NEW p \in Pairs, Encodes(p)
    PROVE  Invested'
<1>1. PairStep(p) /\ p \in Begun /\ Climbs(p) /\ pc \in Settled /\ pc \in Encoding /\ UNCHANGED <<cfg, record, pc>>
  BY EncodesInv DEF PairStep, Own, Climbing, Encoding, Settled
<1>2. PICK g : g = cfg.goal
  OBVIOUS
<1>3. AllTrailed(g)'
  <2> SUFFICES ASSUME NEW r \in Pairs, winner'[r].file # None PROVE Trailed(r, g)'
    BY DEF AllTrailed
  <2>1. CASE winner'[r].file = winner[r].file
    <3>1. Trailed(r, g)
      BY <1>1, <1>2, <2>1 DEF Invested, AllTrailed
    <3> QED  BY <1>1, <3>1, Grows, TrailStays
  <2>2. CASE r = p /\ job[p].stage \in {"promote", "copy"}
    <3>1. Trailed(p, g)
      BY <1>1, <1>2, <2>2 DEF Climbs
    <3> QED  BY <1>1, <2>2, <3>1, Grows, TrailStays
  <2> QED  BY <2>1, <2>2, Links
<1>4. Agrees' /\ (record # None => record.goal = g)
  BY <1>1, <1>2 DEF Invested, Agrees, BandDiffers, Changed
<1>5. record # None => AllTrailed(record.goal)'
  BY <1>1, <1>3, <1>4 DEF AllTrailed, Trailed, OnTrail
<1>6. AllTrailed(cfg.goal)'
  BY <1>1, <1>2, <1>3 DEF AllTrailed, Trailed, OnTrail
<1> QED  BY <1>1, <1>4, <1>5, <1>6 DEF Invested, Encoding
--------------------------------------------------------------------------------
(* The other steps of a run.                                               *)

LEMMA NextNoneLost == ASSUME NoneFails, NoneLost, [Next]_vars PROVE NoneLost'
<1>1. CASE UNCHANGED lost \/ lost' = {}
  BY <1>1 DEF NoneLost
<1>2. CASE QuietStep
  BY <1>1, <1>2 DEF QuietStep, Invalidate, Compare, Unlink, WipeWinner, WinnersWiped, WipeAttempt, AttemptsWiped,
     DropStrategy, StrategiesDropped, SelectAll, ReuseTable, Curate, Merge, Finalize, Idle
<1>3. ASSUME NEW p \in Pairs, Encodes(p) PROVE NoneLost'
  <2>1. ~EncodeFails(p)
    BY DEF NoneFails
  <2> QED
    BY <1>1, <1>3, <2>1
    DEF Encodes, Accept, Encode, Measure, Promote, Copy, Copied, Certify, Sweep, SweepCard
<1>4. CASE (\E k \in Configs : Start(k)) \/ Kill
  BY <1>1, <1>4 DEF Start, Kill
<1>5. CASE \/ BeginTests \/ SaveTable \/ Recover \/ Curated \/ Conclude
           \/ (\E p \in Pairs : Begin(p)) \/ UNCHANGED vars
  BY <1>1, <1>5 DEF BeginTests, SaveTable, Recover, Curated, Conclude, Begin, Idle, vars
<1> QED  BY <1>2, <1>3, <1>4, <1>5, StepCases

\* The bounds only shrink, and the work directory stays: what has failed, and what is
\* cleaned up there, is settled by an earlier state.
LEMMA NextSpent ==
    ASSUME BaseInv, Spent, [Next]_vars
    PROVE  Spent' /\ (Kept' => Kept) /\ (Unfailed' => Unfailed /\ NoneFails)
<1>1. /\ cfg \in Configs /\ Budgets[cfg.work].failures \in Nat
      /\ budget \in [runs : Nat, kills : Nat, failures : Nat] /\ budget.failures <= Budgets[cfg.work].failures
  BY StoreAssumption DEF BaseInv, Types, Spent
<1>2. NoneFails \/ /\ UNCHANGED cfg /\ budget.failures > 0
                   /\ budget' = [budget EXCEPT !.failures = @ - 1]
  BY DEF NoneFails, EncodeFails
<1>3. CASE UNCHANGED cfg /\ budget.failures > 0 /\ budget' = [budget EXCEPT !.failures = @ - 1]
  <2>1. budget' \in [runs : Nat, kills : Nat, failures : Nat] /\ budget'.failures = budget.failures - 1
    BY <1>1, <1>3
  <2> QED  BY <1>1, <1>3, <2>1 DEF Spent, Kept, Unfailed
<1>4. CASE NoneFails
  <2>1. CASE UNCHANGED <<cfg, budget>>
    BY <1>1, <1>4, <2>1 DEF Spent, Kept, Unfailed
  <2>2. ASSUME NEW k \in Configs, Start(k) PROVE Spent' /\ (Kept' => Kept) /\ (Unfailed' => Unfailed)
    <3>1. cfg' = k /\ k.work = cfg.work /\ budget.runs > 0 /\ budget' = [budget EXCEPT !.runs = @ - 1]
      BY <2>2 DEF Start
    <3>2. budget' \in [runs : Nat, kills : Nat, failures : Nat] /\ budget'.failures = budget.failures
      BY <1>1, <3>1
    <3> QED  BY <1>1, <3>1, <3>2 DEF Spent, Kept, Unfailed
  <2>3. ASSUME Kill PROVE Spent' /\ (Kept' => Kept) /\ (Unfailed' => Unfailed)
    <3>1. UNCHANGED cfg /\ budget.kills > 0 /\ budget' = [budget EXCEPT !.kills = @ - 1]
      BY <2>3 DEF Kill
    <3>2. budget' \in [runs : Nat, kills : Nat, failures : Nat] /\ budget'.failures = budget.failures
      BY <1>1, <3>1
    <3>3. Spent' /\ (Unfailed' => Unfailed)
      BY <1>1, <3>1, <3>2 DEF Spent, Unfailed
    <3>4. Kept' => Kept
      BY <3>1 DEF Kept
    <3> QED  BY <3>3, <3>4
  <2>4. CASE QuietStep
    BY <2>1, <2>4 DEF QuietStep, Invalidate, Compare, Unlink, WipeWinner, WinnersWiped, WipeAttempt, AttemptsWiped,
       DropStrategy, StrategiesDropped, SelectAll, ReuseTable, Curate, Merge, Finalize, Unmoved
  <2>5. ASSUME NEW p \in Pairs, Encodes(p) PROVE UNCHANGED <<cfg, budget>>
    <3>1. ~EncodeFails(p)
      BY <1>4 DEF NoneFails
    <3> QED
      BY <2>5, <3>1
      DEF Encodes, Accept, Encode, Measure, Promote, Copy, Copied, Certify, Sweep, SweepCard, Framed, Unmoved
  <2>6. CASE \/ BeginTests \/ SaveTable \/ Recover \/ Curated \/ Conclude
             \/ (\E p \in Pairs : Begin(p)) \/ UNCHANGED vars
    BY <2>1, <2>6 DEF BeginTests, SaveTable, Recover, Curated, Conclude, Begin, Unmoved, vars
  <2> QED  BY <1>4, <2>1, <2>2, <2>3, <2>4, <2>5, <2>6, StepCases
<1> QED  BY <1>2, <1>3, <1>4

\* What is over when the attempts are cleaned up for nobody.
LEMMA NoFinalize == ASSUME Kept, BaseInv PROVE pc # "finalize" /\ cfg.cleanup = "none"
BY DEF Kept, BaseInv, Types, Permission

LEMMA SettledInvested ==
    ASSUME Invested, Spares, UNCHANGED cfg, pc \in Settled, pc' \in Settled \cup {"done", "failed", "killed"},
           \/ record' = record
           \/ \E tests, rows : record' = RecordOf(cfg, tests, rows)
    PROVE  Invested'
<1>1. AllTrailed(cfg.goal)'
  <2>1. PICK g : g = cfg.goal
    OBVIOUS
  <2>2. AllTrailed(g)'
    BY <2>1, TrailsStay DEF Invested
  <2> QED  BY <2>1, <2>2 DEF AllTrailed, Trailed, OnTrail
<1>2. Agrees' /\ (record' = record \/ record'.goal = cfg.goal)
  <2>1. CASE record' = record
    BY <2>1 DEF Invested, Agrees, Changed, BandDiffers
  <2>2. CASE \E tests, rows : record' = RecordOf(cfg, tests, rows)
    BY <2>2, Rewrites
  <2> QED  BY <2>1, <2>2
<1> QED  BY <1>1, <1>2, InvestedKeeps DEF Settled

LEMMA NextInvested ==
    ASSUME OneRange, Kept, "separate" \in Assumed, BaseInv, Invested, Climbing, [Next]_vars
    PROVE  Invested'
<1>1. ASSUME NEW k \in Configs, Start(k) PROVE Invested'
  BY <1>1, StartInvested
<1>2. CASE Kill
  <2>1. Spares /\ UNCHANGED <<record, cfg>> /\ pc' = "killed"
    BY <1>2, SparesSame DEF Kill, disk, Goto
  <2> QED  BY <2>1, InvestedKeeps DEF Settled
<1>3. CASE Invalidate
  BY <1>3, LadderInvested
<1>4. CASE SelectAll \/ SaveTable
  <2>1. Spares /\ UNCHANGED cfg
    BY <1>4, SparesSame DEF SelectAll, SaveTable, Unmoved
  <2> QED  BY <1>4, <2>1, SettledInvested DEF SelectAll, SaveTable, Goto, Settled
<1>5. CASE ReuseTable \/ BeginTests \/ Recover \/ Curated \/ Conclude \/ Merge \/ \E p \in Pairs : Begin(p)
  <2> USE DEF ReuseTable, BeginTests, Recover, Curated, Conclude, Merge, Begin
  <2>1. Spares /\ UNCHANGED <<record, cfg>>
    BY <1>5, SparesSame DEF Unmoved, disk
  <2>2. pc' # "finalize"
    BY <1>5, NoFinalize DEF Goto
  <2> QED  BY <1>5, <2>1, <2>2, SettledInvested DEF Goto, Settled
<1>6. CASE Curate
  <2>1. Spares
    BY <1>6, QuietSteps, SparesWinners DEF QuietStep, Curate
  <2> QED  BY <1>6, <2>1, SettledInvested DEF Curate, Unmoved, Settled
<1>7. CASE Finalize
  BY <1>7, NoFinalize DEF Finalize
<1>8. ASSUME NEW p \in Pairs, Encodes(p) PROVE Invested'
  BY <1>8, EncodesInvested
<1>9. CASE UNCHANGED vars
  <2>1. UNCHANGED <<attempt, winner, record, cfg, pc>>
    BY <1>9 DEF vars
  <2> QED
    BY <2>1 DEF Invested, AllTrailed, Trailed, OnTrail, Separate, Agrees, BandDiffers, Changed
<1> QED
  BY <1>1, <1>2, <1>3, <1>4, <1>5, <1>6, <1>7, <1>8, <1>9, StepCases DEF QuietStep

\* Outside the phases that encode no pair is begun.
LEMMA NoneBegun ==
    ASSUME BaseInv, Next
    PROVE  \/ \E p \in Pairs : Begin(p) \/ Encodes(p)
           \/ Begun' = {}
<1>1. CASE QuietStep
  BY <1>1, QuietSteps DEF Quiet, BaseInv, Working, Begun
<1>2. CASE (\E k \in Configs : Start(k)) \/ BeginTests \/ Recover \/ Curated
  BY <1>2 DEF Start, BeginTests, Recover, Curated, Idle, BaseInv, Working, Begun, Encoding
<1>3. CASE Kill \/ SaveTable \/ Conclude
  BY <1>3 DEF Kill, SaveTable, Conclude, Begun
<1> QED  BY <1>1, <1>2, <1>3, StepCases

LEMMA NextClimbing ==
    ASSUME Kept, BaseInv, Climbing, [Next]_vars
    PROVE  Climbing'
<1>1. CASE Begun' = {}
  BY <1>1 DEF Climbing
<1>2. ASSUME NEW p \in Pairs, Begin(p) PROVE Climbing'
  <2>1. /\ Begun' = Begun \cup {p} /\ job'[p] = [stage |-> "seek", at |-> 1]
        /\ \A r \in Begun \ {p} : job'[r] = job[r]
    BY <1>2 DEF Begin, Begun
  <2>2. UNCHANGED <<attempt, winner, cfg>>
    BY <1>2 DEF Begin, disk, Unmoved
  <2>3. \A i \in DOMAIN Goal(cfg) : ~(i < 1)
    <3>1. Goal(cfg) \in Seq(Nat)
      BY ConfigFacts DEF BaseInv, Types
    <3> QED  BY <3>1
  <2>4. Climbs(p)'
    BY <2>1, <2>2, <2>3 DEF Climbs, Goal
  <2>5. ASSUME NEW r \in Begun \ {p} PROVE Climbs(r)'
    BY <2>1, <2>2 DEF Climbing, Climbs, Goal, Trailed, OnTrail
  <2> QED  BY <2>1, <2>4, <2>5 DEF Climbing
<1>3. ASSUME NEW p \in Pairs, Encodes(p) PROVE Climbing'
  BY <1>3, EncodesClimbing
<1>4. CASE UNCHANGED vars
  BY <1>4 DEF vars, Climbing, Climbs, Begun, Goal, Trailed, OnTrail
<1> QED  BY <1>1, <1>2, <1>3, <1>4, NoneBegun
--------------------------------------------------------------------------------
(* The tests and the selection.                                            *)

Keeps == \A a \in Addresses : attempt[a].file # None => attempt'[a].file # None

LEMMA BasisIsSome == ASSUME BaseInv PROVE TestChunks # {}
BY StoreAssumption DEF TestChunks, BaseInv, Types

LEMMA ChoiceStays ==
    ASSUME UNCHANGED <<record, cfg>>
    PROVE  UNCHANGED <<TestChunks, TestPairs, Skips(cfg), Choice, Agrees>>
<1>1. UNCHANGED <<TestChunks, TestPairs, Skips(cfg)>>
  BY DEF TestChunks, TestPairs, Skips
<1>2. UNCHANGED Choice
  BY <1>1 DEF Choice, Level
<1>3. UNCHANGED Agrees
  BY DEF Agrees, Changed, BandDiffers
<1> QED  BY <1>1, <1>2, <1>3

LEMMA TestedStays ==
    ASSUME UNCHANGED <<record, cfg>>, Keeps, Tested
    PROVE  Tested'
<1>1. UNCHANGED <<TestPairs, Skips(cfg)>>
  BY ChoiceStays
<1> QED  BY <1>1 DEF Keeps, Tested, Trailed, OnTrail

\* The basis a table is saved with is the one the next run tests.
LEMMA BasisStays ==
    ASSUME BaseInv, UNCHANGED cfg, NEW rows, record' = RecordOf(cfg, TestChunks, rows), record' # None
    PROVE  UNCHANGED <<TestChunks, TestPairs, Skips(cfg), Choice>>
<1>1. record'.tests = TestChunks /\ TestChunks # {} /\ TestChunks \subseteq cfg.chunks
  BY Rewrites, BasisIsSome, TestsInPlan
<1>2. TestChunks' = TestChunks
  BY <1>1 DEF TestChunks
<1>3. UNCHANGED <<TestPairs, Skips(cfg)>>
  BY <1>2 DEF TestPairs, Skips
<1>4. UNCHANGED Choice
  BY <1>2, <1>3 DEF Choice, Level
<1> QED  BY <1>2, <1>3, <1>4

LEMMA LevelRows ==
    ASSUME NEW rows, NEW basis, \A s \in cfg.plan : DOMAIN rows[s] = basis
    PROVE  ApplyTolerance(rows) = Level(basis)
BY DEF ApplyTolerance, Level

\* With every test complete the rows of the table are of the whole basis.
LEMMA TableIsWhole ==
    ASSUME \A p \in TestPairs : Complete(p)
    PROVE  DOMAIN Table = cfg.plan /\ \A s \in cfg.plan : DOMAIN Table[s] = TestChunks
BY DEF TestPairs, Table, Row

LEMMA AllTested == ASSUME BaseInv, Pursued, SaveTable PROVE (\A p \in TestPairs : Complete(p)) /\ ~Skips(cfg)
BY DEF Pursued, SaveTable, Due, Encoding

LEMMA NextWholeRows ==
    ASSUME BaseInv, WholeRows, Pursued, [Next]_vars
    PROVE  WholeRows'
<1>1. CASE record' \in {record, None}
  BY <1>1 DEF WholeRows
<1>2. CASE record' = RecordOf(cfg, {}, NoRows)
  <2>1. record'.tests = {} /\ DOMAIN record'.rows = {}
    BY <1>2 DEF RecordOf, NoRows
  <2> QED  BY <2>1 DEF WholeRows
<1>3. CASE SaveTable /\ record' = RecordOf(cfg, TestChunks, Table)
  <2>1. record'.tests = TestChunks /\ record'.rows = Table /\ record'.chunks = cfg.chunks
    BY <1>3 DEF RecordOf
  <2>2. DOMAIN Table = cfg.plan /\ \A s \in cfg.plan : DOMAIN Table[s] = TestChunks
    BY <1>3, AllTested, TableIsWhole
  <2> QED  BY <2>1, <2>2, TestsInPlan, BasisIsSome DEF WholeRows
<1> QED  BY <1>1, <1>2, <1>3, RecordWrites

\* A pair that is done with is complete.
LEMMA EncodesPursued ==
    ASSUME Kept, BaseInv, NoneFails, Climbing, Pursued, NEW p \in Pairs, Encodes(p)
    PROVE  Pursued'
<1>1. /\ PairStep(p) /\ p \in Begun /\ Fitting(p) /\ Types /\ Climbs(p) /\ pc \in Encoding
      /\ UNCHANGED <<cfg, record, pc, todo, selected>> /\ cfg.cleanup = "none"
  BY EncodesInv DEF BaseInv, Types, Working, PairStep, Own, Climbing, Kept
<1>2. UNCHANGED Due /\ UNCHANGED TestPairs /\ UNCHANGED Skips(cfg)
  BY <1>1, ChoiceStays DEF Due, AllPairs
<1>3. Due \subseteq Pairs
  BY TestsInPlan, PlanInPairs DEF Due
<1>4. (Begun' = Begun) \/ (Begun' = Begun \ {p} /\ Complete(p)')
  <2>1. CASE Certify(p)
    <3>1. job[p].stage = "certify" /\ Finish(p) /\ winner' = [winner EXCEPT ![p].card = Best(cfg)]
      BY <1>1, <2>1 DEF Certify, KeepsAttempts, Return, Wanted
    <3>2. winner[p].file # None /\ Best(cfg) # None
      BY <1>1, <3>1, ConfigFacts, NoneAssumption DEF Fitting, Types
    <3> DEFINE w == [winner[p] EXCEPT !.card = Best(cfg)]
    <3>3. winner' = [winner EXCEPT ![p] = w] /\ winner \in [Pairs -> Winners]
      BY <1>1, <3>1 DEF Types
    <3>4. w.file = winner[p].file /\ w.card = Best(cfg)
      BY <3>3 DEF Winners
    <3> HIDE DEF w
    <3>5. Complete(p)'
      BY <3>2, <3>3, <3>4 DEF Complete
    <3> QED  BY <3>1, <3>5 DEF Finish, Begun
  <2>2. CASE Accept(p) \/ Measure(p)
    BY <2>2 DEF Accept, Measure, Advance, Begun
  <2>3. CASE Encode(p) \/ Promote(p) \/ Copy(p) \/ Copied(p)
    BY <2>3 DEF Encode, Promote, Copy, Copied, Stage, Begun
  <2>4. ~EncodeFails(p)
    BY DEF NoneFails
  <2>5. ~Sweep(p) /\ ~SweepCard(p)
    BY <1>1 DEF Sweep, SweepCard, Fitting
  <2> QED  BY <2>1, <2>2, <2>3, <2>4, <2>5 DEF Encodes
<1>5. \A r \in Due : Complete(r)' \/ r \in todo \cup Begun'
  BY <1>1, <1>3, <1>4, Grows DEF Pursued
<1>6. \A r \in Due' : Complete(r)' \/ r \in todo' \cup Begun'
  BY <1>1, <1>2, <1>5
<1> QED  BY <1>1, <1>2, <1>4, <1>6 DEF Pursued, Encoding

LEMMA NextPursued ==
    ASSUME Kept, BaseInv, NoneFails, NoneLost, Climbing, Pursued, [Next]_vars
    PROVE  Pursued'
<1>1. CASE pc' \notin Encoding \cup {"curate", "merge"}
  BY <1>1 DEF Pursued, Encoding
<1>2. CASE (QuietStep /\ ~Curate) \/ (\E k \in Configs : Start(k)) \/ Kill \/ SaveTable
  <2>1. pc' \notin Encoding \cup {"curate", "merge"}
    BY <1>2 DEF QuietStep, Invalidate, Compare, Unlink, WipeWinner, WinnersWiped, WipeAttempt,
       AttemptsWiped, DropStrategy, StrategiesDropped, SelectAll, ReuseTable, Merge, Finalize, Goto,
       Start, Kill, SaveTable, Encoding
  <2> QED  BY <1>1, <2>1
<1>3. CASE BeginTests
  <2>1. /\ UNCHANGED <<record, winner, cfg>> /\ ~Skips(cfg) /\ pc' = "testing"
        /\ todo' = {p \in TestPairs : ~Complete(p)} /\ Begun' = {}
    BY <1>3 DEF BeginTests, disk, Unmoved, Goto, BaseInv, Working, Begun, Encoding
  <2>2. UNCHANGED <<TestPairs, Skips(cfg)>>
    BY <2>1, ChoiceStays
  <2>3. \A p \in TestPairs : Complete(p)' = Complete(p)
    BY <2>1 DEF Complete
  <2>4. Due' = TestPairs
    BY <2>1, <2>2 DEF Due
  <2> QED  BY <2>1, <2>2, <2>3, <2>4 DEF Pursued
<1>4. CASE Recover \/ Curate \/ Curated
  <2>1. /\ UNCHANGED <<selected, cfg>> /\ pc # "testing" /\ pc' \in {"curate", "encoding"}
        /\ \/ pc = "recover" /\ todo' = {p \in AllPairs : ~Complete(p)}
           \/ pc = "curate" /\ UNCHANGED <<todo, job>>
    BY <1>4 DEF Recover, Curate, Curated, Unmoved, Idle, Goto
  <2>2. Due' = AllPairs /\ (pc = "curate" => Due = AllPairs /\ Begun' = Begun)
    BY <2>1 DEF Due, AllPairs, Begun
  <2>3. \A p \in AllPairs : Complete(p)' = Complete(p)
    <3>1. UNCHANGED winner \/ Curate
      BY <1>4 DEF Recover, Curated, disk
    <3>2. Curate => \A p \in AllPairs : winner'[p] = winner[p]
      BY PlanInPairs DEF Curate, Consumed, BaseInv, Types
    <3> QED  BY <3>1, <3>2 DEF Complete
  <2> QED  BY <2>1, <2>2, <2>3 DEF Pursued, Encoding
<1>5. CASE Conclude
  <2>1. UNCHANGED <<winner, selected, cfg>> /\ pc' = "merge" /\ pc = "encoding" /\ todo = {} /\ Begun = {}
    BY <1>5 DEF Conclude, disk, Unmoved, Goto, NoneLost
  <2>2. \A p \in AllPairs : Complete(p)
    BY <2>1 DEF Pursued, Due, Encoding
  <2>3. AllPairs' = AllPairs /\ \A p \in AllPairs : Complete(p)'
    BY <2>1, <2>2 DEF AllPairs, Complete
  <2> QED  BY <2>1, <2>3 DEF Pursued, Encoding
<1>6. ASSUME NEW p \in Pairs, Begin(p) PROVE Pursued'
  <2>1. /\ UNCHANGED <<record, winner, selected, cfg, pc>> /\ p \in todo /\ pc \in Encoding
        /\ todo' = todo \ {p} /\ Begun' = Begun \cup {p}
    BY <1>6 DEF Begin, disk, Unmoved, Begun, Encoding
  <2>2. UNCHANGED <<TestPairs, Skips(cfg), Due>>
    BY <2>1, ChoiceStays DEF Due, AllPairs
  <2>3. todo' \cup Begun' = todo \cup Begun
    BY <2>1
  <2>4. \A r \in Due : Complete(r)' = Complete(r)
    BY <2>1 DEF Complete
  <2> QED  BY <2>1, <2>2, <2>3, <2>4 DEF Pursued, Encoding
<1>7. ASSUME NEW p \in Pairs, Encodes(p) PROVE Pursued'
  BY <1>7, EncodesPursued
<1>8. CASE UNCHANGED vars
  <2>1. UNCHANGED <<record, winner, selected, cfg, pc, todo, Begun>>
    BY <1>8 DEF vars, Begun
  <2>2. UNCHANGED <<TestPairs, Skips(cfg), Due, AllPairs>>
    BY <2>1, ChoiceStays DEF Due, AllPairs
  <2> QED  BY <2>1, <2>2 DEF Pursued, Complete
<1> QED  BY <1>2, <1>3, <1>4, <1>5, <1>6, <1>7, <1>8, StepCases
--------------------------------------------------------------------------------
(* A concluded run leaves nothing to encode.                               *)

\* The selection, from the record's table or from the one the tests leave.
LEMMA Decides ==
    ASSUME BaseInv, Invested, WholeRows, Pursued, SelectAll \/ ReuseTable \/ SaveTable
    PROVE  (selected' = Choice /\ Tested /\ record' # None /\ Choice' = Choice /\ Tested')
<1>1. UNCHANGED <<cfg, attempt, winner>> /\ Keeps /\ Types /\ Settled # {} /\ pc \in Settled
  BY DEF SelectAll, ReuseTable, SaveTable, Unmoved, disk, Keeps, Settled, BaseInv, Types
<1>2. \A p \in Pairs : Complete(p) => Trailed(p, cfg.goal)
  BY <1>1 DEF Invested, AllTrailed, Complete
<1>3. TestPairs \subseteq Pairs
  BY TestsInPlan, PlanInPairs
<1>4. CASE SelectAll
  <2>1. record' = RecordOf(cfg, {}, NoRows) /\ selected' = cfg.plan /\ Skips(cfg)
    BY <1>4 DEF SelectAll
  <2>2. record' # None
    BY <2>1, RecordWritten, NoneAssumption
  <2>3. Skips(cfg)' = Skips(cfg)
    BY <1>1 DEF Skips
  <2> QED  BY <1>1, <2>1, <2>2, <2>3 DEF Choice, Tested
<1>5. CASE ReuseTable
  <2>1. /\ UNCHANGED record /\ ~Skips(cfg) /\ record # None /\ cfg.plan \subseteq DOMAIN record.rows
        /\ selected' = ApplyTolerance(record.rows) /\ \A p \in TestPairs : Complete(p)
    BY <1>5 DEF ReuseTable, TableCovers, disk
  <2>2. cfg.plan # {} /\ record.chunks = cfg.chunks
    BY <1>1, <2>1, StoreAssumption DEF Types, Invested, Agrees, BandDiffers
  <2>3. TestChunks = record.tests /\ \A s \in cfg.plan : DOMAIN record.rows[s] = TestChunks
    BY <2>1, <2>2 DEF WholeRows, TestChunks
  <2>4. selected' = Choice
    BY <2>1, <2>3, LevelRows DEF Choice
  <2>5. Tested
    BY <1>2, <1>3, <2>1 DEF Tested
  <2> QED  BY <1>1, <2>1, <2>4, <2>5, ChoiceStays, TestedStays
<1>6. CASE SaveTable
  <2>1. /\ record' = RecordOf(cfg, TestChunks, Table) /\ selected' = ApplyTolerance(Table)
        /\ ~Skips(cfg) /\ \A p \in TestPairs : Complete(p)
    BY <1>6, AllTested DEF SaveTable
  <2>2. TestChunks \in SUBSET Chunks
    BY <1>1, TestsInPlan, ConfigFacts DEF Types
  <2>3. record' # None
    BY <2>1, <2>2, RecordWritten, TableWritten, NoneAssumption
  <2>4. UNCHANGED <<TestPairs, Skips(cfg), Choice>>
    BY <1>1, <2>1, <2>3, BasisStays
  <2>5. selected' = Choice
    BY <2>1, TableIsWhole, LevelRows DEF Choice
  <2>6. Tested
    BY <1>2, <1>3, <2>1 DEF Tested
  <2>7. Tested'
    BY <1>1, <2>4, <2>6 DEF Tested, Trailed, OnTrail
  <2> QED  BY <2>3, <2>4, <2>5, <2>6, <2>7
<1> QED  BY <1>4, <1>5, <1>6

LEMMA NextDecided ==
    ASSUME Kept, BaseInv, Invested, WholeRows, Pursued, Decided, [Next]_vars
    PROVE  Decided'
<1>1. CASE SelectAll \/ ReuseTable \/ SaveTable
  BY <1>1, Decides DEF Decided
<1>2. CASE UNCHANGED <<record, cfg, selected>> /\ Keeps /\ pc \in {"recover", "curate", "encoding", "merge"}
  BY <1>2, ChoiceStays, TestedStays DEF Decided
<1>3. CASE pc' \notin {"recover", "curate", "encoding", "merge"}
  BY <1>3 DEF Decided
<1>4. CASE Invalidate \/ (\E k \in Configs : Start(k)) \/ Kill \/ BeginTests \/ Merge \/ Finalize
  <2>1. pc' \notin {"recover", "curate", "encoding", "merge"}
    BY <1>4 DEF Invalidate, Compare, Unlink, WipeWinner, WinnersWiped, WipeAttempt,
       AttemptsWiped, DropStrategy, StrategiesDropped, Merge, Finalize, Goto, Start, Kill, BeginTests
  <2> QED  BY <1>3, <2>1
<1>5. CASE Recover \/ Curate \/ Curated \/ Conclude
  BY <1>2, <1>5 DEF Recover, Curate, Curated, Conclude, Unmoved, disk, Keeps
<1>6. ASSUME NEW p \in Pairs, Begin(p) PROVE Decided'
  <2>1. UNCHANGED <<record, cfg, selected, pc>> /\ Keeps /\ pc \in Encoding
    BY <1>6 DEF Begin, Unmoved, disk, Keeps, Encoding
  <2> QED  BY <1>2, <1>3, <2>1 DEF Encoding
<1>7. ASSUME NEW p \in Pairs, Encodes(p) PROVE Decided'
  <2>1. UNCHANGED <<record, cfg, selected, pc>> /\ Keeps /\ pc \in Encoding
    BY <1>7, EncodesInv, Grows DEF PairStep, Own, Keeps
  <2> QED  BY <1>2, <1>3, <2>1 DEF Encoding
<1>8. CASE UNCHANGED vars
  <2>1. UNCHANGED <<record, cfg, selected, pc>> /\ Keeps
    BY <1>8 DEF vars, Keeps
  <2> QED  BY <1>2, <1>3, <2>1
<1> QED  BY <1>1, <1>4, <1>5, <1>6, <1>7, <1>8, StepCases DEF QuietStep

LEMMA RepeatableStays ==
    ASSUME UNCHANGED <<record, cfg>>, Keeps, Repeatable,
           \A p \in Choice \X cfg.chunks : Complete(p) => Complete(p)'
    PROVE  Repeatable'
<1>1. UNCHANGED <<Choice, Agrees>> /\ Tested'
  BY ChoiceStays, TestedStays DEF Repeatable
<1> QED  BY <1>1 DEF Repeatable

LEMMA RepeatableSame ==
    ASSUME UNCHANGED <<record, attempt, winner, cfg>>, Repeatable
    PROVE  Repeatable'
BY RepeatableStays DEF Keeps, Complete

LEMMA ChoiceInPairs == ASSUME BaseInv PROVE Choice \X cfg.chunks \subseteq Pairs
<1>1. Choice \subseteq cfg.plan
  BY DEF Choice, Level
<1> QED  BY <1>1, ConfigFacts DEF BaseInv, Types, Pairs

\* Every search of the repeated run finds what it asks for.
LEMMA EncodesRepeating ==
    ASSUME Kept, BaseInv, Pursued, Repeating, NEW p \in Pairs, Encodes(p)
    PROVE  Repeating'
<1>1. PairStep(p) /\ p \in Begun /\ Fitting(p) /\ Types /\ UNCHANGED <<cfg, record, pc, todo, replay>> /\ pc \in Encoding
  BY EncodesInv DEF BaseInv, Types, Working, PairStep, Own
<1>2. SUFFICES ASSUME replay PROVE UNCHANGED encoded /\ Repeatable'
  BY <1>1 DEF Repeating, Encoding
<1>3. pc = "testing" /\ Repeatable /\ p \in TestPairs /\ ~Skips(cfg)
  BY <1>1, <1>2 DEF Repeating, Encoding, Pursued
<1>4. Keeps /\ \A r \in Choice \X cfg.chunks : Complete(r) => Complete(r)'
  BY <1>1, ChoiceInPairs, Grows DEF Keeps
<1>5. Repeatable'
  BY <1>1, <1>3, <1>4, RepeatableStays
<1>6. ~Encode(p)
  <2> SUFFICES ASSUME job[p].stage = "seek" PROVE attempt[Address(p)].file # None
    BY DEF Encode
  <2>1. Trailed(p, cfg.goal)
    BY <1>3 DEF Repeatable, Tested
  <2>2. /\ Address(p) \in Addresses /\ <<Address(p)[1], Address(p)[2]>> = p
        /\ Address(p)[3] = Goal(cfg)[job[p].at] /\ job[p].at \in DOMAIN Goal(cfg)
    BY <1>1, Reached, PairFacts
  <2>3. OnTrail(cfg.goal, Address(p)[3])
    BY <2>2 DEF OnTrail, Goal
  <2> QED  BY <2>1, <2>2, <2>3 DEF Trailed
<1>7. UNCHANGED encoded
  BY <1>6 DEF Encodes, Accept, EncodeFails, Measure, Promote, Copy, Copied, Certify, Sweep, SweepCard
<1> QED  BY <1>5, <1>7

LEMMA QuietRepeating ==
    ASSUME Kept, BaseInv, Invested, WholeRows, Pursued, Decided, Repeating, QuietStep
    PROVE  Repeating'
<1>1. UNCHANGED <<cfg, replay, encoded>>
  BY QuietSteps DEF Quiet
<1>2. CASE Invalidate
  <2>1. pc \notin {"settled", "testing", "recover", "curate", "encoding", "merge", "done", "killed", "failed"}
        /\ pc' \notin {"done", "curate", "encoding"} /\ (pc # "ladder" \/ Compare)
    BY <1>2 DEF Invalidate, Compare, Unlink, WipeWinner, WinnersWiped, WipeAttempt,
       AttemptsWiped, DropStrategy, StrategiesDropped, Goto
  <2>2. ASSUME replay PROVE pc' = "settled" /\ Repeatable'
    <3>1. pc = "ladder" /\ Repeatable /\ Compare
      BY <2>1, <2>2 DEF Repeating
    <3>2. UNCHANGED <<record, attempt, winner>>
      BY <3>1 DEF Compare, disk
    <3>3. pc' = "settled"
      BY <3>1 DEF Compare, Goto, Repeatable, Agrees, Foreign
    <3> QED  BY <1>1, <3>1, <3>2, <3>3, RepeatableSame
  <2> QED  BY <1>1, <2>1, <2>2 DEF Repeating
<1>3. CASE SelectAll
  <2>1. /\ pc = "settled" /\ pc' = "recover" /\ UNCHANGED winner /\ Skips(cfg)
        /\ record' = RecordOf(cfg, {}, NoRows)
    BY <1>3 DEF SelectAll, Goto
  <2>2. record' # None /\ Choice' = Choice /\ Tested' /\ Agrees'
    BY <1>1, <1>3, <2>1, Decides, Rewrites
  <2>3. Repeatable => Repeatable'
    BY <1>1, <2>1, <2>2 DEF Repeatable, Complete
  <2> QED  BY <1>1, <2>1, <2>3 DEF Repeating
<1>4. CASE ReuseTable
  <2>1. pc = "settled" /\ pc' = "recover" /\ UNCHANGED <<record, attempt, winner>>
    BY <1>4 DEF ReuseTable, Goto, disk
  <2> QED  BY <1>1, <2>1, RepeatableSame DEF Repeating
<1>5. CASE Merge
  <2>1. pc = "merge" /\ pc' \in {"failed", "done"} /\ UNCHANGED <<record, attempt, winner>>
    BY <1>5, NoFinalize DEF Merge, Goto, disk
  <2>2. Repeatable
    BY <2>1 DEF Decided, Pursued, Invested, Settled, Repeatable, AllPairs
  <2> QED  BY <1>1, <2>1, <2>2, RepeatableSame DEF Repeating
<1>6. CASE Finalize
  BY <1>6, NoFinalize DEF Finalize
<1>7. CASE Curate
  <2>1. pc = "curate" /\ UNCHANGED <<record, attempt, pc, todo, job>>
    BY <1>7 DEF Curate, Idle
  <2>2. Choice \X cfg.chunks = AllPairs /\ AllPairs \subseteq Pairs
    BY <2>1, PlanInPairs DEF Decided, AllPairs
  <2>3. \A p \in AllPairs : winner'[p] = winner[p]
    BY <1>7, <2>2 DEF Curate, Consumed, BaseInv, Types
  <2>4. Repeatable => Repeatable'
    BY <1>1, <2>1, <2>2, <2>3, RepeatableStays DEF Keeps, Complete
  <2> QED  BY <1>1, <2>1, <2>4 DEF Repeating, Begun
<1> QED  BY <1>2, <1>3, <1>4, <1>5, <1>6, <1>7 DEF QuietStep

LEMMA NextRepeating ==
    ASSUME Kept, BaseInv, NoneLost, Invested, WholeRows, Pursued, Decided, Repeating, [Next]_vars
    PROVE  Repeating'
<1>1. ASSUME NEW k \in Configs, Start(k) PROVE Repeating'
  <2>1. /\ replay' = (pc = "done" /\ k = cfg) /\ cfg' = k /\ encoded' = FALSE /\ pc' = "ladder"
        /\ UNCHANGED <<record, attempt, winner>>
    BY <1>1 DEF Start, Goto, disk
  <2>2. replay' => Repeatable'
    BY <2>1, RepeatableSame DEF Repeating
  <2> QED  BY <2>1, <2>2 DEF Repeating
<1>2. CASE Kill
  BY <1>2 DEF Kill, Goto, Repeating
<1>3. CASE QuietStep
  BY <1>3, QuietRepeating
<1>4. CASE BeginTests
  <2>1. pc = "settled" /\ pc' = "testing" /\ UNCHANGED <<record, attempt, winner, cfg, replay, encoded>>
    BY <1>4 DEF BeginTests, Goto, disk, Unmoved
  <2> QED  BY <2>1, RepeatableSame DEF Repeating
<1>5. CASE SaveTable
  <2>1. /\ pc = "testing" /\ pc' \in {"recover", "failed"} /\ UNCHANGED <<winner, cfg, replay, encoded>>
        /\ record' = RecordOf(cfg, TestChunks, Table)
    BY <1>5 DEF SaveTable, Goto, Unmoved
  <2>2. record' # None /\ Choice' = Choice /\ Tested' /\ Agrees'
    BY <1>5, <2>1, Decides, Rewrites
  <2>3. Repeatable => Repeatable'
    BY <2>1, <2>2 DEF Repeatable, Complete
  <2> QED  BY <2>1, <2>3 DEF Repeating
<1>6. CASE Recover \/ Curated
  <2>1. /\ UNCHANGED <<record, attempt, winner, cfg, replay, encoded, job>>
        /\ \/ pc = "recover" /\ pc' = "curate" /\ todo' = {p \in AllPairs : ~Complete(p)} /\ Begun = {}
           \/ pc = "curate" /\ pc' = "encoding" /\ todo' = todo
    BY <1>6 DEF Recover, Curated, Goto, Unmoved, Idle, disk, BaseInv, Working, Encoding
  <2>2. pc = "recover" => AllPairs = Choice \X cfg.chunks
    BY DEF Decided, AllPairs
  <2>3. Repeatable => Repeatable' /\ (pc = "recover" => todo' = {})
    BY <2>1, <2>2, RepeatableSame DEF Repeatable
  <2> QED  BY <2>1, <2>3 DEF Repeating, Begun
<1>7. CASE Conclude
  <2>1. pc = "encoding" /\ pc' = "merge" /\ UNCHANGED <<record, attempt, winner, cfg, replay, encoded>>
    BY <1>7 DEF Conclude, Goto, disk, Unmoved, NoneLost
  <2> QED  BY <2>1, RepeatableSame DEF Repeating
<1>8. ASSUME NEW p \in Pairs, Begin(p) PROVE Repeating'
  <2>1. UNCHANGED <<record, attempt, winner, cfg, pc, replay, encoded>> /\ pc \in Encoding /\ p \in todo
    BY <1>8 DEF Begin, disk, Unmoved, Encoding
  <2> QED  BY <2>1, RepeatableSame DEF Repeating, Encoding
<1>9. ASSUME NEW p \in Pairs, Encodes(p) PROVE Repeating'
  BY <1>9, EncodesRepeating
<1>10. CASE UNCHANGED vars
  BY <1>10, RepeatableSame DEF vars, Repeating, Begun
<1> QED
  BY <1>1, <1>2, <1>3, <1>4, <1>5, <1>6, <1>7, <1>8, <1>9, <1>10, StepCases

LEMMA InitReplay == ASSUME Init PROVE Spent /\ ReplayInv
<1>1. Begun = {} /\ record = None /\ pc = "idle" /\ replay = FALSE /\ NoneLost
  BY DEF Init, Begun, NoneLost
<1>2. Spent
  BY StoreAssumption DEF Init, Spent
<1> QED
  BY <1>1, <1>2 DEF ReplayInv, Invested, Settled, Climbing, WholeRows, Pursued, Encoding, Decided, Repeating

\* What _recover, the selection and the curation leave: a run that repeats a concluded
\* run finds every test and every selected pair, and encodes nothing.  As long as no
\* encode has failed, attempts are kept, and the quality range stays the same; the
\* arguments of a strategy and a winner-band key do not change at once.
THEOREM Repeats ==
    ASSUME OneRange, "separate" \in Assumed
    PROVE  Spec => []ReplayIsFree
<1> DEFINE All == BaseInv /\ Spent /\ (Kept /\ Unfailed => ReplayInv)
<1>1. Init => All
  BY InitInv, InitReplay
<1>2. All /\ [Next]_vars => All'
  <2> SUFFICES ASSUME All, [Next]_vars PROVE All'
    OBVIOUS
  <2>1. BaseInv' /\ Spent' /\ (Kept' => Kept) /\ (Unfailed' => Unfailed /\ NoneFails)
    BY NextInv, NextSpent
  <2>2. ASSUME Kept', Unfailed' PROVE ReplayInv'
    <3> USE DEF ReplayInv
    <3>1. Kept /\ NoneFails /\ BaseInv /\ ReplayInv
      BY <2>1, <2>2
    <3>2. NoneLost' /\ Invested' /\ Climbing'
      BY <3>1, NextNoneLost, NextInvested, NextClimbing
    <3>3. WholeRows' /\ Pursued' /\ Decided' /\ Repeating'
      BY <3>1, NextWholeRows, NextPursued, NextDecided, NextRepeating
    <3> QED  BY <3>2, <3>3
  <2> QED  BY <2>1, <2>2
<1>3. All => ReplayIsFree
  BY DEF ReplayInv, Repeating, ReplayIsFree
<1> QED  BY <1>1, <1>2, <1>3, PTL DEF Spec
================================================================================
