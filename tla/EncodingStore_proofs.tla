-------------------------- MODULE EncodingStore_proofs --------------------------
(***************************************************************************)
(* The attempt and winner trees, for all strategies, chunks, trails and    *)
(* configurations, and any number of runs, kills and failures.             *)
(***************************************************************************)
EXTENDS EncodingStore, TLAPS

Cards   == [sampling : {k.sampling : k \in Configs}, basis : Bases]
Entries == [file : Bases \cup {None}, card : Cards \cup {None}]
Winners == [file : Videos \cup {None},
            card : {Best(k) : k \in Configs} \cup {None}]
Jobs    == [stage : {"seek", "measure", "promote", "copy", "certify", "sweep", "unlink"}, at : Nat]
Encoding == {"testing", "encoding"}

Types ==
    /\ attempt \in [Addresses -> Entries] /\ winner \in [Pairs -> Winners]
    /\ cfg \in Configs /\ pc \in Labels
    /\ todo \subseteq Pairs /\ lost \subseteq Pairs
    /\ Begun \subseteq Pairs /\ job \in [Begun -> Jobs]
    /\ selected \subseteq cfg.plan
    /\ DOMAIN handed \subseteq Pairs /\ \A p \in DOMAIN handed : handed[p] \in {None, Best(cfg)}
    /\ encoded \in BOOLEAN /\ replay \in BOOLEAN

\* An attempt that was reached or promoted is there; what is promoted is the trail's last,
\* and from then on there is a winner.
Fitting(p) ==
    /\ job[p].stage \in {"seek", "measure", "promote", "copy"} => job[p].at \in DOMAIN Goal(cfg)
    /\ job[p].stage \in {"measure", "promote", "copy"} => attempt[Address(p)].file \in Bases
    /\ job[p].stage \in {"promote", "copy"} => job[p].at = Len(Goal(cfg))
    /\ job[p].stage \in {"copy", "certify", "sweep", "unlink"} => winner[p].file # None
    /\ job[p].stage = "certify" => attempt[<<p[1], p[2], Best(cfg)>>].file \in Bases
    /\ job[p].stage \in {"sweep", "unlink"} => cfg.cleanup # "none"

\* Pairs are encoded in two phases only, and only those of the plan.
Working ==
    /\ pc \notin Encoding => Begun = {}
    /\ todo \cap Begun = {}
    /\ pc \in Encoding \cup {"curate"} => todo \cup Begun \subseteq cfg.plan \X Chunks
    /\ \A p \in Begun : Fitting(p)

\* Where attempts are deleted, it is permitted.
Permission ==
    /\ pc \in {"unlink", "wipe winners", "wipe attempts", "drop"} => cfg.force
    /\ pc = "finalize" => cfg.cleanup # "none"

BaseInv == Types /\ Working /\ Permission

\* What is there of a strategy was made from the basis b.
OfBasis(s, b) ==
    /\ \A a \in Addresses : a[1] = s => /\ attempt[a].file \in {None, b}
                                        /\ attempt[a].card # None => attempt[a].card.basis = b
    /\ \A c \in Chunks : winner[<<s, c>>].file # None => winner[<<s, c>>].file.basis = b
Keyed(s) == [pixels |-> record.pixels, args |-> record.args[s]]

\* The record vouches for what is there of the strategies it names.
Vouching == record # None => \A s \in Strategies \cap DOMAIN record.args : OfBasis(s, Keyed(s))

\* What the record does not vouch for is met by the settings that made it.
Vouched(k) == Recorded(k) /\ Remembered(k)

\* On the way through the ladder.
OnLadder ==
    /\ pc \in {"ladder", "drop", "band", "unknown"} => Vouched(cfg)
    /\ pc \in {"unknown", "wipe winners", "wipe attempts"} => record = None
    /\ pc = "wipe attempts" => \A p \in Pairs : winner[p] = Bare
    /\ pc \in {"drop", "band"} => record # None /\ record.pixels = cfg.pixels
    /\ pc = "band" => Changed(cfg) = {}

\* Past the ladder all there is of the plan is of this run's basis, and the record agrees.
Settled == {"settled", "testing", "recover", "curate", "encoding", "merge", "finalize"}
Current ==
    pc \in Settled => /\ \A s \in cfg.plan : OfBasis(s, Basis(cfg, s))
                      /\ record # None => record.pixels = cfg.pixels /\ Changed(cfg) = {}

\* The sidecar of an attempt tells what the file was made from.
TrueAttempts == \A a \in Addresses : attempt[a].file # None /\ attempt[a].card # None =>
                                        attempt[a].card.basis = attempt[a].file

BasisInv == Vouching /\ OnLadder /\ Current /\ TrueAttempts

\* All winners are of the quality q, but for those that are being copied.
OfQuality(q) == \A p \in Pairs : /\ winner[p].file # None /\ ~Copying(p) => winner[p].file.q = q
                                 /\ winner[p].card \in {None, q}
TrueWinners == \A p \in Pairs : Complete(p) /\ ~Copying(p) => winner[p].card = winner[p].file.q
\* The quality a goal ends at, in the one range there is.
Aim(goal) == Trail[goal][cfg.range][Len(Trail[goal][cfg.range])]

QualityInv ==
    /\ record # None => OfQuality(Aim(record.goal))
    /\ pc = "ladder" => Separate(cfg)
    /\ pc \in Settled => OfQuality(Best(cfg))
    /\ pc \in {"drop"} \cup Settled /\ record # None => record.goal = cfg.goal
    /\ TrueWinners

\* The attempt that would be handed on is there, or cleaned up with the others of the pair.
Standing(p) == attempt[<<p[1], p[2], Best(cfg)>>].file \in IF cfg.cleanup = "none" THEN Bases ELSE {None}

\* What is handed on, by name of the attempt or as the winner.
Handing ==
    /\ pc \in {"curate", "encoding"} => AllPairs \subseteq DOMAIN handed \cup todo \cup Begun \cup lost
    /\ pc = "curate" => DOMAIN handed \subseteq AllPairs
    /\ pc = "merge" => AllPairs \subseteq DOMAIN handed
    /\ pc \in {"curate", "encoding", "merge"} => \A p \in DOMAIN handed :
          /\ winner[p].file # None
          /\ handed[p] # None => Standing(p)
    /\ pc \in {"curate", "encoding"} => \A p \in DOMAIN handed : handed[p] # None => p \notin todo \cup Begun
--------------------------------------------------------------------------------
(* What the configurations are.                                            *)

LEMMA ConfigFacts ==
    ASSUME NEW k \in Configs
    PROVE  /\ k.plan \subseteq Strategies /\ k.chunks \subseteq Chunks
           /\ Goal(k) \in Seq(Nat) /\ Len(Goal(k)) \in DOMAIN Goal(k) /\ Len(Goal(k)) \in Nat
           /\ \A i \in DOMAIN Goal(k) : i \in Nat /\ Goal(k)[i] \in Quals \cap Nat
           /\ Best(k) \in Quals \cap Nat
           /\ \A s \in Strategies : Basis(k, s) \in Bases
           /\ Tests(k.chunks) \subseteq k.chunks
<1>1. Goal(k) \in Seq(Nat) /\ Goal(k) # <<>>
  BY StoreAssumption DEF Goal
<1>2. \A i \in DOMAIN Goal(k) : i \in Nat /\ Goal(k)[i] \in Quals \cap Nat
  BY <1>1 DEF Quals
<1>3. Len(Goal(k)) \in DOMAIN Goal(k) /\ Len(Goal(k)) \in Nat
  BY <1>1
<1> QED  BY <1>1, <1>2, <1>3, StoreAssumption DEF Best, Bases

LEMMA PairFacts ==
    ASSUME NEW p \in Pairs
    PROVE  p = <<p[1], p[2]>> /\ p[1] \in Strategies /\ p[2] \in Chunks
BY DEF Pairs

LEMMA AddressFacts ==
    ASSUME NEW a \in Addresses
    PROVE  /\ a = <<a[1], a[2], a[3]>> /\ a[1] \in Strategies /\ a[2] \in Chunks /\ a[3] \in Quals
           /\ <<a[1], a[2]>> \in Pairs
BY DEF Addresses, Pairs

LEMMA Reached ==
    ASSUME Types, NEW p \in Begun, Fitting(p), job[p].stage \in {"seek", "measure", "promote", "copy"}
    PROVE  /\ p \in Pairs /\ job[p].at \in DOMAIN Goal(cfg) /\ job[p].at \in Nat
           /\ Address(p) \in Addresses /\ Address(p)[1] = p[1] /\ Address(p)[2] = p[2]
           /\ Address(p)[3] = Goal(cfg)[job[p].at]
<1>1. p \in Pairs /\ cfg \in Configs /\ job[p].at \in DOMAIN Goal(cfg)
  BY DEF Types, Fitting
<1>2. Goal(cfg)[job[p].at] \in Quals /\ job[p].at \in Nat
  BY <1>1, ConfigFacts
<1> QED  BY <1>1, <1>2, PairFacts DEF Address, Addresses
--------------------------------------------------------------------------------
(* Steps that do not concern a pair that is being encoded.                 *)

Quiet == /\ pc \notin Encoding /\ pc' \in Labels \ Encoding
         /\ UNCHANGED <<cfg, job, todo, lost, handed, encoded, replay>>
         /\ pc' \in {"unlink", "wipe winners", "wipe attempts", "drop"} => cfg.force
         /\ pc' = "finalize" => cfg.cleanup # "none"
         /\ pc' = "curate" => pc = "curate"
Deletes ==
    /\ attempt' \in [Addresses -> Entries] /\ winner' \in [Pairs -> Winners]
    /\ \A a \in Addresses : /\ attempt'[a].file \in {None, attempt[a].file}
                            /\ attempt'[a].card \in {None, attempt[a].card}
    /\ \A p \in Pairs : /\ winner'[p].file \in {None, winner[p].file}
                        /\ winner'[p].card \in {None, winner[p].card}

LEMMA QuietInv ==
    ASSUME BaseInv, Quiet, attempt' \in [Addresses -> Entries], winner' \in [Pairs -> Winners],
           selected' \subseteq cfg.plan
    PROVE  BaseInv'
<1>1. Types'
  BY DEF BaseInv, Quiet, Types, Begun, Best, Goal
<1>2. Working'
  BY DEF BaseInv, Quiet, Working, Begun, Encoding
<1>3. Permission'
  BY DEF BaseInv, Quiet, Permission
<1> QED  BY <1>1, <1>2, <1>3 DEF BaseInv

LEMMA KeepsAll == ASSUME Types, UNCHANGED <<attempt, winner>> PROVE Deletes
BY DEF Types, Deletes

LEMMA Cleared ==
    ASSUME NEW files, NEW cards, None \in files, None \in cards,
           NEW e \in [file : files, card : cards], NEW f \in {"file", "card"}
    PROVE  LET c == [e EXCEPT ![f] = None]
           IN  /\ c \in [file : files, card : cards]
               /\ c.file \in {None, e.file} /\ c.card \in {None, e.card}
<1>1. CASE f = "file"
  BY <1>1
<1>2. CASE f = "card"
  BY <1>2
<1> QED  BY <1>1, <1>2

LEMMA DeletesAttempt ==
    ASSUME Types, NEW a \in Addresses, NEW f \in {"file", "card"},
           attempt' = [attempt EXCEPT ![a][f] = None], UNCHANGED winner
    PROVE  Deletes
<1> DEFINE c == [attempt[a] EXCEPT ![f] = None]
<1>1. attempt \in [Addresses -> Entries] /\ attempt' = [attempt EXCEPT ![a] = c]
  BY DEF Types
<1>2. c \in Entries /\ c.file \in {None, attempt[a].file} /\ c.card \in {None, attempt[a].card}
  BY <1>1, Cleared DEF Entries
<1> HIDE DEF c
<1> QED  BY <1>1, <1>2 DEF Types, Deletes

LEMMA DeletesWinner ==
    ASSUME Types, NEW p \in Pairs, NEW f \in {"file", "card"},
           winner' = [winner EXCEPT ![p][f] = None], UNCHANGED attempt
    PROVE  Deletes
<1> DEFINE c == [winner[p] EXCEPT ![f] = None]
<1>1. winner \in [Pairs -> Winners] /\ winner' = [winner EXCEPT ![p] = c]
  BY DEF Types
<1>2. c \in Winners /\ c.file \in {None, winner[p].file} /\ c.card \in {None, winner[p].card}
  BY <1>1, Cleared DEF Winners
<1> HIDE DEF c
<1> QED  BY <1>1, <1>2 DEF Types, Deletes

QuietStep == \/ Invalidate \/ SelectAll \/ ReuseTable \/ Curate \/ Merge \/ Finalize

LEMMA SelectedOfPlan == ASSUME NEW rows PROVE ApplyTolerance(rows) \subseteq cfg.plan
BY DEF ApplyTolerance

LEMMA QuietSteps == BaseInv /\ QuietStep => Quiet /\ Deletes /\ selected' \subseteq cfg.plan
<1> SUFFICES ASSUME BaseInv, QuietStep PROVE Quiet /\ Deletes /\ selected' \subseteq cfg.plan
  OBVIOUS
<1> USE DEF Quiet, Idle, Unmoved, Goto, Encoding, Labels
<1>0. Types /\ selected \subseteq cfg.plan
  BY DEF BaseInv, Types
<1>1. CASE Compare
  BY <1>0, <1>1, KeepsAll DEF Compare, Permitted, disk
<1>2. CASE Unlink
  BY <1>0, <1>2, KeepsAll DEF Unlink, BaseInv, Permission
<1>3. CASE WipeWinner
  BY <1>0, <1>3, DeletesWinner DEF WipeWinner, BaseInv, Permission
<1>4. CASE WinnersWiped
  BY <1>0, <1>4, KeepsAll DEF WinnersWiped, BaseInv, Permission
<1>5. CASE WipeAttempt
  BY <1>0, <1>5, DeletesAttempt DEF WipeAttempt, BaseInv, Permission
<1>6. CASE AttemptsWiped
  BY <1>0, <1>6, KeepsAll DEF AttemptsWiped, disk
<1>7. CASE DropStrategy
  <2>1. PICK s \in Changed(cfg) :
         \/ \E c \in Chunks, f \in {"file", "card"} :
               /\ winner' = [winner EXCEPT ![<<s, c>>][f] = None]
               /\ UNCHANGED attempt
         \/ /\ \E a \in Addresses, f \in {"file", "card"} :
                  /\ attempt' = [attempt EXCEPT ![a][f] = None]
            /\ UNCHANGED winner
    BY <1>7 DEF DropStrategy
  <2>2. \A c \in Chunks : <<s, c>> \in Pairs
    BY <1>0, ConfigFacts DEF Changed, Types, Pairs
  <2>3. Deletes
    BY <1>0, <2>1, <2>2, DeletesWinner, DeletesAttempt
  <2> QED  BY <1>0, <1>7, <2>3 DEF DropStrategy, BaseInv, Permission
<1>8. CASE StrategiesDropped
  BY <1>0, <1>8, KeepsAll DEF StrategiesDropped
<1>9. CASE SelectAll
  BY <1>0, <1>9, KeepsAll DEF SelectAll
<1>10. CASE ReuseTable
  BY <1>0, <1>10, KeepsAll, SelectedOfPlan DEF ReuseTable, disk
<1>11. CASE Merge
  BY <1>0, <1>11, KeepsAll DEF Merge, disk
<1>12. CASE Finalize
  <2>1. Deletes
    BY <1>0, <1>12, KeepsAll, DeletesWinner, DeletesAttempt DEF Finalize
  <2> QED  BY <1>0, <1>12, <2>1 DEF Finalize, BaseInv, Permission
<1>13. CASE Curate
  BY <1>0, <1>13, DeletesWinner DEF Curate, BaseInv, Permission
<1> QED
  BY <1>1, <1>2, <1>3, <1>4, <1>5, <1>6, <1>7, <1>8, <1>9, <1>10, <1>11, <1>12, <1>13 DEF QuietStep, Invalidate

LEMMA QuietStepInv == BaseInv /\ QuietStep => BaseInv'
BY QuietSteps, QuietInv DEF Deletes
--------------------------------------------------------------------------------
(* A run begins or ends, and the phases that encode.                       *)

LEMMA StartInv == ASSUME BaseInv, NEW k \in Configs, Start(k) PROVE BaseInv'
<1>1. Begun = {} /\ pc' = "ladder"
  BY DEF BaseInv, Working, Encoding, Start, Goto
<1>2. Types'
  BY <1>1 DEF BaseInv, Types, Start, disk, Begun, Labels
<1>3. Working' /\ Permission'
  BY <1>1 DEF Start, Working, Permission, Begun, Encoding
<1> QED  BY <1>2, <1>3 DEF BaseInv

LEMMA KillInv == ASSUME BaseInv, Kill PROVE BaseInv'
<1>1. Begun' = {} /\ pc' = "killed"
  BY DEF Kill, Begun, Goto
<1>2. Types'
  BY <1>1 DEF BaseInv, Types, Kill, disk, Begun, Labels, Best, Goal
<1>3. Working' /\ Permission'
  BY <1>1 DEF Kill, Working, Permission, Begun, Encoding
<1> QED  BY <1>2, <1>3 DEF BaseInv

LEMMA TestsInPlan == ASSUME BaseInv PROVE TestChunks \subseteq cfg.chunks /\ TestPairs \subseteq cfg.plan \X Chunks
BY ConfigFacts DEF BaseInv, Types, TestPairs, TestChunks

LEMMA PlanInPairs == ASSUME BaseInv PROVE cfg.plan \X Chunks \subseteq Pairs /\ AllPairs \subseteq cfg.plan \X Chunks
BY ConfigFacts DEF BaseInv, Types, Pairs, AllPairs

LEMMA BeginTestsInv == ASSUME BaseInv, BeginTests PROVE BaseInv'
<1>1. Begun = {} /\ Begun' = {} /\ pc' = "testing"
  BY DEF BaseInv, Working, Encoding, BeginTests, Goto, Begun
<1>2. todo' \subseteq cfg.plan \X Chunks
  BY TestsInPlan DEF BeginTests
<1>3. Types'
  BY <1>1, <1>2, PlanInPairs DEF BaseInv, Types, BeginTests, Unmoved, disk, Begun, Labels, Best, Goal
<1>4. Working' /\ Permission'
  BY <1>1, <1>2 DEF BeginTests, Unmoved, Working, Permission, Begun, Encoding
<1> QED  BY <1>3, <1>4 DEF BaseInv

LEMMA SaveTableInv == ASSUME BaseInv, SaveTable PROVE BaseInv'
<1>1. Begun = {} /\ Begun' = {} /\ pc' \in {"failed", "recover"}
  BY DEF SaveTable, Goto, Begun
<1>2. selected' \subseteq cfg.plan
  BY SelectedOfPlan DEF SaveTable
<1>3. Types'
  BY <1>1, <1>2 DEF BaseInv, Types, SaveTable, Unmoved, Begun, Labels, Best, Goal
<1>4. Working' /\ Permission'
  BY <1>1 DEF SaveTable, Unmoved, Working, Permission, Begun, Encoding
<1> QED  BY <1>3, <1>4 DEF BaseInv

LEMMA RecoverInv == ASSUME BaseInv, Recover PROVE BaseInv'
<1>1. Begun = {} /\ Begun' = {} /\ pc' = "curate"
  BY DEF BaseInv, Working, Encoding, Recover, Goto, Begun
<1>2. todo' \subseteq cfg.plan \X Chunks /\ DOMAIN handed' \subseteq Pairs
      /\ \A p \in DOMAIN handed' : handed'[p] = None
  BY PlanInPairs DEF Recover
<1>3. Types'
  BY <1>1, <1>2, PlanInPairs DEF BaseInv, Types, Recover, Unmoved, disk, Begun, Labels, Best, Goal
<1>4. Working' /\ Permission'
  BY <1>1, <1>2 DEF Recover, Unmoved, Working, Permission, Begun, Encoding
<1> QED  BY <1>3, <1>4 DEF BaseInv

LEMMA CuratedInv == ASSUME BaseInv, Curated PROVE BaseInv'
<1>1. Begun = {} /\ Begun' = {} /\ pc = "curate" /\ pc' = "encoding"
  BY DEF BaseInv, Working, Encoding, Curated, Idle, Goto, Begun
<1>2. Types'
  BY <1>1 DEF BaseInv, Types, Curated, Unmoved, Idle, disk, Begun, Labels, Best, Goal
<1>3. Working' /\ Permission'
  BY <1>1 DEF BaseInv, Curated, Unmoved, Idle, Working, Permission, Begun, Encoding
<1> QED  BY <1>2, <1>3 DEF BaseInv

LEMMA ConcludeInv == ASSUME BaseInv, Conclude PROVE BaseInv'
<1>1. Begun = {} /\ Begun' = {} /\ pc' \in {"failed", "merge"}
  BY DEF Conclude, Goto, Begun
<1>2. Types'
  BY <1>1 DEF BaseInv, Types, Conclude, Unmoved, disk, Begun, Labels, Best, Goal
<1>3. Working' /\ Permission'
  BY <1>1 DEF Conclude, Unmoved, Working, Permission, Begun, Encoding
<1> QED  BY <1>2, <1>3 DEF BaseInv
--------------------------------------------------------------------------------
(* A step of a pair that is being encoded.                                 *)

\* The other pairs stay where they are.
Alone(p) == \A r \in Begun \ {p} : r \in Begun' /\ job'[r] = job[r]

LEMMA GoesAlone ==
    ASSUME BaseInv, NEW p \in Begun,
           Advance(p) \/ Finish(p) \/ (\E stage : Stage(p, stage)) \/ (\E j : job' = [job EXCEPT ![p] = j])
    PROVE  Alone(p)
BY DEF BaseInv, Types, Advance, Finish, Stage, Begun, Alone

\* It changes attempts of its own only, and deletes no winner.
Own(p) == /\ p \in Begun /\ pc \in Encoding
          /\ UNCHANGED <<cfg, replay, pc, todo, selected>> /\ Alone(p)
          /\ attempt' \in [Addresses -> Entries] /\ winner' \in [Pairs -> Winners]
          /\ \A a \in Addresses : <<a[1], a[2]>> # p => attempt'[a] = attempt[a]
          /\ \A r \in Pairs : winner[r].file # None => winner'[r].file # None
          /\ encoded' \in BOOLEAN /\ lost' \subseteq Pairs

LEMMA OthersFit ==
    ASSUME BaseInv, NEW p, Own(p), NEW r \in Begun \cap Begun', r # p, job'[r] = job[r]
    PROVE  Fitting(r)'
<1>1. Types /\ Fitting(r) /\ r \in Pairs /\ r = <<r[1], r[2]>> /\ UNCHANGED cfg
  BY PairFacts DEF BaseInv, Types, Working, Own
<1>2. ASSUME job[r].stage \in {"seek", "measure", "promote", "copy"}
      PROVE  attempt'[Address(r)] = attempt[Address(r)] /\ Address(r)' = Address(r)
  <2>1. Address(r)' = Address(r)
    BY <1>1 DEF Address, Goal
  <2>2. Address(r) \in Addresses /\ <<Address(r)[1], Address(r)[2]>> = r
    BY <1>1, <1>2, Reached
  <2> QED  BY <2>1, <2>2 DEF Own
<1>3. attempt'[<<r[1], r[2], Best(cfg)>>] = attempt[<<r[1], r[2], Best(cfg)>>]
  <2>1. <<r[1], r[2], Best(cfg)>> \in Addresses
    BY <1>1, ConfigFacts, PairFacts DEF Types, Addresses
  <2> QED  BY <1>1, <2>1 DEF Own
<1>4. winner[r].file # None => winner'[r].file # None
  BY <1>1 DEF Own
<1> QED  BY <1>1, <1>2, <1>3, <1>4 DEF Fitting, Best, Goal

LEMMA GoesOnInv ==
    ASSUME BaseInv, NEW p, Own(p), NEW j \in Jobs, job' = [job EXCEPT ![p] = j],
           UNCHANGED handed, Fitting(p)'
    PROVE  BaseInv'
<1>1. Begun' = Begun /\ job' \in [Begun -> Jobs] /\ \A r \in Begun : r # p => job'[r] = job[r]
  BY DEF BaseInv, Types, Begun
<1>2. Types'
  BY <1>1 DEF BaseInv, Types, Own, Best, Goal
<1>3. \A r \in Begun : Fitting(r)'
  BY <1>1, OthersFit
<1>4. Working'
  BY <1>1, <1>3 DEF BaseInv, Working, Own
<1>5. Permission'
  BY DEF BaseInv, Permission, Own, Encoding
<1> QED  BY <1>2, <1>4, <1>5 DEF BaseInv

LEMMA EndsInv ==
    ASSUME BaseInv, NEW p, Own(p), Finish(p), DOMAIN handed' \subseteq Pairs,
           \A r \in DOMAIN handed' : handed'[r] \in {None, Best(cfg)}
    PROVE  BaseInv'
<1>1. Begun' = Begun \ {p} /\ \A r \in Begun' : r # p /\ job'[r] = job[r]
  BY DEF Finish, Begun
<1>2. job' \in [Begun' -> Jobs]
  BY <1>1 DEF BaseInv, Types, Finish, Begun
<1>3. Types'
  BY <1>1, <1>2 DEF BaseInv, Types, Own, Best, Goal
<1>4. \A r \in Begun' : Fitting(r)'
  BY <1>1, OthersFit
<1>5. Working'
  BY <1>1, <1>4 DEF BaseInv, Working, Own
<1>6. Permission'
  BY DEF BaseInv, Permission, Own, Encoding
<1> QED  BY <1>3, <1>5, <1>6 DEF BaseInv

LEMMA BeginInv == ASSUME BaseInv, NEW p \in Pairs, Begin(p) PROVE BaseInv'
<1>1. /\ Begun' = Begun \cup {p} /\ job'[p] = [stage |-> "seek", at |-> 1]
      /\ \A r \in Begun \ {p} : job'[r] = job[r]
  BY DEF Begin, Begun
<1>2. UNCHANGED <<attempt, winner, cfg, pc, handed, lost, selected>> /\ todo' = todo \ {p} /\ p \in todo
  BY DEF Begin, disk, Unmoved
<1>3. job' \in [Begun' -> Jobs]
  BY <1>1 DEF BaseInv, Types, Begin, Begun, Jobs
<1>4. Types'
  BY <1>1, <1>2, <1>3 DEF BaseInv, Types, Begin, Unmoved, Best, Goal
<1>5. \A r \in Begun' : Fitting(r)'
  <2>1. Fitting(p)'
    <3>1. 1 \in DOMAIN Goal(cfg)
      BY ConfigFacts DEF BaseInv, Types
    <3> QED  BY <1>1, <1>2, <3>1 DEF Fitting, Goal
  <2>2. ASSUME NEW r \in Begun \ {p} PROVE Fitting(r)'
    BY <1>1, <1>2 DEF BaseInv, Working, Fitting, Address, Best, Goal
  <2> QED  BY <1>1, <2>1, <2>2
<1>6. Working'
  BY <1>1, <1>2, <1>5 DEF BaseInv, Working, Begin, Encoding
<1>7. Permission'
  BY <1>2 DEF BaseInv, Permission, Begin, Encoding
<1> QED  BY <1>4, <1>6, <1>7 DEF BaseInv

\* The measured attempt is there, and another follows or it is promoted.
LEMMA AdvanceInv ==
    ASSUME BaseInv, NEW p, Own(p), Advance(p), UNCHANGED handed,
           job[p].at \in DOMAIN Goal(cfg), attempt'[Address(p)].file \in Bases
    PROVE  BaseInv'
<1> DEFINE j == IF job[p].at < Len(Goal(cfg)) THEN [stage |-> "seek", at |-> job[p].at + 1]
                                              ELSE [stage |-> "promote", at |-> job[p].at]
<1>1. job' = [job EXCEPT ![p] = j] /\ p \in Begun /\ UNCHANGED cfg
  BY DEF Advance, Own
<1>2. Goal(cfg) \in Seq(Nat) /\ job[p].at \in Nat
  BY ConfigFacts DEF BaseInv, Types
<1>3. j \in Jobs
  BY <1>2 DEF Jobs
<1>4. job'[p] = j
  BY <1>1 DEF BaseInv, Types, Begun
<1>5. Fitting(p)'
  <2>1. CASE job[p].at < Len(Goal(cfg))
    <3>1. job'[p].stage = "seek" /\ job'[p].at = job[p].at + 1
      BY <1>4, <2>1
    <3>2. job[p].at + 1 \in DOMAIN Goal(cfg) /\ Goal(cfg)' = Goal(cfg)
      BY <1>1, <1>2, <2>1 DEF Goal
    <3> QED  BY <3>1, <3>2 DEF Fitting
  <2>2. CASE ~(job[p].at < Len(Goal(cfg)))
    <3>1. job'[p].stage = "promote" /\ job'[p].at = job[p].at
      BY <1>4, <2>2
    <3>2. job[p].at = Len(Goal(cfg)) /\ Goal(cfg)' = Goal(cfg)
      BY <1>1, <1>2, <2>2 DEF Goal
    <3>3. Address(p)' = Address(p)
      BY <1>1, <3>1 DEF Address, Goal
    <3> QED  BY <3>1, <3>2, <3>3 DEF Fitting
  <2> QED  BY <2>1, <2>2
<1> QED  BY <1>1, <1>3, <1>5, GoesOnInv

\* An entry of the trees gets a new file or a new sidecar.
LEMMA Written ==
    ASSUME NEW files, NEW cards, NEW e \in [file : files, card : cards]
    PROVE  /\ \A v \in files : /\ [e EXCEPT !.file = v] \in [file : files, card : cards]
                               /\ [e EXCEPT !.file = v].file = v /\ [e EXCEPT !.file = v].card = e.card
           /\ \A v \in cards : /\ [e EXCEPT !.card = v] \in [file : files, card : cards]
                               /\ [e EXCEPT !.card = v].card = v /\ [e EXCEPT !.card = v].file = e.file
OBVIOUS

\* What the steps of a pair leave in the trees, each in one entry.
WritesFile(a, v) == /\ attempt' \in [Addresses -> Entries]
                    /\ attempt'[a].file = v /\ attempt'[a].card = attempt[a].card
                    /\ \A o \in Addresses \ {a} : attempt'[o] = attempt[o]
WritesCard(a, v) == /\ attempt' \in [Addresses -> Entries]
                    /\ attempt'[a].card = v /\ attempt'[a].file = attempt[a].file
                    /\ \A o \in Addresses \ {a} : attempt'[o] = attempt[o]

LEMMA WriteFile ==
    ASSUME BaseInv, NEW a \in Addresses, NEW v \in Bases \cup {None},
           attempt' = [attempt EXCEPT ![a].file = v]
    PROVE  WritesFile(a, v)
<1> DEFINE e == [attempt[a] EXCEPT !.file = v]
<1>1. attempt \in [Addresses -> Entries] /\ attempt' = [attempt EXCEPT ![a] = e]
  BY DEF BaseInv, Types
<1>2. e \in Entries /\ e.file = v /\ e.card = attempt[a].card
  BY <1>1, Written DEF Entries
<1> HIDE DEF e
<1> QED  BY <1>1, <1>2 DEF WritesFile

LEMMA WriteCard ==
    ASSUME BaseInv, NEW a \in Addresses, NEW v \in Cards \cup {None},
           attempt' = [attempt EXCEPT ![a].card = v]
    PROVE  WritesCard(a, v)
<1> DEFINE e == [attempt[a] EXCEPT !.card = v]
<1>1. attempt \in [Addresses -> Entries] /\ attempt' = [attempt EXCEPT ![a] = e]
  BY DEF BaseInv, Types
<1>2. e \in Entries /\ e.card = v /\ e.file = attempt[a].file
  BY <1>1, Written DEF Entries
<1> HIDE DEF e
<1> QED  BY <1>1, <1>2 DEF WritesCard

\* What a step of a pair may do to the trees.
Makes(p) ==
    /\ \A a \in Addresses :
          /\ \/ attempt'[a].file = attempt[a].file
             \/ attempt[a].file = None /\ a[1] = p[1] /\ attempt'[a].file = Basis(cfg, p[1])
             \/ cfg.cleanup # "none" /\ attempt'[a].file = None
          /\ \/ attempt'[a].card \in {None, attempt[a].card}
             \/ /\ attempt'[a].file = attempt[a].file /\ attempt[a].file \in Bases
                /\ attempt'[a].card.basis = attempt[a].file
    /\ \A r \in Pairs :
          /\ \/ winner'[r].file = winner[r].file /\ (Copying(r) => Copying(r)')
             \/ \E a \in Addresses, q \in {None, Best(cfg)} :
                   /\ a[1] = r[1] /\ attempt[a].file \in Bases /\ (q = None => Copying(r)')
                   /\ winner'[r].file = [basis |-> attempt[a].file, q |-> q]
          /\ winner'[r].card \in {winner[r].card, Best(cfg)}
PairStep(p) == Own(p) /\ Makes(p) /\ UNCHANGED record

\* Who takes part, and where its next attempt is.
LEMMA TakesPart ==
    ASSUME BaseInv, NEW p, InPhase(p), Unmoved \/ UNCHANGED cfg
    PROVE  /\ p \in Begun /\ p \in Pairs /\ pc \in Encoding /\ Fitting(p) /\ Types
           /\ p[1] \in cfg.plan /\ cfg \in Configs /\ Basis(cfg, p[1]) \in Bases
<1>1. p \in Begun /\ p \in Pairs /\ pc \in Encoding /\ Fitting(p) /\ Types /\ cfg \in Configs
  BY DEF BaseInv, Types, Working, InPhase, Encoding
<1>2. p \in cfg.plan \X Chunks
  BY <1>1 DEF BaseInv, Working
<1> QED  BY <1>1, <1>2, ConfigFacts, PairFacts

LEMMA Writes ==
    ASSUME BaseInv, NEW p \in Pairs, InPhase(p), NEW a \in Addresses, a[1] = p[1], a[2] = p[2],
           Framed \/ UNCHANGED <<cfg, replay, pc, todo, selected, record>>,
           UNCHANGED winner, encoded' \in BOOLEAN, lost' \subseteq Pairs,
           job[p].stage # "copy",
           Advance(p) \/ Finish(p) \/ (\E stage : Stage(p, stage)) \/ (\E j : job' = [job EXCEPT ![p] = j]),
           \/ UNCHANGED attempt
           \/ attempt[a].file = None /\ WritesFile(a, Basis(cfg, p[1]))
           \/ cfg.cleanup # "none" /\ WritesFile(a, None)
           \/ cfg.cleanup # "none" /\ WritesCard(a, None)
           \/ \E c \in Cards : /\ attempt[a].file \in Bases
                               /\ c.basis = attempt[a].file /\ WritesCard(a, c)
    PROVE  PairStep(p)
<1>1. p \in Begun /\ pc \in Encoding /\ UNCHANGED <<cfg, replay, pc, todo, selected, record>>
      /\ attempt \in [Addresses -> Entries] /\ winner' \in [Pairs -> Winners]
  BY TakesPart DEF Framed, Unmoved, Types
<1>2. attempt' \in [Addresses -> Entries] /\ \A o \in Addresses : o # a => attempt'[o] = attempt[o]
  BY <1>1 DEF WritesFile, WritesCard
<1>3. \A o \in Addresses : <<o[1], o[2]>> # p => o # a
  BY PairFacts
<1>4. Alone(p) /\ \A r \in Pairs : Copying(r) => Copying(r)'
  BY <1>1, GoesAlone DEF Alone, Copying
<1>5. Own(p)
  BY <1>1, <1>2, <1>3, <1>4 DEF Own
<1>6. Makes(p)
  BY <1>2, <1>4 DEF Makes, WritesFile, WritesCard
<1> QED  BY <1>1, <1>5, <1>6 DEF PairStep

LEMMA StageInv ==
    ASSUME BaseInv, NEW p, Own(p), NEW stage \in {"measure", "copy", "certify", "sweep"}, Stage(p, stage),
           stage \in {"measure", "copy"} => job[p].at \in DOMAIN Goal(cfg) /\ attempt'[Address(p)].file \in Bases,
           stage = "copy" => job[p].at = Len(Goal(cfg)),
           stage # "measure" => winner'[p].file # None,
           stage = "certify" => attempt'[<<p[1], p[2], Best(cfg)>>].file \in Bases,
           stage = "sweep" => cfg.cleanup # "none",
           UNCHANGED handed
    PROVE  BaseInv'
<1> DEFINE j == [job[p] EXCEPT !.stage = stage]
<1>1. job[p] \in Jobs /\ job' = [job EXCEPT ![p] = j] /\ p \in Begun /\ UNCHANGED cfg
  BY DEF BaseInv, Types, Own, Stage
<1>2. j \in Jobs /\ j.stage = stage /\ j.at = job[p].at
  BY <1>1 DEF Jobs
<1> HIDE DEF j
<1>3. job'[p] = j
  BY <1>1 DEF BaseInv, Types, Begun
<1>4. Fitting(p)'
  BY <1>1, <1>2, <1>3 DEF Fitting, Address, Goal, Best
<1> QED  BY <1>1, <1>2, <1>4, GoesOnInv

LEMMA AcceptInv == ASSUME BaseInv, NEW p \in Pairs, Accept(p) PROVE PairStep(p) /\ BaseInv'
<1> DEFINE a == Address(p)
           c == [sampling |-> cfg.sampling, basis |-> attempt[a].file]
<1>1. InPhase(p) /\ job[p].stage = "seek" /\ attempt[a].file # None /\ Advance(p) /\ Framed
      /\ UNCHANGED <<winner, lost, handed, encoded>> /\ (UNCHANGED attempt \/ attempt' = [attempt EXCEPT ![a].card = c])
  BY DEF Accept
<1>2. p \in Begun /\ Fitting(p) /\ Types /\ cfg \in Configs
  BY <1>1, TakesPart DEF Framed
<1>3. a \in Addresses /\ a[1] = p[1] /\ a[2] = p[2] /\ job[p].at \in DOMAIN Goal(cfg)
  BY <1>1, <1>2, Reached
<1>4. attempt[a].file \in Bases /\ c \in Cards /\ c.basis = attempt[a].file
  BY <1>1, <1>2, <1>3 DEF Types, Entries, Cards
<1>5. UNCHANGED attempt \/ WritesCard(a, c)
  BY <1>1, <1>3, <1>4, WriteCard
<1>6. lost' \subseteq Pairs /\ encoded' \in BOOLEAN
  BY <1>1, <1>2 DEF Types
<1>7. attempt'[a].file \in Bases
  BY <1>4, <1>5 DEF WritesCard
<1> HIDE DEF a, c
<1>8. PairStep(p)
  BY <1>1, <1>3, <1>4, <1>5, <1>6, Writes
<1>9. BaseInv'
  BY <1>1, <1>3, <1>7, <1>8, AdvanceInv DEF a, PairStep
<1> QED  BY <1>8, <1>9

LEMMA EncodeInv == ASSUME BaseInv, NEW p \in Pairs, Encode(p) PROVE PairStep(p) /\ BaseInv'
<1> DEFINE a == Address(p)
<1>1. /\ InPhase(p) /\ job[p].stage = "seek" /\ attempt[a].file = None /\ Stage(p, "measure") /\ Framed
      /\ UNCHANGED <<winner, lost, handed>> /\ encoded' = TRUE
      /\ attempt' = [attempt EXCEPT ![a].file = Basis(cfg, p[1])]
  BY DEF Encode
<1>2. p \in Begun /\ Fitting(p) /\ Types /\ Basis(cfg, p[1]) \in Bases
  BY <1>1, TakesPart DEF Framed
<1>3. a \in Addresses /\ a[1] = p[1] /\ a[2] = p[2] /\ job[p].at \in DOMAIN Goal(cfg)
  BY <1>1, <1>2, Reached
<1>4. WritesFile(a, Basis(cfg, p[1]))
  BY <1>1, <1>2, <1>3, WriteFile
<1>5. lost' \subseteq Pairs /\ encoded' \in BOOLEAN /\ attempt'[a].file \in Bases
  BY <1>1, <1>2, <1>4 DEF Types, WritesFile
<1> HIDE DEF a
<1>6. PairStep(p)
  BY <1>1, <1>3, <1>4, <1>5, Writes
<1>7. BaseInv'
  BY <1>1, <1>3, <1>5, <1>6, StageInv DEF a, PairStep
<1> QED  BY <1>6, <1>7

LEMMA MeasureInv == ASSUME BaseInv, NEW p \in Pairs, Measure(p) PROVE PairStep(p) /\ BaseInv'
<1> DEFINE a == Address(p)
           c == [sampling |-> cfg.sampling, basis |-> attempt[a].file]
<1>1. InPhase(p) /\ job[p].stage = "measure" /\ Advance(p) /\ Framed
      /\ UNCHANGED <<winner, lost, handed, encoded>> /\ attempt' = [attempt EXCEPT ![a].card = c]
  BY DEF Measure
<1>2. p \in Begun /\ Fitting(p) /\ Types /\ cfg \in Configs
  BY <1>1, TakesPart DEF Framed
<1>3. a \in Addresses /\ a[1] = p[1] /\ a[2] = p[2] /\ job[p].at \in DOMAIN Goal(cfg)
  BY <1>1, <1>2, Reached
<1>4. attempt[a].file \in Bases /\ c \in Cards /\ c.basis = attempt[a].file
  BY <1>1, <1>2 DEF Fitting, Cards
<1>5. WritesCard(a, c)
  BY <1>1, <1>3, <1>4, WriteCard
<1>6. lost' \subseteq Pairs /\ encoded' \in BOOLEAN /\ attempt'[a].file \in Bases
  BY <1>1, <1>2, <1>4, <1>5 DEF Types, WritesCard
<1> HIDE DEF a, c
<1>7. PairStep(p)
  BY <1>1, <1>3, <1>4, <1>5, <1>6, Writes
<1>8. BaseInv'
  BY <1>1, <1>3, <1>6, <1>7, AdvanceInv DEF a, PairStep
<1> QED  BY <1>7, <1>8

LEMMA EncodeFailsInv == ASSUME BaseInv, NEW p \in Pairs, EncodeFails(p) PROVE PairStep(p) /\ BaseInv'
<1>1. /\ InPhase(p) /\ job[p].stage = "seek" /\ Finish(p)
      /\ UNCHANGED <<attempt, winner, cfg, replay, pc, todo, selected, record, handed, encoded>>
      /\ lost' = lost \cup {p}
  BY DEF EncodeFails, disk
<1>2. p \in Begun /\ Fitting(p) /\ Types
  BY <1>1, TakesPart
<1>3. Address(p) \in Addresses /\ Address(p)[1] = p[1] /\ Address(p)[2] = p[2]
  BY <1>1, <1>2, Reached
<1>4. lost' \subseteq Pairs /\ encoded' \in BOOLEAN
  BY <1>1, <1>2 DEF Types
<1>5. PairStep(p)
  BY <1>1, <1>3, <1>4, Writes
<1>6. BaseInv'
  BY <1>1, <1>2, <1>5, EndsInv DEF Types, PairStep
<1> QED  BY <1>5, <1>6

\* What is linked or copied.
LEMMA Promoted ==
    ASSUME BaseInv, NEW p \in Pairs, InPhase(p), Framed, job[p].stage \in {"promote", "copy"}
    PROVE  /\ Address(p) \in Addresses /\ Address(p)[1] = p[1] /\ Address(p)[3] = Best(cfg)
           /\ job[p].at \in DOMAIN Goal(cfg) /\ job[p].at = Len(Goal(cfg))
           /\ attempt[Address(p)].file \in Bases /\ attempt[<<p[1], p[2], Best(cfg)>>].file \in Bases
           /\ \A q \in {None, Best(cfg)} : [basis |-> attempt[Address(p)].file, q |-> q] \in Videos
<1>1. p \in Begun /\ Fitting(p) /\ Types /\ cfg \in Configs
  BY TakesPart DEF Framed
<1>2. /\ Address(p) \in Addresses /\ Address(p)[1] = p[1] /\ Address(p)[2] = p[2]
      /\ Address(p)[3] = Best(cfg) /\ attempt[Address(p)].file \in Bases
  BY <1>1, Reached DEF Fitting, Best
<1>3. Address(p) = <<p[1], p[2], Best(cfg)>> /\ Best(cfg) \in Quals
  BY <1>1, <1>2, AddressFacts, ConfigFacts
<1> QED  BY <1>1, <1>2, <1>3 DEF Fitting, Videos

LEMMA NoneIsNoQuality == ASSUME BaseInv PROVE Best(cfg) # None
BY ConfigFacts, NoneAssumption DEF BaseInv, Types

\* A winner file that is not there is linked, or copied by two steps.
LEMMA PutsWinner ==
    ASSUME BaseInv, NEW p \in Pairs, InPhase(p), Framed, UNCHANGED <<attempt, lost, handed, encoded>>,
           job[p].stage \in {"promote", "copy"}, NEW stage, Stage(p, stage),
           NEW q \in {None, Best(cfg)}, q = None => stage = "copy",
           winner' = [winner EXCEPT ![p].file = [basis |-> attempt[Address(p)].file, q |-> q]]
    PROVE  PairStep(p) /\ winner'[p].file # None
<1> DEFINE v == [basis |-> attempt[Address(p)].file, q |-> q]
           w == [winner[p] EXCEPT !.file = v]
<1>1. p \in Begun /\ Types /\ pc \in Encoding
  BY TakesPart DEF Framed
<1>2. /\ Address(p) \in Addresses /\ Address(p)[1] = p[1] /\ attempt[Address(p)].file \in Bases
      /\ v \in Videos
  BY Promoted
<1>3. winner[p] \in Winners /\ winner \in [Pairs -> Winners] /\ winner' = [winner EXCEPT ![p] = w]
  BY <1>1 DEF Types
<1>4. w \in Winners /\ w.file = v /\ w.card = winner[p].card /\ v # None
  BY <1>2, <1>3, Written, NoneAssumption DEF Winners
<1>5. Alone(p) /\ (q = None => Copying(p)')
  <2>1. Alone(p)
    BY <1>1, GoesAlone
  <2>2. p \in Begun' /\ job'[p].stage = stage
    BY <1>1 DEF Stage, Types, Begun, Jobs
  <2> QED  BY <2>1, <2>2 DEF Copying
<1>6. \A r \in Pairs \ {p} : Copying(r) => Copying(r)'
  BY <1>5 DEF Alone, Copying
<1> HIDE DEF w
<1>7. winner' \in [Pairs -> Winners] /\ winner'[p].file = v /\ v # None
      /\ \A r \in Pairs : winner'[r].card = winner[r].card /\ (r # p => winner'[r].file = winner[r].file)
  BY <1>3, <1>4
<1>8. Own(p)
  BY <1>1, <1>5, <1>7 DEF Own, Types, Framed, Unmoved
<1>9. Makes(p)
  BY <1>2, <1>5, <1>6, <1>7 DEF Makes
<1> QED  BY <1>7, <1>8, <1>9 DEF PairStep, Framed

LEMMA PromoteInv == ASSUME BaseInv, NEW p \in Pairs, Promote(p) PROVE PairStep(p) /\ BaseInv' /\ winner'[p].file # None
<1>1. /\ InPhase(p) /\ job[p].stage = "promote" /\ Stage(p, "certify") /\ Framed
      /\ UNCHANGED <<attempt, lost, handed, encoded>>
      /\ winner' = IF winner[p].file # None THEN winner ELSE Link(p)
  BY DEF Promote
<1>2. PairStep(p) /\ winner'[p].file # None
  <2>1. CASE winner[p].file # None
    <3>1. lost' \subseteq Pairs /\ encoded' \in BOOLEAN /\ UNCHANGED winner
      BY <1>1, <2>1, TakesPart DEF Framed, Types
    <3>2. <<p[1], p[2], Best(cfg)>> \in Addresses
      BY <1>1, TakesPart, ConfigFacts, PairFacts DEF Framed, Addresses
    <3> QED  BY <1>1, <2>1, <3>1, <3>2, Writes
  <2>2. CASE winner[p].file = None
    <3>1. winner' = [winner EXCEPT ![p].file = [basis |-> attempt[Address(p)].file, q |-> Best(cfg)]]
      BY <1>1, <2>2, Promoted DEF Link
    <3> QED  BY <1>1, <3>1, NoneIsNoQuality, PutsWinner
  <2> QED  BY <2>1, <2>2
<1>3. BaseInv'
  BY <1>1, <1>2, Promoted, StageInv DEF PairStep
<1> QED  BY <1>2, <1>3

LEMMA CopyInv == ASSUME BaseInv, NEW p \in Pairs, Copy(p) PROVE PairStep(p) /\ BaseInv' /\ winner'[p].file # None
<1>1. /\ InPhase(p) /\ job[p].stage = "promote" /\ Stage(p, "copy") /\ Framed
      /\ UNCHANGED <<attempt, lost, handed, encoded>>
      /\ winner' = [winner EXCEPT ![p].file = [basis |-> attempt[Address(p)].file, q |-> None]]
  BY DEF Copy
<1>2. PairStep(p) /\ winner'[p].file # None
  BY <1>1, PutsWinner
<1>3. job[p].at \in DOMAIN Goal(cfg) /\ job[p].at = Len(Goal(cfg)) /\ attempt'[Address(p)].file \in Bases
  BY <1>1, Promoted
<1>4. BaseInv'
  BY <1>1, <1>2, <1>3, StageInv DEF PairStep
<1> QED  BY <1>2, <1>4

LEMMA CopiedInv == ASSUME BaseInv, NEW p \in Pairs, Copied(p) PROVE PairStep(p) /\ BaseInv' /\ winner'[p].file # None
<1>1. /\ InPhase(p) /\ job[p].stage = "copy" /\ Stage(p, "certify") /\ Framed
      /\ UNCHANGED <<attempt, lost, handed, encoded>> /\ winner' = Link(p)
  BY DEF Copied, Copying
<1>2. attempt[<<p[1], p[2], Best(cfg)>>].file \in Bases /\ Address(p)[3] = Best(cfg)
  BY <1>1, Promoted
<1>3. PairStep(p) /\ winner'[p].file # None
  <2>1. winner' = [winner EXCEPT ![p].file = [basis |-> attempt[Address(p)].file, q |-> Best(cfg)]]
    BY <1>1, <1>2 DEF Link
  <2> QED  BY <1>1, <2>1, NoneIsNoQuality, PutsWinner
<1>4. BaseInv'
  BY <1>1, <1>2, <1>3, StageInv DEF PairStep
<1> QED  BY <1>3, <1>4

\* The pair's encode returns; its path is handed on in the full encoding.
LEMMA ReturnInv == ASSUME BaseInv, NEW p \in Pairs, Own(p), Return(p) PROVE BaseInv'
<1>1. DOMAIN handed \subseteq Pairs /\ \A r \in DOMAIN handed : handed[r] \in {None, Best(cfg)}
  BY DEF BaseInv, Types
<1>2. DOMAIN handed' \subseteq Pairs /\ \A r \in DOMAIN handed' : handed'[r] \in {None, Best(cfg)}
  BY <1>1 DEF Return
<1> QED  BY <1>2, EndsInv DEF Return

LEMMA CertifyInv == ASSUME BaseInv, NEW p \in Pairs, Certify(p) PROVE PairStep(p) /\ BaseInv'
<1> DEFINE w == [winner[p] EXCEPT !.card = Best(cfg)]
<1>1. /\ InPhase(p) /\ job[p].stage = "certify" /\ Framed
      /\ UNCHANGED <<attempt, lost, encoded>>
      /\ winner' = [winner EXCEPT ![p].card = Best(cfg)]
      /\ IF cfg.cleanup = "none" THEN Return(p) ELSE Stage(p, "sweep") /\ UNCHANGED handed
  BY DEF Certify, Wanted, KeepsAttempts
<1>2. p \in Begun /\ Types /\ cfg \in Configs /\ pc \in Encoding
  BY <1>1, TakesPart DEF Framed
<1>3. winner[p] \in Winners /\ winner \in [Pairs -> Winners] /\ winner' = [winner EXCEPT ![p] = w]
  BY <1>1, <1>2 DEF Types
<1>4. w \in Winners /\ w.file = winner[p].file /\ w.card = Best(cfg)
  BY <1>2, <1>3, Written DEF Winners
<1> HIDE DEF w
<1>5. Own(p) /\ winner'[p].file # None
  <2>1. winner[p].file # None
    BY <1>1, TakesPart DEF Framed, Fitting
  <2>2. Alone(p)
    BY <1>1, <1>2, GoesAlone DEF Return
  <2> QED  BY <1>1, <1>2, <1>3, <1>4, <2>1, <2>2 DEF Own, Types, Framed, Unmoved
<1>6. Makes(p)
  <2>1. \A r \in Pairs : /\ winner'[r].file = winner[r].file /\ (Copying(r) => Copying(r)')
                         /\ winner'[r].card \in {winner[r].card, Best(cfg)}
    BY <1>1, <1>3, <1>4, <1>5 DEF Own, Alone, Copying
  <2> QED  BY <1>1, <2>1 DEF Makes
<1>7. BaseInv'
  <2>1. CASE cfg.cleanup = "none"
    BY <1>1, <1>5, <2>1, ReturnInv
  <2>2. CASE cfg.cleanup # "none"
    BY <1>1, <1>5, <2>2, StageInv
  <2> QED  BY <2>1, <2>2
<1> QED  BY <1>1, <1>5, <1>6, <1>7 DEF PairStep, Framed

LEMMA SweepInv == ASSUME BaseInv, NEW p \in Pairs, Sweep(p) PROVE PairStep(p) /\ BaseInv'
<1>1. InPhase(p) /\ job[p].stage = "sweep" /\ Framed /\ UNCHANGED <<winner, lost, encoded>>
  BY DEF Sweep
<1>2. p \in Begun /\ Types /\ cfg.cleanup # "none" /\ p = <<p[1], p[2]>> /\ cfg \in Configs
      /\ winner'[p].file # None
  BY <1>1, TakesPart, PairFacts DEF Framed, Fitting
<1>3. lost' \subseteq Pairs /\ encoded' \in BOOLEAN
  BY <1>1, <1>2 DEF Types
<1>4. ASSUME NEW a \in Addresses, <<a[1], a[2]>> = p,
             attempt' = [attempt EXCEPT ![a].file = None],
             job' = [job EXCEPT ![p] = [stage |-> "unlink", at |-> a[3]]], UNCHANGED handed
      PROVE  PairStep(p) /\ BaseInv'
  <2> DEFINE j == [stage |-> "unlink", at |-> a[3]]
  <2>1. a[1] = p[1] /\ a[2] = p[2]
    BY <1>2, <1>4
  <2>2. WritesFile(a, None)
    BY <1>4, WriteFile
  <2>3. PairStep(p)
    <3>1. \E i : job' = [job EXCEPT ![p] = i]
      BY <1>4
    <3> QED  BY <1>1, <1>2, <1>3, <2>1, <2>2, <3>1, Writes
  <2>4. j \in Jobs
    <3>1. a[3] \in Quals
      BY AddressFacts
    <3>2. Quals \subseteq Nat
      BY ConfigFacts DEF Quals
    <3> QED  BY <3>1, <3>2 DEF Jobs
  <2>5. job'[p] = j /\ UNCHANGED cfg
    BY <1>2, <1>4, <2>3 DEF Types, PairStep, Own
  <2>6. Fitting(p)'
    BY <1>2, <2>5 DEF Fitting
  <2>7. BaseInv'
    BY <1>4, <2>3, <2>4, <2>6, GoesOnInv DEF PairStep
  <2> QED  BY <2>3, <2>7
<1>5. ASSUME Return(p), UNCHANGED attempt PROVE PairStep(p) /\ BaseInv'
  <2>1. <<p[1], p[2], Best(cfg)>> \in Addresses
    BY <1>2, ConfigFacts, PairFacts DEF Addresses
  <2>2. PairStep(p)
    BY <1>1, <1>3, <1>5, <2>1, Writes DEF Return
  <2> QED  BY <1>5, <2>2, ReturnInv DEF PairStep
<1> QED  BY <1>4, <1>5 DEF Sweep

LEMMA SweepCardInv == ASSUME BaseInv, NEW p \in Pairs, SweepCard(p) PROVE PairStep(p) /\ BaseInv'
<1> DEFINE a == <<p[1], p[2], job[p].at>>
           b == <<p[1], p[2], Best(cfg)>>
<1>1. /\ InPhase(p) /\ job[p].stage = "unlink" /\ Framed /\ UNCHANGED <<winner, lost, handed, encoded>>
      /\ Stage(p, "sweep") /\ attempt' = [attempt EXCEPT ![a].card = None]
  BY DEF SweepCard
<1>2. p \in Begun /\ Types /\ cfg.cleanup # "none" /\ cfg \in Configs /\ winner'[p].file # None
  BY <1>1, TakesPart DEF Framed, Fitting
<1>3. lost' \subseteq Pairs /\ encoded' \in BOOLEAN
  BY <1>1, <1>2 DEF Types
<1>4. b \in Addresses /\ b[1] = p[1] /\ b[2] = p[2] /\ a[1] = p[1] /\ a[2] = p[2]
  BY <1>2, ConfigFacts, PairFacts DEF Addresses
<1>5. a \in Addresses => WritesCard(a, None)
  BY <1>1, WriteCard
<1>6. a \notin Addresses => UNCHANGED attempt
  BY <1>1, <1>2 DEF Types
<1> HIDE DEF a, b
<1>7. PairStep(p)
  <2>1. CASE a \in Addresses
    BY <1>1, <1>2, <1>3, <1>4, <1>5, <2>1, Writes
  <2>2. CASE a \notin Addresses
    BY <1>1, <1>3, <1>4, <1>6, <2>2, Writes
  <2> QED  BY <2>1, <2>2
<1>8. BaseInv'
  BY <1>1, <1>2, <1>7, StageInv DEF PairStep
<1> QED  BY <1>7, <1>8

Encodes(p) == \/ Accept(p) \/ Encode(p) \/ EncodeFails(p) \/ Measure(p)
              \/ Promote(p) \/ Copy(p) \/ Copied(p) \/ Certify(p) \/ Sweep(p) \/ SweepCard(p)

LEMMA EncodesInv == ASSUME BaseInv, NEW p \in Pairs, Encodes(p) PROVE PairStep(p) /\ BaseInv'
BY AcceptInv, EncodeInv, EncodeFailsInv, MeasureInv, PromoteInv, CopyInv, CopiedInv, CertifyInv, SweepInv, SweepCardInv
   DEF Encodes
--------------------------------------------------------------------------------
(* The specification.                                                      *)

LEMMA StepCases ==
    Next <=> \/ \E k \in Configs : Start(k)
             \/ Kill \/ QuietStep \/ BeginTests \/ SaveTable \/ Recover \/ Curated \/ Conclude
             \/ \E p \in Pairs : Begin(p)
             \/ \E p \in Pairs : Encodes(p)
BY DEF Next, Work, Invalidate, Optimize, EncodePhase, EncodeChunk, QuietStep, Encodes

LEMMA InitInv == Init => BaseInv
<1> SUFFICES ASSUME Init PROVE BaseInv
  OBVIOUS
<1>1. Begun = {} /\ job \in [Begun -> Jobs] /\ DOMAIN handed = {}
  BY DEF Init, Begun
<1>2. Bare \in Entries /\ Bare \in Winners
  BY DEF Bare, Entries, Winners
<1>3. Types
  BY <1>1, <1>2 DEF Init, Types, Labels
<1> QED  BY <1>1, <1>3 DEF Init, BaseInv, Working, Permission, Encoding

LEMMA NextInv == BaseInv /\ [Next]_vars => BaseInv'
<1> SUFFICES ASSUME BaseInv, [Next]_vars PROVE BaseInv'
  OBVIOUS
<1>1. CASE UNCHANGED vars
  <2>1. UNCHANGED <<Types, Working, Permission>>
    BY <1>1 DEF vars, Types, Working, Permission, Begun, Fitting, Address, Best, Goal
  <2> QED  BY <2>1 DEF BaseInv
<1> QED
  BY <1>1, StepCases, StartInv, KillInv, QuietStepInv, BeginTestsInv, SaveTableInv, RecoverInv,
     CuratedInv, ConcludeInv, BeginInv, EncodesInv

LEMMA Invariance == Spec => []BaseInv
BY InitInv, NextInv, PTL DEF Spec

LEMMA RecordWritten ==
    ASSUME BaseInv, NEW tests \in SUBSET Chunks, NEW rows \in [cfg.plan -> Rows] \cup {NoRows}
    PROVE  RecordOf(cfg, tests, rows) \in Records
<1>1. cfg \in Configs /\ cfg.plan \in SUBSET Strategies /\ cfg.chunks \in SUBSET Chunks /\ cfg.goal \in DOMAIN Trail
  BY StoreAssumption DEF BaseInv, Types
<1>2. rows \in UNION {[plan -> Rows] : plan \in SUBSET Strategies}
  <2>1. CASE rows \in [cfg.plan -> Rows]
    BY <1>1, <2>1
  <2>2. CASE rows = NoRows
    <3>1. rows \in [{} -> Rows]
      BY <2>2 DEF NoRows
    <3> QED  BY <3>1
  <2> QED  BY <2>1, <2>2
<1>3. [s \in cfg.plan |-> cfg.args[s]] \in {[s \in k.plan |-> k.args[s]] : k \in Configs}
  BY <1>1
<1> QED  BY <1>1, <1>2, <1>3 DEF RecordOf, Records

LEMMA TableWritten == ASSUME BaseInv PROVE Table \in [cfg.plan -> Rows]
<1> SUFFICES ASSUME NEW s \in cfg.plan PROVE Row(s) \in Rows
  BY DEF Table
<1> DEFINE tests == {c \in TestChunks : Complete(<<s, c>>)}
<1>1. s \in Strategies /\ TestChunks \subseteq Chunks /\ winner \in [Pairs -> Winners]
  BY ConfigFacts, TestsInPlan DEF BaseInv, Types
<1>2. tests \in SUBSET Chunks
  BY <1>1
<1>3. \A c \in tests : winner[<<s, c>>].file \in Videos
  BY <1>1 DEF Complete, Pairs, Winners
<1>4. Row(s) \in [tests -> Videos]
  BY <1>3 DEF Row
<1> HIDE DEF tests
<1> QED  BY <1>2, <1>4 DEF Rows

\* The record is dropped, rewritten without a table, or saved with the table.
LEMMA RecordWrites ==
    ASSUME BaseInv, [Next]_vars
    PROVE  \/ record' \in {record, None, RecordOf(cfg, {}, NoRows)}
           \/ SaveTable /\ record' = RecordOf(cfg, TestChunks, Table)
<1>1. CASE QuietStep
  BY <1>1 DEF QuietStep, Invalidate, Compare, Unlink, WipeWinner, WinnersWiped, WipeAttempt, AttemptsWiped,
     DropStrategy, StrategiesDropped, SelectAll, ReuseTable, Curate, Merge, Finalize, disk
<1>2. ASSUME NEW p \in Pairs, Encodes(p) PROVE record' = record
  BY <1>2, EncodesInv DEF PairStep
<1>3. CASE \/ (\E k \in Configs : Start(k)) \/ Kill \/ BeginTests \/ SaveTable \/ Recover \/ Curated
           \/ Conclude \/ (\E p \in Pairs : Begin(p)) \/ UNCHANGED vars
  BY <1>3 DEF Start, Kill, BeginTests, SaveTable, Recover, Curated, Conclude, Begin, disk, vars
<1> QED  BY <1>1, <1>2, <1>3, StepCases

LEMMA RecordInv == ASSUME BaseInv, record \in Records \cup {None}, [Next]_vars PROVE record' \in Records \cup {None}
<1>1. {} \in SUBSET Chunks /\ TestChunks \in SUBSET Chunks
  BY TestsInPlan, ConfigFacts DEF BaseInv, Types
<1>2. RecordOf(cfg, {}, NoRows) \in Records /\ RecordOf(cfg, TestChunks, Table) \in Records
  BY <1>1, RecordWritten, TableWritten
<1> QED  BY <1>2, RecordWrites

LEMMA RecordTyped == Spec => [](record \in Records \cup {None})
<1>1. Init => record \in Records \cup {None}
  BY DEF Init
<1>2. BaseInv /\ record \in Records \cup {None} /\ [Next]_vars => (record \in Records \cup {None})'
  BY RecordInv
<1> QED  BY <1>1, <1>2, Invariance, PTL DEF Spec

\* The state of the two trees, the record and the phases is what the code's types say.
THEOREM TypeCorrect == Spec => []TypeOK
<1>1. BaseInv /\ record \in Records \cup {None} => TypeOK
  BY ConfigFacts, NoneAssumption DEF BaseInv, Types, TypeOK, Entries, Cards, Winners, Videos
<1> QED  BY <1>1, Invariance, RecordTyped, PTL

\* What _wipe_artifacts, _wipe_strategies, cleanup and the encodes do to attempts: none
\* is deleted or replaced unless --force permits it or a cleanup level asks for it.
THEOREM KeepsInvestment == Spec => PermissionKept
<1> DEFINE Spared == \A a \in Addresses : attempt[a].file # None /\ attempt'[a].file # attempt[a].file =>
                                               cfg.force \/ cfg.cleanup # "none"
<1>1. BaseInv /\ [Next]_vars => [Spared]_vars
  <2> SUFFICES ASSUME BaseInv, Next PROVE Spared
    OBVIOUS
  <2>1. CASE QuietStep
    <3>1. CASE WipeAttempt \/ DropStrategy \/ Finalize
      BY <3>1 DEF BaseInv, Permission, WipeAttempt, DropStrategy, Finalize
    <3>2. CASE UNCHANGED attempt
      BY <3>2
    <3> QED
      BY <2>1, <3>1, <3>2 DEF QuietStep, Invalidate, Compare, Unlink, WipeWinner, WinnersWiped,
         AttemptsWiped, StrategiesDropped, SelectAll, ReuseTable, Curate, Merge, disk
  <2>2. ASSUME NEW p \in Pairs, Encodes(p) PROVE Spared
    BY <2>2, EncodesInv DEF PairStep, Makes
  <2>3. CASE \/ \E k \in Configs : Start(k)
             \/ Kill \/ BeginTests \/ SaveTable \/ Recover \/ Curated \/ Conclude
             \/ \E p \in Pairs : Begin(p)
    BY <2>3 DEF Start, Kill, BeginTests, SaveTable, Recover, Curated, Conclude, Begin, disk
  <2> QED  BY <2>1, <2>2, <2>3, StepCases
<1> QED  BY <1>1, Invariance, PTL DEF Spec, PermissionKept
--------------------------------------------------------------------------------
(* What the trees were made from.                                          *)

LEMMA Erases ==
    ASSUME Types, Deletes
    PROVE  /\ \A s \in Strategies : \A b : OfBasis(s, b) => OfBasis(s, b)'
           /\ TrueAttempts => TrueAttempts'
           /\ UNCHANGED <<record, cfg>> /\ Vouched(cfg) => Vouched(cfg)'
<1>1. \A s \in Strategies, c \in Chunks : <<s, c>> \in Pairs
  BY DEF Pairs
<1>2. cfg.plan \subseteq Strategies
  BY ConfigFacts DEF Types
<1>3. ASSUME NEW s \in Strategies, NEW b, OfBasis(s, b) PROVE OfBasis(s, b)'
  BY <1>1, <1>3 DEF Deletes, OfBasis
<1>4. TrueAttempts => TrueAttempts'
  BY DEF Deletes, TrueAttempts
<1>5. ASSUME NEW s \in cfg.plan, UNCHANGED cfg, AttemptsFrom(s, Basis(cfg, s))
      PROVE  AttemptsFrom(s, Basis(cfg, s))'
  BY <1>5 DEF AttemptsFrom, Deletes, Basis
<1>6. ASSUME UNCHANGED <<record, cfg>>, Vouched(cfg) PROVE Vouched(cfg)'
  <2>1. Recorded(cfg)'
    BY <1>5, <1>6 DEF Vouched, Recorded
  <2>2. ASSUME record # None, NEW s \in cfg.plan \ DOMAIN record.args
        PROVE  /\ AttemptsFrom(s, Basis(cfg, s))'
               /\ \A c \in Chunks : winner'[<<s, c>>].file # None =>
                                      winner'[<<s, c>>].file.basis = Basis(cfg, s)'
    <3>1. /\ AttemptsFrom(s, Basis(cfg, s))
          /\ \A c \in Chunks : winner[<<s, c>>].file # None => winner[<<s, c>>].file.basis = Basis(cfg, s)
      BY <1>6, <2>2 DEF Vouched, Remembered
    <3>2. UNCHANGED Basis(cfg, s) /\ \A c \in Chunks : <<s, c>> \in Pairs
      BY <1>1, <1>2, <1>6 DEF Basis
    <3> QED  BY <1>5, <1>6, <3>1, <3>2 DEF Deletes
  <2>3. Remembered(cfg)'
    BY <1>6, <2>2 DEF Remembered
  <2> QED  BY <2>1, <2>3 DEF Vouched
<1> QED  BY <1>3, <1>4, <1>6

\* A strategy of the plan that the record names unchanged, or that is vouched for.
LEMMA OfPlan ==
    ASSUME Vouching, Vouched(cfg), record # None, record.pixels = cfg.pixels,
           NEW s \in cfg.plan \cap Strategies, s \notin Changed(cfg)
    PROVE  OfBasis(s, Basis(cfg, s))
<1>1. CASE s \in DOMAIN record.args
  <2>1. Keyed(s) = Basis(cfg, s)
    BY <1>1 DEF Keyed, Basis, Changed
  <2> QED  BY <1>1, <2>1 DEF Vouching
<1>2. CASE s \notin DOMAIN record.args
  BY <1>2 DEF Vouched, Remembered, AttemptsFrom, OfBasis
<1> QED  BY <1>1, <1>2

\* A record of this run vouches for what is of this run.
LEMMA Saves ==
    ASSUME Types, NEW tests, NEW rows, record' = RecordOf(cfg, tests, rows), UNCHANGED cfg,
           \A s \in cfg.plan : OfBasis(s, Basis(cfg, s))'
    PROVE  Vouching' /\ record'.pixels = cfg.pixels /\ Changed(cfg)' = {}
<1>1. /\ DOMAIN record'.args = cfg.plan /\ \A s \in cfg.plan : record'.args[s] = cfg.args[s]
      /\ record'.pixels = cfg.pixels
  BY DEF RecordOf
<1>2. \A s \in cfg.plan : Keyed(s)' = Basis(cfg, s)'
  BY <1>1 DEF Keyed, Basis
<1>3. Vouching'
  BY <1>1, <1>2 DEF Vouching
<1> QED  BY <1>1, <1>3 DEF Changed

LEMMA SettledKeeps ==
    ASSUME BaseInv, BasisInv, Deletes, UNCHANGED <<record, cfg>>,
           pc \in Settled, pc' \in Settled \cup {"done", "failed"}
    PROVE  BasisInv'
<1>1. cfg.plan \subseteq Strategies
  BY ConfigFacts DEF BaseInv, Types
<1>2. Vouching' /\ TrueAttempts'
  BY Erases DEF BaseInv, BasisInv, Vouching, Keyed
<1>3. Current'
  BY <1>1, Erases DEF BaseInv, BasisInv, Current, Basis, Changed
<1>4. OnLadder'
  BY DEF OnLadder, Settled
<1> QED  BY <1>2, <1>3, <1>4 DEF BasisInv

LEMMA SettledSaves ==
    ASSUME BaseInv, BasisInv, UNCHANGED <<attempt, winner, cfg>>,
           NEW tests, NEW rows, record' = RecordOf(cfg, tests, rows),
           pc \in Settled, pc' \in Settled \cup {"done", "failed"}
    PROVE  BasisInv'
<1>1. cfg.plan \subseteq Strategies /\ Deletes
  BY ConfigFacts, KeepsAll DEF BaseInv, Types
<1>2. \A s \in cfg.plan : OfBasis(s, Basis(cfg, s))'
  BY <1>1, Erases DEF BaseInv, BasisInv, Current, Basis
<1>3. Vouching' /\ record'.pixels = cfg.pixels /\ Changed(cfg)' = {}
  BY <1>2, Saves DEF BaseInv
<1>4. TrueAttempts'
  BY <1>1, Erases DEF BaseInv, BasisInv
<1>5. Current' /\ OnLadder'
  BY <1>2, <1>3 DEF Current, OnLadder, Settled
<1> QED  BY <1>3, <1>4, <1>5 DEF BasisInv
--------------------------------------------------------------------------------
LEMMA StartBasis ==
    ASSUME {"recorded", "remembered"} \subseteq Assumed, BaseInv, BasisInv, NEW k \in Configs, Start(k)
    PROVE  BasisInv'
<1>1. Vouched(k) /\ cfg' = k /\ pc' = "ladder" /\ UNCHANGED <<record, attempt, winner>>
  BY DEF Start, Goto, disk, Vouched
<1>2. Vouched(cfg)'
  BY <1>1 DEF Vouched, Recorded, Remembered, AttemptsFrom, Basis
<1>3. Vouching' /\ TrueAttempts'
  BY <1>1 DEF BasisInv, Vouching, TrueAttempts, OfBasis, Keyed
<1> QED  BY <1>1, <1>2, <1>3 DEF BasisInv, OnLadder, Current, Settled

\* The ladder leaves what was made from this run's bases, or nothing.
LEMMA LadderBasis == ASSUME BaseInv, BasisInv, Invalidate PROVE BasisInv'
<1>1. Deletes /\ UNCHANGED cfg /\ Types /\ cfg.plan \subseteq Strategies
  BY QuietSteps, ConfigFacts DEF QuietStep, Quiet, BaseInv, Types
<1>2. TrueAttempts'
  BY <1>1, Erases DEF BasisInv
<1>3. UNCHANGED record => Vouching' /\ (Vouched(cfg) => Vouched(cfg)')
  BY <1>1, Erases DEF BasisInv, Vouching, Keyed
<1>4. CASE Compare
  <2>1. UNCHANGED <<record, attempt, winner>> /\ pc = "ladder" /\ Vouched(cfg) /\ Vouched(cfg)'
        /\ UNCHANGED <<Changed(cfg), Vouching>>
    BY <1>1, <1>3, <1>4 DEF Compare, disk, BasisInv, OnLadder, Changed, Vouching, Keyed, OfBasis
  <2>2. /\ pc' \in {"unknown", "unlink", "failed", "drop", "band", "settled"}
        /\ pc' = "unknown" => record = None
        /\ pc' \in {"drop", "band", "settled"} => record # None /\ record.pixels = cfg.pixels
        /\ pc' \in {"band", "settled"} => Changed(cfg) = {}
    BY <1>4 DEF Compare, Goto, Foreign
  <2>3. OnLadder'
    BY <1>1, <2>1, <2>2 DEF OnLadder
  <2>4. Current'
    <3> SUFFICES ASSUME pc' = "settled" PROVE \A s \in cfg.plan : OfBasis(s, Basis(cfg, s))'
      BY <1>1, <2>1, <2>2 DEF Current, Settled
    <3>1. \A s \in cfg.plan : OfBasis(s, Basis(cfg, s))
      BY <1>1, <2>1, <2>2, OfPlan DEF BasisInv
    <3> QED  BY <1>1, <3>1, Erases DEF Basis
  <2> QED  BY <1>2, <1>3, <2>1, <2>3, <2>4 DEF BasisInv
<1>5. CASE Unlink
  BY <1>2, <1>5 DEF Unlink, Goto, BasisInv, Vouching, OnLadder, Current, Settled
<1>6. CASE WipeWinner
  BY <1>1, <1>2, <1>3, <1>6 DEF WipeWinner, BasisInv, OnLadder, Current, Settled, Changed
<1>7. CASE WinnersWiped
  <2>1. (\A p \in Pairs : winner[p] = Bare) /\ UNCHANGED <<attempt, winner>>
    BY <1>7 DEF WinnersWiped
  <2>2. CASE pc = "wipe winners"
    BY <1>2, <1>3, <1>7, <2>1, <2>2 DEF WinnersWiped, Goto, BasisInv, OnLadder, Current, Settled
  <2>3. CASE pc = "unknown"
    <3>1. record = None /\ record' = None /\ pc' = "settled" /\ Vouched(cfg)
      BY <1>7, <2>3 DEF WinnersWiped, Goto, BasisInv, OnLadder
    <3>2. \A s \in cfg.plan : OfBasis(s, Basis(cfg, s))
      <4>1. \A s \in cfg.plan, c \in Chunks : winner[<<s, c>>].file = None
        BY <1>1, <2>1 DEF Pairs, Bare
      <4> QED  BY <3>1, <4>1 DEF Vouched, Recorded, AttemptsFrom, OfBasis
    <3>3. Current'
      BY <1>1, <3>1, <3>2, Erases DEF Current, Basis
    <3> QED  BY <1>2, <3>1, <3>3 DEF BasisInv, Vouching, OnLadder
  <2>4. CASE pc = "band"
    <3>1. record' = RecordOf(cfg, {}, NoRows) /\ pc' = "settled"
      BY <1>7, <2>4 DEF WinnersWiped, Goto
    <3>2. \A s \in cfg.plan : OfBasis(s, Basis(cfg, s))
      BY <1>1, <2>4, OfPlan DEF BasisInv, OnLadder
    <3>3. \A s \in cfg.plan : OfBasis(s, Basis(cfg, s))'
      BY <1>1, <3>2, Erases DEF Basis
    <3>4. Vouching' /\ Current'
      BY <1>1, <3>1, <3>3, Saves DEF Current
    <3> QED  BY <1>2, <3>1, <3>4 DEF BasisInv, OnLadder
  <2> QED  BY <1>7, <2>2, <2>3, <2>4 DEF WinnersWiped
<1>8. CASE WipeAttempt
  BY <1>2, <1>3, <1>8 DEF WipeAttempt, BasisInv, OnLadder, Current, Settled
<1>9. CASE AttemptsWiped
  <2>1. pc = "wipe attempts" /\ pc' = "settled" /\ UNCHANGED <<record, attempt, winner>>
        /\ record = None
    BY <1>9 DEF AttemptsWiped, Goto, disk, BasisInv, OnLadder
  <2>2. \A s \in cfg.plan : OfBasis(s, Basis(cfg, s))
    <3>1. \A p \in Pairs : winner[p] = Bare
      BY <1>9 DEF AttemptsWiped, BasisInv, OnLadder
    <3>2. \A a \in Addresses : attempt[a] = Bare
      BY <1>9 DEF AttemptsWiped
    <3>3. \A s \in cfg.plan, c \in Chunks : winner[<<s, c>>].file = None
      BY <1>1, <3>1 DEF Pairs, Bare
    <3>4. \A a \in Addresses : attempt[a].file = None /\ attempt[a].card = None
      BY <3>2 DEF Bare
    <3> QED  BY <3>3, <3>4 DEF OfBasis
  <2>3. Current'
    BY <1>1, <2>1, <2>2, Erases DEF Current, Basis
  <2> QED  BY <1>2, <1>3, <2>1, <2>3 DEF BasisInv, OnLadder
<1>10. CASE DropStrategy
  BY <1>1, <1>2, <1>3, <1>10 DEF DropStrategy, BasisInv, OnLadder, Current, Settled, Changed
<1>11. CASE StrategiesDropped
  <2>1. pc = "drop" /\ pc' = "settled" /\ UNCHANGED <<attempt, winner>> /\ record' = RecordOf(cfg, {}, NoRows)
    BY <1>11 DEF StrategiesDropped, Goto
  <2>2. ASSUME NEW s \in cfg.plan PROVE OfBasis(s, Basis(cfg, s))
    <3>1. CASE s \in Changed(cfg)
      BY <1>11, <3>1 DEF StrategiesDropped, OfBasis, Bare
    <3>2. CASE s \notin Changed(cfg)
      BY <1>1, <2>1, <3>2, OfPlan DEF BasisInv, OnLadder
    <3> QED  BY <3>1, <3>2
  <2>3. \A s \in cfg.plan : OfBasis(s, Basis(cfg, s))'
    BY <1>1, <2>2, Erases DEF Basis
  <2>4. Vouching' /\ Current'
    BY <1>1, <2>1, <2>3, Saves DEF Current
  <2> QED  BY <1>2, <2>1, <2>4 DEF BasisInv, OnLadder
<1> QED
  BY <1>4, <1>5, <1>6, <1>7, <1>8, <1>9, <1>10, <1>11 DEF Invalidate

LEMMA PairBasis ==
    ASSUME BaseInv, BasisInv, NEW p \in Pairs, PairStep(p)
    PROVE  BasisInv'
<1>1. p[1] \in cfg.plan /\ cfg.plan \subseteq Strategies /\ pc \in Settled /\ pc' = pc /\ Types
      /\ UNCHANGED <<record, cfg>>
  <2>1. p \in cfg.plan \X Chunks
    BY DEF BaseInv, Working, PairStep, Own
  <2> QED  BY <2>1, ConfigFacts DEF BaseInv, Types, PairStep, Own, Encoding, Settled
<1>2. OfBasis(p[1], Basis(cfg, p[1]))
  BY <1>1 DEF BasisInv, Current
<1>3. ASSUME NEW s \in Strategies, NEW b, OfBasis(s, b), s = p[1] => b = Basis(cfg, s)
      PROVE  OfBasis(s, b)'
  <2>1. \A a \in Addresses : a[1] = s => /\ attempt'[a].file \in {None, b}
                                         /\ attempt'[a].card # None => attempt'[a].card.basis = b
    BY <1>3, NoneAssumption DEF PairStep, Makes, OfBasis
  <2>2. ASSUME NEW c \in Chunks, winner'[<<s, c>>].file # None PROVE winner'[<<s, c>>].file.basis = b
    <3>1. <<s, c>> \in Pairs /\ <<s, c>>[1] = s
      BY DEF Pairs
    <3>2. CASE winner'[<<s, c>>].file = winner[<<s, c>>].file
      BY <1>3, <2>2, <3>2 DEF OfBasis
    <3>3. CASE \E a \in Addresses, q \in {None, Best(cfg)} :
                  /\ a[1] = s /\ attempt[a].file \in Bases
                  /\ winner'[<<s, c>>].file = [basis |-> attempt[a].file, q |-> q]
      BY <1>3, <3>3, NoneAssumption DEF OfBasis
    <3> QED  BY <3>1, <3>2, <3>3 DEF PairStep, Makes
  <2> QED  BY <2>1, <2>2 DEF OfBasis
<1>4. \A s \in cfg.plan : OfBasis(s, Basis(cfg, s))'
  BY <1>1, <1>3 DEF BasisInv, Current, Basis
<1>5. Vouching'
  <2> SUFFICES ASSUME record # None, NEW s \in Strategies \cap DOMAIN record.args
               PROVE  OfBasis(s, Keyed(s))'
    BY <1>1 DEF Vouching
  <2>1. s = p[1] => Keyed(s) = Basis(cfg, s)
    BY <1>1 DEF BasisInv, Current, Changed, Keyed, Basis
  <2>2. OfBasis(s, Keyed(s)) /\ Keyed(s)' = Keyed(s)
    BY <1>1 DEF BasisInv, Vouching, Keyed
  <2> QED  BY <1>3, <2>1, <2>2
<1>6. TrueAttempts'
  <2> SUFFICES ASSUME NEW a \in Addresses, attempt'[a].file # None, attempt'[a].card # None
               PROVE  attempt'[a].card.basis = attempt'[a].file
    BY DEF TrueAttempts
  <2>1. CASE attempt'[a].file = attempt[a].file
    BY <2>1 DEF PairStep, Makes, BasisInv, TrueAttempts
  <2>2. CASE attempt[a].file = None /\ a[1] = p[1] /\ attempt'[a].file = Basis(cfg, p[1])
    BY <1>2, <2>2 DEF PairStep, Makes, OfBasis
  <2> QED  BY <2>1, <2>2 DEF PairStep, Makes
<1>7. Current' /\ OnLadder'
  BY <1>1, <1>4 DEF BasisInv, Current, OnLadder, Settled, Changed
<1> QED  BY <1>5, <1>6, <1>7 DEF BasisInv

LEMMA NextBasis ==
    ASSUME {"recorded", "remembered"} \subseteq Assumed, BaseInv, BasisInv, [Next]_vars
    PROVE  BasisInv'
<1>0. Types
  BY DEF BaseInv
<1>1. ASSUME NEW k \in Configs, Start(k) PROVE BasisInv'
  BY <1>1, StartBasis
<1>2. CASE Kill
  BY <1>2 DEF Kill, Goto, disk, BasisInv, Vouching, OfBasis, Keyed, OnLadder, Current, Settled, TrueAttempts
<1>3. CASE Invalidate
  BY <1>3, LadderBasis
<1>4. CASE SelectAll
  BY <1>4, SettledSaves DEF SelectAll, Unmoved, Goto, Settled
<1>5. CASE SaveTable
  BY <1>5, SettledSaves DEF SaveTable, Unmoved, Goto, Settled
<1>6. CASE ReuseTable \/ Curate \/ Merge \/ Finalize
  <2>1. Deletes /\ UNCHANGED cfg
    BY <1>6, QuietSteps DEF QuietStep, Quiet
  <2> QED  BY <1>6, <2>1, SettledKeeps DEF ReuseTable, Curate, Merge, Finalize, Goto, disk, Settled
<1>7. CASE BeginTests \/ Conclude \/ \E p \in Pairs : Begin(p)
  <2>1. Deletes
    BY <1>0, <1>7, KeepsAll DEF BeginTests, Conclude, Begin, disk
  <2> QED  BY <1>7, <2>1, SettledKeeps DEF BeginTests, Conclude, Begin, Unmoved, Goto, disk, Settled
<1>8. CASE Recover \/ Curated
  <2>1. Deletes
    BY <1>0, <1>8, KeepsAll DEF Recover, Curated, disk
  <2> QED  BY <1>8, <2>1, SettledKeeps DEF Recover, Curated, Unmoved, Goto, disk, Settled
<1>9. ASSUME NEW p \in Pairs, Encodes(p) PROVE BasisInv'
  BY <1>9, EncodesInv, PairBasis
<1>10. CASE UNCHANGED vars
  BY <1>10 DEF vars, BasisInv, Vouching, OfBasis, Keyed, OnLadder, Vouched, Recorded, Remembered, AttemptsFrom,
     Basis, Changed, Current, TrueAttempts
<1> QED
  BY <1>1, <1>2, <1>3, <1>4, <1>5, <1>6, <1>7, <1>8, <1>9, <1>10, StepCases DEF QuietStep
--------------------------------------------------------------------------------
(* What the winners were searched for.                                     *)

OneRange == \A k, l \in Configs : k.range = l.range

\* No copy ends.
StillCopying == \A p \in Pairs : Copying(p) => Copying(p)'

LEMMA SameCopying == ASSUME UNCHANGED job PROVE StillCopying
BY DEF StillCopying, Copying, Begun

LEMMA ErasesQuality ==
    ASSUME Deletes, StillCopying
    PROVE  /\ \A q : OfQuality(q) => OfQuality(q)'
           /\ TrueWinners => TrueWinners'
BY DEF Deletes, StillCopying, OfQuality, TrueWinners, Complete

LEMMA RangeStays == ASSUME OneRange, cfg \in Configs, cfg' \in Configs PROVE \A g : Aim(g)' = Aim(g)
<1>1. cfg'.range = cfg.range
  BY DEF OneRange
<1> QED  BY <1>1 DEF Aim

LEMMA BestIsAim == Best(cfg) = Aim(cfg.goal)
BY DEF Best, Aim, Goal

LEMMA BareQuality == ASSUME \A p \in Pairs : winner[p] = Bare PROVE \A q : OfQuality(q)
BY DEF Bare, OfQuality

\* A step that deletes, and keeps or drops the record or rewrites it at the same goal.
LEMMA QualityKeeps ==
    ASSUME BaseInv, QualityInv, Deletes, StillCopying, UNCHANGED cfg, pc' # "ladder",
           record' = None \/ record' = record \/ (record'.goal = cfg.goal /\ OfQuality(Best(cfg))'),
           pc' \in Settled => pc \in Settled \/ OfQuality(Best(cfg))',
           pc' \in {"drop"} \cup Settled /\ record' # None => record'.goal = cfg.goal
    PROVE  QualityInv'
<1>1. \A g : Aim(g)' = Aim(g)
  BY DEF Aim
<1>2. UNCHANGED Best(cfg)
  BY DEF Best, Goal
<1>3. TrueWinners'
  BY ErasesQuality DEF QualityInv
<1>4. record' # None => OfQuality(Aim(record.goal))'
  <2>1. CASE record' = record
    BY <1>1, <2>1, ErasesQuality DEF QualityInv
  <2>2. CASE record'.goal = cfg.goal /\ OfQuality(Best(cfg))'
    <3>1. Aim(record.goal)' = Best(cfg)'
      BY <1>1, <1>2, <2>2, BestIsAim
    <3> QED  BY <2>2, <3>1
  <2> QED  BY <2>1, <2>2
<1>5. pc' \in Settled => OfQuality(Best(cfg))'
  BY <1>2, ErasesQuality DEF QualityInv
<1> QED  BY <1>3, <1>4, <1>5 DEF QualityInv

LEMMA StartQuality ==
    ASSUME OneRange, "separate" \in Assumed, BaseInv, QualityInv, NEW k \in Configs, Start(k)
    PROVE  QualityInv'
<1>1. Separate(k) /\ cfg' = k /\ pc' = "ladder" /\ UNCHANGED <<record, winner, job>>
  BY DEF Start, Goto, disk
<1>2. \A g : Aim(g)' = Aim(g)
  BY <1>1, RangeStays DEF BaseInv, Types
<1>3. record # None => OfQuality(Aim(record.goal))'
  BY <1>1, <1>2 DEF QualityInv, OfQuality, Copying, Begun
<1>4. Separate(cfg)'
  BY <1>1 DEF Separate, Changed, BandDiffers
<1>5. TrueWinners'
  BY <1>1 DEF QualityInv, TrueWinners, Complete, Copying, Begun
<1> QED  BY <1>1, <1>3, <1>4, <1>5 DEF QualityInv, Settled

LEMMA LadderQuality ==
    ASSUME BaseInv, BasisInv, QualityInv, Invalidate
    PROVE  QualityInv'
<1>1. Deletes /\ StillCopying /\ UNCHANGED cfg
  BY QuietSteps, SameCopying DEF QuietStep, Quiet
<1>2. OfQuality(Best(cfg)) => OfQuality(Best(cfg))'
  <2>1. UNCHANGED Best(cfg)
    BY <1>1 DEF Best, Goal
  <2> QED  BY <1>1, <2>1, ErasesQuality
<1>3. \A tests, rows : RecordOf(cfg, tests, rows).goal = cfg.goal
  BY DEF RecordOf
<1>4. CASE Compare
  <2>1. UNCHANGED record /\ pc' \in {"unknown", "unlink", "failed", "drop", "band", "settled"}
        /\ Separate(cfg) /\ (pc' = "drop" => ~Foreign(cfg) /\ Changed(cfg) # {} /\ record # None)
        /\ (pc' = "settled" => record # None /\ ~BandDiffers(cfg))
    BY <1>4 DEF Compare, Goto, disk, QualityInv
  <2>2. pc' \in {"drop", "settled"} => record # None /\ record.goal = cfg.goal
    BY <2>1 DEF Separate, Foreign, BandDiffers
  <2>3. pc' = "settled" => OfQuality(Best(cfg))
    BY <2>2, BestIsAim DEF QualityInv
  <2> QED  BY <1>1, <1>2, <2>1, <2>2, <2>3, QualityKeeps DEF Settled
<1>5. CASE Unlink
  BY <1>1, <1>5, QualityKeeps DEF Unlink, Goto, Settled
<1>6. CASE WipeWinner
  BY <1>1, <1>6, QualityKeeps DEF WipeWinner, Settled
<1>7. CASE WinnersWiped
  <2>1. OfQuality(Best(cfg))
    BY <1>7, BareQuality DEF WinnersWiped
  <2>2. pc' \in {"wipe attempts", "settled"} /\ record' \in {record, RecordOf(cfg, {}, NoRows)}
        /\ (pc' = "settled" => record' = RecordOf(cfg, {}, NoRows) \/ record' = None)
    BY <1>7 DEF WinnersWiped, Goto, BasisInv, OnLadder
  <2> QED  BY <1>1, <1>2, <1>3, <2>1, <2>2, QualityKeeps DEF Settled
<1>8. CASE WipeAttempt
  BY <1>1, <1>8, QualityKeeps DEF WipeAttempt, Settled
<1>9. CASE AttemptsWiped
  <2>1. pc = "wipe attempts" /\ pc' = "settled" /\ UNCHANGED record /\ record = None
    BY <1>9 DEF AttemptsWiped, Goto, disk, BasisInv, OnLadder
  <2>2. OfQuality(Best(cfg))
    BY <2>1, BareQuality DEF BasisInv, OnLadder
  <2> QED  BY <1>1, <1>2, <2>1, <2>2, QualityKeeps DEF Settled
<1>10. CASE DropStrategy
  BY <1>1, <1>10, QualityKeeps DEF DropStrategy, QualityInv, Settled
<1>11. CASE StrategiesDropped
  <2>1. pc = "drop" /\ pc' = "settled" /\ record' = RecordOf(cfg, {}, NoRows) /\ record # None
    BY <1>11 DEF StrategiesDropped, Goto, BasisInv, OnLadder
  <2>2. OfQuality(Best(cfg))
    BY <2>1, BestIsAim DEF QualityInv
  <2> QED  BY <1>1, <1>2, <1>3, <2>1, <2>2, QualityKeeps DEF Settled
<1> QED
  BY <1>4, <1>5, <1>6, <1>7, <1>8, <1>9, <1>10, <1>11 DEF Invalidate

LEMMA PairQuality ==
    ASSUME BaseInv, QualityInv, NEW p \in Pairs, PairStep(p)
    PROVE  QualityInv'
<1>1. pc \in Settled /\ pc' = pc /\ UNCHANGED <<record, cfg>> /\ pc # "ladder"
  BY DEF PairStep, Own, Encoding, Settled
<1>2. OfQuality(Best(cfg)) /\ UNCHANGED Best(cfg)
  BY <1>1 DEF QualityInv, Best, Goal
<1>3. OfQuality(Best(cfg))'
  <2> SUFFICES ASSUME NEW r \in Pairs
               PROVE  /\ winner'[r].file # None /\ ~Copying(r)' => winner'[r].file.q = Best(cfg)
                      /\ winner'[r].card \in {None, Best(cfg)}
    BY <1>2 DEF OfQuality
  <2>1. winner'[r].card \in {None, Best(cfg)}
    BY <1>2 DEF PairStep, Makes, OfQuality
  <2>2. CASE winner'[r].file = winner[r].file /\ (Copying(r) => Copying(r)')
    BY <1>2, <2>1, <2>2 DEF OfQuality
  <2>3. CASE \E a \in Addresses, q \in {None, Best(cfg)} :
                /\ q = None => Copying(r)'
                /\ winner'[r].file = [basis |-> attempt[a].file, q |-> q]
    BY <2>1, <2>3
  <2> QED  BY <2>2, <2>3 DEF PairStep, Makes
<1>4. TrueWinners'
  BY <1>3 DEF TrueWinners, Complete, OfQuality
<1>5. record # None => OfQuality(Aim(record.goal))'
  <2>1. record # None => Aim(record.goal)' = Best(cfg)'
    BY <1>1, <1>2, BestIsAim DEF QualityInv, Aim
  <2> QED  BY <1>3, <2>1
<1> QED  BY <1>1, <1>3, <1>4, <1>5 DEF QualityInv

LEMMA NextQuality ==
    ASSUME OneRange, {"separate", "whole"} \subseteq Assumed, BaseInv, BasisInv, QualityInv, [Next]_vars
    PROVE  QualityInv'
<1>0. Types
  BY DEF BaseInv
<1>1. ASSUME NEW k \in Configs, Start(k) PROVE QualityInv'
  BY <1>1, StartQuality
<1>2. CASE Kill
  <2>1. Deletes /\ StillCopying
    BY <1>0, <1>2, KeepsAll DEF Kill, disk, StillCopying, Copying
  <2> QED  BY <1>2, <2>1, QualityKeeps DEF Kill, Goto, disk, Settled
<1>3. CASE Invalidate
  BY <1>3, LadderQuality
<1>4. CASE SelectAll \/ SaveTable
  <2>1. Deletes /\ StillCopying /\ UNCHANGED <<winner, cfg>> /\ pc \in Settled /\ pc' \in Settled \cup {"failed"}
    BY <1>0, <1>4, KeepsAll, SameCopying DEF SelectAll, SaveTable, Unmoved, Idle, Goto, Settled
  <2>2. OfQuality(Best(cfg))'
    BY <2>1, ErasesQuality DEF QualityInv, Best, Goal
  <2>3. record'.goal = cfg.goal
    BY <1>4 DEF SelectAll, SaveTable, RecordOf
  <2> QED  BY <2>1, <2>2, <2>3, QualityKeeps DEF Settled
<1>5. CASE \/ ReuseTable \/ Curate \/ Merge \/ Finalize \/ BeginTests \/ Conclude \/ Recover \/ Curated
           \/ \E p \in Pairs : Begin(p)
  <2>1. Deletes /\ StillCopying
    <3>1. CASE ReuseTable \/ Curate \/ Merge \/ Finalize
      BY <3>1, QuietSteps, SameCopying DEF QuietStep, Quiet
    <3>2. CASE BeginTests \/ Conclude \/ Recover \/ Curated
      BY <1>0, <3>2, KeepsAll, SameCopying DEF BeginTests, Conclude, Recover, Curated, Idle, disk
    <3>3. ASSUME NEW p \in Pairs, Begin(p) PROVE Deletes /\ StillCopying
      <4>1. Begun' = Begun \cup {p} /\ \A r \in Begun \ {p} : job'[r] = job[r]
        BY <3>3 DEF Begin, Begun
      <4>2. p \notin Begun
        BY <3>3 DEF Begin, BaseInv, Working
      <4> QED  BY <1>0, <3>3, <4>1, <4>2, KeepsAll DEF Begin, disk, StillCopying, Copying
    <3> QED  BY <1>5, <3>1, <3>2, <3>3
  <2>2. UNCHANGED <<record, cfg>> /\ pc \in Settled /\ pc' \in Settled \cup {"done", "failed"}
    BY <1>5 DEF ReuseTable, Curate, Merge, Finalize, BeginTests, Conclude, Recover, Curated, Begin, Unmoved, Goto,
       disk, Settled
  <2>3. record # None => record.goal = cfg.goal
    BY <2>2 DEF QualityInv
  <2> QED  BY <2>1, <2>2, <2>3, QualityKeeps DEF Settled
<1>6. ASSUME NEW p \in Pairs, Encodes(p) PROVE QualityInv'
  BY <1>6, EncodesInv, PairQuality
<1>7. CASE UNCHANGED vars
  BY <1>7 DEF vars, QualityInv, OfQuality, TrueWinners, Copying, Begun, Aim, Separate, Changed, BandDiffers,
     Complete, Best, Goal
<1> QED  BY <1>1, <1>2, <1>3, <1>4, <1>5, <1>6, <1>7, StepCases DEF QuietStep
--------------------------------------------------------------------------------
(* What is handed to the merge.                                            *)

\* A pair that goes on is still begun, and none that is handed on loses what it has.
LEMMA PairHanding ==
    ASSUME BaseInv, Handing, NEW p \in Pairs, PairStep(p),
           DOMAIN handed \subseteq DOMAIN handed', Begun' \subseteq Begun,
           pc = "encoding" /\ AllPairs \subseteq DOMAIN handed \cup todo \cup Begun \cup lost =>
               AllPairs \subseteq DOMAIN handed' \cup todo \cup Begun' \cup lost',
           \A r \in DOMAIN handed' : \/ r \in DOMAIN handed /\ handed'[r] = handed[r]
                                     \/ r \in Pairs \ (todo \cup Begun') /\ winner[r].file # None /\ Standing(r)'
    PROVE  Handing'
<1>1. UNCHANGED <<cfg, pc, todo, selected>> /\ pc \in Encoding /\ UNCHANGED AllPairs /\ cfg \in Configs
  BY DEF PairStep, Own, AllPairs, BaseInv, Types
<1>2. pc = "encoding" => AllPairs' \subseteq DOMAIN handed' \cup todo' \cup Begun' \cup lost'
  BY <1>1 DEF Handing
<1>3. ASSUME pc = "encoding", NEW r \in DOMAIN handed' PROVE winner'[r].file # None
  <2>1. r \in Pairs /\ winner[r].file # None
    BY <1>3 DEF BaseInv, Types, Handing
  <2> QED  BY <2>1 DEF PairStep, Own
<1>4. ASSUME pc = "encoding", NEW r \in DOMAIN handed', handed'[r] # None
      PROVE  Standing(r)' /\ r \notin todo' \cup Begun'
  <2>1. CASE r \in DOMAIN handed /\ handed'[r] = handed[r]
    <3>1. Standing(r) /\ r \notin todo \cup Begun /\ r \in Pairs
      BY <1>4, <2>1 DEF Handing, BaseInv, Types
    <3>2. r # p /\ r = <<r[1], r[2]>> /\ <<r[1], r[2], Best(cfg)>> \in Addresses
      BY <1>1, <3>1, PairFacts, ConfigFacts DEF Addresses, PairStep, Own
    <3>3. attempt'[<<r[1], r[2], Best(cfg)>>] = attempt[<<r[1], r[2], Best(cfg)>>]
      BY <3>2 DEF PairStep, Own
    <3> QED  BY <1>1, <3>1, <3>3 DEF Standing, Best, Goal
  <2>2. CASE r \in Pairs \ (todo \cup Begun') /\ Standing(r)'
    BY <1>1, <2>2
  <2> QED  BY <1>4, <2>1, <2>2
<1> QED  BY <1>1, <1>2, <1>3, <1>4 DEF Handing, Encoding

LEMMA ReturnHanding ==
    ASSUME BaseInv, Handing, NEW p \in Pairs, PairStep(p), Return(p), UNCHANGED lost,
           winner[p].file # None, Standing(p)'
    PROVE  Handing'
<1>1. Begun' = Begun \ {p} /\ todo' = todo /\ p \in Pairs \ (todo \cup Begun')
  BY DEF Return, Finish, Begun, PairStep, Own, BaseInv, Working
<1>2. CASE pc = "testing"
  BY <1>1, <1>2, PairHanding DEF Return
<1>3. CASE pc # "testing"
  <2>1. DOMAIN handed' = DOMAIN handed \cup {p}
        /\ \A r \in DOMAIN handed' : handed'[r] = IF r = p THEN Best(cfg) ELSE handed[r]
    BY <1>3 DEF Return
  <2> QED  BY <1>1, <2>1, PairHanding
<1> QED  BY <1>2, <1>3

LEMMA EncodesHanding ==
    ASSUME BaseInv, Handing, NEW p \in Pairs, Encodes(p)
    PROVE  Handing'
<1>1. PairStep(p)
  BY EncodesInv
<1>2. ASSUME NEW j, job' = [job EXCEPT ![p] = j], UNCHANGED <<handed, lost>> PROVE Handing'
  <2>1. Begun' = Begun /\ todo' = todo
    BY <1>1, <1>2 DEF Begun, PairStep, Own
  <2> QED  BY <1>1, <1>2, <2>1, PairHanding
<1>3. CASE Accept(p) \/ Measure(p)
  <2>1. Advance(p) /\ UNCHANGED <<handed, lost>>
    BY <1>3 DEF Accept, Measure
  <2> QED  BY <1>2, <2>1 DEF Advance
<1>4. CASE Encode(p) \/ Promote(p) \/ Copy(p) \/ Copied(p) \/ SweepCard(p)
  <2>1. UNCHANGED <<handed, lost>> /\ \E stage : Stage(p, stage)
    BY <1>4 DEF Encode, Promote, Copy, Copied, SweepCard
  <2> QED  BY <1>2, <2>1 DEF Stage
<1>5. CASE EncodeFails(p)
  <2>1. Begun' = Begun \ {p} /\ lost' = lost \cup {p} /\ UNCHANGED <<handed, todo>>
    BY <1>5 DEF EncodeFails, Finish, Begun
  <2> QED  BY <1>1, <2>1, PairHanding
<1>6. CASE Certify(p)
  <2>1. CASE cfg.cleanup = "none"
    <3>1. InPhase(p) /\ job[p].stage = "certify" /\ Framed /\ Return(p) /\ UNCHANGED lost
      BY <1>6, <2>1 DEF Certify, KeepsAttempts
    <3>2. attempt[<<p[1], p[2], Best(cfg)>>].file \in Bases /\ winner[p].file # None
      BY <3>1, TakesPart DEF Framed, Fitting
    <3>3. Standing(p)'
      BY <1>6, <2>1, <3>1, <3>2 DEF Standing, Best, Goal, Certify, Framed, Unmoved
    <3> QED  BY <1>1, <3>1, <3>2, <3>3, ReturnHanding
  <2>2. CASE cfg.cleanup # "none"
    <3>1. Stage(p, "sweep") /\ UNCHANGED <<handed, lost>>
      BY <1>6, <2>2 DEF Certify, KeepsAttempts
    <3> QED  BY <1>2, <3>1 DEF Stage
  <2> QED  BY <2>1, <2>2
<1>7. CASE Sweep(p)
  <2>1. InPhase(p) /\ job[p].stage = "sweep" /\ Framed /\ UNCHANGED lost
        /\ \/ \E j : job' = [job EXCEPT ![p] = j] /\ UNCHANGED handed
           \/ /\ Return(p) /\ UNCHANGED <<attempt, cfg>>
              /\ \A a \in Addresses : <<a[1], a[2]>> = p => attempt[a].file = None
    BY <1>7 DEF Sweep, Framed, Unmoved
  <2>2. cfg.cleanup # "none" /\ winner[p].file # None /\ cfg \in Configs
    BY <2>1, TakesPart DEF Framed, Fitting
  <2>3. <<p[1], p[2], Best(cfg)>> \in Addresses /\ <<p[1], p[2]>> = p
    BY <2>2, PairFacts, ConfigFacts DEF Addresses
  <2>4. Return(p) => Standing(p)' \/ \E j : job' = [job EXCEPT ![p] = j] /\ UNCHANGED handed
    BY <2>1, <2>2, <2>3 DEF Standing, Best, Goal
  <2> QED  BY <1>1, <1>2, <2>1, <2>2, <2>4, ReturnHanding
<1> QED  BY <1>3, <1>4, <1>5, <1>6, <1>7 DEF Encodes

LEMMA NextHanding ==
    ASSUME BaseInv, Handing, [Next]_vars
    PROVE  Handing'
<1>1. CASE (\E k \in Configs : Start(k)) \/ Kill \/ BeginTests \/ SaveTable
  BY <1>1 DEF Start, Kill, BeginTests, SaveTable, Goto, Handing
<1>2. CASE QuietStep
  <2>1. CASE ~Curate
    <3>1. pc' \notin {"curate", "encoding", "merge"}
      BY <1>2, <2>1 DEF QuietStep, Invalidate, Compare, Unlink, WipeWinner, WinnersWiped, WipeAttempt,
         AttemptsWiped, DropStrategy, StrategiesDropped, SelectAll, ReuseTable, Merge, Finalize, Goto
    <3> QED  BY <3>1 DEF Handing
  <2>2. CASE Curate
    <3>1. UNCHANGED <<attempt, cfg, selected, pc, todo, job, handed, lost>> /\ pc = "curate"
      BY <2>2 DEF Curate, Unmoved, Idle
    <3>2. UNCHANGED <<AllPairs, Begun>>
      BY <3>1 DEF AllPairs, Begun
    <3>3. \A p \in AllPairs : winner'[p] = winner[p]
      BY <2>2, PlanInPairs DEF Curate, Consumed, BaseInv, Types
    <3> QED  BY <3>1, <3>2, <3>3 DEF Handing, Standing, Best, Goal
  <2> QED  BY <2>1, <2>2
<1>3. CASE Recover
  <2>1. /\ UNCHANGED <<cfg, selected, winner>> /\ pc' = "curate"
        /\ todo' = {p \in AllPairs : ~Complete(p)}
        /\ DOMAIN handed' = {p \in AllPairs : Complete(p)}
        /\ \A p \in DOMAIN handed' : handed'[p] = None
    BY <1>3 DEF Recover, Goto, Unmoved, disk
  <2>2. AllPairs' = AllPairs
    BY <2>1 DEF AllPairs
  <2> QED  BY <2>1, <2>2 DEF Handing, Complete
<1>4. CASE Conclude
  <2>1. UNCHANGED <<handed, cfg, selected, attempt, winner>> /\ pc = "encoding" /\ todo = {} /\ Begun = {}
        /\ pc' \in {"merge", "failed"} /\ (pc' = "merge" => lost = {})
    BY <1>4 DEF Conclude, Goto, Unmoved, disk
  <2> QED  BY <2>1 DEF Handing, Standing, Best, Goal, AllPairs
<1>5. ASSUME NEW p \in Pairs, Begin(p) PROVE Handing'
  <2>1. UNCHANGED <<handed, cfg, selected, attempt, winner, lost, pc>> /\ todo' = todo \ {p}
        /\ Begun' = Begun \cup {p} /\ pc \in Encoding
    BY <1>5 DEF Begin, Begun, Unmoved, disk, Encoding
  <2>2. p \in todo /\ (pc = "encoding" => \A r \in DOMAIN handed : handed[r] # None => r \notin todo \cup Begun)
    BY <1>5 DEF Begin, Handing
  <2> QED  BY <2>1, <2>2 DEF Handing, AllPairs, Encoding, Standing, Best, Goal
<1>6. ASSUME NEW p \in Pairs, Encodes(p) PROVE Handing'
  BY <1>6, EncodesHanding
<1>7. CASE Curated
  <2>1. UNCHANGED <<handed, cfg, selected, attempt, winner, lost, todo, job>> /\ pc = "curate" /\ pc' = "encoding"
    BY <1>7 DEF Curated, Goto, Unmoved, Idle, disk
  <2> QED  BY <2>1 DEF Handing, Standing, Best, Goal, AllPairs, Begun
<1>8. CASE UNCHANGED vars
  BY <1>8 DEF vars, Handing, Standing, Best, Goal, AllPairs, Begun
<1> QED  BY <1>1, <1>2, <1>3, <1>4, <1>5, <1>6, <1>7, <1>8, StepCases
--------------------------------------------------------------------------------
LEMMA InitRest == Init => BasisInv /\ QualityInv /\ Handing
<1> SUFFICES ASSUME Init PROVE BasisInv /\ QualityInv /\ Handing
  OBVIOUS
<1>1. record = None /\ pc = "idle"
  BY DEF Init
<1>2. TrueAttempts
  BY DEF Init, TrueAttempts, Bare
<1>3. \A p \in Pairs : ~Complete(p)
  BY DEF Init, Complete, Bare
<1> QED
  BY <1>1, <1>2, <1>3 DEF BasisInv, Vouching, OnLadder, Current, Settled, QualityInv, TrueWinners, Handing

\* EncodingPhase hands the merge a path for every pair and leaves a winner for each, and
\* there is a file at the path but for the pairs encoded in this run under a cleanup level:
\* whatever was killed and reconfigured before; none of the names in Assumed is needed.
THEOREM AlwaysMergeable == Spec => []Mergeable
<1>1. Init => BaseInv /\ Handing
  BY InitInv, InitRest
<1>2. BaseInv /\ Handing /\ [Next]_vars => (BaseInv /\ Handing)'
  BY NextInv, NextHanding
<1>3. BaseInv /\ Handing => Mergeable
  <2> SUFFICES ASSUME BaseInv, Handing, pc = "merge", NEW p \in AllPairs
               PROVE  winner[p].file # None /\ (Read(p) = None <=> handed[p] # None /\ cfg.cleanup # "none")
    BY DEF Mergeable
  <2>1. /\ p \in DOMAIN handed /\ handed[p] \in {None, Best(cfg)} /\ cfg \in Configs
        /\ winner[p].file # None
    BY DEF BaseInv, Types, Handing
  <2>2. CASE handed[p] = None
    BY <2>1, <2>2 DEF Read
  <2>3. CASE cfg.cleanup = "none" /\ handed[p] # None
    <3>1. attempt[<<p[1], p[2], handed[p]>>].file \in Bases
      BY <2>1, <2>3 DEF Handing, Standing
    <3>2. [basis |-> attempt[<<p[1], p[2], handed[p]>>].file, q |-> handed[p]] \in Videos
      BY <2>1, <2>3, <3>1, ConfigFacts DEF Videos
    <3> QED  BY <2>1, <2>3, <3>1, <3>2, NoneAssumption DEF Read
  <2>4. CASE cfg.cleanup # "none" /\ handed[p] # None
    BY <2>1, <2>4 DEF Handing, Standing, Read
  <2> QED  BY <2>1, <2>2, <2>3, <2>4
<1> QED  BY <1>1, <1>2, <1>3, PTL DEF Spec

LEMMA Tracking ==
    ASSUME OneRange, {"recorded", "remembered", "separate", "whole"} \subseteq Assumed
    PROVE  Spec => [](BaseInv /\ BasisInv /\ QualityInv /\ Handing)
<1> DEFINE All == BaseInv /\ BasisInv /\ QualityInv /\ Handing
<1>1. Init => All
  BY InitInv, InitRest
<1>2. All /\ [Next]_vars => All'
  <2> SUFFICES ASSUME All, [Next]_vars PROVE All'
    OBVIOUS
  <2>1. {"recorded", "remembered"} \subseteq Assumed /\ {"separate", "whole"} \subseteq Assumed
    OBVIOUS
  <2> QED  BY <2>1, NextInv, NextBasis, NextQuality, NextHanding
<1> HIDE DEF All
<1>3. Spec => []All
  BY <1>1, <1>2, PTL DEF Spec
<1> QED  BY <1>3 DEF All

\* The record, the deletions and the links keep sidecars beside what they describe: the
\* ladder lets no attempt be measured or encoded beside the sidecar of another.  Under
\* the four assumptions of EncodingStore, and with no change of the quality range.
THEOREM CardsAreTrue ==
    ASSUME OneRange, {"recorded", "remembered", "separate", "whole"} \subseteq Assumed
    PROVE  Spec => []CardsTrue
<1>1. BasisInv /\ QualityInv => CardsTrue
  BY DEF BasisInv, TrueAttempts, QualityInv, TrueWinners, CardsTrue
<1> QED  BY <1>1, Tracking, PTL

\* Under the same: whatever was killed and reconfigured before, EncodingPhase hands the
\* merge files of this run's source, crop, arguments and targets.
THEOREM DeliversCurrent ==
    ASSUME OneRange, {"recorded", "remembered", "separate", "whole"} \subseteq Assumed
    PROVE  Spec => []DeliveredCurrent
<1>1. BaseInv /\ BasisInv /\ QualityInv /\ Handing => DeliveredCurrent
  <2> SUFFICES ASSUME BaseInv, BasisInv, QualityInv, Handing, pc = "merge", NEW p \in AllPairs
               PROVE  Read(p) \in {None, Wanted(cfg, p)}
    BY DEF DeliveredCurrent
  <2>1. /\ p \in Pairs /\ p = <<p[1], p[2]>> /\ p[1] \in cfg.plan /\ p[2] \in Chunks /\ cfg \in Configs
        /\ p \in DOMAIN handed /\ handed[p] \in {None, Best(cfg)}
    BY PlanInPairs DEF BaseInv, Types, Handing
  <2>2. OfBasis(p[1], Basis(cfg, p[1])) /\ OfQuality(Best(cfg)) /\ ~Copying(p)
    BY <2>1 DEF BasisInv, Current, QualityInv, Settled, BaseInv, Working, Encoding, Copying
  <2>3. CASE handed[p] = None
    <3>1. winner[p].file \in Videos \cup {None}
      BY <2>1 DEF BaseInv, Types, Winners
    <3>2. winner[p].file # None => winner[p].file.basis = Basis(cfg, p[1]) /\ winner[p].file.q = Best(cfg)
      BY <2>1, <2>2 DEF OfBasis, OfQuality
    <3> QED  BY <2>3, <3>1, <3>2 DEF Read, Wanted, Videos
  <2>4. CASE handed[p] # None
    <3> DEFINE a == <<p[1], p[2], Best(cfg)>>
    <3>1. a \in Addresses /\ a[1] = p[1]
      BY <2>1, ConfigFacts, PairFacts DEF Addresses
    <3>2. attempt[a].file \in {None, Basis(cfg, p[1])}
      BY <2>2, <3>1 DEF OfBasis
    <3> QED  BY <2>1, <2>4, <3>2 DEF Read, Wanted
  <2> QED  BY <2>3, <2>4
<1> QED  BY <1>1, Tracking, PTL
================================================================================
