------------------------------ MODULE EncodingStore ------------------------------
(***************************************************************************)
(* The attempt and winner trees of a work directory across runs: the       *)
(* invalidation ladder and the strategy tests of OptimizationPhase, the    *)
(* recovery, curation and encoding of EncodingPhase, and what MergePhase   *)
(* is handed.  A run may be killed before any of its steps; the next run   *)
(* may come with another configuration, for the same work directory.       *)
(*                                                                         *)
(* encoding/<strategy>/<chunk>.q<quality>.mkv|.yaml are the attempts, the  *)
(* investment; encoded/<strategy>/<chunk>.mkv|.yaml the winners;           *)
(* optimization.yaml the record that vouches for both.                     *)
(*                                                                         *)
(* Runs are measured searches.  The source and the probe facts have the    *)
(* same band in the ladder and are one key, "pixels"; the quality targets  *)
(* and the mode are one key, "goal".                                       *)
(***************************************************************************)
EXTENDS Integers, FiniteSets, Sequences

CONSTANTS
    Strategies, Chunks,
    Trail,        \* goal -> range -> the qualities the search attempts, the winner last
    Cost,         \* strategy -> bytes of one of its winners
    Tolerance,    \* optimization.tolerance, in percent
    Tests(_),     \* chunk set -> the test basis selected from it
    Configs,      \* the configurations a run may come with, each for its work directory
    Budgets,      \* work directory -> bounds on the runs, kills and failed encodes
    Assumed,      \* what is assumed of the runs and the kills
    None          \* no file, no record

ASSUME StoreAssumption ==
    /\ \A k \in Configs :
          /\ k.plan \subseteq Strategies /\ k.plan # {} /\ k.chunks \subseteq Chunks /\ k.chunks # {}
          /\ k.plan \subseteq DOMAIN k.args /\ k.goal \in DOMAIN Trail
          /\ k.range \in DOMAIN Trail[k.goal] /\ Trail[k.goal][k.range] \in Seq(Nat) \ {<<>>}
          /\ {k.optimize, k.force} \subseteq BOOLEAN
          /\ k.cleanup \in {"none", "intermediate", "all"} /\ k.concurrency \in Nat \ {0}
          /\ Tests(k.chunks) \subseteq k.chunks /\ Tests(k.chunks) # {}
          /\ Budgets[k.work] \in [runs : Nat, kills : Nat, failures : Nat]
    /\ \A s \in Strategies : Cost[s] \in Nat \ {0}
    /\ Tolerance \in Nat
    /\ Assumed \subseteq {"recorded", "remembered", "separate", "whole"}

VARIABLES
    record,    \* optimization.yaml
    attempt,   \* <<strategy, chunk, quality>> -> its file and its sidecar
    winner,    \* <<strategy, chunk>> -> its file and its sidecar
    cfg,       \* the configuration of the current or last run
    pc,        \* where the run is
    todo,      \* the pairs the phase has yet to begin
    job,       \* the pairs being encoded: pair -> stage and position on the trail
    lost,      \* the pairs whose encode failed in this phase
    selected,  \* the strategies optimization selected
    handed,    \* pair -> the path EncodingPhase hands to the merge
    encoded,   \* whether this run has paid for an encode
    replay,    \* whether the last run was concluded with this very configuration
    budget     \* runs, kills and failures still to come
vars == <<record, attempt, winner, cfg, pc, todo, job, lost, selected, handed, encoded, replay, budget>>
disk == <<record, attempt, winner>>
--------------------------------------------------------------------------------
Pairs     == Strategies \X Chunks
Bare      == [file |-> None, card |-> None]
Begun     == DOMAIN job
Copying(p) == p \in Begun /\ job[p].stage = "copy"

\* What an encode of a strategy produces its pixels from.
Basis(k, s) == [pixels |-> k.pixels, args |-> k.args[s]]
Goal(k)     == Trail[k.goal][k.range]
Best(k)     == Goal(k)[Len(Goal(k))]
Quals     == UNION {{Goal(k)[i] : i \in DOMAIN Goal(k)} : k \in Configs}
Addresses == Strategies \X Chunks \X Quals
Bases     == {Basis(k, s) : k \in Configs, s \in Strategies}
Wanted(k, p) == [basis |-> Basis(k, p[1]), q |-> Best(k)]

\* What a winner's file may be; one that was cut short is of no quality.
Videos  == [basis : Bases, q : Quals \cup {None}]

\* What optimization.yaml may hold; a table has a row per strategy, of its test winners.
Rows    == UNION {[tests -> Videos] : tests \in SUBSET Chunks}
Records == [pixels : {k.pixels : k \in Configs}, goal : DOMAIN Trail, sampling : {k.sampling : k \in Configs},
            chunks : SUBSET Chunks, args : {[s \in k.plan |-> k.args[s]] : k \in Configs},
            tests : SUBSET Chunks, rows : UNION {[plan -> Rows] : plan \in SUBSET Strategies}]
ASSUME NoneAssumption ==
    /\ None \notin Bases /\ None \notin Nat
    /\ None \notin Videos /\ None \notin Records

NoRows == [s \in {} |-> None]

\* Mutant: the table is not saved.
RecordUntabled(k, tests, rows) ==
    [pixels |-> k.pixels, goal |-> k.goal, sampling |-> k.sampling, chunks |-> k.chunks,
     args |-> [s \in k.plan |-> k.args[s]], tests |-> tests, rows |-> NoRows]

\* current_optimization_sidecar: only the plan's strategies are in the record.
RecordOf(k, tests, rows) ==
    [pixels |-> k.pixels, goal |-> k.goal, sampling |-> k.sampling, chunks |-> k.chunks,
     args |-> [s \in k.plan |-> k.args[s]], tests |-> tests, rows |-> rows]

\* Mutant: the arguments of the strategies are not compared.
NoneChanged(k) == {}

Changed(k) == {s \in k.plan : s \in DOMAIN record.args /\ record.args[s] # k.args[s]}

\* Mutants: the permission flag alone wipes; nothing is ever permitted; everything is.
ForeignOrForced(k) == record.pixels # k.pixels \/ k.force
NeverPermitted(k)  == FALSE
AlwaysPermitted(k) == TRUE

Foreign(k)   == record.pixels # k.pixels
Permitted(k) == k.force

\* _winner_band_reasons.
BandDiffers(k) == \/ record.goal # k.goal
                  \/ record.chunks # k.chunks
                  \/ record.sampling # k.sampling

\* _recover_pairs: a pair is complete by the presence of its two files.
Complete(p) == winner[p].file # None /\ winner[p].card # None

\* _resolve_test_chunks: the persisted basis while all of it is still there.
TestChunks ==
    IF record # None /\ record.tests # {} /\ record.tests \subseteq cfg.chunks
    THEN record.tests ELSE Tests(cfg.chunks)
TestPairs == cfg.plan \X TestChunks
AllPairs  == selected \X cfg.chunks

\* The table row of a strategy: the winners its size and metrics derive from.
Row(s) == [c \in {c \in TestChunks : Complete(<<s, c>>)} |-> winner[<<s, c>>].file]
Table  == [s \in cfg.plan |-> Row(s)]
TableCovers == record # None /\ cfg.plan \subseteq DOMAIN record.rows

\* _apply_tolerance: everything within the tolerance of the smallest.
ApplyTolerance(rows) ==
    LET size(s) == Cost[s] * Cardinality(DOMAIN rows[s])
        successful == {s \in cfg.plan : size(s) > 0}
    IN  {s \in successful : \A t \in successful : size(s) * 100 <= size(t) * (100 + Tolerance)}

\* The whole-strategy skip: nothing to compare, or the comparison switched off.
Skips(k) == ~k.optimize \/ Cardinality(k.plan) <= 1
--------------------------------------------------------------------------------
Goto(label) == pc' = label
Unmoved == UNCHANGED <<cfg, budget, replay>>
Idle    == UNCHANGED <<todo, job, lost, handed, encoded>>

\* Every attempt of a strategy was made from a basis.
AttemptsFrom(s, basis) == \A a \in Addresses : a[1] = s =>
    /\ attempt[a].file \in {None, basis}
    /\ attempt[a].card # None => attempt[a].card.basis = basis

\* "recorded": where no record vouches for attempts, they are met by the settings that
\* made them.  It fails after a wipe that was killed behind Unlink.
Recorded(k) == record = None => \A s \in k.plan : AttemptsFrom(s, Basis(k, s))

\* "remembered": a strategy that the record does not name comes with the settings its
\* files were made with.  It fails when a strategy leaves the plan and returns changed.
Remembered(k) == record # None => \A s \in k.plan \ DOMAIN record.args :
    /\ AttemptsFrom(s, Basis(k, s))
    /\ \A c \in Chunks : winner[<<s, c>>].file # None => winner[<<s, c>>].file.basis = Basis(k, s)

\* "separate": a strategy's arguments and a key of the winner band do not change at once.
Separate(k) == record # None /\ record.pixels = k.pixels /\ Changed(k) # {} => ~BandDiffers(k)

\* The process starts with some configuration, on the same work directory.
Start(k) ==
    /\ k.work = cfg.work
    /\ pc \in {"idle", "done", "failed", "killed"} /\ budget.runs > 0
    /\ "recorded" \in Assumed => Recorded(k)
    /\ "remembered" \in Assumed => Remembered(k)
    /\ "separate" \in Assumed => Separate(k)
    /\ replay' = (pc = "done" /\ k = cfg)
    /\ cfg' = k
    /\ budget' = [budget EXCEPT !.runs = @ - 1]
    /\ encoded' = FALSE
    /\ selected' = {} /\ handed' = [p \in {} |-> None]
    /\ Goto("ladder")
    /\ UNCHANGED <<disk, todo, job, lost>>

\* The process is killed; only the disk survives.  "whole": not while a winner is copied,
\* which would leave a part of it at its final name.
Kill ==
    /\ pc \notin {"idle", "done", "failed", "killed"} /\ budget.kills > 0
    /\ "whole" \in Assumed => \A p \in Begun : ~Copying(p)
    /\ budget' = [budget EXCEPT !.kills = @ - 1]
    /\ Goto("killed")
    /\ todo' = {} /\ job' = [p \in {} |-> None] /\ lost' = {} /\ selected' = {}
    /\ handed' = [p \in {} |-> None]
    /\ UNCHANGED <<disk, cfg, encoded, replay>>
--------------------------------------------------------------------------------
(* OptimizationPhase._invalidate_shared_namespace.                         *)

\* The comparisons; the first band that differs decides.
Compare ==
    /\ pc = "ladder"
    /\ Goto(IF record = None THEN "unknown"
            ELSE IF Foreign(cfg)
                 THEN IF Permitted(cfg) THEN "unlink" ELSE "failed"
            ELSE IF Changed(cfg) # {}
                 THEN IF Permitted(cfg) THEN "drop" ELSE "failed"
            ELSE IF BandDiffers(cfg) THEN "band" ELSE "settled")
    /\ UNCHANGED <<disk, selected>> /\ Unmoved /\ Idle

\* _wipe_artifacts: the record goes first.
Unlink ==
    /\ pc = "unlink"
    /\ record' = None
    /\ Goto("wipe winners")
    /\ UNCHANGED <<attempt, winner, selected>> /\ Unmoved /\ Idle

\* rmtree of encoded/ or of its strategy directories, file by file.
WipeWinner ==
    /\ pc \in {"wipe winners", "band", "unknown"}
    /\ \E p \in Pairs, f \in {"file", "card"} :
          /\ winner[p][f] # None
          /\ winner' = [winner EXCEPT ![p][f] = None]
    /\ UNCHANGED <<record, attempt, pc, selected>> /\ Unmoved /\ Idle

\* The winners are gone: after a catastrophic change the attempts follow, after a
\* band change the record is rewritten, and without a record nothing more.
WinnersWiped ==
    /\ pc \in {"wipe winners", "band", "unknown"}
    /\ \A p \in Pairs : winner[p] = Bare
    /\ IF pc = "wipe winners" THEN Goto("wipe attempts") /\ UNCHANGED record
       ELSE /\ record' = IF pc = "band" THEN RecordOf(cfg, {}, NoRows) ELSE record
            /\ Goto("settled")
    /\ UNCHANGED <<attempt, winner, selected>> /\ Unmoved /\ Idle

\* rmtree of encoding/.
WipeAttempt ==
    /\ pc = "wipe attempts"
    /\ \E a \in Addresses, f \in {"file", "card"} :
          /\ attempt[a][f] # None
          /\ attempt' = [attempt EXCEPT ![a][f] = None]
    /\ UNCHANGED <<record, winner, pc, selected>> /\ Unmoved /\ Idle

AttemptsWiped ==
    /\ pc = "wipe attempts" /\ \A a \in Addresses : attempt[a] = Bare
    /\ Goto("settled")
    /\ UNCHANGED <<disk, selected>> /\ Unmoved /\ Idle

\* _wipe_strategies: per changed strategy its winners, then its attempts; the
\* record is rewritten in the end and the band comparison finds it current.
DropStrategy ==
    /\ pc = "drop"
    /\ \E s \in Changed(cfg) :
         \/ \E c \in Chunks, f \in {"file", "card"} :
               /\ winner[<<s, c>>][f] # None
               /\ winner' = [winner EXCEPT ![<<s, c>>][f] = None]
               /\ UNCHANGED attempt
         \/ /\ \A c \in Chunks : winner[<<s, c>>] = Bare
            /\ \E a \in Addresses, f \in {"file", "card"} :
                  /\ a[1] = s /\ attempt[a][f] # None
                  /\ attempt' = [attempt EXCEPT ![a][f] = None]
            /\ UNCHANGED winner
    /\ UNCHANGED <<record, pc, selected>> /\ Unmoved /\ Idle

StrategiesDropped ==
    /\ pc = "drop"
    /\ \A s \in Changed(cfg), c \in Chunks : winner[<<s, c>>] = Bare
    /\ \A a \in Addresses : a[1] \in Changed(cfg) => attempt[a] = Bare
    /\ record' = RecordOf(cfg, {}, NoRows)
    /\ Goto("settled")
    /\ UNCHANGED <<attempt, winner, selected>> /\ Unmoved /\ Idle
--------------------------------------------------------------------------------
(* OptimizationPhase: the tests and the selection.                         *)

\* _all_strategies: the record is always rewritten and everything is selected.
SelectAll ==
    /\ pc = "settled" /\ Skips(cfg)
    /\ record' = RecordOf(cfg, {}, NoRows)
    /\ selected' = cfg.plan
    /\ Goto("recover")
    /\ UNCHANGED <<attempt, winner>> /\ Unmoved /\ Idle

\* _recover's fast exit: the persisted table covers the plan and no test is pending.
ReuseTable ==
    /\ pc = "settled" /\ ~Skips(cfg)
    /\ TableCovers /\ \A p \in TestPairs : Complete(p)
    /\ selected' = ApplyTolerance(record.rows)
    /\ Goto("recover")
    /\ UNCHANGED disk /\ Unmoved /\ Idle

\* The pending tests are handed to the encoder; none when the table alone is missing.
BeginTests ==
    /\ pc = "settled" /\ ~Skips(cfg)
    /\ ~(TableCovers /\ \A p \in TestPairs : Complete(p))
    /\ todo' = {p \in TestPairs : ~Complete(p)}
    /\ lost' = {}
    /\ Goto("testing")
    /\ UNCHANGED <<disk, job, selected, handed, encoded>> /\ Unmoved

\* The table derives from the winners on disk and the record is saved, whatever
\* failed; a selection that is empty fails the result's assertion.
SaveTable ==
    /\ pc = "testing" /\ todo = {} /\ Begun = {}
    /\ record' = RecordOf(cfg, TestChunks, Table)
    /\ selected' = ApplyTolerance(Table)
    /\ Goto(IF selected' = {} THEN "failed" ELSE "recover")
    /\ lost' = {}
    /\ UNCHANGED <<attempt, winner, todo, job, handed, encoded>> /\ Unmoved
--------------------------------------------------------------------------------
(* EncodingPhase.                                                          *)

\* Mutant: the curation expects the names of the test pairs only.
ConsumedByTests(p) == p \in TestPairs
Consumed(p) == p \in AllPairs

\* _recover: the pairs are classified, then the winner layer is curated.
Recover ==
    /\ pc = "recover"
    /\ todo' = {p \in AllPairs : ~Complete(p)}
    /\ handed' = [p \in {p \in AllPairs : Complete(p)} |-> None]
    /\ Goto("curate")
    /\ UNCHANGED <<disk, selected, job, lost, encoded>> /\ Unmoved

\* _curate_winner_layer: what no selected pair consumes is deleted, file by file.
Curate ==
    /\ pc = "curate"
    /\ \E p \in Pairs, f \in {"file", "card"} :
          /\ ~Consumed(p) /\ winner[p][f] # None
          /\ winner' = [winner EXCEPT ![p][f] = None]
    /\ UNCHANGED <<record, attempt, pc, selected>> /\ Unmoved /\ Idle

Curated ==
    /\ pc = "curate" /\ \A p \in Pairs : Consumed(p) \/ winner[p] = Bare
    /\ Goto("encoding")
    /\ UNCHANGED <<disk, selected>> /\ Unmoved /\ Idle

\* The phase is over: it fails with any pair, else the merge gets its winners.
Conclude ==
    /\ pc = "encoding" /\ todo = {} /\ Begun = {}
    /\ Goto(IF lost = {} THEN "merge" ELSE "failed")
    /\ lost' = {}
    /\ UNCHANGED <<disk, todo, job, selected, handed, encoded>> /\ Unmoved

\* The file the merge finds at the path of a pair: its winner, or an attempt.
Read(p) == IF handed[p] = None THEN winner[p].file
           ELSE LET a == <<p[1], p[2], handed[p]>>
                IN  IF attempt[a].file = None THEN None
                    ELSE [basis |-> attempt[a].file, q |-> handed[p]]

\* The concatenation fails on a missing file; a concluded run at the deepest
\* cleanup level deletes both trees.
Merge ==
    /\ pc = "merge"
    /\ Goto(IF \E p \in AllPairs : Read(p) = None THEN "failed"
            ELSE IF cfg.cleanup = "all" THEN "finalize" ELSE "done")
    /\ UNCHANGED <<disk, selected>> /\ Unmoved /\ Idle

Finalize ==
    /\ pc = "finalize"
    /\ \/ /\ \E a \in Addresses, f \in {"file", "card"} :
                /\ attempt[a][f] # None
                /\ attempt' = [attempt EXCEPT ![a][f] = None]
          /\ UNCHANGED <<winner, pc>>
       \/ /\ \A a \in Addresses : attempt[a] = Bare
          /\ \E p \in Pairs, f \in {"file", "card"} :
                /\ winner[p][f] # None
                /\ winner' = [winner EXCEPT ![p][f] = None]
          /\ UNCHANGED <<attempt, pc>>
       \/ /\ \A a \in Addresses : attempt[a] = Bare
          /\ \A p \in Pairs : winner[p] = Bare
          /\ Goto("done")
          /\ UNCHANGED <<attempt, winner>>
    /\ UNCHANGED <<record, selected>> /\ Unmoved /\ Idle
--------------------------------------------------------------------------------
(* ChunkEncoder.encode_chunk, for the tests and for the full encoding.     *)

Address(p) == <<p[1], p[2], Goal(cfg)[job[p].at]>>
Stage(p, s) == job' = [job EXCEPT ![p].stage = s]

\* Mutant: the search stops one attempt early.
AdvanceEarly(p) == job' = [job EXCEPT ![p] = IF job[p].at < Len(Goal(cfg)) - 1
                                             THEN [stage |-> "seek", at |-> job[p].at + 1]
                                             ELSE [stage |-> "promote", at |-> job[p].at]]

\* The measured attempt is recorded: the search proposes the next or is done.
Advance(p) == job' = [job EXCEPT ![p] = IF job[p].at < Len(Goal(cfg))
                                        THEN [stage |-> "seek", at |-> job[p].at + 1]
                                        ELSE [stage |-> "promote", at |-> job[p].at]]
Finish(p)  == job' = [r \in Begun \ {p} |-> job[r]]
InPhase(p) == pc \in {"testing", "encoding"} /\ p \in Begun
Framed     == Unmoved /\ UNCHANGED <<record, pc, todo, selected>>

\* A worker takes a pending pair.
Begin(p) ==
    /\ pc \in {"testing", "encoding"} /\ p \in todo /\ Cardinality(Begun) < cfg.concurrency
    /\ todo' = todo \ {p}
    /\ job' = [r \in Begun \cup {p} |-> IF r = p THEN [stage |-> "seek", at |-> 1] ELSE job[r]]
    /\ UNCHANGED <<disk, pc, selected, lost, handed, encoded>> /\ Unmoved

\* The attempt exists at the proposed address: it is accepted from its sidecar,
\* or measured again when the sidecar is missing or of another sampling.
Accept(p) ==
    LET a == Address(p) IN
    /\ InPhase(p) /\ job[p].stage = "seek" /\ attempt[a].file # None
    /\ IF attempt[a].card # None /\ attempt[a].card.sampling = cfg.sampling
       THEN UNCHANGED attempt
       ELSE attempt' = [attempt EXCEPT ![a].card =
                          [sampling |-> cfg.sampling, basis |-> attempt[a].file]]
    /\ Advance(p)
    /\ UNCHANGED <<winner, lost, handed, encoded>> /\ Framed

\* A fresh encode lands at its final name.
Encode(p) ==
    LET a == Address(p) IN
    /\ InPhase(p) /\ job[p].stage = "seek" /\ attempt[a].file = None
    /\ attempt' = [attempt EXCEPT ![a].file = Basis(cfg, p[1])]
    /\ encoded' = TRUE
    /\ Stage(p, "measure")
    /\ UNCHANGED <<winner, lost, handed>> /\ Framed

\* The encode fails, and the pair with it.
EncodeFails(p) ==
    /\ InPhase(p) /\ job[p].stage = "seek" /\ attempt[Address(p)].file = None
    /\ budget.failures > 0
    /\ budget' = [budget EXCEPT !.failures = @ - 1]
    /\ Finish(p)
    /\ lost' = lost \cup {p}
    /\ UNCHANGED <<disk, cfg, replay, pc, todo, selected, handed, encoded>>

\* It is measured and its sidecar written.
Measure(p) ==
    LET a == Address(p) IN
    /\ InPhase(p) /\ job[p].stage = "measure"
    /\ attempt' = [attempt EXCEPT ![a].card =
                     [sampling |-> cfg.sampling, basis |-> attempt[a].file]]
    /\ Advance(p)
    /\ UNCHANGED <<winner, lost, handed, encoded>> /\ Framed

\* The winning attempt under the winner's name.
Link(p) == [winner EXCEPT ![p].file = [basis |-> attempt[Address(p)].file, q |-> Address(p)[3]]]

\* _finalize_winning_attempt: the link, unless a winner file is there already,
\* then its sidecar, and from the intermediate level on the pair's attempts go.
Promote(p) ==
    /\ InPhase(p) /\ job[p].stage = "promote"
    /\ winner' = IF winner[p].file # None THEN winner ELSE Link(p)
    /\ Stage(p, "certify")
    /\ UNCHANGED <<attempt, lost, handed, encoded>> /\ Framed

\* _hardlink_or_copy where no link can be made: the copy grows at its final name.
Copy(p) ==
    /\ InPhase(p) /\ job[p].stage = "promote" /\ winner[p].file = None
    /\ winner' = [winner EXCEPT ![p].file = [basis |-> attempt[Address(p)].file, q |-> None]]
    /\ Stage(p, "copy")
    /\ UNCHANGED <<attempt, lost, handed, encoded>> /\ Framed

Copied(p) ==
    /\ InPhase(p) /\ Copying(p)
    /\ winner' = Link(p)
    /\ Stage(p, "certify")
    /\ UNCHANGED <<attempt, lost, handed, encoded>> /\ Framed

Return(p) ==
    /\ Finish(p)
    /\ handed' = IF pc = "testing" THEN handed
                 ELSE [r \in DOMAIN handed \cup {p} |-> IF r = p THEN Best(cfg) ELSE handed[r]]

KeepsAttempts(k) == k.cleanup = "none"

\* Mutant: the number of the attempt is written for its quality.
CertifyOrdinal(p) ==
    /\ InPhase(p) /\ job[p].stage = "certify"
    /\ winner' = [winner EXCEPT ![p].card = job[p].at]
    /\ IF KeepsAttempts(cfg) THEN Return(p) ELSE Stage(p, "sweep") /\ UNCHANGED handed
    /\ UNCHANGED <<attempt, lost, encoded>> /\ Framed

Certify(p) ==
    /\ InPhase(p) /\ job[p].stage = "certify"
    /\ winner' = [winner EXCEPT ![p].card = Wanted(cfg, p).q]
    /\ IF KeepsAttempts(cfg) THEN Return(p) ELSE Stage(p, "sweep") /\ UNCHANGED handed
    /\ UNCHANGED <<attempt, lost, encoded>> /\ Framed

\* Each attempt file of the pair is deleted, then what belongs to it.
Sweep(p) ==
    LET Own == {a \in Addresses : <<a[1], a[2]>> = p} IN
    /\ InPhase(p) /\ job[p].stage = "sweep"
    /\ \/ \E a \in Own :
             /\ attempt[a].file # None
             /\ attempt' = [attempt EXCEPT ![a].file = None]
             /\ job' = [job EXCEPT ![p] = [stage |-> "unlink", at |-> a[3]]]
             /\ UNCHANGED handed
       \/ /\ \A a \in Own : attempt[a].file = None
          /\ Return(p)
          /\ UNCHANGED attempt
    /\ UNCHANGED <<winner, lost, encoded>> /\ Framed

SweepCard(p) ==
    /\ InPhase(p) /\ job[p].stage = "unlink"
    /\ attempt' = [attempt EXCEPT ![<<p[1], p[2], job[p].at>>].card = None]
    /\ Stage(p, "sweep")
    /\ UNCHANGED <<winner, lost, handed, encoded>> /\ Framed
--------------------------------------------------------------------------------
Init ==
    /\ record = None
    /\ attempt = [a \in Addresses |-> Bare]
    /\ winner = [p \in Pairs |-> Bare]
    /\ cfg \in Configs
    /\ pc = "idle"
    /\ todo = {} /\ job = [p \in {} |-> None] /\ lost = {} /\ selected = {}
    /\ handed = [p \in {} |-> None]
    /\ encoded = FALSE /\ replay = FALSE
    /\ budget = Budgets[cfg.work]

Invalidate == \/ Compare \/ Unlink \/ WipeWinner \/ WinnersWiped \/ WipeAttempt
              \/ AttemptsWiped \/ DropStrategy \/ StrategiesDropped
Optimize   == SelectAll \/ ReuseTable \/ BeginTests \/ SaveTable
EncodePhase == Recover \/ Curate \/ Curated \/ Conclude \/ Merge \/ Finalize
EncodeChunk(p) == \/ Begin(p) \/ Accept(p) \/ Encode(p) \/ EncodeFails(p) \/ Measure(p)
                  \/ Promote(p) \/ Copy(p) \/ Copied(p) \/ Certify(p) \/ Sweep(p) \/ SweepCard(p)
Work == Invalidate \/ Optimize \/ EncodePhase \/ \E p \in Pairs : EncodeChunk(p)

Next == (\E k \in Configs : Start(k)) \/ Kill \/ Work

Spec == Init /\ [][Next]_vars

\* A run that is not killed goes on.
FairSpec == Spec /\ WF_vars(Work)
--------------------------------------------------------------------------------
Labels == {"idle", "done", "failed", "killed", "ladder", "unlink", "wipe winners", "band",
           "unknown", "wipe attempts", "drop", "settled", "testing", "recover", "curate",
           "encoding", "merge", "finalize"}

TypeOK ==
    /\ record \in Records \cup {None}
    /\ \A a \in Addresses :
          /\ attempt[a].file \in Bases \cup {None}
          /\ attempt[a].card \in [sampling : {k.sampling : k \in Configs}, basis : Bases] \cup {None}
    /\ \A p \in Pairs :
          /\ winner[p].file # None => winner[p].file.basis \in Bases
          /\ winner[p].card \in {Best(k) : k \in Configs} \cup {None}
    /\ cfg \in Configs /\ pc \in Labels
    /\ todo \subseteq Pairs /\ Begun \subseteq Pairs /\ lost \subseteq Pairs
    /\ selected \subseteq Strategies /\ DOMAIN handed \subseteq Pairs
    /\ encoded \in BOOLEAN /\ replay \in BOOLEAN

\* No encode has failed so far; no run on this work directory cleans up.
Unfailed == budget.failures = Budgets[cfg.work].failures
Kept     == \A k \in Configs : k.work = cfg.work => k.cleanup = "none"

\* Every pair that EncodingPhase hands to the merge has its winner, at any cleanup level,
\* and the path that is handed on exists, except when it is the name of an attempt (a pair
\* encoded in this run) and attempts are cleaned up: then it never does.
Mergeable == pc = "merge" => \A p \in AllPairs :
    /\ winner[p].file # None
    /\ Read(p) = None <=> handed[p] # None /\ cfg.cleanup # "none"

\* What the merge reads was encoded under this run's source, crop, arguments and
\* targets, whatever earlier runs left behind.
DeliveredCurrent == pc = "merge" => \A p \in AllPairs : Read(p) \in {None, Wanted(cfg, p)}

\* A sidecar tells the truth about the file beside it, for attempts and winners.
CardsTrue ==
    /\ \A a \in Addresses : None \in {attempt[a].file, attempt[a].card}
                             \/ attempt[a].card.basis = attempt[a].file
    /\ \A p \in Pairs : Complete(p) /\ ~Copying(p) => winner[p].card = winner[p].file.q

\* No attempt is deleted without the --force permission or a cleanup level.
PermissionKept ==
    [][\A a \in Addresses : attempt[a].file # None /\ attempt'[a].file # attempt[a].file =>
          cfg.force \/ cfg.cleanup # "none"]_vars

\* A run that repeats a concluded run encodes nothing, where attempts are kept.
ReplayIsFree == replay /\ Kept /\ Unfailed => ~encoded

\* Where curation and cleanup delete together, it encodes at most the tests of strategies
\* that the table does not select.
ReplayOnlyTests ==
    [][\A a \in Addresses :
          /\ replay /\ Unfailed /\ cfg.cleanup # "all"
          /\ attempt[a].file = None /\ attempt'[a].file # None
          => pc = "testing" /\ TableCovers /\ a[1] \notin ApplyTolerance(record.rows)]_vars

\* No state an earlier run may leave on disk wedges the work directory: a run with
\* the --force permission succeeds unless it is killed or an encode fails.  (Where
\* attempts are cleaned up, the first run fails in the merge: see Mergeable.)
NeverWedged ==
    pc = "ladder" /\ cfg.force /\ cfg.cleanup = "none" ~> pc \in {"done", "killed"} \/ ~Unfailed
================================================================================
