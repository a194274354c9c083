# A TLA+ specification of pyqenc

pyqenc encodes a video in chunks: it splits the source at scene changes, searches for
every chunk the cheapest encoder quality that meets the quality targets, compares encoding
strategies on a few test chunks, and concatenates the winners.  Everything it pays for is
kept in a work directory, so that a run that was interrupted, or a run with other settings,
reuses what is still valid.  This directory specifies that behaviour: the search, the
concurrent encoding, the comparison of strategies, what survives on disk from run to run, the
outputs, and the phase machinery.

Paths are relative to `src/pyqenc/`.

## 1. The system

| Component | State it keeps | Operations | Modelled in |
|---|---|---|---|
| quality search (`quality.py`, loop in `phases/encoding.py`) | attempted points, best point, midpoint flag; the loop's two attempt slots | `record` | `QualitySearch` |
| encode pool (`utils/concurrency.py`, `utils/disk_space.py`) | queue, workers, executor threads, reserve ledger | `run_bounded`, `SpaceGuard.ensure` | `EncodePool`; its promise in `BoundedMap` |
| encoding (`phases/encoding.py`) | `encoding/` attempts, `encoded/` winners, their sidecars | recovery, curation, `encode_chunk`, promotion, cleanup | `EncodingStore` |
| optimization (`phases/optimization.py`) | `optimization.yaml`: keys, test basis, table | invalidation ladder, tests, dominance or tolerance, anchor | `EncodingStore` (what survives), `StrategySelection` (what is decided) |
| phase template (`phase.py`) | cached result per phase | `run` and its hooks | `PhaseRunner` |
| runner, api (`runner.py`, `api.py`) | the run's registry | `Runner.run`, `_drive` | `PhaseRunner` |
| merge (`phases/merge.py`) | merged files and their sidecars | identity wipe, acceptance, concatenation, promotion, in-place remeasurement | `MergeAcceptance`; its reads in `EncodingStore` |
| job, extraction, probe, chunking (`phases/`) | `job.yaml`, `extraction.yaml` and `extracted/`, `probe.yaml`, `chunking.yaml` | invalidate, recover, execute | `SourceRecords`; as phases in `PhaseRunner` |
| output scale (`models.py`) | none | `resolve_scale` | `ScaleResolution` |
| audio (`phases/audio.py`, `audio/`) | `audio.yaml` and `audio/` | selection, invalidate, sweep, commit, produce | `AudioOutputs`; the files' promise in `KeyedStore` |
| metrics collector (`app_metrics.py`) | counters, interrupt registry | `step`, `flush`, `close` | not modelled |
| ffmpeg runner, yaml/fs helpers | temporary files | run, rename, atomic save | one step each in every module |
| measurement, CLI, tables, plots, logging | none that outlives a call | - | not modelled |

**How they interact.**  `Runner.run` drives the terminal phases of a command.  Each phase
calls its dependencies through the registry before its own hooks (`_skip_check`,
`_invalidate`, `_recover`, `_execute`), and caches its result.  Phases share nothing in
memory except these results; they share the work directory.  Optimization owns the
invalidation of the attempts and winners that encoding produces, and runs the same encoder
on the test chunks.  Inside one phase, coroutines hand pairs (strategy, chunk) to executor
threads; the threads share the free-space ledger and the disk.  The phases before encoding each
keep the identity of the source in a sidecar of their own and compare it by themselves.

**What is hard.**

- *Crashes.*  The process may be killed between any two file operations.  Completeness is
  decided by presence alone, currency by comparing recorded keys; the two are written at
  different times.
- *Changed settings.*  Each run may come with another source, crop, strategy arguments,
  targets, sampling, chunk set, plan, or cleanup level, and has to know what is still valid.
- *Concurrency.*  A refusal for lack of disk space ends the event loop, but not the
  threads.  The guard must count what others were promised and have not written yet.
- *The search.*  Measurements are not monotone in practice, and the search must still end,
  never pay twice, and promote what it reports.
- *The comparison.*  Its basis is a random sample, part of what it compares is deleted after it,
  its test encodes may fail, and dominance within tolerances is no order.
- *Dry-runs, skips and failures.*  The hooks of a phase have effects of their own, and the
  walk passes through the same phase from several dependents.

`PROJECT.json` lists each of these hazards at the line where it bites.

**What makes each component correct.**

- search: no quality twice; inside the range; ends; best is the optimum; the promoted attempt
  is the best; on a falling curve the frontier is found.
- pool: the floor holds; reserves are given back; it keeps the promise of `run_bounded` (each pair
  once, no more than the bound at a time, one result each); returns.
- encoding and optimization: what the merge reads is current; sidecars tell the truth; no
  investment is deleted without permission; a replay is free; no state wedges the directory.
- selection: something survives, the smallest among it; what is compared is of this goal and
  whole; the same configuration decides alike in every run.
- job to audio: a run that succeeds hands on what is asked of it, made from its source; a file is
  there only when its sidecar explains it; a run fails for a cause; nothing foreign is replaced
  without permission; a replay is free; a scale fits its request.
- merge: a run that succeeds delivers its own outputs; their metrics are of these files; outputs are
  deleted with permission only; a replay is free; no state wedges the directory.
- template and runner: results stand until the run is over; once each; failure cascades;
  cleanup comes last.

## 2. Modules

### QualitySearch

One action, `Record(m)`: one turn of `encode_chunk`'s loop, the attempt at the proposed
quality measured as `m` (any vector of deficits), recorded in the search, and the two slots of
`record_attempt` updated.  The forks of `QualitySearchV3` are operators of the same names;
each gives the *set* of proposals, because `min()` over equal scores depends on the
recording order, which the model does not keep.  Qualities are integers in units of the
exponent; interpolation is exact rational arithmetic, with the code's half-even rounding,
step clamp and range clamp.  `Monotone` restricts measurements to strictly falling curves.

### EncodePool

`Turn`, `Raise`, `Unwind` and `Return` are the event loop; `Reuse`, `Admit`, `Refuse`,
`Write`, `Encoded`, `EncodeFails`, `Continue` and `Converge` are one pair's thread.
`Turn` is one uninterrupted stretch of a coroutine between two awaits.  `Admit` is atomic
because `ensure` reads and reserves under one lock.  Disk space is counted in units and
`Write` takes one at a time, so a check may fall between two writes of another attempt.
Whether an attempt exists, fails or is the last one is free.

`BoundedMap` is what callers rely on: items begin in input order, at most `Bound` are in flight, and
the call ends with the list of all outcomes, or raises one of them once nothing is in flight.
`Implements` is that specification under a mapping: what has begun is what has left the deque, what is in
flight are the active pairs of `Active` (threads included, not only the coroutines that wait for
them), and the list is `recorded`.

### EncodingStore

The state on disk is `record` (optimization.yaml), `attempt` and `winner`, each with its
file and its sidecar (`card`).  A file carries what it was encoded from, its `basis`, which
the code cannot see, so that a property can say what the code should have noticed.  Each
unlink of a tree deletion, each link, and each save is a step, and `Kill` may come between
any two.  A behaviour follows one work directory, which `Init` chooses; `Start(k)` is the next run on it,
with configuration `k`, as long as the bounds of `Budgets` last.  Then:
`Compare` ... `StrategiesDropped` are the ladder `_invalidate_shared_namespace`;
`SelectAll`, `ReuseTable`, `BeginTests`, `SaveTable` are optimization;
`Recover`, `Curate`, `Curated`, `Conclude`, `Merge`, `Finalize` are encoding and its consumer;
`Begin` ... `SweepCard` are `encode_chunk` for the tests and the full encoding alike.  A winner is a
hard link (`Promote`), or a copy that grows at its final name where no link can be made (`Copy`, `Copied`).
The search is reduced to the sequence of qualities (`Trail`) it attempts for a goal in a quality
range, the winner last (no run changes the range, see section 4): `QualitySearch` shows that it is such a sequence.  Identity and probe facts sit
in the same band of the ladder and are one key, `pixels`; targets and mode are one key, `goal`.
Only searched runs are modelled here, whose winners are all measured; fixed-quality ones are in
`StrategySelection`.

`Assumed` names conditions without which the code does not do what it should (section 4 says what happens):

- `"recorded"`: where there is no record, the attempts of the plan were made by the settings they are
  met with.  A wipe that was killed behind the deletion of the record does not leave this so, and repeating
  the very command is enough to meet it; `store_unvouched` drops this name and the next.
- `"remembered"`: a strategy the record does not name comes with the settings that its attempts and winners
  were made with.  One that leaves the plan and returns changed does not.
- `"separate"`: a strategy's arguments do not change in the same run as the targets, sampling or chunks;
  `store_combined` drops it.
- `"whole"`: no kill falls inside the copy of a winner.  Where the file system makes links there is none.

### StrategySelection

The same phase as a decision.  `world` is what every winner would weigh and measure, for each goal: a
choice of `Init`, the same in every run.  A winner is there or not, and carries the goal it was encoded for.
`Dominates`, `Survivors`, `NearSmallest` and `Anchor` are `_dominates`, `_dominance_survivors`,
`_apply_tolerance` and `_select_anchor`; a row is the total size and the worst statistics of what the
strategy has.  `Wipe` and `Ladder` are the bands that bear on the mode (the others are in
`EncodingStore`), `Skip` the run without a comparison, `Recover` the choice of the basis and the fast
exit, `Test`, `Refuse` and `Compare` the tests and the save; `Prune` ... `Finish` are encoding as far as
it deletes and makes winners.  `settled` remembers what the configuration was answered the last time nothing was
lost, so that a property can compare two runs.

### SourceRecords and AudioOutputs

`SourceRecords` has the phases job, extraction, probe and chunking; `AudioOutputs` extends it by the
audio phase and is the specification TLC runs.  Each phase is a few steps: `...Invalidate` compares
the sidecar's source with the run's and needs the permission for a foreign one, wipes delete file by file, `...Recover`
classifies, and execution makes one file at a time.  A file on disk holds what it was made from, which
the code cannot see.  Four commands drive different terminals (`Served`), and extraction wants different
files for each (`WantedFiles`).  `ProbeRecover` resolves the requested scale against the recorded crop,
`ProbeExecute` against the one of the run; `ScaleResolution` is `resolve_scale` with exact
fractions and is checked in every configuration a run meets.  Producers of a file differ in the code
by the tool they call and share a rule: the file is in place under its final name when it is whole,
or the row has an error (`Produce`).

`KeyedStore` is the abstract promise of a directory beside a sidecar.  The record comes before the
files, goes after them, and is replaced only by one that explains every file that stays.
`RecordsFirst` says that both `extracted/` and `audio/` implement it; hence `Explained`, which
is what lets recovery decide by presence alone.  The winners of `EncodingStore` and the outputs of
`MergeAcceptance` do not keep this promise: there the file comes before its sidecar, and the violations
of section 4 live in the gap.

### MergeAcceptance

The state on disk is `file` and `card`, from the name of an output to what it was made from and to
its sidecar.  `Made` is what the winners of a strategy derive from, which the code cannot see in the
file; `Identity` is what the sidecar records and acceptance compares.  A name holds the quality
where the run has a single quality instead of a range, for all its strategies or for none: `build_encoding_plan`
(`app_config.py:816`) rejects a plan that mixes them.
`Scan` compares the sidecars' source, `Wipe` deletes file by file, `Recover` classifies every
expected output; then for each pending strategy `Take`, `ConcatAndPromote`, `MeasureAndSave`, or
`StrategyFails`; `Refuse` is the free-space floor, `Conclude` the end.  A kill may come between any
two, in particular between the promotion and the save.  `Assumed = {"repeated"}` says that a user
repeats a run that was killed or has failed, with the same settings, before turning to others;
the permission and whether to measure may change.  Without it see `merge_killed` below.

### PhaseRunner

The calls of `Phase.run` under way are a stack; each hook is a step.  On disk a phase has
`done`, whether its artifacts are complete, and `key`, what its `_invalidate` would find:
`current`, `rederive` (a difference it acts on by itself), `guarded` (one it needs
`--force` for), `unusable` (its recovery raises) or `absent`.  `Wipes` and `Prunes` say
whose artifacts an invalidation or a recovery deletes besides its own.  `Execute` may leave
the keys of dependents different, since what it produced may have changed.
`Resolve` leaves out the check that the merge adds to the walk (`phases/merge.py:423`): it is for an encoding that
reports complete and holds an incomplete pair, which the encoding does not.
`Closure` is what `dependency_closure` collects, as the least set that holds the terminals and the
dependencies of its members.  `MC_PhaseRunner` has the eight phases and their `DEPENDS_ON`.

`*_proofs` hold theorems (`EncodingReplay_proofs` continues `EncodingStore_proofs`); `MC_*` hold the values of constants that a `.cfg` cannot write.

Operators under a comment that begins with "Mutant" are seeded faults: each is the plausible
bug one property is there to catch, and `PROJECT.json` names the definition it replaces.
No specification refers to them.

## 3. Runs

| Run | Question | Bounds |
|---|---|---|
| `search_any` | safety and termination under any measurements | 9 qualities, one target, deficits -4..4 |
| `search_falling` | is the frontier of the grid found on falling curves | 8 steps of a granularity of 2, step limit 3, two targets |
| `pool` | safety, termination and the promise of the pool | 3 pairs, 2 workers, 2 attempts, reserve 1, size 2, 3 units above the floor |
| `store` | the trees and the record through changing settings, kills, failed encodes and cleanup | three work directories: `"one"` with 1 chunk, 9 configurations, 3 runs, 2 kills, 2 pairs at once; `"two"` with 2 chunks, the first the test basis, 5 configurations, 2 runs, 1 kill, 1 failed encode; `"swept"` with 1 chunk, 8 configurations over the cleanup levels, 3 runs, 1 kill, 2 pairs at once |
| `selection` | the decision, and whether runs agree on it | 3 strategies, 2 chunks, 3 bases, 16 worlds, 5 configurations, 3 runs, 1 kill, 1 failed encode |
| `workspace` | the source's records and the audio outputs through changing settings | 2 sources, 13 configurations, 3 runs, 2 kills, 1 failure |
| `merge` | the outputs through changing settings | 12 configurations, 3 runs, 1 kill, 1 failure |
| `runner` | the walk of two runs over all phases | 1 kill, 1 edit, 1 failure |

Four more runs each show one violation; they are in section 4.

**Why the bounds are enough.**  A stale artifact needs one run that makes it, one change and
one run that reads it; a third run lets a change be undone (the settings go back), and a second
kill interrupts the repair of what the first left.  Two strategies are the least for which
something is eliminated; two chunks the least for which a pair is not in the test basis.  Where attempts are
cleaned up, the first run encodes, the second hands on winners and the third repeats it.
Two attempts on a trail are the least where the winner is not the first attempt.  In the pool
three pairs on two workers are the least where one worker takes a second pair; an attempt may
outrun its reserve, and one refusal leaves another thread between two attempts.  In the runner,
phases reached from several dependents and from two terminals are all in the real graph.
In `selection`, three strategies are the least in which dominance fails to be transitive; the profiles
hold two of equal size, two that are near another but not near each other, and verdicts that differ by
chunk, and every assignment of them to the first two strategies is a world.  In `workspace`, the second source lacks a
stream of the first and has another shape, so that a request that fits one does not fit the other; the
configurations change each setting alone, and source, crop and scale together.

The runs that pass without liveness check safety only.  `CHECK_DEADLOCK FALSE` stands
where the system stops: a search or pool that has ended, or a budget of runs that is used up.

**Fairness.**  `QualitySearch`: weak fairness of the loop; it is one thread that does not wait.
`EncodePool`: each coroutine that is ready runs (asyncio's queue is first in, first out), each
thread goes on (the operating system's scheduler, and ffmpeg's end); nothing is strongly fair.
`EncodingStore`, `MergeAcceptance`: a run that is not killed goes on.  Starting and killing
are not fair.  `AudioOutputs`, `StrategySelection` and `PhaseRunner` are checked for safety only and assume none.

## 4. Where the code and its documentation part

Four runs each violate one property; `PROJECT.json` quotes the line.  The two of the store drop
names from `Assumed`, that of the merge its `"repeated"`, and the last states a property without its condition.

| Run | What happens |
|---|---|
| `store_combined` | arguments of one strategy and the targets change in one run: after the arguments' band has saved the current record the targets compare equal, and the other strategy's old winners are merged |
| `store_unvouched` | a strategy leaves the plan, and with it the record; it returns with other arguments, and what was made with the old ones is accepted and delivered.  With `"remembered"` put back, the same run is violated by a wipe: permitted, it deletes the record first and is killed; the same command is repeated, finds attempts that no record speaks of, and delivers them.  With `"recorded"` put back instead, only the first remains |
| `merge_killed` | killed between a promotion and the save of its sidecar, then the settings go back: the old sidecar vouches for the new file |
| `selection_stale` | a test encode fails and its strategy survives with the chunks that are left; encoding completes the pair in the same run, so that the next run finds nothing pending and replays the partial row |

Other behaviour met while modelling, which has no run of its own.  Where a passing
property stops short of it, its comment or its run says so:

In optimization and encoding:

- With a cleanup level, a pair encoded in this run is handed to the merge by the path of its attempt
  (`phases/encoding.py:1657`), which cleanup has just deleted, and the concatenation fails; a repetition hands on
  the winners.  `src/docs/glossary.md:79` has attempts "never traversed by later phases".  (`Mergeable` says when this is so, and that the winner is there all the same.)
- With a cleanup level, curation deletes the test winners of eliminated strategies whose attempts are gone, so
  that a repeated run encodes them anew, although `phases/optimization.py:502` calls such a run free.
  (`ReplayOnlyTests` says that it encodes nothing else.)
- Where no link can be made, a winner is copied to its final name.  Killed in the copy, the next run finds a
  winner file and writes its sidecar, and the one after merges a file that was cut short, although
  `src/docs/architecture.md:622` has files appear under their final name when they are whole.  (`"whole"` excludes it.)
- The quality range of a searched strategy is part of no key of the search mode
  (`phases/optimization.py:738`), so winners of the old range are merged, although `models.py:458` has the
  mode's keys "own quality-change invalidation".  (`Trail` takes the range; no run changes it.)
- A dry-run with `--force` invalidates and curates (`phase.py:532`) while `cli.py:659` announces "no changes
  will be made".  (The dry-runs of `PhaseRunner` do so too.)
- Killed before the first record is saved, then another crop: the attempts are accepted, since their
  `probe` key is never read.  (The same gap as that of the killed wipe; `"recorded"` excludes both.)
- An exception from the ladder of a skipped optimization leaves `Phase.run` unhandled, and the run's
  metrics collector registered with the interrupt handler.  (The collector is not modelled.)
- When one of two test encodes fails, the strategy's row sums what is left; it counts smaller
  than it is, and may be selected.  (`ComparedTrue` and `Steadfast` are about runs that lost none.)
- When every test encode failed, the table of empty rows is saved and an assertion ends the run
  (`Concluded` in `StrategySelection`).
- Dominance is not transitive: a strategy may be pruned by one that is pruned itself, and then none of the
  survivors dominates it.  `SmallestSurvives` is what does hold.  `src/docs/quality-targeting.md:224` calls the pruned ones
  strictly dominated; they are dominated within tolerances.
- `src/docs/quality-targeting.md` says that every fixed start wipes the winners; with an equal map nothing is wiped.
- A run that skips the comparison saves a record without the test basis, and the next one samples
  anew.
- When optimization is skipped, a dry-run skips the ladder as well and calls complete what an
  execute run would wipe.  (`ResultsStand` leaves this preview out.)
- `encode_chunk` quantizes the default quality to the exponent of the granularity, not to its
  multiples; a default off the grid stays off it.  (`search_falling` starts on the grid.)

In the merge and the phase template:

- `merge.yaml` is written by the last run that processed anything: quality 18, then 20, then 18 again
  prints the table of 20 for the outputs of 18.
- A fixed-quality `--no-measure` run under another sampling overwrites recorded metrics with empty
  ones; a measurement that fails is saved as empty; both are accepted by later runs that do measure.
  (`MetricsTrue` is about metrics that are there.)
- An identity wipe of `merged/` that was killed may leave outputs without sidecars; they stay as
  unwanted outputs.
- After a refusal the other threads start fresh encodes, not only finish those in flight.

In the phases that derive from the source:

- A request that does not fit (`Infeasible`) raises `RecoveryError` out of the execution of the probe phase,
  where only the recovery's is handled; the crop and the frame count it has determined are lost.
- Deletions are best effort (`rmtree(..., ignore_errors=True)`, and a warning in the audio sweep): a file
  that is locked stays and is accepted by presence later.  The model takes deletions to succeed.
- A frame count that could not be determined is recorded as 0 and as complete; chunking then fails its own
  check of the total.  (The model keeps the count `unknown` and does not follow it further.)
- A crop given by hand stays the recorded one when the option is dropped again, and is not detected
  anew.  (`Delivered` asks for the crop of a run that gives one.)
- A crop as large as the picture divides by zero in `resolve_scale`; `RecordsAssumption` excludes it.
- `resolve_scale` says that it raises for a cover the source cannot reach; it returns OFF.  An OFF may
  also leave an already small picture off the grid, or short of the box it was to cover.
- The docstring of the audio phase's `_classify` has unexpected outputs "retained in place"; the sweep before it deletes
  them.

## 5. Proofs

TLC checks the instances above.  For all values of the constants:

- `QualitySearch_proofs`: `TypeCorrect` (in particular: proposals lie in the codec's range),
  `NeverRepeats`, `PromotesBest`, `ReportsOptimum`, `PromotesMet`, `Advances`, and under the hypotheses below
  `FindsFrontier`.  The assumptions are `RangeAssumption` and
  `DataAssumption`: the default lies in the range, the targets are finitely many, the weights that make deficits of
  different metrics comparable are positive.  The range
  lemma is about `ClampToRange`: an end that is excluded moves inward, a sentinel is an end of the
  range, so the result is `None` or between two members of the range.  Every fork ends in the
  clamp, and in `NextOrExhaust` or between two tested neighbours with no tested point between;
  that is `NeverRepeats`, which needs that the neighbours are the *nearest* ones.
  `PromotesBest` rests on an invariant that ties the slots to the best: before
  the first attempt they are empty; then the final attempt is the best if the best passes, and
  otherwise there is none and the best failing attempt is the best.
  `ReportsOptimum` is about the score: the weighted sum of the deficits of the targets missed, or, when none is missed and
  the surplus is out of tolerance, the sum of all surpluses.
  The sum is known to the prover by its recursive definition only, and induction is out of its reach.  So the
  proofs take sums over sets as a relation and show from a *least* set on which it fails that each finite set has
  one sum, that an element more adds its term (`SumTakes`), that smaller terms have a smaller sum (`SumSmaller`), and
  that the fold is that sum (`FoldIsSum`).  Hence the score is negative exactly when a target is missed
  (`ScoreSign`; this gives `PromotesMet`), and falls when each deficit does (`ScoreFalls`).
  `FindsFrontier` supposes `Monotone` and that both ends of the range and the start lie on the grid of the
  granularity.  `FrontierInv` adds that the attempts lie on falling curves, that they and the proposal are on the grid, and
  that a search that goes on has accepted nothing.  `BestSplits` is the heart: on falling curves the attempts that pass
  are those not beyond the best pass, and when none passes the best is the attempt nearest the better end; so
  whichever fork ends the search ends it at the frontier.
  `Advances` is what termination rests on: each turn leaves fewer qualities of a finite range untried.
- `EncodePool_proofs`: `TypeCorrect`, `FloorKept`, `BoundKept`, `ComesToRest` and `ImplementsPromise`, for any
  number of pairs, workers and sizes.  The floor alone is not inductive.  The invariant `IInv` has four
  parts: the pairs in the deque are queued and distinct (`QueueInv`); every active pair is one some
  worker is bound to, so that the bound is one on pairs as well (`WorkerInv`); the ledger is `Need`
  times the number of attempts being encoded (`LedgerInv`); and the free space, less what the
  attempts in flight may still write (`Ahead`), is at least the floor less what they may outrun their
  reserves by (`RoomInv`).  The refinement needs more: that the deque is a suffix of the input
  (`OrderInv`), that what is recorded is what the pairs came to (`CollectInv`), and that a loop that
  has returned left nobody active (`EndInv`).  Each step is then one of `BoundedMap` or a stutter.
- `AudioOutputs_proofs`: `TypeCorrect`, `Delivers`, `Refines`, `StaysExplained`, `KeepsForeign`,
  `NamesTheCause`, `Repeats`, `ScalesFit`, for any sources, streams, chains, configurations, and any number of runs,
  kills and failures.  The invariant has two parts beyond the types: every file and output is explained by
  the sidecar beside it (`Explained`, which is the abstract `Explained` of `KeyedStore`); and what
  each phase that this run has passed leaves is as `Delivered` wants it (`Progress`), which is what a
  later phase may not disturb.  `Explained` makes `Refines` a matter of single steps.
  `NamesTheCause` adds that what was lost in a phase has been noted (`Excused`), `Repeats` that a run repeating a concluded
  one finds in each phase what it needs (`Repeating`).
  `ScalesFit` is `Progress` and a lemma about `Resolve` alone (`Resolves`): for every picture, crop, granularity and
  validated request (`Boxes`) the result has what `Keeps` says.  It is integer division throughout; the one delicate
  place is that a width rounded half to even cannot leave its box, nor fall short of one it covers, because the box is an
  integer.
- `StrategySelection_proofs`: `TypeCorrect`, `Survives`, `ComparesTrue`, `DecidesAlike`, for any strategies,
  chunks, sizes, statistics and configurations.  Beyond the types the invariant says that answers are
  verdicts on their rows (`Decided`), that past the ladder all winners and the record are of the run's goal
  (`Current`), and that the record has the basis and table of the settled answer while its configuration lasts
  (`Settles`).  `Survives` is the argument about dominance: among the measured strategies take one of least size,
  and among those one of the greatest value of a single statistic; whoever dominates it is no larger, so equally
  large, so better in every statistic, which it cannot be.  `TotalAssumption` says that a sum of sizes is a
  number and is zero for no sizes only; TLC evaluates it, induction over a fold is beyond the prover.
- `PhaseRunner_proofs`: `ExecutesOnce`, `FailsWhole`, `ResultsAreBacked` and `CleansUpLast`, for any phases, dependencies (even cyclic ones), commands,
  runs, kills and failures, from `RunnerAssumption`, `NoneAssumption` (`None` is no outcome) and, for the last two,
  `WipesAssumption`: an invalidation deletes, besides its own artifacts, those of dependents only.  So it is in the code, where
  only optimization deletes what another phase has made, and encoding depends on it; without it an invalidation could
  delete what a result already stands for.  None of the properties is inductive: all need the stack.  The invariant says that a frame has read the results of the dependencies it has
  passed, has noted a failure among them, and is at its hooks only when none failed (`Noticing`); that each frame
  below the top waits for the dependency that is the next frame (`Calling`); that what is under way has no
  result and what has one has those it needs (`Unfinished`, `Settled`); and that a phase is executed on the way to
  its result (`Once`).  `AloneOnStack` is the heart: a call that has passed all its dependencies is the only
  one of its phase under way, since the frame above another would be a dependency of it without a result.
  For the disk there is a second invariant, `DiskInv`: what is complete has a recorded key (`DiskTypes`); a phase past its
  invalidation meets no difference (`Compared`), and so does not delete in its recovery or execution what others stand on;
  results are backed until the consumables are deleted (`Stands`); the terminals driven are complete (`Driven`).
  `CleansUpLast` needs that completeness reaches the whole registry (`AllComplete`): a complete phase has complete
  dependencies (`Whole`), so the complete phases are one of the closed sets of which the registry is the least.
- `EncodingStore_proofs`: `TypeCorrect`, `KeepsInvestment`, `AlwaysMergeable` for any strategies, chunks, trails,
  configurations, runs, kills and failures, from `StoreAssumption` and `NoneAssumption`; `CardsAreTrue` and
  `DeliversCurrent` for these under the four conditions of `Assumed` and `OneRange` (no change of the quality range).
  `AlwaysMergeable` says at every cleanup level which paths lead nowhere, and that the winners are there.
  All steps of a pair are brought under one relation, `PairStep`: it touches the pair's attempts only, a new file
  is of this run's basis, a winner is a link to an attempt that is there or, until the copy is whole, a part of it.  The ladder's and the cleanup's steps are brought
  under `Deletes`.  Four invariants follow, each from the ones before.  `BaseInv`: the places that
  delete are reached with permission, and an attempt that is being measured or promoted is there.  `BasisInv`: the
  record vouches for what is there of the strategies it names (`Vouching`), which must hold in the middle of a wipe;
  and past the ladder all there is of the plan is of this run's basis (`Current`), whichever band was taken
  (`OnLadder`).  `QualityInv`: the same for the goal the winners were searched for, but for those
  being copied, which `"whole"` keeps from outliving their run.  `Handing`: each pair is handed on, waiting,
  under way or lost, and what is handed on stays, or stays cleaned up.  The proof needed what the instances did not show: that
  `"remembered"` must speak of winners too, because a kill between the save of a smaller plan's record and the curation
  leaves a winner that no record names.
- `EncodingReplay_proofs`: `Repeats`, for any strategies, chunks, trails, configurations, runs, kills and failures,
  under two hypotheses: `OneRange` and `"separate"`.  `ReplayIsFree` itself speaks of work directories where attempts are
  kept (`Kept`), since curation deletes the test winners of eliminated strategies, and as long as no encode has failed
  (`Unfailed`), since a failed encode leaves the row of its strategy short.  Neither, once false, becomes true again (`NextSpent`),
  so the invariant is asked for only while both hold.  The other three conditions are not needed: whether files
  are what they should be does not matter to whether they are there.  `ReplayInv` stands on
  `BaseInv`: nothing was lost (`NoneLost`); a winner stands for all attempts of a trail of the recorded goal
  (`Invested`, through the ladder and in the middle of a wipe), and an encode under way has those it has
  passed (`Climbing`); the rows of a table are of its whole basis (`WholeRows`); what is due is complete, queued or under way
  (`Pursued`); what is selected depends on configuration and basis alone (`Decided`), so that a replayed table selects
  what a new one would; hence what a concluded run leaves is all the next one asks for (`Repeating`).
- `MergeAcceptance_proofs`: `TypeCorrect`, `KeepsDeliverables` and `Repeats` for any configurations and
  any number of runs, kills and failures, without any assumption about the user; `DeliversCurrent` and `MetricsAreTrue` for these and
  `"repeated" \in Assumed`.  The assumptions are `MergeAssumption` and `NoneAssumption`, which says
  that `None` is no content.  The invariant `DInv` says that a sidecar is that of some configuration
  (`CardsInv`), and that a file beside a sidecar is either what the sidecar says or was promoted by
  the current run (`FilesInv`) - the second is the state a kill leaves behind, and the assumption is
  what keeps it tied to `cfg` until it is repaired.  `IdentityDecides` is the heart: a name and an
  identity determine the contents, the quality being in the name where the sampling does not matter.
  `Repeats` has an invariant of its own (`RInv`): past the scan no sidecar is of another source (`OneSource`), what the loop has
  dealt with and not lost is accepted by what `Recover` would read (`Handled`), hence all of it at the end (`Finished`).

Every invariant and every action property that a passing run checks is stated by a theorem, but for
`ReplayOnlyTests`.  That one and liveness are only model-checked; liveness is outside the
prover: `Terminates`, `Returns`, and `NeverWedged` of the store and of the merge.  `NeverWedged` of the store is about
runs without cleanup, since the first run with one fails in the merge (section 4).  That
`"recorded"`, `"remembered"`, `"separate"` and `"repeated"` are needed is shown by TLC: `store_unvouched` (with one name put back
or the other), `store_combined` and `merge_killed` are runs without them.

## 6. What is not modelled

- Runs without measurement, whose winners carry no metrics; the targets that a fixed-quality run reads off
  its anchor's winners for the report.
- The frame-count cross-check of attempts (`phases/encoding.py:1354`): encodes of a chunk have its frames.
- Contents of video, measurement and scene detection: ffmpeg and libraries, taken as free choices.  The source
  does not change during a run.
- Two processes on one work directory; a user who edits files in it by hand.
- A power failure that loses what was written: a kill stops the process, not the disk.
- The configuration's parsing and validation, the filter chains' arguments, the CLI, logging, plots, tables, and the application metrics: they
  format or count, and no behaviour above reads them.  `merge.yaml`, which only the table replays.

## 7. Plan

What would come next, in this order:

1. `EncodingStore` with frame counts: the attempt whose count disagrees stays at its final name.
2. `Delivery`: the abstract promise of the store (a run delivers what its settings ask, or fails),
   refined by `EncodingStore` under the conditions of `Assumed`; `Tracking` has the invariant it needs.
3. `PhaseRunner` with the records of `SourceRecords` in the place of `key`, so that `Invalidated` is derived.
4. Proofs: for the other components what `Advances` is for the search: a measure that every step of a run but
   a kill decreases, for the pool, the walk of `PhaseRunner` and the loop of the merge.
