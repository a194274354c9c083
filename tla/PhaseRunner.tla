------------------------------- MODULE PhaseRunner -------------------------------
(***************************************************************************)
(* Phase.run, the uniform footprint of every phase; the dependency walk it *)
(* starts; and Runner.run, which drives the terminal phases of a command   *)
(* and broadcasts finalize.                                                *)
(*                                                                         *)
(* Phase.run calls itself through _ensure_dependencies: the calls under    *)
(* way are a stack of frames, the phase that is running on top.  Each hook *)
(* of a phase is one step.  Between two steps the process may be killed;   *)
(* between two runs the user may change an input of a phase.               *)
(*                                                                         *)
(* What a phase has on disk is reduced to what the template tells apart:   *)
(* whether its artifacts are all present, and what its _invalidate would   *)
(* find when it compares its recorded key with the inputs of the run.      *)
(***************************************************************************)
EXTENDS Naturals, Sequences, SequencesExt

CONSTANTS
    Phases,
    DependsOn,    \* phase -> its dependencies, in the order they are declared
    Readonly,     \* the phases that execute in a dry-run (_DRY_RUN_READONLY)
    Skippable,    \* the phases with a _skip_check
    Rewriting,    \* the phases whose invalidation re-derives their record in place
    Wipes,        \* phase -> the phases whose artifacts its invalidation deletes
    Prunes,       \* phase -> the phases whose artifacts its recovery may delete
    Terminal,     \* MergePhase, the terminal-most phase
    Consumables,  \* the phases whose artifacts deep cleanup deletes
    Commands,     \* what the user may ask for
    MaxRuns, MaxKills, MaxEdits, MaxFailures,   \* bounds on what may happen
    None

Deps(p) == ToSet(DependsOn[p])

ASSUME RunnerAssumption ==
    /\ DependsOn \in [Phases -> Seq(Phases)]
    /\ Wipes \in [Phases -> SUBSET Phases]
    /\ Prunes \in [Phases -> SUBSET Phases]
    /\ Readonly \cup Skippable \cup Rewriting \cup Consumables \cup {Terminal} \subseteq Phases
    /\ \A c \in Commands : /\ c.targets \in Seq(Phases) /\ c.targets # <<>>
                           /\ {c.dry, c.force, c.skip, c.all} \subseteq BOOLEAN

\* An invalidation deletes, besides its own, artifacts of dependents only.
ASSUME WipesAssumption == \A p, q \in Phases : q \in Wipes[p] \ {p} => p \in Deps(q)

VARIABLES
    cmd,        \* the command of the current or last run
    stack,      \* the frames of the calls of Phase.run under way, outermost first
    result,     \* phase -> its cached outcome in this run
    next,       \* the terminal to drive
    ctl,        \* where Runner.run is
    disk,       \* phase -> its artifacts and its recorded key
    ran,        \* phase -> how often its _execute was called in this run
    budget      \* runs, kills, edits and failures still to come
vars == <<cmd, stack, result, next, ctl, disk, ran, budget>>
--------------------------------------------------------------------------------
Complete == {"COMPLETED", "REUSED"}
Outcomes == Complete \cup {"FAILED", "PENDING"}
Keys     == {"absent", "current", "rederive", "guarded", "unusable"}
Steps    == {"deps", "skip", "invalidate", "recover", "execute"}
ASSUME NoneAssumption == None \notin Outcomes

\* dependency_closure: the phases reached from the terminals of a command.  Their
\* order is left out: what finalize does to a phase does not depend on the others.
Closed(set) == ToSet(cmd.targets) \subseteq set /\ \A p \in set : Deps(p) \subseteq set
Closure     == {p \in Phases : \A set \in SUBSET Phases : Closed(set) => p \in set}
Registry    == Closure

Target    == cmd.targets[next]
Dependents(p) == {d \in Phases : p \in Deps(d)}
Frame(p)  == [phase |-> p, step |-> "deps", dep |-> 1, failed |-> FALSE, pending |-> FALSE]
Top       == Last(stack)
Self      == Top.phase
At(step)  == ctl = "drive" /\ stack # <<>> /\ Top.step = step
SetTop(f) == [stack EXCEPT ![Len(stack)] = f]
Proceed(step) == stack' = SetTop([Top EXCEPT !.step = step]) /\ UNCHANGED result

\* The phase's run() returns, its result cached.
Conclude(outcome) ==
    /\ result' = [result EXCEPT ![Self] = outcome]
    /\ stack' = Front(stack)

\* A phase's invalidation meets a difference it may not act on without --force.
Fatal(p) == disk[p].key = "guarded" /\ ~cmd.force

\* Mutant: only the fatal band is compared.
DiffersFatally(p) == disk[p].key = "guarded"
Differs(p) == disk[p].key \in {"rederive", "guarded"}

\* The effects of a phase's invalidation: its own artifacts, and those in the
\* namespace it owns, are deleted, or its record is rewritten to be current.
Invalidated(p) ==
    IF ~Differs(p) THEN disk
    ELSE [q \in Phases |->
            CASE q = p                -> [done |-> p \in Rewriting, key |-> "current"]
              [] q \in Wipes[p] \ {p} -> [disk[q] EXCEPT !.done = FALSE]
              [] OTHER                -> disk[q]]

--------------------------------------------------------------------------------
\* A new work directory, or that of a finished job.
Init ==
    /\ cmd \in Commands
    /\ stack = <<>> /\ next = 1 /\ ctl = "idle"
    /\ result = [p \in Phases |-> None]
    /\ disk \in {[p \in Phases |-> [done |-> FALSE, key |-> "absent"]],
                 [p \in Phases |-> [done |-> TRUE, key |-> "current"]]}
    /\ ran = [p \in Phases |-> 0]
    /\ budget = [runs |-> MaxRuns, kills |-> MaxKills, edits |-> MaxEdits, failures |-> MaxFailures]

Spend(what) == budget[what] > 0 /\ budget' = [budget EXCEPT ![what] = @ - 1]

\* _drive: a fresh registry, and Runner.run.
Start ==
    /\ ctl = "idle" /\ Spend("runs")
    /\ cmd' \in Commands
    /\ ctl' = "drive" /\ stack' = <<>> /\ next' = 1
    /\ result' = [p \in Phases |-> None]
    /\ ran' = [p \in Phases |-> 0]
    /\ UNCHANGED disk

\* The user changes an input a phase has recorded a key of, or repairs one.
Edit ==
    /\ ctl = "idle" /\ Spend("edits")
    /\ \E p \in Phases, key \in Keys \ {"absent"} :
         /\ disk[p].key \notin {"absent", key}
         /\ disk' = [disk EXCEPT ![p].key = key]
    /\ UNCHANGED <<cmd, stack, result, next, ctl, ran>>

\* The process dies; what is on disk stays.
Kill ==
    /\ ctl # "idle" /\ Spend("kills")
    /\ ctl' = "idle" /\ stack' = <<>>
    /\ UNCHANGED <<cmd, result, next, disk, ran>>
--------------------------------------------------------------------------------
(* Runner.run, before and after the walk.                                  *)

\* target.run(): a phase that has a result returns it without being called.
Drive ==
    /\ ctl = "drive" /\ stack = <<>>
    /\ result[Target] = None
    /\ stack' = <<Frame(Target)>>
    /\ UNCHANGED <<cmd, result, next, ctl, disk, ran, budget>>

\* A preview that says work remains has done its purpose.
TerminalOk == IF cmd.dry THEN result[Target] # "FAILED" ELSE result[Target] \in Complete

\* Mutant: a failed terminal does not stop the walk.
NeverStops == next < Len(cmd.targets)
GoesOn     == TerminalOk /\ next < Len(cmd.targets)

Judge ==
    /\ ctl = "drive" /\ stack = <<>>
    /\ result[Target] # None
    /\ IF GoesOn
       THEN next' = next + 1 /\ UNCHANGED ctl
       ELSE ctl' = "close" /\ UNCHANGED next
    /\ UNCHANGED <<cmd, stack, result, disk, ran, budget>>

\* run_ok, once the loop over the terminals has ended.
RunOk == next = Len(cmd.targets) /\ TerminalOk

\* Mutant: every successful command cleans up.
DeepAnywhere == RunOk /\ ~cmd.dry /\ cmd.all
Deep  == RunOk /\ ~cmd.dry /\ Last(cmd.targets) = Terminal /\ cmd.all

\* The loop over the terminals has ended; a phase that
\* returned PENDING on an execute run is raised as PhaseContractError here.
Close ==
    /\ ctl = "close"
    /\ ctl' = IF RunOk /\ ~cmd.dry THEN "finalize" ELSE "idle"
    /\ UNCHANGED <<cmd, stack, result, next, disk, ran, budget>>

\* finalize is broadcast to the registry; only the encoding phase deletes.
Finalize ==
    /\ ctl = "finalize"
    /\ disk' = [p \in Phases |-> IF Deep /\ p \in Registry \cap Consumables
                                 THEN [disk[p] EXCEPT !.done = FALSE] ELSE disk[p]]
    /\ ctl' = "idle"
    /\ UNCHANGED <<cmd, stack, result, next, ran, budget>>
--------------------------------------------------------------------------------
(* Phase.run, hook by hook.                                                *)

\* Mutant: whatever is not complete is called again.
Incomplete(d) == result[d] \notin Complete
Unresolved(d) == result[d] = None

\* Mutant: a dependency that failed before it was executed is overlooked.
NotedRan(f, d) == [f EXCEPT !.dep = @ + 1, !.failed  = @ \/ (result[d] = "FAILED" /\ ran[d] > 0),
                                           !.pending = @ \/ result[d] = "PENDING"]
Noted(f, d) == [f EXCEPT !.dep = @ + 1, !.failed  = @ \/ result[d] = "FAILED",
                                        !.pending = @ \/ result[d] = "PENDING"]

\* _ensure_dependencies: the next dependency is called, or its result is read.
EnsureDependency ==
    /\ At("deps") /\ Top.dep <= Len(DependsOn[Self])
    /\ LET d == DependsOn[Self][Top.dep] IN
         stack' = IF Unresolved(d) THEN Append(stack, Frame(d)) ELSE SetTop(Noted(Top, d))
    /\ UNCHANGED <<cmd, result, next, ctl, disk, ran, budget>>

\* _ensure_dependencies, once all are resolved.  MergePhase adds a check that the complete
\* result of the encoding holds no incomplete pair; it is left out, since the encoding
\* reports complete only when every pair is.
Resolve ==
    /\ At("deps") /\ Top.dep > Len(DependsOn[Self])
    /\ CASE Top.failed                 -> Conclude("FAILED")
         [] ~Top.failed /\ Top.pending -> Conclude("PENDING")
         [] OTHER                      -> Proceed("skip")
    /\ UNCHANGED <<cmd, next, ctl, disk, ran, budget>>

\* OptimizationPhase skips when there is nothing to compare; then the ladder of
\* its _invalidate runs here, and the record is saved without a table.
Skips == Self \in Skippable /\ cmd.skip
Skip ==
    /\ At("skip")
    /\ IF Skips /\ ~cmd.dry
       THEN /\ ~Fatal(Self)
            /\ disk' = [Invalidated(Self) EXCEPT ![Self] = [done |-> FALSE, key |-> "current"]]
       ELSE UNCHANGED disk
    /\ IF Skips THEN Conclude("REUSED") ELSE Proceed("invalidate")
    /\ UNCHANGED <<cmd, next, ctl, ran, budget>>

\* The ladder raises RecoveryError out of _skip_check: no handler is in place.
Escape ==
    /\ At("skip") /\ Skips /\ ~cmd.dry /\ Fatal(Self)
    /\ ctl' = "idle" /\ stack' = <<>>
    /\ UNCHANGED <<cmd, result, next, disk, ran, budget>>

\* _invalidate, in a dry-run as well; the template turns RecoveryError to FAILED.
Invalidate ==
    /\ At("invalidate")
    /\ IF Fatal(Self) THEN UNCHANGED disk /\ Conclude("FAILED")
                      ELSE disk' = Invalidated(Self) /\ Proceed("recover")
    /\ UNCHANGED <<cmd, next, ctl, ran, budget>>

Previews == cmd.dry /\ Self \notin Readonly

\* _recover, with the curation of what no row consumes; the dry-run preview; and
\* the reuse of what is complete.
Recover ==
    /\ At("recover")
    /\ IF disk[Self].key = "unusable" THEN UNCHANGED disk /\ Conclude("FAILED")
       ELSE /\ \E gone \in SUBSET Prunes[Self] :
                 disk' = [p \in Phases |-> [disk[p] EXCEPT !.done = @ /\ p \notin gone]]
            /\ CASE disk[Self].done -> Conclude("REUSED")
                 [] ~disk[Self].done /\ Previews -> Conclude("PENDING")
                 [] OTHER -> Proceed("execute")
    /\ UNCHANGED <<cmd, next, ctl, ran, budget>>

\* _execute.  What is produced anew may differ from what the dependents were
\* derived from: their recorded keys then no longer match.
Execute ==
    /\ At("execute")
    /\ ran' = [ran EXCEPT ![Self] = @ + 1]
    /\ Conclude("COMPLETED")
    /\ IF cmd.dry THEN UNCHANGED disk
       ELSE \E key \in {"current", "rederive", "guarded"} :
              disk' = [p \in Phases |->
                         IF p = Self THEN [done |-> TRUE, key |-> "current"]
                         ELSE IF p \in Dependents(Self) /\ disk[p].key # "absent" /\ key # "current"
                         THEN [disk[p] EXCEPT !.key = key] ELSE disk[p]]
    /\ UNCHANGED <<cmd, next, ctl, budget>>

ExecuteFails ==
    /\ At("execute") /\ ~cmd.dry /\ Spend("failures")
    /\ ran' = [ran EXCEPT ![Self] = @ + 1]
    /\ Conclude("FAILED")
    /\ UNCHANGED <<cmd, next, ctl, disk>>
--------------------------------------------------------------------------------
Work == \/ Drive \/ Judge \/ Close \/ Finalize
        \/ EnsureDependency \/ Resolve \/ Skip \/ Escape
        \/ Invalidate \/ Recover \/ Execute \/ ExecuteFails
Next == Start \/ Edit \/ Kill \/ Work

Spec == Init /\ [][Next]_vars
--------------------------------------------------------------------------------
\* What a complete result claims is still on disk, derived from the inputs of
\* the run.  The products of a phase may be gone that was skipped, or that others
\* curate: what they were for, its decision, has been taken.
Spent(p)  == (p \in Skippable /\ cmd.skip) \/ p \in UNION {Prunes[q] : q \in Phases}
Backed(p) == disk[p].key = "current" /\ (disk[p].done \/ Spent(p))

\* Until the run is over, every complete result a phase cached is backed by the
\* disk: no later phase of the walk deletes or outdates what an earlier one reported
\* complete, and a preview promises no more than there is.  A preview that skips
\* a phase is left out: the skip leaves the phase's invalidation to the execute run.
ResultsStand ==
    (ctl \in {"drive", "close"} /\ ~(cmd.dry /\ cmd.skip))
        => \A p \in Phases \ (IF cmd.dry THEN Readonly ELSE {}) :
              result[p] \in Complete => Backed(p)

\* The phases reached from several terminals and dependents are executed once.
ExecutedOnce == \A p \in Phases : ran[p] <= 1

\* A failed phase fails every phase that was reached and needs it, and nothing
\* that needs it is executed.
FailureCascades ==
    \A p \in Phases : result[p] = "FAILED" =>
        \A d \in Dependents(p) : result[d] \in {None, "FAILED"} /\ ran[d] = 0

\* Deep cleanup deletes consumables of a run that has delivered its output only;
\* a failed, previewed or partial run keeps what a retry needs.
CleanupIsLast ==
    [][\A p \in Consumables : (disk[p].done /\ ~disk'[p].done /\ ctl = "finalize")
            => Backed(Terminal) /\ \A q \in Registry : result[q] \in Complete]_vars
================================================================================
