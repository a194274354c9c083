----------------------------- MODULE MergeAcceptance -----------------------------
(***************************************************************************)
(* MergePhase across runs: the merged outputs of a work directory and      *)
(* their sidecars, the records of acceptance.  A run scans the sidecars    *)
(* for a foreign source, classifies every expected output, and for those   *)
(* not accepted concatenates the winners, promotes the result to its final *)
(* name, measures it and saves its sidecar.  A run may be killed before    *)
(* any of its steps; the next may come with another configuration.         *)
(*                                                                         *)
(* merged/<source> <strategy>[ <label>=<quality>].mkv|.yaml are an output  *)
(* and its sidecar.  The winners a run merges are those of its own         *)
(* configuration: that is what EncodingStore is about.                     *)
(***************************************************************************)
EXTENDS Naturals, FiniteSets

CONSTANTS
    Configs,      \* the configurations a run may come with
    Range,        \* the knob of a strategy whose quality is searched in a range
    MaxRuns, MaxKills, MaxFailures,   \* bounds on the runs, kills and failures
    Assumed,      \* what is assumed of the user, see Start
    None          \* no file, no sidecar, no metrics

\* knob: strategy of the plan -> its quality where the range is a single point.  It is so
\* for all or for none: build_encoding_plan rejects a plan that mixes the two.
ASSUME MergeAssumption ==
    /\ \A k \in Configs :
          /\ k.selected # {} /\ k.selected \subseteq DOMAIN k.knob
          /\ DOMAIN k.args = DOMAIN k.knob
          /\ (\E s \in DOMAIN k.knob : k.knob[s] = Range) => \A s \in DOMAIN k.knob : k.knob[s] = Range
          /\ {k.measure, k.force} \subseteq BOOLEAN
    /\ Assumed \subseteq {"repeated"}
    /\ {MaxRuns, MaxKills, MaxFailures} \subseteq Nat

VARIABLES
    file,     \* output -> what it was made from
    card,     \* output -> its sidecar
    cfg,      \* the configuration of the current or last run
    pc,       \* where the run is
    reason,   \* pending strategy -> why its output was not accepted
    current,  \* the strategy being processed and its stage
    lost,     \* the strategies that failed in this run
    worked,   \* whether this run has concatenated or measured
    replay,   \* whether the last run was concluded with this very configuration
    budget    \* runs, kills and failures still to come
vars == <<file, card, cfg, pc, reason, current, lost, worked, replay, budget>>
disk == <<file, card>>
--------------------------------------------------------------------------------
\* EncodingPlan.fixed_quality: every range of the plan is a single point.
Fixed(k) == \A s \in DOMAIN k.knob : k.knob[s] # Range
Mode(k)  == IF Fixed(k) THEN "fixed" ELSE "search"

\* output_file_name: the quality is part of it wherever the range is a point.
Name(k, s) == <<s, k.knob[s]>>
Outputs    == UNION {{Name(k, s) : s \in DOMAIN k.knob} : k \in Configs}

\* Mutant: every strategy of the plan is merged.
WholePlan(k) == DOMAIN k.knob
\* The strategies of the encoding winners.
Wanted(k) == k.selected

\* What the winners of a strategy derive from: the metrics steer the search.
Made(k, s) == [source |-> k.source, args |-> k.args[s], probe |-> k.probe, chunks |-> k.chunks,
               found |-> IF k.knob[s] = Range THEN [targets |-> k.targets, sampling |-> k.sampling]
                                        ELSE [quality |-> k.knob[s]]]

\* compose: the acceptance record of an output.
Identity(k, s) == [source |-> k.source, strategy |-> k.args[s], mode |-> Mode(k),
                   basis |-> IF Fixed(k) THEN k.knob[s] ELSE k.targets,
                   probe |-> k.probe, winners |-> k.chunks, sampling |-> k.sampling]

\* What outputs, sidecars, pending reasons and strategies in process may be; None
\* is nothing of it.
Contents   == UNION {{Made(k, s) : s \in DOMAIN k.knob} : k \in Configs}
Identities == UNION {{Identity(k, s) : s \in DOMAIN k.knob} : k \in Configs}
Cards      == [identity : Identities,
               metrics : [of : Contents, sampling : {k.sampling : k \in Configs}] \cup {None}]
Reasons    == {"absent", "unverifiable", "basis", "sampling"}
Stages     == {"concat", "measure"}
Taken      == [strategy : UNION {DOMAIN k.knob : k \in Configs}, stage : Stages]
ASSUME NoneAssumption == None \notin Contents \cup Cards \cup Reasons \cup Taken

\* Mutant: an output that is not measured keeps the sidecar it has.
ComposeMeasured(k, s, metrics) ==
    IF metrics = None THEN card[Name(k, s)] ELSE [identity |-> Identity(k, s), metrics |-> metrics]
Compose(k, s, metrics) == [identity |-> Identity(k, s), metrics |-> metrics]

\* acceptance_mismatch: the first dimension that differs, sampling the last.  The
\* source is not among them: the scan has compared it.
Dimensions == {"strategy", "mode", "basis", "probe", "winners"}
Contradicted(k, s, dimensions) ==
    \E d \in dimensions : card[Name(k, s)].identity[d] # Identity(k, s)[d]

\* Mutant: the sampling is the first dimension compared.
SamplingFirst(k, s) ==
    IF Contradicted(k, s, {"sampling"}) THEN "sampling"
    ELSE IF Contradicted(k, s, Dimensions) THEN "basis" ELSE None
Mismatch(k, s) ==
    IF Contradicted(k, s, Dimensions) THEN "basis"
    ELSE IF Contradicted(k, s, {"sampling"}) THEN "sampling" ELSE None

\* Why an output is not accepted; None when it is.
Pending(k, s) ==
    IF file[Name(k, s)] = None THEN "absent"
    ELSE IF card[Name(k, s)] = None THEN "unverifiable"
    ELSE Mismatch(k, s)

\* _remeasures_in_place: the file of a fixed run does not depend on the sampling.
InPlace(why) == why = "sampling" /\ Fixed(cfg)

\* Mutants: permission is never given; it is not asked for.
NeverPermitted(k) == FALSE
Unasked(k)        == TRUE
Permitted(k)      == k.force
--------------------------------------------------------------------------------
NoReason == [s \in {} |-> None]
Spend(what) == budget[what] > 0 /\ budget' = [budget EXCEPT ![what] = @ - 1]

\* The settings of a run apart from the permission and the reporting it asks for.
Settings(k) == <<k.source, k.selected, k.args, k.knob, k.probe, k.targets, k.sampling, k.chunks>>

\* The process starts.  A user is assumed to repeat a run that was killed or has
\* failed before turning to other settings.
Start(k) ==
    /\ pc \in {"idle", "done", "failed", "killed"} /\ Spend("runs")
    /\ "repeated" \in Assumed /\ pc \in {"failed", "killed"} => Settings(k) = Settings(cfg)
    /\ cfg' = k
    /\ replay' = (pc = "done" /\ k = cfg)
    /\ worked' = FALSE
    /\ pc' = "scan"
    /\ UNCHANGED <<disk, reason, current, lost>>

\* The process is killed; only the disk survives.
Kill ==
    /\ pc \notin {"idle", "done", "failed", "killed"} /\ Spend("kills")
    /\ pc' = "killed"
    /\ reason' = NoReason /\ current' = None /\ lost' = {}
    /\ UNCHANGED <<disk, cfg, worked, replay>>

\* _invalidate: a sidecar of another source is fatal, or permits the wipe.
Foreign == {o \in Outputs : card[o] # None /\ card[o].identity.source # cfg.source}
Scan ==
    /\ pc = "scan"
    /\ pc' = IF Foreign = {} THEN "recover" ELSE IF Permitted(cfg) THEN "wipe" ELSE "failed"
    /\ UNCHANGED <<disk, cfg, reason, current, lost, worked, replay, budget>>

\* rmtree of merged/, file by file.
Wipe ==
    /\ pc = "wipe"
    /\ \/ \E o \in Outputs :
             \/ file[o] # None /\ file' = [file EXCEPT ![o] = None] /\ UNCHANGED <<card, pc>>
             \/ card[o] # None /\ card' = [card EXCEPT ![o] = None] /\ UNCHANGED <<file, pc>>
       \/ /\ \A o \in Outputs : file[o] = None /\ card[o] = None
          /\ pc' = "recover"
          /\ UNCHANGED disk
    /\ UNCHANGED <<cfg, reason, current, lost, worked, replay, budget>>

\* _recover, and the reuse when nothing is pending.  Outputs of other settings
\* surface as unwanted rows and stay where they are.
Recover ==
    /\ pc = "recover"
    /\ reason' = [s \in {s \in Wanted(cfg) : Pending(cfg, s) # None} |-> Pending(cfg, s)]
    /\ pc' = IF DOMAIN reason' = {} THEN "done" ELSE "merging"
    /\ UNCHANGED <<disk, cfg, current, lost, worked, replay, budget>>
--------------------------------------------------------------------------------
(* _execute, one strategy after the other.                                 *)

At(stage) == pc = "merging" /\ current # None /\ current.stage = stage
Output    == Name(cfg, current.strategy)
Stage(stage) == current' = [current EXCEPT !.stage = stage]
Unmoved   == UNCHANGED <<cfg, pc, replay>>

\* The next pending strategy; an output measured in place keeps its file.
Take ==
    /\ pc = "merging" /\ current = None
    /\ \E s \in DOMAIN reason :
         /\ current' = [strategy |-> s, stage |-> IF InPlace(reason[s]) THEN "measure" ELSE "concat"]
         /\ reason' = [t \in DOMAIN reason \ {s} |-> reason[t]]
    /\ UNCHANGED <<disk, lost, worked, budget>> /\ Unmoved

\* mkvmerge and mkvpropedit write the twin, the rename replaces the output.  The
\* sidecar of the old file, if there is one, stays beside the new.
ConcatAndPromote ==
    /\ At("concat")
    /\ file' = [file EXCEPT ![Output] = Made(cfg, current.strategy)]
    /\ worked' = TRUE
    /\ Stage("measure")
    /\ UNCHANGED <<card, reason, lost, budget>> /\ Unmoved

\* The metrics of a promoted output: none when the user opts out, or when the
\* measurement fails with an OSError or a ValueError, which is only logged.
Metrics(o) ==
    IF cfg.measure THEN {[of |-> file[o], sampling |-> cfg.sampling], None} ELSE {None}

\* It is measured and its sidecar saved, which accepts it.
MeasureAndSave ==
    /\ At("measure")
    /\ \E metrics \in Metrics(Output) :
         card' = [card EXCEPT ![Output] = Compose(cfg, current.strategy, metrics)]
    /\ worked' = (worked \/ cfg.measure)
    /\ current' = None
    /\ UNCHANGED <<file, reason, lost, budget>> /\ Unmoved

\* The concatenation fails, or any other exception ends the strategy: the next
\* one follows.
StrategyFails ==
    /\ pc = "merging" /\ current # None /\ Spend("failures")
    /\ lost' = lost \cup {current.strategy}
    /\ current' = None
    /\ UNCHANGED <<disk, reason, worked>> /\ Unmoved

\* The free-space floor is broken: the phase fails at once.
Refuse ==
    /\ At("concat") /\ Spend("failures")
    /\ pc' = "failed" /\ reason' = NoReason /\ current' = None /\ lost' = {}
    /\ UNCHANGED <<disk, cfg, worked, replay>>

\* The loop has ended; the phase fails with any strategy.
Conclude ==
    /\ pc = "merging" /\ current = None /\ DOMAIN reason = {}
    /\ pc' = IF lost = {} THEN "done" ELSE "failed"
    /\ lost' = {}
    /\ UNCHANGED <<disk, cfg, reason, current, worked, replay, budget>>
--------------------------------------------------------------------------------
Init ==
    /\ file = [o \in Outputs |-> None] /\ card = [o \in Outputs |-> None]
    /\ cfg \in Configs /\ pc = "idle"
    /\ reason = NoReason /\ current = None /\ lost = {}
    /\ worked = FALSE /\ replay = FALSE
    /\ budget = [runs |-> MaxRuns, kills |-> MaxKills, failures |-> MaxFailures]

Work == \/ Scan \/ Wipe \/ Recover
        \/ Take \/ ConcatAndPromote \/ MeasureAndSave \/ StrategyFails \/ Refuse \/ Conclude
Next == (\E k \in Configs : Start(k)) \/ Kill \/ Work

Spec     == Init /\ [][Next]_vars
\* A run that is not killed goes on.
FairSpec == Spec /\ WF_vars(Work)
--------------------------------------------------------------------------------
TypeOK ==
    /\ file \in [Outputs -> Contents \cup {None}]
    /\ card \in [Outputs -> Cards \cup {None}]
    /\ cfg \in Configs
    /\ pc \in {"idle", "scan", "wipe", "recover", "merging", "done", "failed", "killed"}
    /\ DOMAIN reason \subseteq cfg.selected
    /\ \A s \in DOMAIN reason : reason[s] \in Reasons
    /\ current # None => current \in [strategy : cfg.selected, stage : Stages]
    /\ lost \subseteq cfg.selected
    /\ worked \in BOOLEAN /\ replay \in BOOLEAN
    /\ budget \in [{"runs", "kills", "failures"} -> Nat]

\* Whatever earlier runs, kills and failures left behind, a run that succeeds has
\* delivered the concatenation of its own winners for every selected strategy.
DeliveredCurrent == pc = "done" => \A s \in cfg.selected : file[Name(cfg, s)] = Made(cfg, s)

\* After a successful run every selected output has its sidecar, and the metrics in
\* it are of the file beside it, measured under the sampling of this run.
MetricsTrue ==
    pc = "done" => \A s \in cfg.selected :
        LET o == Name(cfg, s)
        IN  /\ card[o] # None
            /\ card[o].metrics \in {None, [of |-> file[o], sampling |-> cfg.sampling]}

\* A deliverable is never deleted but by a run with the permission to.
DeliverablesKept == [][\A o \in Outputs : file[o] # None /\ file'[o] = None => cfg.force]_vars

\* A run that repeats a concluded run neither concatenates nor measures.
ReplayIsFree == replay => ~worked

\* No state an earlier run may leave behind wedges merged/: a run with the --force
\* permission succeeds unless it is killed or something fails.
NeverWedged == pc = "scan" /\ cfg.force ~> pc \in {"done", "killed"} \/ budget.failures < MaxFailures
================================================================================
