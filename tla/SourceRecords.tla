------------------------------ MODULE SourceRecords ------------------------------
(***************************************************************************)
(* The phases that derive records from the source, across runs: the job's  *)
(* identity (job.yaml), the extracted files and their inventory            *)
(* (extraction.yaml), the probed facts (probe.yaml) and the scene          *)
(* boundaries (chunking.yaml).  Each phase keeps the identity of the       *)
(* source in its own sidecar and compares it by itself: no order of wiping *)
(* is handed from phase to phase.                                          *)
(*                                                                         *)
(* A run may be killed before any step, files may fail to be produced, and *)
(* the next run may come with another source, other settings, or another   *)
(* command.  The source does not change during a run.                      *)
(***************************************************************************)
EXTENDS ScaleResolution

CONSTANTS
    Sources,       \* the contents the source file may have
    Streams,       \* source -> the files its streams and chapters extract to
    Timed,         \* the sources whose duration is known
    Detected,      \* source -> the crop its black borders call for
    Pictures,      \* source -> the dimensions and the sample aspect of its video
    Crops,         \* the crops a run may ask for or detect
    Requests,      \* what may be asked of the output scale; None is one of them
    Granularity,   \* of the dimensions, over the codecs of the plan
    Index,         \* the per-frame timestamps of the video stream
    Container,     \* the remuxed video stream
    Dubs,          \* the remuxed audio streams
    Attached,      \* the attachments
    Chapters,      \* the chapters
    Configs,       \* the configurations a run may come with
    MaxRuns, MaxKills, MaxFailures    \* bounds on the runs, kills and failures

Files == UNION {Streams[s] : s \in Sources}
ASSUME RecordsAssumption ==
    /\ Index \in Files /\ Container \in Files /\ Index # Container
    /\ Dubs \subseteq Files \ {Index, Container, Chapters} /\ Chapters \notin {Index, Container}
    /\ Attached \subseteq Files \ (Dubs \cup {Index, Container, Chapters})
    /\ \A k \in Configs :
          /\ k.source \in Sources
          /\ k.crop \in Crops \cup {None}
          /\ k.command \in {"process", "video", "audio", "extract"}
          /\ k.scale \in Requests
          /\ k.force \in BOOLEAN
    /\ \A s \in Sources : Detected[s] \in Crops /\ (Index \in Streams[s] <=> Container \in Streams[s])
    /\ \A s \in Sources, c \in Crops :
          /\ {Cropped(Pictures[s], c).width, Cropped(Pictures[s], c).height} \subseteq Nat \ {0}
          /\ {Pictures[s].sar[1], Pictures[s].sar[2], Granularity} \subseteq Nat \ {0}
    /\ Requests \subseteq Boxes \cup {None}
    /\ {MaxRuns, MaxKills, MaxFailures} \subseteq Nat

VARIABLES
    job,      \* job.yaml
    inv,      \* extraction.yaml: the source whose streams it lists
    ext,      \* extracted/: file -> the source it was extracted from
    prb,      \* probe.yaml
    chk,      \* chunking.yaml
    cfg,      \* the configuration of the current or last run
    phase,    \* the phase the run has come to
    step,     \* where the current phase, or the run, is
    lost,     \* the files the current phase failed to produce
    excuse,   \* whether something failed in this run
    worked,   \* whether this run has produced a file or analysed the source
    replay,   \* whether the last run was concluded with the same configuration
    budget    \* runs, kills and failures still to come
records == <<job, inv, ext, prb, chk>>
run     == <<cfg, replay>>
--------------------------------------------------------------------------------
\* What the requests come to; a request of a run is resolved against the crop.
Scale == [x \in Sources \X Crops \X Requests |-> Resolve(Pictures[x[1]], x[2], x[3], Granularity)]

\* The sidecars.  A count is that of the frames of a source, or unknown.
Identities == [source : Sources, path : {k.path : k \in Configs}]
Facts      == [source : Sources, crop : Crops, scale : {Scale[x] : x \in Sources \X Crops \X Requests} \ {Infeasible},
               count : {"exact", "unknown"}]
Boundaries == [source : Sources, params : {k.params : k \in Configs}]

Steps   == {"invalidate", "wipe", "sweep", "recover", "execute"}
Resting == {"idle", "done", "failed", "killed"}
Phases  == {"job", "extraction", "audio", "probe", "chunking"}
ASSUME NoneAssumption ==
    /\ None \notin Sources /\ None \notin Crops /\ None \notin Phases
    /\ None \notin Facts /\ None \notin Boundaries

\* The walk over the dependencies of the terminals a command drives; what comes
\* after chunking is not of this module.
Served(p) == CASE p = "audio"               -> cfg.command \in {"process", "audio"}
               [] p \in {"probe", "chunking"} -> cfg.command \in {"process", "video"}
               [] OTHER                     -> TRUE
Following == CASE phase = "job"                             -> "extraction"
               [] phase = "extraction" /\ Served("audio")   -> "audio"
               [] phase = "extraction" /\ ~Served("audio") /\ Served("probe") -> "probe"
               [] phase = "audio" /\ Served("probe")        -> "probe"
               [] phase = "probe"                           -> "chunking"
               [] OTHER                                     -> None

Foreign(recorded) == recorded # cfg.source
At(p, s) == step = s /\ phase = p

Goto(s) == step' = s /\ UNCHANGED phase
Fail    == Goto("failed")
\* Mutant: the last phase of the walk is not recognised.
AdvanceOver == phase' = Following /\ step' = "invalidate"
Advance ==
    IF Following = None THEN Goto("done") ELSE phase' = Following /\ step' = "invalidate"
Spend(what) == budget[what] > 0 /\ budget' = [budget EXCEPT ![what] = @ - 1]

\* Mutants: a foreign record is taken over without permission; with it neither.
Unasked == TRUE
Never   == FALSE
Permitted == cfg.force

\* The settings that decide what a run derives: not where the source lies.
Settings(k) == <<k.source, k.command, k.filter, k.crop, k.scale, k.params, k.chains, k.select>>
--------------------------------------------------------------------------------
Init ==
    /\ job = None /\ inv = None /\ prb = None /\ chk = None
    /\ ext = [f \in Files |-> None]
    /\ cfg \in Configs /\ phase = "job" /\ step = "idle"
    /\ lost = {} /\ excuse = FALSE /\ worked = FALSE /\ replay = FALSE
    /\ budget = [runs |-> MaxRuns, kills |-> MaxKills, failures |-> MaxFailures]

Start(k) ==
    /\ step \in Resting /\ Spend("runs")
    /\ cfg' = k /\ phase' = "job" /\ step' = "invalidate"
    /\ replay' = (step = "done" /\ Settings(k) = Settings(cfg))
    /\ lost' = {} /\ excuse' = FALSE /\ worked' = FALSE
    /\ UNCHANGED records

\* The process is killed; only the disk survives.
Kill ==
    /\ step \notin Resting /\ Spend("kills")
    /\ Goto("killed")
    /\ UNCHANGED <<records, run, lost, excuse, worked>>
--------------------------------------------------------------------------------
(* JobPhase: the live identity of the source is established.               *)

\* A record of another content is rewritten with permission; one that differs in
\* the path only is rewritten at once.
EstablishIdentity ==
    /\ At("job", "invalidate")
    /\ IF job # None /\ Foreign(job.source) /\ ~Permitted
       THEN Fail /\ UNCHANGED job
       ELSE Advance /\ job' = [source |-> cfg.source, path |-> cfg.path]
    /\ UNCHANGED <<inv, ext, prb, chk, run, lost, excuse, worked, budget>>
--------------------------------------------------------------------------------
(* ExtractionPhase.                                                        *)

\* The streams as they are enumerated, or read from the sidecar.
Inventory == Streams[IF inv = None THEN cfg.source ELSE inv]

\* The files of the wanted rows: the filter decides, except on the video stream
\* outside of the extract command; audio streams are files in that command only.
WantedFiles ==
    LET materialized == cfg.command = "extract" IN
    {f \in Inventory :
        IF f = Index THEN IF materialized THEN Container \in cfg.filter ELSE cfg.command # "audio"
        ELSE f \in cfg.filter /\ (f \in Dubs \cup {Container} => materialized)}
MissingFiles == {f \in WantedFiles : ext[f] = None}

ExtractionInvalidate ==
    /\ At("extraction", "invalidate")
    /\ IF inv = None THEN Goto("wipe")
       ELSE IF ~Foreign(inv) THEN Goto("recover")
       ELSE IF Permitted THEN Goto("wipe") ELSE Fail
    /\ UNCHANGED <<records, run, lost, excuse, worked, budget>>

\* Mutant: the wipe starts with the sidecar.
SidecarFirst == TRUE
FilesGone == \A f \in Files : ext[f] = None

\* rmtree of extracted/, file by file; then the sidecar is deleted.
WipeExtracted ==
    /\ At("extraction", "wipe")
    /\ \/ \E f \in Files : /\ ext[f] # None
                           /\ ext' = [ext EXCEPT ![f] = None]
                           /\ UNCHANGED <<inv, phase, step>>
       \/ FilesGone /\ inv' = None /\ Goto("recover") /\ UNCHANGED ext
    /\ UNCHANGED <<job, prb, chk, run, lost, excuse, worked, budget>>

\* _recover, and the beginning of _execute: the inventory is persisted before
\* anything is extracted, and only when something is.
ExtractionRecover ==
    /\ At("extraction", "recover")
    /\ lost' = {}
    /\ IF MissingFiles = {} THEN Advance /\ UNCHANGED inv
                            ELSE Goto("execute") /\ inv' = cfg.source
    /\ UNCHANGED <<job, ext, prb, chk, run, excuse, worked, budget>>

\* Attachments come first, then the audio containers, then the other rows.
Turn(f) == IF f \in Attached THEN 1 ELSE IF f \in Dubs THEN 2 ELSE 3
Untried == MissingFiles \ lost
Due     == {f \in Untried : \A g \in Untried : Turn(f) <= Turn(g)}

\* The file is in place under its final name, or it is an error of its row.
Produce(f) ==
    \/ /\ ext' = [ext EXCEPT ![f] = cfg.source] /\ worked' = TRUE
       /\ UNCHANGED <<lost, excuse, budget>>
    \/ /\ Spend("failures") /\ lost' = lost \cup {f} /\ excuse' = TRUE
       /\ UNCHANGED <<ext, worked>>

\* One batch for all attachments; each that it leaves is dumped by itself.
DumpAttachment(f)   == f \in Attached /\ Produce(f)
MaterializeTrack(f) == f \in Dubs \cup {Container} /\ Produce(f)
ExtractIndex(f)     == f = Index /\ Produce(f)
\* By mkvextract, or else from what ffprobe tells.
ExtractChapters(f)  == f = Chapters /\ Produce(f)
ExtractSubtitle(f)  == f \notin Attached \cup Dubs \cup {Container, Index, Chapters} /\ Produce(f)

ExtractFile ==
    /\ At("extraction", "execute")
    /\ \E f \in Due : \/ DumpAttachment(f) \/ MaterializeTrack(f) \/ ExtractIndex(f)
                      \/ ExtractChapters(f) \/ ExtractSubtitle(f)
    /\ UNCHANGED <<job, inv, prb, chk, run, phase, step>>

Unharmed == lost = {}

\* Every row has been tried.
ExtractionConcludes ==
    /\ At("extraction", "execute") /\ MissingFiles \subseteq lost
    /\ IF Unharmed THEN Advance ELSE Fail
    /\ UNCHANGED <<records, run, lost, excuse, worked, budget>>

\* The space guard refuses a container, and the phase fails at once.
RefuseContainer ==
    /\ At("extraction", "execute") /\ Due \cap (Dubs \cup {Container}) # {}
    /\ Spend("failures") /\ excuse' = TRUE
    /\ Fail
    /\ UNCHANGED <<records, run, lost, worked>>
--------------------------------------------------------------------------------
(* ProbePhase: crop, scale and frame count of the video stream.            *)

Fits(crop) == Scale[<<cfg.source, crop, cfg.scale>>]
HasVideo   == Container \in Inventory

ProbeInvalidate ==
    /\ At("probe", "invalidate")
    /\ IF prb = None \/ ~Foreign(prb.source) THEN Goto("recover") /\ UNCHANGED prb
       ELSE IF Permitted THEN Goto("recover") /\ prb' = None
       ELSE Fail /\ UNCHANGED prb
    /\ UNCHANGED <<job, inv, ext, chk, run, lost, excuse, worked, budget>>

\* The crop a probe would record, and what of the record is no longer current.
Crop == IF cfg.crop # None THEN cfg.crop ELSE IF prb # None THEN prb.crop ELSE Detected[cfg.source]
Overridden == cfg.crop # None /\ cfg.crop # prb.crop
Rescaled   == prb.scale # Fits(prb.crop)

ProbeRecover ==
    /\ At("probe", "recover")
    /\ IF ~HasVideo THEN Fail
       ELSE IF prb = None \/ Overridden THEN Goto("execute")
       ELSE IF Fits(prb.crop) = Infeasible THEN Fail
       ELSE IF Rescaled THEN Goto("execute") ELSE Advance
    /\ UNCHANGED <<records, run, lost, excuse, worked, budget>>

\* Cached, counted from the timestamps or by a null pass; unknown when both fail.
CountFrames(count) ==
    IF prb # None /\ prb.count = "exact" THEN count = "exact" /\ UNCHANGED <<excuse, budget>>
    ELSE \/ count = "exact" /\ UNCHANGED <<excuse, budget>>
         \/ count = "unknown" /\ Spend("failures") /\ excuse' = TRUE

\* A request that does not fit raises after the crop and the frames have been
\* determined; they are not kept.
ProbeExecute ==
    /\ At("probe", "execute")
    /\ \E count \in {"exact", "unknown"} :
          /\ CountFrames(count)
          /\ IF Fits(Crop) = Infeasible THEN Fail /\ UNCHANGED prb
             ELSE /\ prb' = [source |-> cfg.source, crop |-> Crop, scale |-> Fits(Crop), count |-> count]
                  /\ Advance
    /\ worked' = (worked \/ prb = None \/ prb.count = "unknown")
    /\ UNCHANGED <<job, inv, ext, chk, run, lost>>
--------------------------------------------------------------------------------
(* ChunkingPhase: the scene boundaries.                                    *)

\* Mutant: the detection parameters are not compared.
NeverChanged == FALSE
ParamsChanged == chk.params # cfg.params

ChunkingInvalidate ==
    /\ At("chunking", "invalidate")
    /\ IF chk # None /\ Foreign(chk.source) /\ ~Permitted THEN Fail /\ UNCHANGED chk
       ELSE /\ chk' = IF chk # None /\ (Foreign(chk.source) \/ ParamsChanged) THEN None ELSE chk
            /\ Goto("recover")
    /\ UNCHANGED <<job, inv, ext, prb, run, lost, excuse, worked, budget>>

\* The last window is closed by the duration.
Windows == IF cfg.source \in Timed THEN Advance ELSE Fail

ChunkingRecover ==
    /\ At("chunking", "recover")
    /\ IF chk = None THEN Goto("execute") ELSE Windows
    /\ UNCHANGED <<records, run, lost, excuse, worked, budget>>

\* The boundaries are saved before the windows are built.
Detect ==
    /\ At("chunking", "execute")
    /\ \/ /\ chk' = [source |-> cfg.source, params |-> cfg.params]
          /\ Windows /\ worked' = TRUE
          /\ UNCHANGED <<excuse, budget>>
       \/ /\ Spend("failures") /\ excuse' = TRUE
          /\ Fail /\ UNCHANGED <<chk, worked>>
    /\ UNCHANGED <<job, inv, ext, prb, run, lost>>
--------------------------------------------------------------------------------
RecordsWork ==
    \/ EstablishIdentity
    \/ ExtractionInvalidate \/ WipeExtracted \/ ExtractionRecover
    \/ ExtractFile \/ RefuseContainer \/ ExtractionConcludes
    \/ ProbeInvalidate \/ ProbeRecover \/ ProbeExecute
    \/ ChunkingInvalidate \/ ChunkingRecover \/ Detect

\* The promise of extraction: see KeyedStore.
SourceOf(source, file) == source
Extracted == INSTANCE KeyedStore WITH
    Slots <- Files, Keys <- Sources, Content <- SourceOf,
    key <- inv, held <- ext
================================================================================
