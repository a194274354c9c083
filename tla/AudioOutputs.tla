------------------------------ MODULE AudioOutputs ------------------------------
(***************************************************************************)
(* AudioPhase beside the phases of SourceRecords, and what a run over all  *)
(* of them delivers.  audio/ holds one output for every selected track and *)
(* every configured chain; audio.yaml holds the source and the             *)
(* fingerprints of the chains.  An output's name carries track, chain and  *)
(* extension, and nothing of what the chain does.                          *)
(***************************************************************************)
EXTENDS SourceRecords, FiniteSets

CONSTANTS
    Extension     \* what a chain does -> the extension of its outputs

VARIABLES
    akey,     \* audio.yaml
    aout      \* output -> what it was made from
audio == <<akey, aout>>
vars  == <<records, audio, run, phase, step, lost, excuse, worked, budget>>

--------------------------------------------------------------------------------
ChainNames == UNION {DOMAIN k.chains : k \in Configs}
Outputs    == Dubs \X ChainNames \X {Extension[t] : t \in DOMAIN Extension}
Chains     == UNION {[D -> DOMAIN Extension] : D \in SUBSET ChainNames}
Keys       == [source : Sources, chains : Chains]
Contents   == [source : Sources, does : DOMAIN Extension]
ASSUME AudioAssumption == /\ \A k \in Configs : k.chains \in Chains
                          /\ None \notin Keys /\ None \notin Contents

\* resolve_selection over the tracks the extraction filter lets through.
Tracks == cfg.select \cap cfg.filter \cap Inventory \cap Dubs

\* What an output of a chain holds, by the record it was made under.
Made(key, out) ==
    IF out[2] \in DOMAIN key.chains THEN [source |-> key.source, does |-> key.chains[out[2]]] ELSE None

Current  == [source |-> cfg.source, chains |-> cfg.chains]
Expected == {<<t, c, Extension[cfg.chains[c]]>> : t \in Tracks, c \in DOMAIN cfg.chains}

\* Mutant: every chain that is recorded counts as changed.
Recorded == DOMAIN cfg.chains \cap DOMAIN akey.chains
\* The chains whose fingerprint differs from the recorded one.
Changed == {c \in DOMAIN cfg.chains \cap DOMAIN akey.chains : akey.chains[c] # cfg.chains[c]}
Stale   == {out \in Outputs : /\ aout[out] # None
                              /\ out \notin Expected \/ (akey # None /\ out[2] \in Changed)}
MissingOutputs == {out \in Expected : aout[out] = None}
--------------------------------------------------------------------------------
AudioInvalidate ==
    /\ At("audio", "invalidate")
    /\ IF akey = None THEN Goto("wipe")
       ELSE IF ~Foreign(akey.source) THEN Goto("sweep")
       ELSE IF Permitted THEN Goto("wipe") ELSE Fail
    /\ UNCHANGED <<records, audio, run, lost, excuse, worked, budget>>

DeleteOutput(out) == aout[out] # None /\ aout' = [aout EXCEPT ![out] = None]

\* rmtree of audio/, file by file; then the sidecar is deleted.
WipeAudio ==
    /\ At("audio", "wipe")
    /\ \/ \E out \in Outputs : DeleteOutput(out) /\ UNCHANGED <<akey, phase, step>>
       \/ /\ \A out \in Outputs : aout[out] = None
          /\ akey' = None /\ Goto("sweep") /\ UNCHANGED aout
    /\ UNCHANGED <<records, run, lost, excuse, worked, budget>>

\* Outputs of changed chains, and those no row expects: of removed chains, other
\* extensions and deselected tracks.
Sweep ==
    /\ At("audio", "sweep")
    /\ \E out \in Stale : DeleteOutput(out)
    /\ UNCHANGED <<records, akey, run, phase, step, lost, excuse, worked, budget>>

\* The record is committed when the chains differ, before anything is produced.
RecordedChains == IF akey = None THEN [c \in {} |-> None] ELSE akey.chains
CommitChains ==
    /\ At("audio", "sweep") /\ Stale = {}
    /\ akey' = IF RecordedChains # cfg.chains THEN Current ELSE akey
    /\ Goto("recover")
    /\ UNCHANGED <<records, aout, run, lost, excuse, worked, budget>>

AudioRecover ==
    /\ At("audio", "recover")
    /\ lost' = {}
    /\ IF MissingOutputs = {} THEN Advance ELSE Goto("execute")
    /\ UNCHANGED <<records, audio, run, excuse, worked, budget>>

\* execute_chain, for the jobs of run_bounded in the order they end.
ProduceOutput ==
    /\ At("audio", "execute")
    /\ \E out \in MissingOutputs \ lost :
          \/ /\ aout' = [aout EXCEPT ![out] = Made(Current, out)] /\ worked' = TRUE
             /\ UNCHANGED <<lost, excuse, budget>>
          \/ /\ Spend("failures") /\ lost' = lost \cup {out} /\ excuse' = TRUE
             /\ UNCHANGED <<aout, worked>>
    /\ UNCHANGED <<records, akey, run, phase, step>>

\* The space guard refuses an output, and the phase fails at once.
RefuseOutput ==
    /\ At("audio", "execute") /\ MissingOutputs \ lost # {}
    /\ Spend("failures") /\ excuse' = TRUE
    /\ Fail
    /\ UNCHANGED <<records, audio, run, lost, worked>>

AudioConcludes ==
    /\ At("audio", "execute") /\ MissingOutputs \subseteq lost
    /\ IF Unharmed THEN Advance ELSE Fail
    /\ UNCHANGED <<records, audio, run, lost, excuse, worked, budget>>
--------------------------------------------------------------------------------
AudioInit == Init /\ akey = None /\ aout = [out \in Outputs |-> None]

Work == \/ RecordsWork /\ UNCHANGED audio
        \/ AudioInvalidate \/ WipeAudio \/ Sweep \/ CommitChains
        \/ AudioRecover \/ ProduceOutput \/ RefuseOutput \/ AudioConcludes
Next == \/ (Kill \/ \E k \in Configs : Start(k)) /\ UNCHANGED audio
        \/ Work

Spec == AudioInit /\ [][Next]_vars
--------------------------------------------------------------------------------
TypeOK ==
    /\ job \in Identities \cup {None}
    /\ inv \in Sources \cup {None}
    /\ ext \in [Files -> Sources \cup {None}]
    /\ prb \in Facts \cup {None}
    /\ chk \in Boundaries \cup {None}
    /\ akey \in Keys \cup {None}
    /\ aout \in [Outputs -> Contents \cup {None}]
    /\ cfg \in Configs
    /\ phase \in Phases /\ step \in Steps \cup Resting
    /\ lost \subseteq Files \cup Outputs
    /\ excuse \in BOOLEAN /\ worked \in BOOLEAN /\ replay \in BOOLEAN
    /\ budget \in [{"runs", "kills", "failures"} -> Nat]

\* A run that succeeds hands on what its command is for, all of it derived from
\* the source it was given and by its settings: the identity, every wanted file,
\* exactly the outputs of its tracks and chains, the facts under the crop it asked
\* for, and the boundaries.  Records of earlier runs never stand in for these.
Delivered ==
    step = "done" =>
        /\ job = [source |-> cfg.source, path |-> cfg.path]
        /\ \A f \in WantedFiles : ext[f] = cfg.source
        /\ Served("audio") =>
              \A out \in Outputs : aout[out] = IF out \in Expected THEN Made(Current, out) ELSE None
        /\ Served("probe") =>
              /\ prb.source = cfg.source /\ cfg.crop \in {None, prb.crop}
              /\ prb.scale = Fits(prb.crop)
        /\ Served("chunking") => chk = [source |-> cfg.source, params |-> cfg.params]

\* The scale a run delivers is what the request promises of the cropped picture,
\* also when the crop is one that an earlier run was given.
ScaleFits ==
    step = "done" /\ Served("probe") =>
        Keeps(Pictures[cfg.source], prb.crop, cfg.scale, Granularity, prb.scale)

\* A run fails for a reason it can name: a file that could not be produced, a
\* scale, video or duration that is not to be had, or a foreign record that it has
\* no permission to replace.  No kill of an earlier run can lead to another.
Feasible == /\ HasVideo /\ cfg.source \in Timed
            /\ \A crop \in Crops : Fits(crop) # Infeasible
ForeignRecord == \/ \E r \in {job, prb, chk, akey} : r # None /\ Foreign(r.source)
                 \/ inv # None /\ Foreign(inv)
FailsForCause ==
    step = "failed" => excuse \/ ~Feasible \/ (~cfg.force /\ ForeignRecord)

\* Without --force nothing that was made from another source is deleted or
\* replaced, by whatever phase and after whatever a killed run has left.
PermissionKept ==
    [][step \notin Resting /\ ~cfg.force =>
        /\ \A f \in Files : ext[f] \notin {None, cfg.source} => ext'[f] = ext[f]
        /\ \A out \in Outputs : aout[out] # None /\ aout[out].source # cfg.source => aout'[out] = aout[out]
        /\ job # None /\ Foreign(job.source) => job' = job
        /\ prb # None /\ Foreign(prb.source) => prb' = prb
        /\ chk # None /\ Foreign(chk.source) => chk' = chk]_vars

\* A run that repeats one that was concluded produces and analyses nothing, also
\* when the source has been moved in between.
ReplayIsFree == replay => ~worked

\* The promise of the audio phase: see KeyedStore.
AudioDir == INSTANCE KeyedStore WITH
    Slots <- Outputs, Keys <- Keys, Content <- Made, key <- akey, held <- aout
RecordsFirst == Extracted!Spec /\ AudioDir!Spec
================================================================================
