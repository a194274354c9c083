--------------------------- MODULE AudioOutputs_proofs ---------------------------
(***************************************************************************)
(* TLAPS proofs about SourceRecords and AudioOutputs: their types; that a  *)
(* run that succeeds delivers what its own source and settings make; that  *)
(* every step of either phase with files is one that KeyedStore allows;    *)
(* and that nothing of another source is touched without permission.       *)
(***************************************************************************)
EXTENDS AudioOutputs, TLAPS

--------------------------------------------------------------------------------
(* Types.                                                                  *)

\* What a configuration asks for lies in the sets of the types.
LEMMA Settled ==
    ASSUME TypeOK
    PROVE  /\ cfg.source \in Sources /\ cfg.scale \in Requests /\ cfg.crop \in Crops \cup {None}
           /\ cfg.chains \in Chains /\ cfg.force \in BOOLEAN
           /\ cfg.command \in {"process", "video", "audio", "extract"}
           /\ [source |-> cfg.source, path |-> cfg.path] \in Identities
           /\ [source |-> cfg.source, params |-> cfg.params] \in Boundaries
           /\ Current \in Keys
BY RecordsAssumption, AudioAssumption DEF TypeOK, Identities, Boundaries, Current, Keys

\* The files of a source are files.
LEMMA Inventoried == ASSUME TypeOK PROVE WantedFiles \subseteq Files
<1>1. Inventory \subseteq Files
  BY Settled DEF TypeOK, Inventory, Files
<1>2. QED
  BY <1>1 DEF WantedFiles

\* What is tried is missing, and by whatever means it is produced.
LEMMA Attempted ==
    ASSUME TypeOK, ExtractFile
    PROVE  \E f \in MissingFiles \cap Files : Produce(f)
BY Inventoried
DEF ExtractFile, Due, Untried, MissingFiles, DumpAttachment, MaterializeTrack, ExtractIndex, ExtractChapters,
    ExtractSubtitle

\* The outputs a run expects are outputs, and made from its source by its chains.
LEMMA Expectations ==
    ASSUME TypeOK
    PROVE  /\ Expected \subseteq Outputs
           /\ \A out \in Expected : /\ out[2] \in DOMAIN cfg.chains
                                    /\ Made(Current, out) = [source |-> cfg.source, does |-> cfg.chains[out[2]]]
                                    /\ Made(Current, out) \in Contents
<1> SUFFICES ASSUME NEW out \in Expected
             PROVE  /\ out \in Outputs
                    /\ out[2] \in DOMAIN cfg.chains
                    /\ Made(Current, out) = [source |-> cfg.source, does |-> cfg.chains[out[2]]]
                    /\ Made(Current, out) \in Contents
  OBVIOUS
<1>1. PICK t \in Tracks, c \in DOMAIN cfg.chains : out = <<t, c, Extension[cfg.chains[c]]>>
  BY DEF Expected
<1>2. PICK D \in SUBSET ChainNames : cfg.chains \in [D -> DOMAIN Extension]
  BY Settled DEF Chains
<1>3. c \in ChainNames /\ cfg.chains[c] \in DOMAIN Extension /\ t \in Dubs
  BY <1>2 DEF Tracks
<1>4. out[2] = c
  BY <1>1
<1>5. Made(Current, out) = [source |-> cfg.source, does |-> cfg.chains[c]]
  BY <1>4 DEF Made, Current
<1>6. out \in Outputs
  BY <1>1, <1>3 DEF Outputs
<1>7. QED
  BY <1>3, <1>4, <1>5, <1>6, Settled DEF Contents

\* Spending from the budget leaves natural numbers.
LEMMA SpendType ==
    ASSUME TypeOK, NEW what \in {"runs", "kills", "failures"}, Spend(what)
    PROVE  budget' \in [{"runs", "kills", "failures"} -> Nat]
<1>1. budget[what] \in Nat /\ budget[what] > 0
  BY DEF TypeOK, Spend
<1>2. budget[what] - 1 \in Nat
  BY <1>1
<1>3. QED
  BY <1>2 DEF TypeOK, Spend

\* The place of a run stays in its sets.
LEMMA PlaceType ==
    ASSUME TypeOK, Advance \/ Fail \/ (\E s \in Steps : Goto(s))
    PROVE  phase' \in Phases /\ step' \in Steps \cup Resting
BY DEF TypeOK, Advance, Fail, Goto, Following, Phases, Steps, Resting

\* A crop and a request have a scale.
LEMMA ScaleType ==
    ASSUME TypeOK, NEW crop \in Crops, Fits(crop) # Infeasible, NEW count \in {"exact", "unknown"}
    PROVE  [source |-> cfg.source, crop |-> crop, scale |-> Fits(crop), count |-> count] \in Facts
BY Settled DEF Fits, Facts

LEMMA CropType == ASSUME TypeOK PROVE Crop \in Crops
BY Settled, RecordsAssumption DEF TypeOK, Crop, Facts

\* The initial state is well-typed.
LEMMA InitTypes == AudioInit => TypeOK
<1> SUFFICES ASSUME AudioInit PROVE TypeOK
  OBVIOUS
<1>1. budget \in [{"runs", "kills", "failures"} -> Nat]
  BY RecordsAssumption DEF AudioInit, Init
<1>2. /\ ext \in [Files -> Sources \cup {None}]
      /\ aout \in [Outputs -> Contents \cup {None}]
  BY DEF AudioInit, Init
<1>3. QED
  BY <1>1, <1>2 DEF AudioInit, Init, TypeOK, Phases, Steps, Resting

\* The phases of the records keep the types.
LEMMA RecordsTypes == ASSUME TypeOK, RecordsWork, UNCHANGED audio PROVE TypeOK'
<1> USE Settled
<1>1. CASE EstablishIdentity
  <2>1. phase' \in Phases /\ step' \in Steps \cup Resting
    BY <1>1, PlaceType DEF EstablishIdentity
  <2>2. QED
    BY <1>1, <2>1 DEF EstablishIdentity, TypeOK, run, audio
<1>2. CASE ExtractionInvalidate
  BY <1>2, PlaceType DEF ExtractionInvalidate, TypeOK, run, records, audio, Steps
<1>3. CASE WipeExtracted
  <2>1. ext' \in [Files -> Sources \cup {None}]
    BY <1>3 DEF WipeExtracted, TypeOK
  <2>2. phase' \in Phases /\ step' \in Steps \cup Resting
    BY <1>3, PlaceType DEF WipeExtracted, TypeOK, Steps
  <2>3. QED
    BY <1>3, <2>1, <2>2 DEF WipeExtracted, TypeOK, run, audio
<1>4. CASE ExtractionRecover
  <2>1. phase' \in Phases /\ step' \in Steps \cup Resting
    BY <1>4, PlaceType DEF ExtractionRecover, Steps
  <2>2. QED
    BY <1>4, <2>1 DEF ExtractionRecover, TypeOK, run, audio
<1>5. CASE ExtractFile
  <2>1. PICK f \in Files : Produce(f)
    BY <1>5, Attempted DEF ExtractFile
  <2>3. budget' \in [{"runs", "kills", "failures"} -> Nat]
    BY <2>1, SpendType DEF Produce, TypeOK
  <2>4. ext' \in [Files -> Sources \cup {None}] /\ lost' \subseteq Files \cup Outputs
    BY <2>1 DEF Produce, TypeOK
  <2>5. worked' \in BOOLEAN /\ excuse' \in BOOLEAN
    BY <2>1 DEF Produce, TypeOK
  <2>6. QED
    BY <1>5, <2>3, <2>4, <2>5 DEF ExtractFile, TypeOK, run, audio
<1>6. CASE RefuseContainer
  BY <1>6, PlaceType, SpendType DEF RefuseContainer, TypeOK, run, records, audio
<1>7. CASE ExtractionConcludes
  BY <1>7, PlaceType DEF ExtractionConcludes, TypeOK, run, records, audio
<1>8. CASE ProbeInvalidate
  <2>1. phase' \in Phases /\ step' \in Steps \cup Resting
    BY <1>8, PlaceType DEF ProbeInvalidate, Steps
  <2>2. QED
    BY <1>8, <2>1 DEF ProbeInvalidate, TypeOK, run, audio
<1>9. CASE ProbeRecover
  BY <1>9, PlaceType DEF ProbeRecover, TypeOK, run, records, audio, Steps
<1>10. CASE ProbeExecute
  <2>1. PICK count \in {"exact", "unknown"} :
           /\ CountFrames(count)
           /\ IF Fits(Crop) = Infeasible THEN Fail /\ UNCHANGED prb
              ELSE /\ prb' = [source |-> cfg.source, crop |-> Crop, scale |-> Fits(Crop), count |-> count]
                   /\ Advance
    BY <1>10 DEF ProbeExecute
  <2>2. prb' \in Facts \cup {None}
    BY <2>1, ScaleType, CropType DEF TypeOK
  <2>3. budget' \in [{"runs", "kills", "failures"} -> Nat] /\ excuse' \in BOOLEAN
    BY <2>1, SpendType DEF CountFrames, TypeOK
  <2>4. phase' \in Phases /\ step' \in Steps \cup Resting
    BY <2>1, PlaceType
  <2>5. worked' \in BOOLEAN
    BY <1>10 DEF ProbeExecute
  <2>6. QED
    BY <1>10, <2>2, <2>3, <2>4, <2>5 DEF ProbeExecute, TypeOK, run, audio
<1>11. CASE ChunkingInvalidate
  <2>1. phase' \in Phases /\ step' \in Steps \cup Resting
    BY <1>11, PlaceType DEF ChunkingInvalidate, Steps
  <2>2. QED
    BY <1>11, <2>1 DEF ChunkingInvalidate, TypeOK, run, audio
<1>12. CASE ChunkingRecover
  BY <1>12, PlaceType DEF ChunkingRecover, Windows, TypeOK, run, records, audio, Steps
<1>13. CASE Detect
  <2>1. phase' \in Phases /\ step' \in Steps \cup Resting
    BY <1>13, PlaceType DEF Detect, Windows
  <2>2. budget' \in [{"runs", "kills", "failures"} -> Nat] /\ excuse' \in BOOLEAN
    BY <1>13, SpendType DEF Detect, TypeOK
  <2>3. worked' \in BOOLEAN /\ chk' \in Boundaries \cup {None}
    BY <1>13 DEF Detect, TypeOK
  <2>4. QED
    BY <1>13, <2>1, <2>2, <2>3 DEF Detect, TypeOK, run, audio
<1>14. QED
  BY <1>1, <1>2, <1>3, <1>4, <1>5, <1>6, <1>7, <1>8, <1>9, <1>10, <1>11, <1>12, <1>13 DEF RecordsWork

\* So does the audio phase.
AudioWork == \/ AudioInvalidate \/ WipeAudio \/ Sweep \/ CommitChains
             \/ AudioRecover \/ ProduceOutput \/ RefuseOutput \/ AudioConcludes
LEMMA AudioTypes == ASSUME TypeOK, AudioWork PROVE TypeOK'
<1>1. CASE AudioInvalidate
  BY <1>1, PlaceType DEF AudioInvalidate, TypeOK, run, records, audio, Steps
<1>2. CASE WipeAudio
  <2>1. phase' \in Phases /\ step' \in Steps \cup Resting
    BY <1>2, PlaceType DEF WipeAudio, TypeOK, Steps
  <2>2. aout' \in [Outputs -> Contents \cup {None}]
    BY <1>2 DEF WipeAudio, DeleteOutput, TypeOK
  <2>3. QED
    BY <1>2, <2>1, <2>2 DEF WipeAudio, TypeOK, run, records
<1>3. CASE Sweep
  <2>1. aout' \in [Outputs -> Contents \cup {None}]
    BY <1>3 DEF Sweep, DeleteOutput, TypeOK
  <2>2. QED
    BY <1>3, <2>1 DEF Sweep, TypeOK, run, records
<1>4. CASE CommitChains
  BY <1>4, PlaceType, Settled DEF CommitChains, TypeOK, run, records, Steps
<1>5. CASE AudioRecover
  <2>1. phase' \in Phases /\ step' \in Steps \cup Resting
    BY <1>5, PlaceType DEF AudioRecover, Steps
  <2>2. QED
    BY <1>5, <2>1 DEF AudioRecover, TypeOK, run, records, audio
<1>6. CASE ProduceOutput
  <2>1. PICK out \in MissingOutputs \ lost :
           \/ /\ aout' = [aout EXCEPT ![out] = Made(Current, out)] /\ worked' = TRUE
              /\ UNCHANGED <<lost, excuse, budget>>
           \/ /\ Spend("failures") /\ lost' = lost \cup {out} /\ excuse' = TRUE
              /\ UNCHANGED <<aout, worked>>
    BY <1>6 DEF ProduceOutput
  <2>2. out \in Outputs /\ Made(Current, out) \in Contents
    BY Expectations DEF MissingOutputs
  <2>3. budget' \in [{"runs", "kills", "failures"} -> Nat]
    BY <2>1, SpendType DEF TypeOK
  <2>4. aout' \in [Outputs -> Contents \cup {None}] /\ lost' \subseteq Files \cup Outputs
    BY <2>1, <2>2 DEF TypeOK
  <2>5. worked' \in BOOLEAN /\ excuse' \in BOOLEAN
    BY <2>1 DEF TypeOK
  <2>6. QED
    BY <1>6, <2>3, <2>4, <2>5 DEF ProduceOutput, TypeOK, run, records
<1>7. CASE RefuseOutput
  BY <1>7, PlaceType, SpendType DEF RefuseOutput, TypeOK, run, records, audio
<1>8. CASE AudioConcludes
  BY <1>8, PlaceType DEF AudioConcludes, TypeOK, run, records, audio
<1>9. QED
  BY <1>1, <1>2, <1>3, <1>4, <1>5, <1>6, <1>7, <1>8 DEF AudioWork

\* Every step keeps the types.
LEMMA NextTypes == ASSUME TypeOK, [Next]_vars PROVE TypeOK'
<1>1. CASE UNCHANGED vars
  BY <1>1 DEF vars, records, audio, run, TypeOK
<1>2. CASE Kill /\ UNCHANGED audio
  BY <1>2, SpendType DEF Kill, Goto, TypeOK, run, records, audio, Resting
<1>3. ASSUME NEW k \in Configs, Start(k), UNCHANGED audio PROVE TypeOK'
  <2>1. replay' \in BOOLEAN
    BY <1>3 DEF Start
  <2>2. QED
    BY <1>3, <2>1, SpendType DEF Start, TypeOK, records, audio, Phases, Steps
<1>4. QED
  BY <1>1, <1>2, <1>3, RecordsTypes, AudioTypes DEF Next, Work, AudioWork

\* At every step of every run, after whatever kills and failures, the records and
\* the files are what the sets of the types say (job.py, extraction.py, probe.py,
\* chunking.py, audio.py).
THEOREM TypeCorrect == Spec => []TypeOK
BY InitTypes, NextTypes, PTL DEF Spec
--------------------------------------------------------------------------------
(* What is on disk is explained, and what the phases behind have left.     *)

\* Every file is of the source that extraction.yaml names, every output of the
\* source and the chain that audio.yaml names.
Explained ==
    /\ \A f \in Files : ext[f] # None => ext[f] = inv
    /\ \A out \in Outputs : aout[out] # None => akey # None /\ aout[out] = Made(akey, out)

Running == step \in Steps \cup {"done"}
Own(recorded) == recorded \in {None, cfg.source}
Exact  == \A out \in Outputs : aout[out] = IF out \in Expected THEN Made(Current, out) ELSE None
OwnKey == akey # None => akey.source = cfg.source
Fresh  == /\ prb # None /\ prb.source = cfg.source /\ cfg.crop \in {None, prb.crop}
          /\ prb.scale = Fits(prb.crop)

\* What a phase leaves.
Result(p) ==
    /\ p = "job" => job = [source |-> cfg.source, path |-> cfg.path]
    /\ p = "extraction" => Own(inv) /\ MissingFiles = {}
    /\ p = "audio" => Exact /\ OwnKey /\ RecordedChains = cfg.chains
    /\ p = "probe" => Fresh
    /\ p = "chunking" => chk = [source |-> cfg.source, params |-> cfg.params]

\* What the phases before p have left, on a walk that p is on.
Behind(p) ==
    /\ p = "audio" => Served("audio")
    /\ p \in {"probe", "chunking"} => Served("probe")
    /\ p # "job" => Result("job")
    /\ p \notin {"job", "extraction"} => Result("extraction")
    /\ p \in {"probe", "chunking"} /\ Served("audio") => Result("audio")
    /\ p = "chunking" => Result("probe")

\* What the steps of a phase may rely on.
InExtraction ==
    /\ At("extraction", "wipe") => inv = None \/ cfg.force
    /\ At("extraction", "recover") => Own(inv)
    /\ At("extraction", "execute") => inv = cfg.source
InAudio ==
    /\ At("audio", "wipe") => akey = None \/ cfg.force
    /\ phase = "audio" /\ step \in {"sweep", "recover", "execute"} /\ akey # None => akey.source = cfg.source
    /\ phase = "audio" /\ step \in {"recover", "execute"} => Stale = {} /\ RecordedChains = cfg.chains
    /\ At("audio", "execute") => akey = Current
InProbe ==
    phase = "probe" /\ step \in {"recover", "execute"} /\ prb # None => prb.source = cfg.source
InChunking ==
    /\ At("chunking", "recover") => chk \in {None, [source |-> cfg.source, params |-> cfg.params]}
    /\ At("chunking", "execute") => chk = None

Progress ==
    Running =>
        /\ Behind(phase)
        /\ InExtraction /\ InAudio /\ InProbe /\ InChunking
        /\ step = "done" => Result(phase) /\ Following = None /\ phase # "job"
Inv == TypeOK /\ Explained /\ Progress

LEMMA InitInv == AudioInit => Inv
BY InitTypes DEF AudioInit, Init, Inv, Explained, Progress, Running, Steps

\* What a run wants depends on its configuration and on the inventory only.
LEMMA SameWants ==
    ASSUME UNCHANGED <<cfg, inv>>
    PROVE  /\ WantedFiles' = WantedFiles /\ Expected' = Expected /\ Current' = Current
           /\ HasVideo' = HasVideo
BY DEF WantedFiles, Inventory, Expected, Tracks, Current, HasVideo

\* So do the phases it serves, and what its requests come to.
LEMMA SameRun ==
    ASSUME UNCHANGED cfg
    PROVE  /\ Current' = Current
           /\ \A p : Served(p)' <=> Served(p)
           /\ \A crop : Fits(crop)' = Fits(crop)
BY DEF Current, Served, Fits, Scale

\* Where the walk goes.
LEMMA Walk ==
    ASSUME TypeOK, Advance
    PROVE  \/ phase' = phase /\ step' = "done" /\ Following = None
           \/ phase' = Following /\ step' = "invalidate" /\ Following # None
BY DEF Advance, Goto

LEMMA Order ==
    ASSUME TypeOK
    PROVE  /\ phase = "job" => Following = "extraction"
           /\ phase = "extraction" =>
                 Following = IF Served("audio") THEN "audio" ELSE IF Served("probe") THEN "probe" ELSE None
           /\ phase = "audio" => Following = IF Served("probe") THEN "probe" ELSE None
           /\ phase = "probe" => Following = "chunking"
           /\ phase = "chunking" => Following = None
           /\ None \notin Phases
<1>1. phase = "job" => Following = "extraction"
  BY DEF Following
<1>2. ASSUME phase = "extraction"
      PROVE  Following = IF Served("audio") THEN "audio" ELSE IF Served("probe") THEN "probe" ELSE None
  <2>1. CASE Served("audio")
    BY <1>2, <2>1 DEF Following
  <2>2. CASE ~Served("audio") /\ Served("probe")
    BY <1>2, <2>2 DEF Following
  <2>3. CASE ~Served("audio") /\ ~Served("probe")
    BY <1>2, <2>3 DEF Following
  <2>4. QED
    BY <2>1, <2>2, <2>3
<1>3. ASSUME phase = "audio" PROVE Following = IF Served("probe") THEN "probe" ELSE None
  BY <1>3 DEF Following
<1>4. phase = "probe" => Following = "chunking"
  BY DEF Following
<1>5. phase = "chunking" => Following = None
  BY DEF Following
<1>6. QED
  BY <1>1, <1>2, <1>3, <1>4, <1>5, NoneAssumption

\* A record that vouches for nothing has no files.
LEMMA Orphans ==
    ASSUME TypeOK, Explained
    PROVE  /\ inv = None => \A f \in Files : ext[f] = None
           /\ akey = None => \A out \in Outputs : aout[out] = None
BY DEF Explained

\* The work of the other phases leaves the files explained.
LEMMA RecordsExplained ==
    ASSUME Inv, RecordsWork, UNCHANGED audio
    PROVE  Explained'
<1>1. \A out \in Outputs : aout'[out] # None => akey' # None /\ aout'[out] = Made(akey', out)
  BY DEF Inv, Explained, audio
<1>2. CASE UNCHANGED <<ext, inv>>
  BY <1>1, <1>2 DEF Inv, Explained
<1>3. CASE WipeExtracted
  BY <1>1, <1>3 DEF Inv, Explained, TypeOK, WipeExtracted, FilesGone
<1>4. CASE ExtractionRecover
  <2>1. step = "recover" /\ phase = "extraction" /\ ext' = ext /\ inv' \in {inv, cfg.source}
    BY <1>4 DEF ExtractionRecover, At
  <2>2. Own(inv)
    BY <2>1 DEF Inv, Progress, Running, Steps, InExtraction, At
  <2>3. QED
    BY <1>1, <2>1, <2>2 DEF Inv, Explained, Own
<1>5. CASE ExtractFile
  <2>1. inv = cfg.source /\ inv' = inv
    BY <1>5 DEF Inv, Progress, Running, Steps, InExtraction, ExtractFile, At
  <2>2. QED
    BY <1>1, <1>5, <2>1, Attempted DEF Inv, Explained, TypeOK, Produce
<1>6. QED
  BY <1>2, <1>3, <1>4, <1>5
  DEF RecordsWork, EstablishIdentity, ExtractionInvalidate, RefuseContainer, ExtractionConcludes, records,
      ProbeInvalidate, ProbeRecover, ProbeExecute, ChunkingInvalidate, ChunkingRecover, Detect

\* A record of the chains of this run explains what was kept under the old one.
LEMMA CommitVouches ==
    ASSUME Inv, CommitChains
    PROVE  \A out \in Outputs : aout[out] # None => akey' # None /\ aout[out] = Made(akey', out)
<1> SUFFICES ASSUME NEW out \in Outputs, aout[out] # None
             PROVE  akey' # None /\ aout[out] = Made(akey', out)
  OBVIOUS
<1>1. akey # None /\ aout[out] = Made(akey, out)
  BY DEF Inv, Explained
<1>2. CASE akey' = akey
  BY <1>1, <1>2
<1>3. CASE akey' = Current
  <2>1. out \in Expected /\ out[2] \notin Changed
    BY <1>1 DEF CommitChains, Stale
  <2>2. out[2] \in DOMAIN cfg.chains
    BY <2>1, Expectations DEF Inv
  <2>3. out[2] \in DOMAIN akey.chains /\ Made(akey, out) = [source |-> akey.source, does |-> akey.chains[out[2]]]
    BY <1>1 DEF Made
  <2>4. akey.chains[out[2]] = cfg.chains[out[2]]
    BY <2>1, <2>2, <2>3 DEF Changed
  <2>5. akey.source = cfg.source
    BY <1>1 DEF CommitChains, At, Inv, Progress, Running, Steps, InAudio
  <2>6. Made(Current, out) = [source |-> cfg.source, does |-> cfg.chains[out[2]]]
    BY <2>1, Expectations DEF Inv
  <2>7. Current # None
    BY Settled, AudioAssumption DEF Inv
  <2>8. QED
    BY <1>1, <1>3, <2>3, <2>4, <2>5, <2>6, <2>7
<1>4. QED
  BY <1>2, <1>3 DEF CommitChains

\* So does the audio phase.
LEMMA AudioExplained ==
    ASSUME Inv, AudioWork
    PROVE  Explained'
<1>1. \A f \in Files : ext'[f] # None => ext'[f] = inv'
  BY DEF Inv, Explained, AudioWork, AudioInvalidate, WipeAudio, Sweep, CommitChains,
         AudioRecover, ProduceOutput, RefuseOutput, AudioConcludes, records
<1>2. CASE UNCHANGED audio
  BY <1>1, <1>2 DEF Inv, Explained, audio
<1>3. CASE WipeAudio
  BY <1>1, <1>3 DEF Inv, Explained, TypeOK, WipeAudio, DeleteOutput
<1>4. CASE Sweep
  BY <1>1, <1>4 DEF Inv, Explained, TypeOK, Sweep, DeleteOutput
<1>5. CASE CommitChains
  <2>1. aout' = aout
    BY <1>5 DEF CommitChains
  <2>2. QED
    BY <1>1, <1>5, <2>1, CommitVouches DEF Explained
<1>6. CASE ProduceOutput
  <2>1. akey = Current /\ akey' = akey
    BY <1>6 DEF Inv, Progress, Running, Steps, InAudio, ProduceOutput, At
  <2>2. Current # None
    BY Settled, AudioAssumption DEF Inv
  <2>3. QED
    BY <1>1, <1>6, <2>1, <2>2 DEF Inv, Explained, TypeOK, ProduceOutput
<1>7. QED
  BY <1>2, <1>3, <1>4, <1>5, <1>6
  DEF AudioWork, AudioInvalidate, AudioRecover, RefuseOutput, AudioConcludes
--------------------------------------------------------------------------------
(* A run goes from phase to phase with what they leave.                    *)

\* To advance is to have left what the phase leaves.
LEMMA Advancing ==
    ASSUME TypeOK, Advance, UNCHANGED cfg, NEW p, p = phase, Behind(p)', Result(p)'
    PROVE  Progress'
<1>1. p \in Phases
  BY DEF TypeOK
<1>2. CASE phase' = phase /\ step' = "done" /\ Following = None
  <2>1. Following' = Following
    BY <1>2, SameRun DEF Following
  <2>2. p # "job"
    BY <1>2, Order DEF Phases
  <2>3. QED
    BY <1>2, <2>1, <2>2 DEF Progress, InExtraction, InAudio, InProbe, InChunking, At
<1>3. CASE phase' = Following /\ step' = "invalidate" /\ Following # None
  <2>1. Behind(phase)'
    BY <1>1, <1>3, Order, SameRun DEF Behind, Phases
  <2>2. QED
    BY <1>3, <2>1 DEF Progress, InExtraction, InAudio, InProbe, InChunking, At
<1>4. QED
  BY <1>2, <1>3, Walk

\* Where a run stands still, nothing is claimed.
LEMMA Failing == ASSUME Fail PROVE Progress'
BY DEF Fail, Goto, Progress, Running, Steps

\* What has been left stays as long as what it is about does.
LEMMA Standing ==
    ASSUME Inv, NEW p, p = phase, step \in Steps, UNCHANGED <<cfg, job>>,
           p \notin {"job", "extraction"} => UNCHANGED <<inv, ext>>,
           p \in {"probe", "chunking"} => UNCHANGED audio,
           p = "chunking" => UNCHANGED prb
    PROVE  Behind(p)'
<1>1. Behind(p)
  BY DEF Inv, Progress, Running
<1>2. Result("job") => Result("job")'
  BY DEF Result
<1>3. p \notin {"job", "extraction"} /\ Result("extraction") => Result("extraction")'
  BY SameWants DEF Result, Own, MissingFiles
<1>4. p \in {"probe", "chunking"} /\ Result("audio") => Result("audio")'
  BY SameWants DEF Result, Exact, OwnKey, RecordedChains, audio
<1>5. p = "chunking" /\ Result("probe") => Result("probe")'
  BY SameRun DEF Result, Fresh
<1>6. QED
  BY <1>1, <1>2, <1>3, <1>4, <1>5, SameRun DEF Behind

\* The phases of the records.
LEMMA JobProgress == ASSUME Inv, EstablishIdentity PROVE Progress'
<1>1. CASE Fail
  BY <1>1, Failing
<1>2. CASE Advance /\ job' = [source |-> cfg.source, path |-> cfg.path]
  <2>1. UNCHANGED cfg /\ phase = "job"
    BY DEF EstablishIdentity, run, At
  <2>2. Behind("job")' /\ Result("job")'
    BY <1>2, <2>1 DEF Behind, Result
  <2>3. QED
    BY <1>2, <2>1, <2>2, Advancing DEF Inv
<1>3. QED
  BY <1>1, <1>2 DEF EstablishIdentity

LEMMA ExtractionProgress ==
    ASSUME Inv, \/ ExtractionInvalidate \/ WipeExtracted \/ ExtractionRecover
                \/ ExtractFile \/ RefuseContainer \/ ExtractionConcludes
    PROVE  Progress'
<1>1. phase = "extraction" /\ step \in Steps /\ UNCHANGED <<cfg, job>>
  BY DEF ExtractionInvalidate, WipeExtracted, ExtractionRecover, ExtractFile, RefuseContainer,
         ExtractionConcludes, At, Steps, run, records
<1>2. Behind("extraction")'
  BY <1>1, Standing
<1>3. InExtraction
  BY <1>1 DEF Inv, Progress, Running
<1>4. CASE Fail
  BY <1>4, Failing
<1>5. CASE UNCHANGED <<inv, ext>> /\ MissingFiles = {} /\ Own(inv) /\ Advance
  <2>1. Result("extraction")'
    BY <1>1, <1>5, SameWants DEF Result, Own, MissingFiles
  <2>2. QED
    BY <1>1, <1>2, <1>5, <2>1, Advancing DEF Inv
<1>6. ASSUME phase' = "extraction", step' \in Steps, InExtraction' PROVE Progress'
  BY <1>2, <1>6 DEF Progress, InAudio, InProbe, InChunking, At, Steps
<1>7. CASE ExtractionInvalidate
  BY <1>1, <1>4, <1>6, <1>7 DEF ExtractionInvalidate, Goto, InExtraction, At, Foreign, Permitted, Own, records, Steps
<1>8. CASE WipeExtracted
  BY <1>1, <1>3, <1>6, <1>8 DEF WipeExtracted, Goto, InExtraction, At, Own, Steps
<1>9. CASE ExtractionRecover
  BY <1>1, <1>3, <1>5, <1>6, <1>9 DEF ExtractionRecover, Goto, InExtraction, At, Own, Steps
<1>10. CASE ExtractFile
  BY <1>1, <1>3, <1>6, <1>10 DEF ExtractFile, InExtraction, At, Steps
<1>11. CASE RefuseContainer
  BY <1>4, <1>11 DEF RefuseContainer
<1>12. CASE ExtractionConcludes
  BY <1>1, <1>3, <1>4, <1>5, <1>12 DEF ExtractionConcludes, InExtraction, At, Own, Unharmed, records
<1>13. QED
  BY <1>7, <1>8, <1>9, <1>10, <1>11, <1>12

\* With nothing stale and nothing missing, the outputs are the ones expected.
LEMMA NothingLeft ==
    ASSUME TypeOK, Explained, Stale = {}, MissingOutputs = {}, RecordedChains = cfg.chains,
           akey # None => akey.source = cfg.source
    PROVE  Exact
<1> SUFFICES ASSUME NEW out \in Outputs
             PROVE  aout[out] = IF out \in Expected THEN Made(Current, out) ELSE None
  BY DEF Exact
<1>1. CASE out \in Expected
  <2>1. aout[out] # None
    BY <1>1 DEF MissingOutputs
  <2>2. akey # None /\ aout[out] = Made(akey, out)
    BY <2>1 DEF Explained
  <2>3. akey.chains = cfg.chains /\ akey.source = cfg.source
    BY <2>2 DEF RecordedChains
  <2>4. Made(akey, out) = Made(Current, out)
    BY <2>3 DEF Made, Current
  <2>5. QED
    BY <1>1, <2>2, <2>4
<1>2. CASE out \notin Expected
  BY <1>2 DEF Stale
<1>3. QED
  BY <1>1, <1>2

\* Once the chains are recorded, the record is that of this run.
LEMMA Recording ==
    ASSUME TypeOK, RecordedChains = cfg.chains, MissingOutputs # {},
           akey # None => akey.source = cfg.source
    PROVE  akey = Current
<1>1. PICK out \in Expected : out[2] \in DOMAIN cfg.chains
  BY Expectations DEF MissingOutputs
<1>2. akey # None
  BY <1>1 DEF RecordedChains
<1>3. akey \in Keys /\ akey.chains = cfg.chains
  BY <1>2 DEF TypeOK, RecordedChains
<1>4. QED
  BY <1>2, <1>3 DEF Keys, Current

LEMMA AudioProgress ==
    ASSUME Inv, AudioWork
    PROVE  Progress'
<1>1. phase = "audio" /\ step \in Steps /\ UNCHANGED <<cfg, job, inv, ext, prb>>
  BY DEF AudioWork, AudioInvalidate, WipeAudio, Sweep, CommitChains, AudioRecover, ProduceOutput,
         RefuseOutput, AudioConcludes, At, Steps, run, records
<1>2. Behind("audio")'
  BY <1>1, Standing
<1>3. InAudio
  BY <1>1 DEF Inv, Progress, Running
<1>4. CASE Fail
  BY <1>4, Failing
<1>5. CASE UNCHANGED audio /\ Exact /\ OwnKey /\ RecordedChains = cfg.chains /\ Advance
  <2>1. Result("audio")'
    BY <1>1, <1>5, SameWants DEF Result, Exact, OwnKey, RecordedChains, audio
  <2>2. QED
    BY <1>1, <1>2, <1>5, <2>1, Advancing DEF Inv
<1>6. ASSUME phase' = "audio", step' \in Steps, InAudio' PROVE Progress'
  BY <1>2, <1>6 DEF Progress, InExtraction, InProbe, InChunking, At, Steps
<1>7. UNCHANGED audio => Stale' = Stale /\ MissingOutputs' = MissingOutputs /\ RecordedChains' = RecordedChains
  BY <1>1, SameWants DEF audio, Stale, Changed, MissingOutputs, RecordedChains
<1>8. CASE AudioInvalidate
  BY <1>1, <1>4, <1>6, <1>8 DEF AudioInvalidate, Goto, InAudio, At, Foreign, Permitted, audio, Steps
<1>9. CASE WipeAudio
  BY <1>1, <1>3, <1>6, <1>9 DEF WipeAudio, Goto, InAudio, At, Steps
<1>10. CASE Sweep
  BY <1>1, <1>3, <1>6, <1>10 DEF Sweep, InAudio, At, Steps
<1>11. CASE CommitChains
  <2>1. Stale' = {} /\ RecordedChains' = cfg'.chains
    <3>1. CASE akey' = akey /\ RecordedChains = cfg.chains
      BY <1>1, <1>11, <1>7, <3>1 DEF CommitChains, audio
    <3>2. CASE akey' = Current
      <4>1. akey'.chains = cfg'.chains /\ akey' # None
        BY <1>1, <3>2, Settled, AudioAssumption DEF Current, Inv
      <4>2. Stale' \subseteq Stale
        BY <1>1, <1>11, <4>1, SameWants DEF CommitChains, Stale, Changed
      <4>3. QED
        BY <1>11, <4>1, <4>2 DEF CommitChains, RecordedChains
    <3>3. QED
      BY <1>11, <3>1, <3>2 DEF CommitChains
  <2>2. akey' # None => akey'.source = cfg'.source
    BY <1>1, <1>3, <1>11 DEF CommitChains, InAudio, At, Current
  <2>3. QED
    BY <1>1, <1>6, <1>11, <2>1, <2>2 DEF CommitChains, Goto, InAudio, At, Steps
<1>12. CASE AudioRecover
  <2>1. Stale = {} /\ RecordedChains = cfg.chains /\ (akey # None => akey.source = cfg.source)
    BY <1>1, <1>3, <1>12 DEF AudioRecover, InAudio, At
  <2>2. CASE MissingOutputs = {}
    BY <1>5, <1>12, <2>1, <2>2, NothingLeft DEF AudioRecover, Inv, OwnKey
  <2>3. CASE MissingOutputs # {}
    <3>1. akey = Current
      BY <2>1, <2>3, Recording DEF Inv
    <3>2. UNCHANGED audio /\ Goto("execute")
      BY <1>12, <2>3 DEF AudioRecover
    <3>3. QED
      BY <1>1, <1>6, <1>7, <2>1, <3>1, <3>2, SameRun DEF Goto, InAudio, At, audio, Steps
  <2>4. QED
    BY <2>2, <2>3
<1>13. CASE ProduceOutput
  <2>1. Stale = {} /\ RecordedChains = cfg.chains /\ akey = Current /\ akey' = akey /\ step' = step /\ phase' = phase
    BY <1>1, <1>3, <1>13 DEF ProduceOutput, InAudio, At
  <2>2. Stale' = {}
    <3>1. ASSUME NEW out \in Outputs, aout'[out] # None PROVE out \in Expected
      BY <1>13, <2>1, <3>1 DEF ProduceOutput, MissingOutputs, Stale, Inv, TypeOK
    <3>2. Changed' = {}
      BY <1>1, <2>1 DEF Changed, Current
    <3>3. QED
      BY <1>1, <3>1, <3>2, SameWants DEF Stale
  <2>3. QED
    BY <1>1, <1>6, <1>13, <2>1, <2>2, SameRun DEF ProduceOutput, InAudio, At, RecordedChains, Steps, Current
<1>14. CASE RefuseOutput
  BY <1>4, <1>14 DEF RefuseOutput
<1>15. CASE AudioConcludes
  <2>1. Stale = {} /\ RecordedChains = cfg.chains /\ akey = Current
    BY <1>1, <1>3, <1>15 DEF AudioConcludes, InAudio, At
  <2>2. CASE lost = {}
    BY <1>5, <1>15, <2>1, <2>2, NothingLeft DEF AudioConcludes, Unharmed, Inv, OwnKey, Current
  <2>3. QED
    BY <1>4, <1>15, <2>2 DEF AudioConcludes, Unharmed
<1>16. QED
  BY <1>8, <1>9, <1>10, <1>11, <1>12, <1>13, <1>14, <1>15 DEF AudioWork

LEMMA ProbeProgress ==
    ASSUME Inv, ProbeInvalidate \/ ProbeRecover \/ ProbeExecute, UNCHANGED audio
    PROVE  Progress'
<1>1. phase = "probe" /\ step \in Steps /\ UNCHANGED <<cfg, job, inv, ext>>
  BY DEF ProbeInvalidate, ProbeRecover, ProbeExecute, At, Steps, run, records, audio
<1>2. Behind("probe")'
  BY <1>1, Standing
<1>3. InProbe
  BY <1>1 DEF Inv, Progress, Running
<1>4. CASE Fail
  BY <1>4, Failing
<1>5. CASE Fresh' /\ Advance
  BY <1>1, <1>2, <1>5, Advancing DEF Inv, Result
<1>6. ASSUME phase' = "probe", step' \in Steps, InProbe' PROVE Progress'
  BY <1>2, <1>6 DEF Progress, InExtraction, InAudio, InChunking, At, Steps
<1>7. CASE ProbeInvalidate
  BY <1>1, <1>4, <1>6, <1>7 DEF ProbeInvalidate, Goto, InProbe, At, Foreign, Steps
<1>8. CASE ProbeRecover
  <2>1. prb # None => prb.source = cfg.source
    BY <1>1, <1>3, <1>8 DEF ProbeRecover, InProbe, At
  <2>2. prb' = prb
    BY <1>8 DEF ProbeRecover, records
  <2>3. CASE Goto("execute")
    BY <1>1, <1>6, <2>1, <2>2, <2>3 DEF Goto, InProbe, Steps
  <2>4. CASE Advance /\ prb # None /\ ~Overridden /\ ~Rescaled
    BY <1>1, <1>5, <2>1, <2>2, <2>4, SameRun DEF Fresh, Overridden, Rescaled
  <2>5. QED
    BY <1>4, <1>8, <2>3, <2>4 DEF ProbeRecover
<1>9. CASE ProbeExecute
  <2>1. PICK count \in {"exact", "unknown"} :
           IF Fits(Crop) = Infeasible THEN Fail /\ UNCHANGED prb
           ELSE /\ prb' = [source |-> cfg.source, crop |-> Crop, scale |-> Fits(Crop), count |-> count]
                /\ Advance
    BY <1>9 DEF ProbeExecute
  <2>2. CASE Fits(Crop) # Infeasible
    <3>1. prb' # None
      BY <2>1, <2>2, NoneAssumption, CropType, ScaleType DEF Inv
    <3>2. cfg.crop \in {None, prb'.crop} /\ prb'.scale = Fits(prb'.crop)
      BY <2>1, <2>2 DEF Crop
    <3>3. QED
      BY <1>1, <1>5, <2>1, <2>2, <3>1, <3>2, SameRun DEF Fresh
  <2>3. QED
    BY <1>4, <2>1, <2>2
<1>10. QED
  BY <1>7, <1>8, <1>9

LEMMA ChunkingProgress ==
    ASSUME Inv, ChunkingInvalidate \/ ChunkingRecover \/ Detect, UNCHANGED audio
    PROVE  Progress'
<1>1. phase = "chunking" /\ step \in Steps /\ UNCHANGED <<cfg, job, inv, ext, prb>>
  BY DEF ChunkingInvalidate, ChunkingRecover, Detect, At, Steps, run, records, audio
<1>2. Behind("chunking")'
  BY <1>1, Standing
<1>3. InChunking
  BY <1>1 DEF Inv, Progress, Running
<1>4. CASE Fail
  BY <1>4, Failing
<1>5. CASE chk' = [source |-> cfg.source, params |-> cfg.params] /\ Advance
  BY <1>1, <1>2, <1>5, Advancing DEF Inv, Result
<1>6. ASSUME phase' = "chunking", step' \in Steps, InChunking' PROVE Progress'
  BY <1>2, <1>6 DEF Progress, InExtraction, InAudio, InProbe, At, Steps
<1>7. CASE ChunkingInvalidate
  BY <1>1, <1>4, <1>6, <1>7
  DEF ChunkingInvalidate, Goto, InChunking, At, Foreign, ParamsChanged, Steps, Inv, TypeOK, Boundaries
<1>8. CASE ChunkingRecover
  BY <1>1, <1>3, <1>4, <1>5, <1>6, <1>8
  DEF ChunkingRecover, Windows, Goto, InChunking, At, Steps, records
<1>9. CASE Detect
  BY <1>1, <1>4, <1>5, <1>9 DEF Detect, Windows
<1>10. QED
  BY <1>7, <1>8, <1>9

\* A run that stops or begins claims nothing.
LEMMA RunProgress ==
    ASSUME Inv, Kill \/ (\E k \in Configs : Start(k)), UNCHANGED audio
    PROVE  Progress' /\ Explained'
<1>1. UNCHANGED <<ext, inv, aout, akey>>
  BY DEF Kill, Start, records, audio
<1>2. Explained'
  BY <1>1 DEF Inv, Explained
<1>3. step' = "killed" \/ (step' = "invalidate" /\ phase' = "job")
  BY DEF Kill, Goto, Start
<1>4. Progress'
  BY <1>3 DEF Progress, Running, Steps, Behind, InExtraction, InAudio, InProbe, InChunking, At
<1>5. QED
  BY <1>2, <1>4

\* The invariant is inductive.
LEMMA NextInv == ASSUME Inv, [Next]_vars PROVE Inv'
<1>1. TypeOK'
  BY NextTypes DEF Inv
<1>2. CASE UNCHANGED vars
  <2>1. UNCHANGED <<job, inv, ext, prb, chk, akey, aout, cfg, phase, step>>
    BY <1>2 DEF vars, records, audio, run
  <2>2. Explained'
    BY <2>1 DEF Inv, Explained
  <2>3. Progress'
    BY <2>1, SameWants, SameRun
    DEF Inv, Progress, Running, Behind, Result, Own, MissingFiles, Exact, OwnKey, Fresh, Following,
        InExtraction, InAudio, InProbe, InChunking, At, Stale, Changed, RecordedChains
  <2>4. QED
    BY <1>1, <2>2, <2>3 DEF Inv
<1>3. CASE RecordsWork /\ UNCHANGED audio
  BY <1>1, <1>3, RecordsExplained, JobProgress, ExtractionProgress, ProbeProgress, ChunkingProgress
  DEF Inv, RecordsWork
<1>4. CASE AudioWork
  BY <1>1, <1>4, AudioExplained, AudioProgress DEF Inv
<1>5. CASE (Kill \/ \E k \in Configs : Start(k)) /\ UNCHANGED audio
  BY <1>1, <1>5, RunProgress DEF Inv
<1>6. QED
  BY <1>2, <1>3, <1>4, <1>5 DEF Next, Work, AudioWork

LEMMA Invariance == Spec => []Inv
BY InitInv, NextInv, PTL DEF Spec

\* A run that succeeds hands on the identity, the files, the outputs, the facts and
\* the boundaries of its own source and settings, after any runs, kills and
\* failures: each phase compares its own sidecar only (job.py, extraction.py,
\* audio.py, probe.py, chunking.py), and that is enough.
THEOREM Delivers == Spec => []Delivered
<1>1. ASSUME Inv PROVE Delivered
  <2> SUFFICES ASSUME step = "done"
               PROVE  /\ job = [source |-> cfg.source, path |-> cfg.path]
                      /\ \A f \in WantedFiles : ext[f] = cfg.source
                      /\ Served("audio") => Exact
                      /\ Served("probe") => Fresh
                      /\ Served("chunking") => chk = [source |-> cfg.source, params |-> cfg.params]
    BY DEF Delivered, Exact, Fresh
  <2>1. Behind(phase) /\ Result(phase) /\ Following = None /\ phase # "job"
    BY <1>1 DEF Inv, Progress, Running
  <2>2. Result("job") /\ Result("extraction") /\ phase \in Phases \ {"job"}
    BY <1>1, <2>1 DEF Behind, Inv, TypeOK
  <2>3. \A f \in WantedFiles : ext[f] = cfg.source
    BY <1>1, <2>2, Inventoried DEF Result, Own, MissingFiles, Inv, Explained
  <2>4. Served("probe") => phase = "chunking"
    BY <1>1, <2>1, <2>2, Order DEF Inv, Phases
  <2>5. Served("audio") => Result("audio")
    BY <1>1, <2>1, <2>2, Order DEF Inv, Phases, Behind
  <2>6. Served("chunking") <=> Served("probe")
    BY DEF Served
  <2>7. QED
    BY <2>1, <2>2, <2>3, <2>4, <2>5, <2>6 DEF Result, Behind
<1>2. QED
  BY <1>1, Invariance, PTL
--------------------------------------------------------------------------------
(* The record comes before the files, and goes after them.                 *)

LEMMA ExtractionRefines == ASSUME Inv, [Next]_vars PROVE [Extracted!Next]_(Extracted!vars)
<1>1. CASE UNCHANGED <<inv, ext>>
  BY <1>1 DEF Extracted!vars
<1>2. CASE WipeExtracted
  <2>1. CASE \E f \in Files : ext' = [ext EXCEPT ![f] = None] /\ inv' = inv
    BY <2>1 DEF Extracted!Next, Extracted!Drop
  <2>2. CASE FilesGone /\ inv' = None /\ UNCHANGED ext
    BY <2>2 DEF FilesGone, Extracted!Next, Extracted!Forget
  <2>3. QED
    BY <1>2, <2>1, <2>2 DEF WipeExtracted
<1>3. CASE ExtractionRecover /\ inv' = cfg.source
  <2>1. Own(inv) /\ ext' = ext
    BY <1>3 DEF ExtractionRecover, At, Inv, Progress, Running, Steps, InExtraction
  <2>2. \A f \in Files : ext[f] \in {None, cfg.source}
    BY <2>1 DEF Inv, Explained, Own
  <2>3. cfg.source \in Sources
    BY Settled DEF Inv
  <2>4. Extracted!Vouches(inv')
    BY <1>3, <2>2 DEF Extracted!Vouches, SourceOf
  <2>5. Extracted!Commit
    BY <1>3, <2>1, <2>3, <2>4 DEF Extracted!Commit
  <2>6. QED
    BY <2>5 DEF Extracted!Next
<1>4. CASE ExtractFile /\ ext' # ext
  <2>1. inv = cfg.source /\ inv' = inv
    BY <1>4 DEF ExtractFile, At, Inv, Progress, Running, Steps, InExtraction
  <2>2. PICK f \in Files : ext' = [ext EXCEPT ![f] = cfg.source]
    BY <1>4, Attempted DEF Produce, Inv
  <2>3. inv # None
    BY <2>1, Settled, NoneAssumption DEF Inv
  <2>4. Extracted!Fill(f)
    BY <2>1, <2>2, <2>3 DEF Extracted!Fill, SourceOf
  <2>5. QED
    BY <2>4 DEF Extracted!Next
<1>5. UNCHANGED <<inv, ext>> \/ WipeExtracted \/ ExtractionRecover \/ ExtractFile
  BY DEF Next, Work, RecordsWork, Kill, Start, EstablishIdentity, ExtractionInvalidate, RefuseContainer,
         ExtractionConcludes, ProbeInvalidate, ProbeRecover, ProbeExecute, ChunkingInvalidate,
         ChunkingRecover, Detect, AudioInvalidate, WipeAudio, Sweep, CommitChains, AudioRecover,
         ProduceOutput, RefuseOutput, AudioConcludes, records, vars
<1>6. ExtractionRecover => UNCHANGED <<inv, ext>> \/ inv' = cfg.source
  BY DEF ExtractionRecover
<1>7. ExtractFile => UNCHANGED <<inv, ext>> \/ ext' # ext
  BY DEF ExtractFile
<1>8. QED
  BY <1>1, <1>2, <1>3, <1>4, <1>5, <1>6, <1>7

LEMMA AudioRefines == ASSUME Inv, [Next]_vars PROVE [AudioDir!Next]_(AudioDir!vars)
<1>1. CASE UNCHANGED audio
  BY <1>1 DEF AudioDir!vars, audio
<1>2. ASSUME NEW out \in Outputs, DeleteOutput(out), akey' = akey PROVE AudioDir!Next
  BY <1>2 DEF DeleteOutput, AudioDir!Next, AudioDir!Drop
<1>3. CASE WipeAudio
  <2>1. CASE (\A out \in Outputs : aout[out] = None) /\ akey' = None /\ UNCHANGED aout
    BY <2>1 DEF AudioDir!Next, AudioDir!Forget
  <2>2. QED
    BY <1>2, <1>3, <2>1 DEF WipeAudio
<1>4. CASE Sweep
  BY <1>2, <1>4 DEF Sweep, Stale
<1>5. CASE CommitChains /\ akey' = Current
  <2>1. \A out \in Outputs : aout[out] # None => aout[out] = Made(akey', out)
    BY <1>5, CommitVouches
  <2>2. AudioDir!Vouches(akey') /\ akey' \in Keys /\ aout' = aout
    BY <1>5, <2>1, Settled DEF AudioDir!Vouches, CommitChains, Inv
  <2>3. QED
    BY <2>2 DEF AudioDir!Commit, AudioDir!Next
<1>6. CASE ProduceOutput /\ aout' # aout
  <2>1. akey = Current /\ akey' = akey
    BY <1>6 DEF ProduceOutput, At, Inv, Progress, Running, Steps, InAudio
  <2>2. PICK out \in Outputs : aout' = [aout EXCEPT ![out] = Made(Current, out)]
    BY <1>6, Expectations DEF ProduceOutput, MissingOutputs, Inv
  <2>3. akey # None
    BY <2>1, Settled, AudioAssumption DEF Inv
  <2>4. AudioDir!Fill(out)
    BY <2>1, <2>2, <2>3 DEF AudioDir!Fill
  <2>5. QED
    BY <2>4 DEF AudioDir!Next
<1>7. UNCHANGED audio \/ WipeAudio \/ Sweep \/ CommitChains \/ ProduceOutput
  BY DEF Next, Work, AudioInvalidate, AudioRecover, RefuseOutput, AudioConcludes, audio, vars
<1>8. CommitChains => UNCHANGED audio \/ akey' = Current
  BY DEF CommitChains, audio
<1>9. ProduceOutput => UNCHANGED audio \/ aout' # aout
  BY DEF ProduceOutput, audio
<1>10. QED
  BY <1>1, <1>3, <1>4, <1>5, <1>6, <1>7, <1>8, <1>9

\* Extraction and audio implement KeyedStore: whatever a run, a kill or a change of
\* the settings has left, no file lies in extracted/ or audio/ that the sidecar
\* beside it does not explain (_invalidate and _execute of extraction.py, and of
\* audio.py).
THEOREM Refines == Spec => RecordsFirst
<1>1. AudioInit => Extracted!Init /\ AudioDir!Init
  BY DEF AudioInit, Init, Extracted!Init, AudioDir!Init
<1>2. Spec => Extracted!Spec
  BY <1>1, Invariance, ExtractionRefines, PTL DEF Spec, Extracted!Spec
<1>3. Spec => AudioDir!Spec
  BY <1>1, Invariance, AudioRefines, PTL DEF Spec, AudioDir!Spec
<1>4. QED
  BY <1>2, <1>3 DEF RecordsFirst

\* So a kill at any step leaves files that their sidecar explains: a later run that
\* keeps what is not foreign keeps nothing of another source or another chain.
THEOREM StaysExplained == Spec => [](Extracted!Explained /\ AudioDir!Explained)
<1>1. ASSUME Inv PROVE Extracted!Explained
  BY <1>1 DEF Inv, TypeOK, Explained, Extracted!Explained, SourceOf
<1>2. ASSUME Inv PROVE AudioDir!Explained
  BY <1>2 DEF Inv, Explained, AudioDir!Explained
<1>3. QED
  BY <1>1, <1>2, Invariance, PTL
--------------------------------------------------------------------------------
(* Permission, and the causes of a failure.                                *)

\* Only extraction deletes or makes extracted files, and only where they are of the
\* run's own source, or it has permission.
LEMMA FilesKept ==
    ASSUME Inv, Next, step \notin Resting, ~cfg.force, NEW f \in Files, ext[f] \notin {None, cfg.source}
    PROVE  ext'[f] = ext[f]
<1>1. CASE UNCHANGED ext
  BY <1>1
<1>2. CASE WipeExtracted
  BY <1>2, Orphans DEF WipeExtracted, At, Inv, Progress, Running, Steps, InExtraction
<1>3. CASE ExtractFile
  BY <1>3, Attempted DEF MissingFiles, Produce, Inv, TypeOK
<1>4. QED
  BY <1>1, <1>2, <1>3
  DEF Next, Work, RecordsWork, Kill, Start, EstablishIdentity, ExtractionInvalidate, RefuseContainer,
      ExtractionRecover, ExtractionConcludes, ProbeInvalidate, ProbeRecover, ProbeExecute,
      ChunkingInvalidate, ChunkingRecover, Detect, AudioInvalidate, WipeAudio, Sweep, CommitChains,
      AudioRecover, ProduceOutput, RefuseOutput, AudioConcludes, records

\* The outputs that the sweep deletes are of the run's own source.
LEMMA OutputsKept ==
    ASSUME Inv, Next, step \notin Resting, ~cfg.force,
           NEW out \in Outputs, aout[out] # None, aout[out].source # cfg.source
    PROVE  aout'[out] = aout[out]
<1>1. CASE UNCHANGED aout
  BY <1>1
<1>2. CASE WipeAudio
  BY <1>2, Orphans DEF WipeAudio, At, Inv, Progress, Running, Steps, InAudio
<1>3. CASE Sweep
  <2>1. akey # None /\ aout[out] = Made(akey, out)
    BY DEF Inv, Explained
  <2>2. aout[out].source = akey.source
    BY <2>1 DEF Made
  <2>3. akey.source = cfg.source
    BY <1>3, <2>1 DEF Sweep, At, Inv, Progress, Running, Steps, InAudio
  <2>4. QED
    BY <2>2, <2>3
<1>4. CASE ProduceOutput
  BY <1>4 DEF ProduceOutput, MissingOutputs, Inv, TypeOK
<1>5. QED
  BY <1>1, <1>2, <1>3, <1>4
  DEF Next, Work, AudioInvalidate, CommitChains, AudioRecover, RefuseOutput, AudioConcludes, audio

\* The records of the other phases are compared before they are replaced.
LEMMA SidecarsKept ==
    ASSUME Inv, Next, step \notin Resting, ~cfg.force
    PROVE  /\ job # None /\ Foreign(job.source) => job' = job
           /\ prb # None /\ Foreign(prb.source) => prb' = prb
           /\ chk # None /\ Foreign(chk.source) => chk' = chk
<1>1. CASE UNCHANGED <<job, prb, chk>>
  BY <1>1
<1>2. CASE EstablishIdentity
  BY <1>2 DEF EstablishIdentity, Permitted
<1>3. CASE ProbeInvalidate
  BY <1>3 DEF ProbeInvalidate, Permitted
<1>4. CASE ProbeExecute
  BY <1>4 DEF ProbeExecute, At, Inv, Progress, Running, Steps, InProbe, Foreign
<1>5. CASE ChunkingInvalidate
  BY <1>5 DEF ChunkingInvalidate, Permitted
<1>6. CASE Detect
  BY <1>6 DEF Detect, At, Inv, Progress, Running, Steps, InChunking
<1>7. QED
  BY <1>1, <1>2, <1>3, <1>4, <1>5, <1>6
  DEF Next, Work, RecordsWork, Kill, Start, ExtractionInvalidate, WipeExtracted, RefuseContainer,
      ExtractionRecover, ExtractFile, ExtractionConcludes, ProbeRecover, ChunkingRecover,
      AudioInvalidate, WipeAudio, Sweep, CommitChains, AudioRecover, ProduceOutput, RefuseOutput,
      AudioConcludes, records

\* Without --force no phase deletes or replaces what another source has left, also
\* where a killed run left files without a sidecar or a sidecar without files.
THEOREM KeepsForeign == Spec => PermissionKept
<1>1. ASSUME Inv, [Next]_vars
      PROVE  [step \notin Resting /\ ~cfg.force =>
                /\ \A f \in Files : ext[f] \notin {None, cfg.source} => ext'[f] = ext[f]
                /\ \A out \in Outputs : aout[out] # None /\ aout[out].source # cfg.source => aout'[out] = aout[out]
                /\ job # None /\ Foreign(job.source) => job' = job
                /\ prb # None /\ Foreign(prb.source) => prb' = prb
                /\ chk # None /\ Foreign(chk.source) => chk' = chk]_vars
  BY <1>1, FilesKept, OutputsKept, SidecarsKept
<1>2. QED
  BY <1>1, Invariance, PTL DEF Spec, PermissionKept

\* What the current phase failed to produce is a failure of this run.
Excused == lost # {} => excuse

LEMMA NextExcused == ASSUME Inv, Excused, [Next]_vars PROVE Excused'
BY Attempted
DEF Excused, Inv, TypeOK, Next, Work, RecordsWork, Kill, Start, EstablishIdentity, ExtractionInvalidate,
       WipeExtracted, RefuseContainer, ExtractionRecover, Produce, ExtractionConcludes,
       ProbeInvalidate, ProbeRecover, ProbeExecute, CountFrames, ChunkingInvalidate, ChunkingRecover,
       Detect, AudioInvalidate, WipeAudio, Sweep, CommitChains, AudioRecover, ProduceOutput,
       RefuseOutput, AudioConcludes, vars

\* A step that does not fail does not claim a cause.
LEMMA WalksOn ==
    ASSUME step # "failed", Advance \/ (\E s \in Steps : Goto(s)) \/ step' = step
    PROVE  step' # "failed"
BY DEF Advance, Goto, Steps

\* The causes stay while the run and its records do.
LEMMA SameCauses ==
    ASSUME UNCHANGED <<cfg, records, audio>>
    PROVE  (Feasible' <=> Feasible) /\ (ForeignRecord' <=> ForeignRecord)
BY SameWants, SameRun DEF Feasible, ForeignRecord, Foreign, records, audio

LEMMA NextCauses == ASSUME Inv, Excused, FailsForCause, [Next]_vars PROVE FailsForCause'
<1>1. CASE UNCHANGED vars
  <2>1. UNCHANGED <<step, excuse, cfg, records, audio>>
    BY <1>1 DEF vars, run
  <2>2. QED
    BY <2>1, SameCauses DEF FailsForCause
<1>2. ASSUME step \notin Resting, Fail, UNCHANGED <<cfg, records, audio>>,
             excuse' \/ ~Feasible \/ (~cfg.force /\ ForeignRecord)
      PROVE  FailsForCause'
  BY <1>2, SameCauses DEF FailsForCause
<1>3. ASSUME step' # "failed" PROVE FailsForCause'
  BY <1>3 DEF FailsForCause
<1>4. CASE (Kill \/ \E k \in Configs : Start(k)) /\ UNCHANGED audio
  BY <1>3, <1>4 DEF Kill, Start, Goto
<1>5. CASE EstablishIdentity /\ UNCHANGED audio
  <2>1. CASE Fail /\ UNCHANGED job /\ job # None /\ Foreign(job.source) /\ ~Permitted
    BY <1>2, <1>5, <2>1 DEF EstablishIdentity, At, Resting, records, run, ForeignRecord, Permitted
  <2>2. QED
    BY <1>3, <1>5, <2>1, WalksOn DEF EstablishIdentity, At
<1>6. CASE ExtractionInvalidate /\ UNCHANGED audio
  BY <1>2, <1>3, <1>6, WalksOn DEF ExtractionInvalidate, At, Resting, run, ForeignRecord, Permitted, Steps
<1>7. CASE (WipeExtracted \/ ExtractionRecover \/ ExtractFile) /\ UNCHANGED audio
  BY <1>3, <1>7, WalksOn DEF WipeExtracted, ExtractionRecover, ExtractFile, At, Steps
<1>8. CASE (RefuseContainer /\ UNCHANGED audio) \/ RefuseOutput
  BY <1>2, <1>8 DEF RefuseContainer, RefuseOutput, At, Resting, run
<1>9. CASE (ExtractionConcludes /\ UNCHANGED audio) \/ AudioConcludes
  BY <1>2, <1>3, <1>9, WalksOn DEF ExtractionConcludes, AudioConcludes, At, Resting, run, Unharmed, Excused
<1>10. CASE ProbeInvalidate /\ UNCHANGED audio
  <2>1. CASE Fail /\ UNCHANGED prb /\ prb # None /\ Foreign(prb.source) /\ ~Permitted
    BY <1>2, <1>10, <2>1 DEF ProbeInvalidate, At, Resting, records, run, ForeignRecord, Permitted
  <2>2. QED
    BY <1>3, <1>10, <2>1, WalksOn DEF ProbeInvalidate, At, Steps
<1>11. CASE ProbeRecover /\ UNCHANGED audio
  <2>1. CASE Fail
    <3>1. ~HasVideo \/ (prb # None /\ Fits(prb.crop) = Infeasible)
      BY <1>11, <2>1 DEF ProbeRecover, Fail, Goto, At, Advance
    <3>2. prb # None => prb.crop \in Crops
      BY DEF Inv, TypeOK, Facts
    <3>3. ~Feasible
      BY <3>1, <3>2 DEF Feasible
    <3>4. QED
      BY <1>2, <1>11, <2>1, <3>3 DEF ProbeRecover, At, Resting, run
  <2>2. QED
    BY <1>3, <1>11, <2>1, WalksOn DEF ProbeRecover, At, Steps
<1>12. CASE ProbeExecute /\ UNCHANGED audio
  <2>1. CASE Fail /\ UNCHANGED prb /\ Fits(Crop) = Infeasible
    <3>1. ~Feasible
      BY <2>1, CropType DEF Feasible, Inv
    <3>2. QED
      BY <1>2, <1>12, <2>1, <3>1 DEF ProbeExecute, At, Resting, run, records
  <2>2. QED
    BY <1>3, <1>12, <2>1, WalksOn DEF ProbeExecute, At
<1>13. CASE ChunkingInvalidate /\ UNCHANGED audio
  <2>1. CASE Fail /\ UNCHANGED chk /\ chk # None /\ Foreign(chk.source) /\ ~Permitted
    BY <1>2, <1>13, <2>1 DEF ChunkingInvalidate, At, Resting, records, run, ForeignRecord, Permitted
  <2>2. QED
    BY <1>3, <1>13, <2>1, WalksOn DEF ChunkingInvalidate, At, Steps
<1>14. CASE ChunkingRecover /\ UNCHANGED audio
  <2>1. CASE Fail
    <3>1. cfg.source \notin Timed
      BY <1>14, <2>1 DEF ChunkingRecover, Windows, Fail, Goto, At, Advance
    <3>2. QED
      BY <1>2, <1>14, <2>1, <3>1 DEF ChunkingRecover, At, Resting, run, Feasible
  <2>2. QED
    BY <1>3, <1>14, <2>1, WalksOn DEF ChunkingRecover, Windows, At, Steps
<1>15. CASE Detect /\ UNCHANGED audio
  <2>1. cfg.source \notin Timed \/ Advance \/ excuse'
    BY <1>15 DEF Detect, Windows
  <2>2. cfg.source \notin Timed => ~Feasible'
    BY <1>15 DEF Detect, run, Feasible
  <2>3. step' = "failed" => excuse' \/ ~Feasible'
    BY <1>15, <2>1, <2>2, WalksOn DEF Detect, At
  <2>4. QED
    BY <2>3 DEF FailsForCause
<1>16. CASE AudioInvalidate
  BY <1>2, <1>3, <1>16, WalksOn DEF AudioInvalidate, At, Resting, run, ForeignRecord, Permitted, Steps
<1>17. CASE WipeAudio \/ Sweep \/ CommitChains \/ AudioRecover \/ ProduceOutput
  BY <1>3, <1>17, WalksOn DEF WipeAudio, Sweep, CommitChains, AudioRecover, ProduceOutput, At, Steps
<1>18. QED
  BY <1>1, <1>4, <1>5, <1>6, <1>7, <1>8, <1>9, <1>10, <1>11, <1>12, <1>13, <1>14, <1>15, <1>16, <1>17
  DEF Next, Work, RecordsWork

\* A run fails only because something of its own failed, because what it asks for
\* is not to be had, or because it meets a foreign record without permission: no
\* kill and no earlier run leaves a work directory that makes it fail otherwise.
THEOREM NamesTheCause == Spec => []FailsForCause
<1>1. AudioInit => Inv /\ Excused /\ FailsForCause
  BY InitInv DEF AudioInit, Init, Excused, FailsForCause
<1>2. Inv /\ Excused /\ FailsForCause /\ [Next]_vars => (Inv /\ Excused /\ FailsForCause)'
  BY NextInv, NextExcused, NextCauses
<1>3. QED
  BY <1>1, <1>2, PTL DEF Spec
--------------------------------------------------------------------------------
(* A run that repeats a concluded one.                                     *)

\* What a concluded run has left, of the phases it serves.
Intact ==
    /\ Result("extraction")
    /\ Served("audio") => Result("audio")
    /\ Served("probe") => Result("probe") /\ Result("chunking")

\* A run that repeats it finds all of it, and never comes to make anything.
Repeating ==
    replay => /\ ~worked
              /\ Running => /\ Intact /\ step # "execute"
                            /\ At("extraction", "wipe") => inv = None
                            /\ At("audio", "wipe") => akey = None

LEMMA Concluded == ASSUME Inv, step = "done" PROVE Intact
<1>1. Behind(phase) /\ Result(phase) /\ Following = None /\ phase \in Phases \ {"job"}
  BY DEF Inv, Progress, Running, TypeOK
<1>2. Served("probe") => phase = "chunking"
  BY <1>1, Order DEF Inv, Phases
<1>3. Served("audio") => phase \in {"audio", "probe", "chunking"}
  BY <1>1, Order DEF Inv, Phases
<1>4. QED
  BY <1>1, <1>2, <1>3 DEF Intact, Behind, Phases

\* What is intact stays so while the records do.
LEMMA StaysIntact ==
    ASSUME Intact, UNCHANGED <<cfg, inv, ext, prb, chk, audio>>
    PROVE  Intact'
BY SameWants, SameRun
DEF Intact, Result, Own, MissingFiles, Exact, OwnKey, RecordedChains, Fresh, audio

\* Where a phase has its part, its steps lead on without work.
LEMMA NothingToDo ==
    ASSUME TypeOK, Intact
    PROVE  /\ MissingFiles = {} /\ (inv = None \/ ~Foreign(inv))
           /\ Served("audio") => /\ Stale = {} /\ MissingOutputs = {} /\ RecordedChains = cfg.chains
                                 /\ akey = None \/ ~Foreign(akey.source)
           /\ Served("probe") => /\ prb # None /\ ~Foreign(prb.source) /\ ~Overridden /\ ~Rescaled
                                 /\ chk # None /\ ~Foreign(chk.source) /\ ~ParamsChanged
<1>1. MissingFiles = {} /\ (inv = None \/ ~Foreign(inv))
  BY DEF Intact, Result, Own, Foreign
<1>2. ASSUME Served("audio")
      PROVE  /\ Stale = {} /\ MissingOutputs = {} /\ RecordedChains = cfg.chains
             /\ akey = None \/ ~Foreign(akey.source)
  <2>1. Exact /\ OwnKey /\ RecordedChains = cfg.chains
    BY <1>2 DEF Intact, Result
  <2>2. MissingOutputs = {}
    BY <2>1, Expectations, AudioAssumption DEF Exact, MissingOutputs
  <2>3. Stale = {}
    BY <2>1 DEF Exact, Stale, Changed, RecordedChains
  <2>4. QED
    BY <2>1, <2>2, <2>3 DEF OwnKey, Foreign
<1>3. ASSUME Served("probe")
      PROVE  /\ prb # None /\ ~Foreign(prb.source) /\ ~Overridden /\ ~Rescaled
             /\ chk # None /\ ~Foreign(chk.source) /\ ~ParamsChanged
  <2>1. Fresh /\ chk = [source |-> cfg.source, params |-> cfg.params]
    BY <1>3 DEF Intact, Result
  <2>2. chk # None
    BY <2>1, Settled, NoneAssumption
  <2>3. QED
    BY <2>1, <2>2 DEF Fresh, Foreign, Overridden, Rescaled, ParamsChanged
<1>4. QED
  BY <1>1, <1>2, <1>3

\* The steps of a repeating run change no record and no file.
LEMMA RepeatsRecords ==
    ASSUME Inv, Repeating, replay, RecordsWork, UNCHANGED audio
    PROVE  Repeating'
<1>1. Running /\ step \in Steps
  BY DEF RecordsWork, EstablishIdentity, ExtractionInvalidate, WipeExtracted, ExtractionRecover,
         ExtractFile, RefuseContainer, ExtractionConcludes, ProbeInvalidate, ProbeRecover, ProbeExecute,
         ChunkingInvalidate, ChunkingRecover, Detect, At, Running, Steps
<1>2. /\ ~worked /\ Intact /\ step # "execute"
      /\ At("extraction", "wipe") => inv = None
  BY <1>1 DEF Repeating
<1>3. Behind(phase)
  BY <1>1 DEF Inv, Progress
<1>4. TypeOK
  BY DEF Inv
<1>5. ASSUME UNCHANGED <<cfg, inv, ext, prb, chk, audio>>, ~worked',
             \/ Fail \/ Advance
             \/ \E s \in Steps : /\ Goto(s) /\ s # "execute"
                                 /\ s = "wipe" => phase = "extraction" /\ inv = None
      PROVE  Repeating'
  <2>1. Intact'
    BY <1>2, <1>5, StaysIntact
  <2>2. CASE Fail
    BY <1>5, <2>2 DEF Fail, Goto, Repeating, Running, Steps
  <2>3. CASE Advance
    BY <1>4, <1>5, <2>1, <2>3, Walk DEF Repeating, At
  <2>4. CASE \E s \in Steps : /\ Goto(s) /\ s # "execute"
                              /\ s = "wipe" => phase = "extraction" /\ inv = None
    BY <1>5, <2>1, <2>4 DEF Repeating, At, Goto
  <2>5. QED
    BY <1>5, <2>2, <2>3, <2>4
<1>6. CASE EstablishIdentity
  BY <1>2, <1>5, <1>6 DEF EstablishIdentity, run
<1>7. CASE ExtractionInvalidate
  BY <1>2, <1>4, <1>5, <1>7, NothingToDo DEF ExtractionInvalidate, run, records, At, Steps
<1>8. CASE WipeExtracted
  <2>1. inv = None /\ \A f \in Files : ext[f] = None
    BY <1>2, <1>4, <1>8, Orphans DEF WipeExtracted, Inv
  <2>2. inv' = None /\ ext' = ext /\ Goto("recover")
    BY <1>8, <2>1 DEF WipeExtracted
  <2>3. QED
    BY <1>2, <1>5, <1>8, <2>1, <2>2 DEF WipeExtracted, run, Steps
<1>9. CASE ExtractionRecover
  BY <1>2, <1>4, <1>5, <1>9, NothingToDo DEF ExtractionRecover, run
<1>10. CASE ProbeInvalidate
  <2>1. prb # None /\ ~Foreign(prb.source)
    BY <1>3, <1>2, <1>4, <1>10, NothingToDo DEF Behind, ProbeInvalidate, At
  <2>2. QED
    BY <1>2, <1>5, <1>10, <2>1 DEF ProbeInvalidate, run, Steps
<1>11. CASE ProbeRecover
  <2>1. prb # None /\ ~Overridden /\ ~Rescaled
    BY <1>3, <1>2, <1>4, <1>11, NothingToDo DEF Behind, ProbeRecover, At
  <2>2. QED
    BY <1>2, <1>5, <1>11, <2>1 DEF ProbeRecover, run, records
<1>12. CASE ChunkingInvalidate
  <2>1. chk # None /\ ~Foreign(chk.source) /\ ~ParamsChanged
    BY <1>3, <1>2, <1>4, <1>12, NothingToDo DEF Behind, ChunkingInvalidate, At
  <2>2. QED
    BY <1>2, <1>5, <1>12, <2>1 DEF ChunkingInvalidate, run, Steps
<1>13. CASE ChunkingRecover
  <2>1. chk # None
    BY <1>3, <1>2, <1>4, <1>13, NothingToDo DEF Behind, ChunkingRecover, At
  <2>2. QED
    BY <1>2, <1>5, <1>13, <2>1 DEF ChunkingRecover, Windows, run, records
<1>14. QED
  BY <1>2, <1>6, <1>7, <1>8, <1>9, <1>10, <1>11, <1>12, <1>13
  DEF RecordsWork, ExtractFile, RefuseContainer, ExtractionConcludes, ProbeExecute, Detect, At

LEMMA RepeatsAudio ==
    ASSUME Inv, Repeating, replay, AudioWork
    PROVE  Repeating'
<1>1. Running /\ phase = "audio"
  BY DEF AudioWork, AudioInvalidate, WipeAudio, Sweep, CommitChains, AudioRecover, ProduceOutput,
         RefuseOutput, AudioConcludes, At, Running, Steps
<1>2. /\ ~worked /\ Intact /\ step # "execute"
      /\ At("audio", "wipe") => akey = None
  BY <1>1 DEF Repeating
<1>3. /\ Stale = {} /\ MissingOutputs = {} /\ RecordedChains = cfg.chains
      /\ akey = None \/ ~Foreign(akey.source)
  BY <1>1, <1>2, NothingToDo DEF Inv, Progress, Behind
<1>4. ASSUME UNCHANGED <<cfg, inv, ext, prb, chk, audio>>, ~worked',
             \/ Fail \/ Advance
             \/ \E s \in Steps : Goto(s) /\ s # "execute" /\ (s = "wipe" => akey = None)
      PROVE  Repeating'
  <2>1. Intact'
    BY <1>2, <1>4, StaysIntact
  <2>2. CASE Fail
    BY <1>4, <2>2 DEF Fail, Goto, Repeating, Running, Steps
  <2>3. CASE Advance
    BY <1>4, <2>1, <2>3, Walk DEF Repeating, At, Inv
  <2>4. CASE \E s \in Steps : Goto(s) /\ s # "execute" /\ (s = "wipe" => akey = None)
    BY <1>1, <1>4, <2>1, <2>4 DEF Repeating, At, Goto, audio
  <2>5. QED
    BY <1>4, <2>2, <2>3, <2>4
<1>5. CASE AudioInvalidate
  BY <1>2, <1>3, <1>4, <1>5 DEF AudioInvalidate, run, records, Steps
<1>6. CASE WipeAudio
  <2>1. akey = None /\ \A out \in Outputs : aout[out] = None
    BY <1>2, <1>6, Orphans DEF WipeAudio, Inv
  <2>2. akey' = None /\ aout' = aout /\ Goto("sweep")
    BY <1>6, <2>1 DEF WipeAudio, DeleteOutput
  <2>3. QED
    BY <1>2, <1>4, <1>6, <2>1, <2>2 DEF WipeAudio, run, records, audio, Steps
<1>7. CASE CommitChains
  BY <1>2, <1>3, <1>4, <1>7 DEF CommitChains, run, records, audio, Steps
<1>8. CASE AudioRecover
  BY <1>2, <1>3, <1>4, <1>8 DEF AudioRecover, run, records
<1>9. QED
  BY <1>2, <1>3, <1>5, <1>6, <1>7, <1>8
  DEF AudioWork, Sweep, ProduceOutput, RefuseOutput, AudioConcludes, At

\* A run with the settings of the one before wants the same.
LEMMA Again ==
    ASSUME Intact, NEW k \in Configs, Start(k), UNCHANGED audio, Settings(k) = Settings(cfg)
    PROVE  Intact'
<1>1. /\ cfg'.source = cfg.source /\ cfg'.command = cfg.command /\ cfg'.filter = cfg.filter
      /\ cfg'.crop = cfg.crop /\ cfg'.scale = cfg.scale /\ cfg'.params = cfg.params
      /\ cfg'.chains = cfg.chains /\ cfg'.select = cfg.select
  BY DEF Start, Settings
<1>2. UNCHANGED <<inv, ext, prb, chk, akey, aout>>
  BY DEF Start, records, audio
<1>3. WantedFiles' = WantedFiles /\ Expected' = Expected /\ Current' = Current
  BY <1>1, <1>2 DEF WantedFiles, Inventory, Expected, Tracks, Current
<1>4. (\A p : Served(p)' <=> Served(p)) /\ (\A crop : Fits(crop)' = Fits(crop))
  BY <1>1 DEF Served, Fits, Scale
<1>5. QED
  BY <1>1, <1>2, <1>3, <1>4
  DEF Intact, Result, Own, MissingFiles, Exact, OwnKey, RecordedChains, Fresh

LEMMA NextRepeating == ASSUME Inv, Repeating, [Next]_vars PROVE Repeating'
<1>1. CASE UNCHANGED vars
  <2>1. UNCHANGED <<inv, ext, prb, chk, akey, aout, cfg, phase, step, worked, replay>>
    BY <1>1 DEF vars, records, audio, run
  <2>2. Intact => Intact'
    BY <2>1, StaysIntact DEF audio
  <2>3. QED
    BY <2>1, <2>2 DEF Repeating, Running, At
<1>2. CASE Kill /\ UNCHANGED audio
  BY <1>2 DEF Kill, Goto, run, Repeating, Running, Steps
<1>3. ASSUME NEW k \in Configs, Start(k), UNCHANGED audio PROVE Repeating'
  BY <1>3, Concluded, Again DEF Start, Repeating, At
<1>4. CASE Work /\ ~replay
  <2>1. ~replay'
    BY <1>4 DEF Work, RecordsWork, EstablishIdentity, ExtractionInvalidate, WipeExtracted, RefuseContainer,
         ExtractionRecover, ExtractFile, ExtractionConcludes, ProbeInvalidate, ProbeRecover, ProbeExecute,
         ChunkingInvalidate, ChunkingRecover, Detect, AudioInvalidate, WipeAudio, Sweep, CommitChains,
         AudioRecover, ProduceOutput, RefuseOutput, AudioConcludes, run
  <2>2. QED
    BY <2>1 DEF Repeating
<1>5. QED
  BY <1>1, <1>2, <1>3, <1>4, RepeatsRecords, RepeatsAudio DEF Next, Work, AudioWork

\* A run that repeats a concluded one extracts, probes, detects and encodes nothing,
\* for any chains, filters and requests, also when the source has been moved and when
\* --force is given (_recover of the phases).
THEOREM Repeats == Spec => []ReplayIsFree
<1>1. AudioInit => Repeating
  BY DEF AudioInit, Init, Repeating
<1>2. Repeating => ReplayIsFree
  BY DEF Repeating, ReplayIsFree
<1>3. QED
  BY <1>1, <1>2, InitInv, NextInv, NextRepeating, PTL DEF Spec
--------------------------------------------------------------------------------
(* resolve_scale keeps its promise, for every picture, crop, request and   *)
(* granularity.                                                            *)

\* Division rounds down, by less than the divisor.
LEMMA DivBounds ==
    ASSUME NEW a \in Int, NEW b \in Nat \ {0}
    PROVE  a \div b \in Int /\ b * (a \div b) <= a /\ a < b * (a \div b) + b
<1>1. a \div b \in Int
  OBVIOUS
<1>2. b * (a \div b) <= a /\ a < b * (a \div b) + b
  OBVIOUS
<1> QED  BY <1>1, <1>2

\* CeilDiv rounds up, by less than the divisor.
LEMMA CeilBounds ==
    ASSUME NEW a \in Int, NEW b \in Nat \ {0}
    PROVE  CeilDiv(a, b) \in Int /\ a <= b * CeilDiv(a, b) /\ b * CeilDiv(a, b) < a + b
<1> DEFINE q == (-a) \div b
<1>1. q \in Int /\ b * q <= -a /\ -a < b * q + b
  BY DivBounds
<1>2. CeilDiv(a, b) = -q
  BY DEF CeilDiv
<1> HIDE DEF q
<1>3. b * (-q) = -(b * q) /\ b * q \in Int
  BY <1>1
<1> QED  BY <1>1, <1>2, <1>3

\* A positive factor can be cancelled.
LEMMA Cancels ==
    ASSUME NEW d \in Nat \ {0}, NEW x \in Int, NEW y \in Int
    PROVE  (d * x <= d * y => x <= y) /\ (d * x < d * y => x < y) /\ (x <= y => d * x <= d * y)
<1>1. x >= y + 1 => d * (x - (y + 1)) >= 0
  OBVIOUS
<1>2. d * (x - (y + 1)) = d * x - d * y - d /\ d * x \in Int /\ d * y \in Int
  OBVIOUS
<1>3. x >= y => d * (x - y) >= 0
  OBVIOUS
<1>4. d * (x - y) = d * x - d * y
  OBVIOUS
<1>5. y >= x => d * (y - x) >= 0
  OBVIOUS
<1>6. d * (y - x) = d * y - d * x
  OBVIOUS
<1> QED  BY <1>1, <1>2, <1>3, <1>4, <1>5, <1>6

\* A multiple of the granularity lies on its grid.
LEMMA OnTheGrid ==
    ASSUME NEW g \in Nat \ {0}, NEW k \in Int
    PROVE  k * g \in Int /\ (k * g) % g = 0 /\ g % g = 0
<1>1. k * g \in Int
  OBVIOUS
<1>2. (k * g) % g = 0
  OBVIOUS
<1>3. g % g = 0
  OBVIOUS
<1> QED  BY <1>1, <1>2, <1>3

\* Flooring onto the grid stays below what admits one unit of it.
LEMMA FlooredBounds ==
    ASSUME NEW v \in Int, NEW g \in Nat \ {0}
    PROVE  /\ Floored(v, g) \in Int /\ Floored(v, g) % g = 0 /\ Floored(v, g) >= g
           /\ v >= g => Floored(v, g) <= v
           /\ v < g => Floored(v, g) = g
<1> DEFINE q == v \div g
<1>1. q \in Int /\ g * q <= v /\ v < g * q + g
  BY DivBounds
<1>2. Floored(v, g) = AtLeast(q * g, g)
  BY DEF Floored
<1> HIDE DEF q
<1>3. q * g \in Int /\ (q * g) % g = 0 /\ g % g = 0
  BY <1>1, OnTheGrid
<1>4. q * g = g * q
  BY <1>1
<1> DEFINE z == q * g
<1>5. /\ Floored(v, g) = IF z < g THEN g ELSE z
      /\ z \in Int /\ z % g = 0 /\ z <= v /\ v < z + g
  BY <1>1, <1>2, <1>3, <1>4 DEF AtLeast
<1> HIDE DEF z
<1>6. Floored(v, g) % g = 0
  BY <1>3, <1>5
<1>7. v < g => z < g
  BY <1>5
<1> QED  BY <1>5, <1>6, <1>7

\* Ceiling onto the grid stays above.
LEMMA CeiledBounds ==
    ASSUME NEW v \in Int, NEW g \in Nat \ {0}
    PROVE  /\ Ceiled(v, g) \in Int /\ Ceiled(v, g) % g = 0 /\ Ceiled(v, g) >= v
<1> DEFINE q == CeilDiv(v, g)
<1>1. q \in Int /\ v <= g * q
  BY CeilBounds
<1>2. Ceiled(v, g) = AtLeast(q * g, g)
  BY DEF Ceiled
<1> HIDE DEF q
<1>3. q * g \in Int /\ (q * g) % g = 0 /\ g % g = 0
  BY <1>1, OnTheGrid
<1>4. q * g = g * q
  BY <1>1
<1> DEFINE z == q * g
<1>5. /\ Ceiled(v, g) = IF z < g THEN g ELSE z
      /\ z \in Int /\ z % g = 0 /\ v <= z
  BY <1>1, <1>2, <1>3, <1>4 DEF AtLeast
<1> HIDE DEF z
<1>6. Ceiled(v, g) % g = 0
  BY <1>3, <1>5
<1> QED  BY <1>5, <1>6

\* Rounding to the grid gives a dimension of the grid.
LEMMA NearestBounds ==
    ASSUME NEW v \in Int, NEW g \in Nat \ {0}
    PROVE  Nearest(v, g) \in Int /\ Nearest(v, g) % g = 0
<1> DEFINE q == (v + g \div 2) \div g
<1>1. g \div 2 \in Int
  OBVIOUS
<1>2. v + g \div 2 \in Int
  BY <1>1
<1>3. q \in Int
  BY <1>2, DivBounds
<1>4. Nearest(v, g) = AtLeast(q * g, g)
  BY DEF Nearest
<1> HIDE DEF q
<1>5. q * g \in Int /\ (q * g) % g = 0 /\ g % g = 0
  BY <1>3, OnTheGrid
<1> DEFINE z == q * g
<1>6. Nearest(v, g) = IF z < g THEN g ELSE z
  BY <1>4 DEF AtLeast
<1>7. z \in Int /\ z % g = 0
  BY <1>5
<1> HIDE DEF z
<1> QED  BY <1>5, <1>6, <1>7

\* The displayed width of a height, rounded to a pixel, passes no whole width that the
\* exact one does not pass.
LEMMA WidthBounds ==
    ASSUME NEW n \in Nat \ {0}, NEW d \in Nat \ {0}, NEW h \in Int, NEW w \in Int,
           NEW a, a = [num |-> n, den |-> d]
    PROVE  /\ WidthAt(a, h) \in Int
           /\ n * h <= d * w => WidthAt(a, h) <= w
           /\ d * w <= n * h => w <= WidthAt(a, h)
<1> DEFINE v == n * h
           q == v \div d
           r == 2 * (v % d)
<1>1. v \in Int
  OBVIOUS
<1>2. WidthAt(a, h) = IF r < d \/ (r = d /\ q % 2 = 0) THEN q ELSE q + 1
  BY DEF WidthAt
<1> HIDE DEF v
<1>3. q \in Int /\ d * q <= v /\ v < d * q + d
  BY <1>1, DivBounds
<1>4. v % d \in Int /\ v % d = v - d * q
  <2>1. v % d \in Int
    BY <1>1
  <2>2. v % d = v - d * q
    BY <1>1
  <2> QED  BY <2>1, <2>2
<1>5. r >= d => v % d > 0
  BY <1>4
<1>6. WidthAt(a, h) \in {q, q + 1} /\ (WidthAt(a, h) = q + 1 => r >= d)
  <2>1. r \in Int
    BY <1>4
  <2> HIDE DEF q, r
  <2> QED  BY <1>2, <1>3, <2>1
<1>7. WidthAt(a, h) = q + 1 => d * q < v
  <2> DEFINE x == d * q
  <2>1. x \in Int
    BY <1>3
  <2> HIDE DEF q, r, x
  <2>2. v % d > 0 => x < v
    <3>1. v % d = v - x
      BY <1>4 DEF x
    <3> QED  BY <1>1, <2>1, <3>1
  <2> QED  BY <1>5, <1>6, <2>2 DEF x
<1> HIDE DEF q, r
<1>8. ASSUME v <= d * w PROVE WidthAt(a, h) <= w
  <2>1. d * q <= d * w /\ d * w \in Int /\ d * q \in Int
    BY <1>1, <1>3, <1>8
  <2>2. q <= w
    BY <1>3, <2>1, Cancels
  <2>3. d * q < v => q < w
    <3>1. d * q < v => d * q < d * w
      BY <1>1, <1>8, <2>1
    <3> QED  BY <1>3, <3>1, Cancels
  <2> QED  BY <1>3, <1>6, <1>7, <2>2, <2>3
<1>9. ASSUME d * w <= v PROVE w <= WidthAt(a, h)
  <2>1. d * (q + 1) = d * q + d /\ d * w \in Int /\ d * q \in Int
    BY <1>3
  <2>2. d * w < d * (q + 1)
    BY <1>1, <1>3, <1>9, <2>1
  <2>3. w < q + 1
    BY <1>3, <2>2, Cancels
  <2> QED  BY <1>3, <1>6, <2>3
<1> QED  BY <1>3, <1>6, <1>8, <1>9 DEF v

\* What resolve_scale returns is inside the box it must fit, or reaches the one it must
\* cover, on the codec's grid and without upscaling.
LEMMA Resolves ==
    ASSUME NEW picture, NEW crop, NEW request \in Boxes \cup {None}, NEW g \in Nat \ {0},
           {Cropped(picture, crop).width, Cropped(picture, crop).height} \subseteq Nat \ {0},
           {picture.sar[1], picture.sar[2]} \subseteq Nat \ {0}
    PROVE  Keeps(picture, crop, request, g, Resolve(picture, crop, request, g))
<1> DEFINE result == Resolve(picture, crop, request, g)
           a == Aspect(picture, crop)
           n == a.num
           d == a.den
           W == request.width
           H == request.height
           height == Cropped(picture, crop).height
<1>1. n \in Nat \ {0} /\ d \in Nat \ {0} /\ height \in Nat \ {0} /\ a = [num |-> n, den |-> d]
  <2>1. \A x, y \in Nat \ {0} : x * y \in Nat \ {0}
    OBVIOUS
  <2>2. a = [num |-> Cropped(picture, crop).width * picture.sar[1],
             den |-> Cropped(picture, crop).height * picture.sar[2]]
    BY DEF Aspect
  <2>3. n = Cropped(picture, crop).width * picture.sar[1] /\ d = Cropped(picture, crop).height * picture.sar[2]
    BY <2>2
  <2> HIDE DEF a
  <2>4. Cropped(picture, crop).width * picture.sar[1] \in Nat \ {0}
    BY <2>1
  <2>5. Cropped(picture, crop).height * picture.sar[2] \in Nat \ {0}
    BY <2>1
  <2> QED  BY <2>2, <2>3, <2>4, <2>5
<1>2. SUFFICES ASSUME result \notin {Off, Infeasible}
               PROVE  /\ result.mode = request.mode
                      /\ result.width % g = 0 /\ result.height % g = 0
                      /\ result.mode = "contain" =>
                            /\ result.width <= W
                            /\ Bounded(request) => result.height <= H
                            /\ WidthAt(a, result.height) <= W
                      /\ result.mode = "cover" => result.width >= W /\ result.height >= H
                      /\ result.mode # "exact" => result.height <= height
  BY DEF Keeps
<1>3. request # None
  BY <1>2 DEF Resolve
<1>4. /\ W \in Nat \ {0} /\ (Bounded(request) => H \in Nat \ {0})
      /\ request.mode \in {"contain", "cover", "exact"}
      /\ request.mode \in {"cover", "exact"} => H \in Nat \ {0}
  BY <1>3 DEF Boxes, Bounded
<1>5. ~(W < g \/ (Bounded(request) /\ H < g))
  BY <1>2, <1>3 DEF Resolve
<1>6. ~Fulfilled(picture, crop, request)
  BY <1>2, <1>3, <1>5 DEF Resolve
<1>7. CASE request.mode = "exact"
  <2>1. result = [mode |-> "exact", width |-> Nearest(W, g), height |-> Nearest(H, g)]
    BY <1>3, <1>5, <1>6, <1>7 DEF Resolve
  <2>2. result.mode = "exact" /\ result.width = Nearest(W, g) /\ result.height = Nearest(H, g)
    BY <2>1
  <2> HIDE DEF result, W, H
  <2> QED  BY <1>4, <1>7, <2>2, NearestBounds
<1>8. CASE request.mode = "contain"
  <2> DEFINE target == Contained(request, a)
             h == Floored(target, g)
             w == WidthAt(a, h)
  <2>1. /\ result = [mode |-> "contain", height |-> h, width |-> Floored(w, g)]
        /\ ~(target < g) /\ ~Upscaled(picture, crop, h)
    BY <1>2, <1>3, <1>5, <1>6, <1>8 DEF Resolve
  <2>2. result.mode = "contain" /\ result.height = h /\ result.width = Floored(w, g) /\ ~(h > height)
    BY <2>1 DEF Upscaled
  <2> DEFINE cap == HeightCap(request, a)
  <2>3. target = IF Bounded(request) THEN AtMost(cap, H) ELSE cap
    BY DEF Contained
  <2>4. cap = (W * d) \div n /\ W * d \in Int
    BY <1>1, <1>4 DEF HeightCap
  <2> HIDE DEF result, a, n, d, W, H, height, target, h, w, cap
  <2>5. cap \in Int /\ n * cap <= W * d
    BY <1>1, <2>4, DivBounds
  <2>6. target \in Int /\ target <= cap /\ (Bounded(request) => target <= H) /\ target >= g
    BY <1>4, <2>1, <2>3, <2>5 DEF AtMost
  <2>7. h \in Int /\ h % g = 0 /\ h <= target
    BY <2>6, FlooredBounds DEF h
  <2>8. n * h <= d * W
    <3>1. n * h <= n * cap /\ n * h \in Int /\ n * cap \in Int
      BY <1>1, <2>5, <2>6, <2>7, Cancels
    <3>2. W * d = d * W
      BY <1>1, <1>4
    <3> QED  BY <2>4, <2>5, <3>1, <3>2
  <2>9. w \in Int /\ w <= W
    BY <1>1, <1>4, <2>7, <2>8, WidthBounds DEF w
  <2>10. Floored(w, g) \in Int /\ Floored(w, g) % g = 0 /\ Floored(w, g) <= W
    <3>1. /\ Floored(w, g) \in Int /\ Floored(w, g) % g = 0
          /\ w >= g => Floored(w, g) <= w
          /\ w < g => Floored(w, g) = g
      BY <2>9, FlooredBounds
    <3> QED  BY <1>4, <1>5, <2>9, <3>1
  <2>11. WidthAt(a, result.height) <= W /\ result.height % g = 0 /\ result.height <= height
    BY <1>1, <2>2, <2>7, <2>9 DEF w
  <2>12. Bounded(request) => result.height <= H
    BY <1>4, <2>2, <2>6, <2>7
  <2> QED  BY <1>8, <2>2, <2>10, <2>11, <2>12
<1>9. CASE request.mode = "cover"
  <2> DEFINE target == Covering(request, a)
             h == Ceiled(target, g)
             w == WidthAt(a, h)
             need == CeilDiv(W * d, n)
  <2>1. /\ result = [mode |-> "cover", height |-> h, width |-> Ceiled(w, g)]
        /\ ~Upscaled(picture, crop, h)
    BY <1>2, <1>3, <1>5, <1>6, <1>9 DEF Resolve
  <2>2. result.mode = "cover" /\ result.height = h /\ result.width = Ceiled(w, g) /\ ~(h > height)
    BY <2>1 DEF Upscaled
  <2>3. target = AtLeast(H, need)
    BY DEF Covering
  <2>4. W * d \in Int /\ W * d = d * W
    BY <1>1, <1>4
  <2>5. need \in Int /\ W * d <= n * need
    <3> HIDE DEF n, d, W
    <3> QED  BY <1>1, <2>4, CeilBounds
  <2> HIDE DEF result, a, n, d, W, H, height, target, h, w, need
  <2>6. target \in Int /\ target >= need /\ target >= H
    BY <1>4, <1>9, <2>3, <2>5 DEF AtLeast
  <2>7. h \in Int /\ h % g = 0 /\ h >= target
    BY <2>6, CeiledBounds DEF h
  <2>8. d * W <= n * h
    <3>1. n * need <= n * h /\ n * h \in Int /\ n * need \in Int
      BY <1>1, <2>5, <2>6, <2>7, Cancels
    <3> QED  BY <2>4, <2>5, <3>1
  <2>9. w \in Int /\ w >= W
    BY <1>1, <1>4, <2>7, <2>8, WidthBounds DEF w
  <2>10. Ceiled(w, g) \in Int /\ Ceiled(w, g) % g = 0 /\ Ceiled(w, g) >= w
    BY <2>9, CeiledBounds
  <2> QED  BY <1>1, <1>4, <1>9, <2>2, <2>6, <2>7, <2>9, <2>10
<1> QED  BY <1>4, <1>7, <1>8, <1>9

\* The scale a run delivers fits what was asked of the picture it crops, for any requests,
\* pictures, crops and granularity, whatever earlier runs recorded.
THEOREM ScalesFit == Spec => []ScaleFits
<1>1. ASSUME Inv PROVE ScaleFits
  <2> SUFFICES ASSUME step = "done", Served("probe")
               PROVE  Keeps(Pictures[cfg.source], prb.crop, cfg.scale, Granularity, prb.scale)
    BY DEF ScaleFits
  <2>1. Behind(phase) /\ Result(phase) /\ Following = None /\ phase # "job"
    BY <1>1 DEF Inv, Progress, Running
  <2>2. Result("job") /\ Result("extraction") /\ phase \in Phases \ {"job"}
    BY <1>1, <2>1 DEF Behind, Inv, TypeOK
  <2>3. phase = "chunking"
    BY <1>1, <2>1, <2>2, Order DEF Inv, Phases
  <2>4. Fresh
    BY <2>1, <2>3 DEF Result, Behind
  <2>5. cfg.source \in Sources /\ prb.crop \in Crops /\ cfg.scale \in Requests
    BY <1>1, <2>4, Settled DEF Fresh, Inv, TypeOK, Facts
  <2>6. prb.scale = Resolve(Pictures[cfg.source], prb.crop, cfg.scale, Granularity)
    BY <2>4, <2>5 DEF Fresh, Fits, Scale
  <2>7. /\ cfg.scale \in Boxes \cup {None} /\ Granularity \in Nat \ {0}
        /\ {Pictures[cfg.source].sar[1], Pictures[cfg.source].sar[2]} \subseteq Nat \ {0}
        /\ {Cropped(Pictures[cfg.source], prb.crop).width,
            Cropped(Pictures[cfg.source], prb.crop).height} \subseteq Nat \ {0}
    BY <2>5, RecordsAssumption
  <2> QED  BY <2>6, <2>7, Resolves
<1> QED  BY <1>1, Invariance, PTL
================================================================================
