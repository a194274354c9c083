------------------------- MODULE MergeAcceptance_proofs -------------------------
(***************************************************************************)
(* TLAPS proofs about MergeAcceptance: its types; and, for a user that     *)
(* repeats what was killed or has failed, that a successful run delivers   *)
(* its own outputs with true metrics; that nothing is deleted without      *)
(* permission, and that repeating a concluded run does nothing, for any    *)
(* configurations, runs, kills and failures.                               *)
(***************************************************************************)
EXTENDS MergeAcceptance, TLAPS

--------------------------------------------------------------------------------
(* Names, contents and identities.                                         *)

\* What a strategy of a configuration is made of lies in the sets of the types.
LEMMA Members ==
    ASSUME NEW k \in Configs, NEW s \in DOMAIN k.knob
    PROVE  /\ Name(k, s) \in Outputs
           /\ Made(k, s) \in Contents
           /\ Identity(k, s) \in Identities
BY DEF Outputs, Contents, Identities

\* The strategies of a run are strategies of its plan.
LEMMA InPlan == ASSUME NEW k \in Configs PROVE k.selected \subseteq DOMAIN k.knob
BY MergeAssumption

\* Two strategies have two names.
LEMMA NamesApart ==
    ASSUME NEW k, NEW s, NEW t, Name(k, s) = Name(k, t)
    PROVE  s = t
BY DEF Name

\* A name and what acceptance compares determine the contents: the quality of a
\* point is part of the name, and where there is none the sampling is compared.
LEMMA IdentityDecides ==
    ASSUME NEW k, NEW s \in DOMAIN k.knob, NEW l, NEW t \in DOMAIN l.knob,
           Name(k, s) = Name(l, t),
           \A d \in Dimensions \cup {"source"} : Identity(k, s)[d] = Identity(l, t)[d],
           Fixed(k) \/ k.sampling = l.sampling
    PROVE  Made(k, s) = Made(l, t)
<1>1. k.knob[s] = l.knob[t]
  BY DEF Name
<1>2. /\ k.source = l.source /\ k.args[s] = l.args[t] /\ k.probe = l.probe
      /\ k.chunks = l.chunks /\ Mode(k) = Mode(l)
      /\ (IF Fixed(k) THEN k.knob[s] ELSE k.targets) = (IF Fixed(l) THEN l.knob[t] ELSE l.targets)
  BY DEF Identity, Dimensions
<1>3. Fixed(k) <=> Fixed(l)
  BY <1>2 DEF Mode
<1>4. CASE k.knob[s] = Range
  BY <1>1, <1>2, <1>3, <1>4 DEF Made, Fixed
<1>5. CASE k.knob[s] # Range
  BY <1>1, <1>2, <1>5 DEF Made
<1>6. QED
  BY <1>4, <1>5
--------------------------------------------------------------------------------
(* Types.                                                                  *)

\* Outside the loop over the strategies nothing is pending, taken or lost.
AtRest == pc # "merging" => current = None /\ DOMAIN reason = {} /\ lost = {}
\* What is measured, or is to be measured in place, is there.
Present ==
    /\ current # None /\ current.stage = "measure" => file[Name(cfg, current.strategy)] # None
    /\ \A s \in DOMAIN reason : reason[s] = "sampling" => file[Name(cfg, s)] # None
TInv   == TypeOK /\ AtRest /\ Present

\* The initial state is well-typed.
LEMMA InitTInv == Init => TInv
<1> SUFFICES ASSUME Init PROVE TInv
  OBVIOUS
<1>1. budget \in [{"runs", "kills", "failures"} -> Nat]
  BY MergeAssumption DEF Init
<1>2. QED
  BY <1>1 DEF Init, TInv, TypeOK, AtRest, Present, NoReason

\* Spending from the budget leaves natural numbers.
LEMMA SpendType ==
    ASSUME TypeOK, NEW what \in {"runs", "kills", "failures"}, Spend(what)
    PROVE  budget' \in [{"runs", "kills", "failures"} -> Nat]
<1>1. budget[what] \in Nat /\ budget[what] > 0
  BY DEF TypeOK, Spend
<1>2. budget[what] - 1 \in Nat
  BY <1>1
<1>3. QED
  BY <1>2 DEF TypeOK, Spend

\* What the sidecar of a measured output holds has its type.
LEMMA ComposeType ==
    ASSUME TypeOK, NEW s \in cfg.selected, file[Name(cfg, s)] # None,
           NEW metrics \in Metrics(Name(cfg, s))
    PROVE  Compose(cfg, s, metrics) \in Cards
<1>1. cfg \in Configs /\ s \in DOMAIN cfg.knob
  BY InPlan DEF TypeOK
<1>2. Identity(cfg, s) \in Identities /\ file[Name(cfg, s)] \in Contents
  BY <1>1, Members DEF TypeOK
<1>3. metrics \in [of : Contents, sampling : {k.sampling : k \in Configs}] \cup {None}
  BY <1>1, <1>2 DEF Metrics
<1>4. QED
  BY <1>2, <1>3 DEF Compose, Cards

\* Every step keeps the types.
LEMMA StepTInv == TInv /\ [Next]_vars => TInv'
<1> SUFFICES ASSUME TInv, [Next]_vars PROVE TInv'
  OBVIOUS
<1> USE DEF TInv
<1>a. cfg.selected \subseteq DOMAIN cfg.knob
  BY InPlan DEF TypeOK
<1>b. \A s \in cfg.selected : Name(cfg, s) \in Outputs /\ Made(cfg, s) \in Contents
  BY <1>a, Members DEF TypeOK
<1>1. ASSUME NEW k \in Configs, Start(k) PROVE TInv'
  <2>1. budget' \in [{"runs", "kills", "failures"} -> Nat]
    BY <1>1, SpendType DEF Start
  <2>2. current = None /\ DOMAIN reason = {} /\ lost = {}
    BY <1>1 DEF Start, AtRest
  <2>3. QED
    BY <1>1, <2>1, <2>2 DEF Start, disk, TypeOK, AtRest, Present
<1>2. CASE Kill
  <2>1. budget' \in [{"runs", "kills", "failures"} -> Nat]
    BY <1>2, SpendType DEF Kill
  <2>2. QED
    BY <1>2, <2>1 DEF Kill, disk, TypeOK, AtRest, Present, NoReason
<1>3. CASE Scan
  BY <1>3 DEF Scan, disk, TypeOK, AtRest, Present
<1>4. CASE Wipe
  <2>1. file' \in [Outputs -> Contents \cup {None}] /\ card' \in [Outputs -> Cards \cup {None}]
    BY <1>4 DEF Wipe, disk, TypeOK
  <2>2. QED
    BY <1>4, <2>1 DEF Wipe, TypeOK, AtRest, Present
<1>5. CASE Recover
  <2>1. \A s \in DOMAIN reason' : /\ s \in cfg.selected /\ Pending(cfg, s) # None
                                  /\ reason'[s] = Pending(cfg, s)
    BY <1>5 DEF Recover, Wanted
  <2>2. \A s \in DOMAIN reason' : reason'[s] \in Reasons
    BY <2>1 DEF Pending, Mismatch, Reasons
  <2>3. \A s \in DOMAIN reason' : reason'[s] = "sampling" => file[Name(cfg, s)] # None
    BY <2>1 DEF Pending
  <2>4. pc' = "done" => DOMAIN reason' = {}
    BY <1>5 DEF Recover
  <2>5. current = None /\ lost = {} /\ pc' \in {"done", "merging"}
    BY <1>5 DEF Recover, AtRest
  <2>6. UNCHANGED <<file, card, cfg, current, lost, worked, replay, budget>>
    BY <1>5 DEF Recover, disk
  <2>7. TypeOK'
    BY <2>1, <2>2, <2>5, <2>6 DEF TypeOK
  <2>8. QED
    BY <2>3, <2>4, <2>5, <2>6, <2>7 DEF AtRest, Present
<1>6. CASE Take
  <2>1. PICK s \in DOMAIN reason :
           /\ current' = [strategy |-> s, stage |-> IF InPlace(reason[s]) THEN "measure" ELSE "concat"]
           /\ reason' = [t \in DOMAIN reason \ {s} |-> reason[t]]
    BY <1>6 DEF Take
  <2>2. UNCHANGED <<file, card, lost, worked, budget, cfg, pc, replay>> /\ pc = "merging"
    BY <1>6 DEF Take, disk, Unmoved
  <2>3. s \in cfg.selected
    BY DEF TypeOK
  <2>4. TypeOK'
    BY <2>1, <2>2, <2>3 DEF TypeOK, Stages
  <2>5. current'.stage = "measure" => file[Name(cfg, s)] # None
    BY <2>1 DEF InPlace, Present
  <2>6. Present'
    BY <2>1, <2>2, <2>5 DEF Present
  <2>7. QED
    BY <2>2, <2>4, <2>6 DEF AtRest
<1>7. CASE ConcatAndPromote
  <2>1. current # None /\ current.strategy \in cfg.selected /\ pc = "merging"
    BY <1>7 DEF ConcatAndPromote, At, TypeOK
  <2>2. file' = [file EXCEPT ![Name(cfg, current.strategy)] = Made(cfg, current.strategy)]
    BY <1>7 DEF ConcatAndPromote, Output
  <2>3. current' = [current EXCEPT !.stage = "measure"] /\ worked' = TRUE
    BY <1>7 DEF ConcatAndPromote, Stage
  <2>4. UNCHANGED <<card, reason, lost, budget, cfg, pc, replay>>
    BY <1>7 DEF ConcatAndPromote, Unmoved
  <2>5. Made(cfg, current.strategy) \in Contents /\ Made(cfg, current.strategy) # None
    BY <2>1, <1>b, NoneAssumption
  <2>6. file' \in [Outputs -> Contents \cup {None}]
    BY <2>2, <2>5 DEF TypeOK
  <2>7. current' \in [strategy : cfg.selected, stage : Stages]
    BY <2>1, <2>3 DEF TypeOK, Stages
  <2>8. current'.strategy = current.strategy
    BY <2>1, <2>3 DEF TypeOK
  <2>9. \A o \in Outputs : file[o] # None => file'[o] # None
    BY <2>2, <2>5 DEF TypeOK
  <2>10. TypeOK'
    BY <2>3, <2>4, <2>6, <2>7 DEF TypeOK
  <2>11. Present'
    <3>1. file'[Name(cfg, current.strategy)] # None
      BY <2>1, <2>2, <2>5, <1>b DEF TypeOK
    <3>2. \A s \in DOMAIN reason : Name(cfg, s) \in Outputs
      BY <1>b DEF TypeOK
    <3>3. QED
      BY <3>1, <3>2, <2>4, <2>8, <2>9 DEF Present
  <2>12. QED
    BY <2>1, <2>4, <2>10, <2>11 DEF AtRest
<1>8. CASE MeasureAndSave
  <2>1. current # None /\ current.strategy \in cfg.selected /\ pc = "merging"
    BY <1>8 DEF MeasureAndSave, At, TypeOK
  <2>2. file[Name(cfg, current.strategy)] # None
    BY <1>8, <2>1 DEF MeasureAndSave, At, Present
  <2>3. PICK metrics \in Metrics(Name(cfg, current.strategy)) :
           card' = [card EXCEPT ![Name(cfg, current.strategy)] = Compose(cfg, current.strategy, metrics)]
    BY <1>8 DEF MeasureAndSave, Output
  <2>4. Compose(cfg, current.strategy, metrics) \in Cards
    BY <2>1, <2>2, ComposeType
  <2>5. card' \in [Outputs -> Cards \cup {None}]
    BY <2>3, <2>4 DEF TypeOK
  <2>6. /\ current' = None /\ worked' \in BOOLEAN
        /\ UNCHANGED <<file, reason, lost, budget, cfg, pc, replay>>
    <3>1. cfg.measure \in BOOLEAN
      BY MergeAssumption DEF TypeOK
    <3>2. QED
      BY <1>8, <3>1 DEF MeasureAndSave, Unmoved, TypeOK
  <2>7. QED
    BY <2>1, <2>5, <2>6 DEF TypeOK, AtRest, Present
<1>9. CASE StrategyFails
  <2>1. budget' \in [{"runs", "kills", "failures"} -> Nat]
    BY <1>9, SpendType DEF StrategyFails
  <2>2. current.strategy \in cfg.selected
    BY <1>9 DEF StrategyFails, TypeOK
  <2>3. QED
    BY <1>9, <2>1, <2>2 DEF StrategyFails, disk, Unmoved, TypeOK, AtRest, Present
<1>10. CASE Refuse
  <2>1. budget' \in [{"runs", "kills", "failures"} -> Nat]
    BY <1>10, SpendType DEF Refuse
  <2>2. QED
    BY <1>10, <2>1 DEF Refuse, disk, TypeOK, AtRest, Present, NoReason
<1>11. CASE Conclude
  BY <1>11 DEF Conclude, disk, TypeOK, AtRest, Present
<1>12. CASE UNCHANGED vars
  BY <1>12 DEF vars, TypeOK, AtRest, Present
<1>13. QED
  BY <1>1, <1>2, <1>3, <1>4, <1>5, <1>6, <1>7, <1>8, <1>9, <1>10, <1>11, <1>12 DEF Next, Work

\* Every reachable state is well-typed.
LEMMA Typed == Spec => []TInv
BY InitTInv, StepTInv, PTL DEF Spec

\* Outputs, sidecars and the state of a run keep their types.
THEOREM TypeCorrect == Spec => []TypeOK
<1>1. TInv => TypeOK
  BY DEF TInv
<1>2. QED
  BY Typed, <1>1, PTL
--------------------------------------------------------------------------------
(* Delivery.                                                               *)

\* A sidecar is that of a strategy of some configuration, its metrics are of what
\* that strategy makes.
Backed(o) ==
    \E k \in Configs : \E s \in DOMAIN k.knob :
        /\ Name(k, s) = o /\ card[o].identity = Identity(k, s)
        /\ card[o].metrics \in {None, [of |-> Made(k, s), sampling |-> k.sampling]}
\* An output is what its sidecar says.
Vouched(o) ==
    \E k \in Configs : \E s \in DOMAIN k.knob :
        Name(k, s) = o /\ card[o].identity = Identity(k, s) /\ file[o] = Made(k, s)
\* An output was promoted under the settings of the current run.
Promoted(o) == \E s \in cfg.selected : o = Name(cfg, s) /\ file[o] = Made(cfg, s)
\* A strategy of the run is accepted and delivered.
Settled(s) ==
    /\ card[Name(cfg, s)] # None /\ card[Name(cfg, s)].identity = Identity(cfg, s)
    /\ file[Name(cfg, s)] = Made(cfg, s)

Blank     == pc = "idle" => \A o \in Outputs : file[o] = None /\ card[o] = None
CardsInv  == \A o \in Outputs : card[o] # None => Backed(o)
FilesInv  == \A o \in Outputs : card[o] # None /\ file[o] # None =>
                 Vouched(o) \/ (pc \notin {"idle", "done"} /\ Promoted(o))
Own       == pc = "recover" => \A o \in Outputs : card[o] # None => card[o].identity.source = cfg.source
SoundInv  ==
    /\ \A s \in DOMAIN reason : InPlace(reason[s]) => file[Name(cfg, s)] = Made(cfg, s)
    /\ current # None /\ current.stage = "measure" =>
           file[Name(cfg, current.strategy)] = Made(cfg, current.strategy)
Progress  == pc = "merging" => \A s \in cfg.selected :
                 \/ s \in DOMAIN reason \/ s \in lost
                 \/ current # None /\ current.strategy = s
                 \/ Settled(s)
Ended     == pc = "done" => \A s \in cfg.selected : Settled(s)
DInv == /\ Blank /\ CardsInv /\ FilesInv /\ Own
        /\ SoundInv /\ Progress /\ Ended

\* In the initial state there is nothing on disk.
LEMMA InitDInv == Init => DInv
BY DEF Init, DInv, Blank, CardsInv, FilesInv, Own, SoundInv, Progress, Ended, NoReason

\* Settings that are the same make the same outputs under the same names.
LEMMA SameSettings ==
    ASSUME NEW k, NEW l, Settings(k) = Settings(l)
    PROVE  /\ k.selected = l.selected
           /\ \A s : Name(k, s) = Name(l, s) /\ Made(k, s) = Made(l, s)
BY DEF Settings, Name, Made

\* An output with no mismatch but, for a fixed run, the sampling is the run's own.
LEMMA AcceptedIsOwn ==
    ASSUME TInv, DInv, pc = "recover", NEW s \in cfg.selected,
           file[Name(cfg, s)] # None, card[Name(cfg, s)] # None,
           ~Contradicted(cfg, s, Dimensions),
           Fixed(cfg) \/ ~Contradicted(cfg, s, {"sampling"})
    PROVE  file[Name(cfg, s)] = Made(cfg, s)
<1>1. cfg \in Configs /\ s \in DOMAIN cfg.knob /\ Name(cfg, s) \in Outputs
  BY InPlan, Members DEF TInv, TypeOK
<1>2. Vouched(Name(cfg, s)) \/ Promoted(Name(cfg, s))
  BY <1>1 DEF DInv, FilesInv
<1>3. CASE Promoted(Name(cfg, s))
  BY <1>3, NamesApart DEF Promoted
<1>4. CASE Vouched(Name(cfg, s))
  <2>1. PICK k \in Configs : \E t \in DOMAIN k.knob :
           /\ Name(k, t) = Name(cfg, s) /\ card[Name(cfg, s)].identity = Identity(k, t)
           /\ file[Name(cfg, s)] = Made(k, t)
    BY <1>4 DEF Vouched
  <2>2. PICK t \in DOMAIN k.knob :
           /\ Name(k, t) = Name(cfg, s) /\ card[Name(cfg, s)].identity = Identity(k, t)
           /\ file[Name(cfg, s)] = Made(k, t)
    BY <2>1
  <2>3. card[Name(cfg, s)].identity.source = cfg.source
    BY <1>1 DEF DInv, Own
  <2>4. Identity(k, t)["source"] = Identity(cfg, s)["source"]
    BY <2>2, <2>3 DEF Identity
  <2>5. \A d \in Dimensions : Identity(k, t)[d] = Identity(cfg, s)[d]
    BY <2>2 DEF Contradicted
  <2>6. Fixed(k) \/ k.sampling = cfg.sampling
    <3>1. CASE Fixed(cfg)
      <4>1. Identity(k, t)["mode"] = Identity(cfg, s)["mode"]
        BY <2>5 DEF Dimensions
      <4>2. Mode(k) = Mode(cfg)
        BY <4>1 DEF Identity
      <4>3. QED
        BY <3>1, <4>2 DEF Mode
    <3>2. CASE ~Contradicted(cfg, s, {"sampling"})
      <4>1. Identity(k, t)["sampling"] = Identity(cfg, s)["sampling"]
        BY <2>2, <3>2 DEF Contradicted
      <4>2. QED
        BY <4>1 DEF Identity
    <3>3. QED
      BY <3>1, <3>2
  <2>7. Made(k, t) = Made(cfg, s)
    BY <1>1, <2>2, <2>4, <2>5, <2>6, IdentityDecides
  <2>8. QED
    BY <2>2, <2>7
<1>5. QED
  BY <1>2, <1>3, <1>4

\* What is accepted is settled.
LEMMA AcceptedIsSettled ==
    ASSUME TInv, DInv, pc = "recover", NEW s \in cfg.selected, Pending(cfg, s) = None
    PROVE  Settled(s)
<1>1. cfg \in Configs /\ s \in DOMAIN cfg.knob /\ Name(cfg, s) \in Outputs
  BY InPlan, Members DEF TInv, TypeOK
<1>2. "absent" # None /\ "unverifiable" # None /\ "basis" # None /\ "sampling" # None
  BY NoneAssumption DEF Reasons
<1>3. /\ file[Name(cfg, s)] # None /\ card[Name(cfg, s)] # None
      /\ ~Contradicted(cfg, s, Dimensions) /\ ~Contradicted(cfg, s, {"sampling"})
  BY <1>2 DEF Pending, Mismatch
<1>4. file[Name(cfg, s)] = Made(cfg, s)
  BY <1>3, AcceptedIsOwn
<1>5. PICK k \in Configs : \E t \in DOMAIN k.knob : card[Name(cfg, s)].identity = Identity(k, t)
  BY <1>1, <1>3 DEF DInv, CardsInv, Backed
<1>6. PICK t \in DOMAIN k.knob : card[Name(cfg, s)].identity = Identity(k, t)
  BY <1>5
<1>7. card[Name(cfg, s)].identity.source = cfg.source
  BY <1>1, <1>3 DEF DInv, Own
<1>8. Identity(k, t).source = Identity(cfg, s).source
  BY <1>6, <1>7 DEF Identity
<1>9. \A d \in Dimensions \cup {"sampling"} : Identity(k, t)[d] = Identity(cfg, s)[d]
  BY <1>3, <1>6 DEF Contradicted
<1>10. /\ Identity(k, t).strategy = Identity(cfg, s).strategy /\ Identity(k, t).mode = Identity(cfg, s).mode
       /\ Identity(k, t).basis = Identity(cfg, s).basis /\ Identity(k, t).probe = Identity(cfg, s).probe
       /\ Identity(k, t).winners = Identity(cfg, s).winners
       /\ Identity(k, t).sampling = Identity(cfg, s).sampling
  BY <1>9 DEF Dimensions
<1>11. Identity(k, t) = Identity(cfg, s)
  BY <1>8, <1>10 DEF Identity
<1>12. QED
  BY <1>3, <1>4, <1>6, <1>11 DEF Settled

\* An output of a settled run is vouched for by its own sidecar.
LEMMA SettledIsVouched ==
    ASSUME TInv, NEW s \in cfg.selected, Settled(s)
    PROVE  Vouched(Name(cfg, s))
BY InPlan DEF TInv, TypeOK, Settled, Vouched

\* A step that leaves the disk and the configuration alone, and enters neither
\* recovery nor the end, keeps what is said of them.
LEMMA DiskUntouched ==
    ASSUME DInv, UNCHANGED <<file, card, cfg>>,
           pc' = "idle" => pc = "idle", pc' = "recover" => pc = "recover",
           pc' = "done" => pc = "done"
    PROVE  (Blank /\ CardsInv /\ FilesInv /\ Own /\ Ended)'
<1>1. \A o \in Outputs : /\ Backed(o)' <=> Backed(o)
                         /\ Vouched(o)' <=> Vouched(o)
                         /\ Promoted(o)' <=> Promoted(o)
  BY DEF Backed, Vouched, Promoted
<1>2. \A s \in cfg.selected : Settled(s)' <=> Settled(s)
  BY DEF Settled
<1>3. Blank' /\ CardsInv' /\ Own' /\ Ended'
  BY <1>1, <1>2 DEF DInv, Blank, CardsInv, Own, Ended
<1>4. \A o \in Outputs : card[o] # None /\ file[o] # None =>
          Vouched(o) \/ (pc' \notin {"idle", "done"} /\ Promoted(o))
  <2>1. CASE pc' = "done"
    BY <2>1 DEF DInv, FilesInv
  <2>2. CASE pc' # "done"
    BY <2>2 DEF DInv, FilesInv
  <2>3. QED
    BY <2>1, <2>2
<1>5. QED
  BY <1>1, <1>3, <1>4 DEF FilesInv

\* Every step keeps it, when what was killed or has failed is repeated.
LEMMA StepDInv ==
    ASSUME "repeated" \in Assumed
    PROVE  TInv /\ DInv /\ [Next]_vars => DInv'
<1> SUFFICES ASSUME TInv, DInv, [Next]_vars PROVE DInv'
  OBVIOUS
<1>a. cfg \in Configs /\ \A s \in cfg.selected : s \in DOMAIN cfg.knob /\ Name(cfg, s) \in Outputs
  BY InPlan, Members DEF TInv, TypeOK
<1>1. ASSUME NEW k \in Configs, Start(k) PROVE DInv'
  <2>1. /\ pc' = "scan" /\ cfg' = k
        /\ UNCHANGED <<file, card, reason, current>>
        /\ pc \in {"failed", "killed"} => Settings(k) = Settings(cfg)
    BY <1>1 DEF Start, disk
  <2>2. current = None /\ DOMAIN reason = {}
    BY <1>1 DEF Start, TInv, AtRest
  <2>3. \A o \in Outputs : (Backed(o)' <=> Backed(o)) /\ (Vouched(o)' <=> Vouched(o))
    BY <2>1 DEF Backed, Vouched
  <2>4. FilesInv'
    <3> SUFFICES ASSUME NEW o \in Outputs, card[o] # None, file[o] # None, ~Vouched(o)
                 PROVE  Promoted(o)'
      BY <2>1, <2>3 DEF FilesInv
    <3>1. Promoted(o) /\ pc \notin {"idle", "done"}
      BY DEF DInv, FilesInv
    <3>2. Settings(k) = Settings(cfg)
      BY <1>1, <2>1, <3>1 DEF Start
    <3>3. QED
      BY <2>1, <3>1, <3>2, SameSettings DEF Promoted
  <2>5. QED
    BY <2>1, <2>2, <2>3, <2>4 DEF DInv, Blank, CardsInv, Own, SoundInv, Progress, Ended
<1>2. CASE Kill
  <2>1. /\ pc' = "killed" /\ current' = None /\ DOMAIN reason' = {}
        /\ UNCHANGED <<file, card, cfg>>
    BY <1>2 DEF Kill, disk, NoReason
  <2>2. QED
    BY <2>1, DiskUntouched DEF DInv, SoundInv, Progress
<1>3. CASE Scan
  <2>1. /\ pc' \in {"recover", "wipe", "failed"} /\ (pc' = "recover" => Foreign = {})
        /\ UNCHANGED <<file, card, cfg, reason, current>> /\ pc = "scan"
    BY <1>3 DEF Scan, disk
  <2>2. \A o \in Outputs : /\ Backed(o)' <=> Backed(o)
                           /\ Vouched(o)' <=> Vouched(o)
                           /\ Promoted(o)' <=> Promoted(o)
    BY <2>1 DEF Backed, Vouched, Promoted
  <2>3. Own'
    BY <2>1 DEF Own, Foreign
  <2>4. CardsInv' /\ FilesInv'
    BY <2>1, <2>2 DEF DInv, CardsInv, FilesInv
  <2>5. QED
    BY <2>1, <2>3, <2>4 DEF DInv, Blank, SoundInv, InPlace, Fixed, Progress, Ended
<1>4. CASE Wipe
  <2>1. /\ \A o \in Outputs : /\ file'[o] = None \/ file'[o] = file[o]
                              /\ card'[o] = None \/ card'[o] = card[o]
        /\ pc = "wipe" /\ pc' \in {"wipe", "recover"}
        /\ pc' = "recover" => \A o \in Outputs : card'[o] = None
        /\ UNCHANGED <<cfg, reason, current>>
    BY <1>4 DEF Wipe, disk, TInv, TypeOK
  <2>2. current = None /\ DOMAIN reason = {}
    BY <2>1 DEF TInv, AtRest
  <2>3. \A o \in Outputs : card'[o] # None /\ Backed(o) => Backed(o)'
    BY <2>1 DEF Backed
  <2>4. \A o \in Outputs : card'[o] # None /\ file'[o] # None =>
            (Vouched(o) => Vouched(o)') /\ (Promoted(o) => Promoted(o)')
    BY <2>1 DEF Vouched, Promoted
  <2>5. CardsInv' /\ FilesInv'
    BY <2>1, <2>3, <2>4 DEF DInv, CardsInv, FilesInv
  <2>6. QED
    BY <2>1, <2>2, <2>5 DEF DInv, Blank, Own, SoundInv, Progress, Ended
<1>5. CASE Recover
  <2>1. /\ reason' = [s \in {s \in cfg.selected : Pending(cfg, s) # None} |-> Pending(cfg, s)]
        /\ pc = "recover" /\ pc' = IF DOMAIN reason' = {} THEN "done" ELSE "merging"
        /\ UNCHANGED <<file, card, cfg, current>>
    BY <1>5 DEF Recover, Wanted, disk
  <2>2. \A s \in cfg.selected : s \in DOMAIN reason' \/ Settled(s)
    BY <2>1, AcceptedIsSettled
  <2>3. \A s \in cfg.selected : Settled(s)' <=> Settled(s)
    BY <2>1 DEF Settled
  <2>4. current = None
    BY <2>1 DEF TInv, AtRest
  <2>5. \A s \in DOMAIN reason' : reason'[s] = "sampling" /\ Fixed(cfg) => file[Name(cfg, s)] = Made(cfg, s)
    <3> SUFFICES ASSUME NEW s \in DOMAIN reason', reason'[s] = "sampling", Fixed(cfg)
                 PROVE  file[Name(cfg, s)] = Made(cfg, s)
      OBVIOUS
    <3>1. s \in cfg.selected /\ Pending(cfg, s) = "sampling"
      BY <2>1
    <3>2. /\ file[Name(cfg, s)] # None /\ card[Name(cfg, s)] # None
          /\ ~Contradicted(cfg, s, Dimensions)
      BY <3>1 DEF Pending, Mismatch
    <3>3. QED
      BY <2>1, <3>1, <3>2, AcceptedIsOwn
  <2>6. SoundInv'
    BY <2>1, <2>4, <2>5 DEF SoundInv, InPlace, Fixed
  <2>7. CardsInv'
    BY <2>1 DEF DInv, CardsInv, Backed
  <2>8. FilesInv'
    <3> SUFFICES ASSUME NEW o \in Outputs, card[o] # None, file[o] # None
                 PROVE  Vouched(o)' \/ (pc' \notin {"idle", "done"} /\ Promoted(o)')
      BY <2>1 DEF FilesInv
    <3>1. (Vouched(o)' <=> Vouched(o)) /\ (Promoted(o)' <=> Promoted(o))
      BY <2>1 DEF Vouched, Promoted
    <3>2. CASE Vouched(o)
      BY <3>1, <3>2
    <3>3. CASE ~Vouched(o) /\ pc' = "merging"
      BY <3>1, <3>3 DEF DInv, FilesInv
    <3>4. CASE ~Vouched(o) /\ pc' = "done"
      <4>1. PICK s \in cfg.selected : o = Name(cfg, s)
        BY <3>4 DEF DInv, FilesInv, Promoted
      <4>2. Settled(s)
        BY <2>1, <2>2, <3>4
      <4>3. QED
        BY <3>4, <4>1, <4>2, SettledIsVouched
    <3>5. QED
      BY <2>1, <3>2, <3>3, <3>4
  <2>9. QED
    BY <2>1, <2>2, <2>3, <2>6, <2>7, <2>8 DEF DInv, Blank, Own, Progress, Ended
<1>6. CASE Take
  <2>1. PICK s \in DOMAIN reason :
           /\ current' = [strategy |-> s, stage |-> IF InPlace(reason[s]) THEN "measure" ELSE "concat"]
           /\ reason' = [t \in DOMAIN reason \ {s} |-> reason[t]]
    BY <1>6 DEF Take
  <2>2. UNCHANGED <<file, card, cfg, pc, lost>> /\ current = None
    BY <1>6 DEF Take, disk, Unmoved
  <2>3. current' # None
    <3>1. cfg \in Configs /\ s \in DOMAIN cfg.knob
      BY <1>a DEF TInv, TypeOK
    <3>2. current' \in Taken
      BY <2>1, <3>1 DEF Taken, Stages
    <3>3. QED
      BY <3>2, NoneAssumption
  <2>4. SoundInv'
    BY <2>1, <2>2 DEF DInv, SoundInv, InPlace, Fixed
  <2>5. Progress'
    BY <2>1, <2>2, <2>3 DEF DInv, Progress, Settled
  <2>6. QED
    BY <2>2, <2>4, <2>5, DiskUntouched DEF DInv
<1>7. CASE ConcatAndPromote
  <2>0. PICK s \in cfg.selected : s = current.strategy
    BY <1>7 DEF ConcatAndPromote, At, TInv, TypeOK
  <2>1. /\ pc = "merging" /\ current # None
        /\ UNCHANGED <<card, cfg, pc, reason, lost>>
    BY <1>7 DEF ConcatAndPromote, At, Unmoved, TInv, TypeOK
  <2>2. file' = [file EXCEPT ![Name(cfg, s)] = Made(cfg, s)] /\ current' = [current EXCEPT !.stage = "measure"]
    BY <1>7, <2>0 DEF ConcatAndPromote, Output, Stage
  <2>3. /\ current'.strategy = s /\ current' # None
        /\ file'[Name(cfg, s)] = Made(cfg, s)
        /\ \A o \in Outputs \ {Name(cfg, s)} : file'[o] = file[o]
    <3>1. current' \in Taken /\ current'.strategy = s
      BY <1>a, <2>0, <2>1, <2>2 DEF TInv, TypeOK, Taken, Stages
    <3>2. QED
      BY <1>a, <2>1, <2>2, <3>1, NoneAssumption DEF TInv, TypeOK
  <2>4. CardsInv'
    BY <2>1 DEF DInv, CardsInv, Backed
  <2>5. FilesInv'
    <3> SUFFICES ASSUME NEW o \in Outputs, card[o] # None, file'[o] # None
                 PROVE  Vouched(o)' \/ Promoted(o)'
      BY <2>1 DEF FilesInv
    <3>1. CASE o = Name(cfg, s)
      BY <2>1, <2>3, <3>1 DEF Promoted
    <3>2. CASE o # Name(cfg, s)
      <4>1. file'[o] = file[o]
        BY <2>3, <3>2
      <4>2. (Vouched(o)' <=> Vouched(o)) /\ (Promoted(o)' <=> Promoted(o))
        BY <2>1, <4>1 DEF Vouched, Promoted
      <4>3. QED
        BY <4>1, <4>2 DEF DInv, FilesInv
    <3>3. QED
      BY <3>1, <3>2
  <2>6. \A t \in cfg.selected : t # s => Name(cfg, t) \in Outputs \ {Name(cfg, s)}
    BY <1>a, NamesApart
  <2>7. SoundInv'
    <3>1. \A t \in DOMAIN reason : InPlace(reason[t]) => file'[Name(cfg, t)] = Made(cfg, t)
      <4> SUFFICES ASSUME NEW t \in DOMAIN reason, InPlace(reason[t])
                   PROVE  file'[Name(cfg, t)] = Made(cfg, t)
        OBVIOUS
      <4>1. file[Name(cfg, t)] = Made(cfg, t) /\ t \in cfg.selected
        BY DEF DInv, SoundInv, TInv, TypeOK
      <4>2. QED
        BY <2>3, <2>6, <4>1
    <3>2. QED
      BY <2>1, <2>3, <3>1 DEF SoundInv, InPlace, Fixed
  <2>8. Progress'
    <3> SUFFICES ASSUME NEW t \in cfg.selected, t \notin DOMAIN reason, t \notin lost, t # s
                 PROVE  Settled(t)'
      BY <2>1, <2>3 DEF Progress
    <3>1. Settled(t)
      BY <2>0, <2>1 DEF DInv, Progress
    <3>2. file'[Name(cfg, t)] = file[Name(cfg, t)]
      BY <2>3, <2>6
    <3>3. QED
      BY <2>1, <3>1, <3>2 DEF Settled
  <2>9. QED
    BY <2>1, <2>4, <2>5, <2>7, <2>8 DEF DInv, Blank, Own, Ended
<1>8. CASE MeasureAndSave
  <2>0. PICK s \in cfg.selected : s = current.strategy
    BY <1>8 DEF MeasureAndSave, At, TInv, TypeOK
  <2>1. /\ pc = "merging" /\ current # None /\ current.stage = "measure"
        /\ UNCHANGED <<file, cfg, pc, reason, lost>> /\ current' = None
    BY <1>8 DEF MeasureAndSave, At, Unmoved, TInv, TypeOK
  <2>2. PICK metrics \in Metrics(Name(cfg, s)) :
           card' = [card EXCEPT ![Name(cfg, s)] = Compose(cfg, s, metrics)]
    BY <1>8, <2>0 DEF MeasureAndSave, Output
  <2>3. file[Name(cfg, s)] = Made(cfg, s) /\ file[Name(cfg, s)] # None
    BY <2>0, <2>1 DEF DInv, SoundInv, TInv, Present
  <2>4. Compose(cfg, s, metrics) # None
    BY <2>1, <2>2, <2>3, ComposeType, NoneAssumption DEF TInv
  <2>5. /\ card'[Name(cfg, s)] = [identity |-> Identity(cfg, s), metrics |-> metrics]
        /\ card'[Name(cfg, s)] # None
        /\ \A o \in Outputs \ {Name(cfg, s)} : card'[o] = card[o]
    BY <1>a, <2>1, <2>2, <2>4 DEF Compose, TInv, TypeOK
  <2>6. Settled(s)'
    BY <2>1, <2>3, <2>5 DEF Settled
  <2>7. metrics \in {None, [of |-> Made(cfg, s), sampling |-> cfg.sampling]}
    BY <2>2, <2>3 DEF Metrics
  <2>8. CardsInv'
    <3> SUFFICES ASSUME NEW o \in Outputs, card'[o] # None PROVE Backed(o)'
      BY DEF CardsInv
    <3>1. CASE o = Name(cfg, s)
      BY <1>a, <2>1, <2>5, <2>7, <3>1 DEF Backed
    <3>2. CASE o # Name(cfg, s)
      <4>1. card'[o] = card[o]
        BY <2>5, <3>2
      <4>2. Backed(o)
        BY <4>1 DEF DInv, CardsInv
      <4>3. QED
        BY <4>1, <4>2 DEF Backed
    <3>3. QED
      BY <3>1, <3>2
  <2>9. FilesInv'
    <3> SUFFICES ASSUME NEW o \in Outputs, card'[o] # None, file[o] # None
                 PROVE  Vouched(o)' \/ Promoted(o)'
      BY <2>1 DEF FilesInv
    <3>1. CASE o = Name(cfg, s)
      BY <2>1, <2>3, <3>1 DEF Promoted
    <3>2. CASE o # Name(cfg, s)
      <4>1. card'[o] = card[o]
        BY <2>5, <3>2
      <4>2. (Vouched(o)' <=> Vouched(o)) /\ (Promoted(o)' <=> Promoted(o))
        BY <2>1, <4>1 DEF Vouched, Promoted
      <4>3. QED
        BY <4>1, <4>2 DEF DInv, FilesInv
    <3>3. QED
      BY <3>1, <3>2
  <2>10. SoundInv'
    BY <2>1 DEF DInv, SoundInv, InPlace, Fixed
  <2>11. Progress'
    <3> SUFFICES ASSUME NEW t \in cfg.selected, t \notin DOMAIN reason, t \notin lost
                 PROVE  Settled(t)'
      BY <2>1 DEF Progress
    <3>1. CASE t = s
      BY <2>6, <3>1
    <3>2. CASE t # s
      <4>1. Settled(t)
        BY <2>0, <2>1, <3>2 DEF DInv, Progress
      <4>2. card'[Name(cfg, t)] = card[Name(cfg, t)]
        BY <1>a, <2>5, <3>2, NamesApart
      <4>3. QED
        BY <2>1, <4>1, <4>2 DEF Settled
    <3>3. QED
      BY <3>1, <3>2
  <2>12. QED
    BY <2>1, <2>8, <2>9, <2>10, <2>11 DEF DInv, Blank, Own, Ended
<1>9. CASE StrategyFails
  <2>1. /\ lost' = lost \cup {current.strategy} /\ current' = None
        /\ UNCHANGED <<file, card, cfg, pc, reason>>
    BY <1>9 DEF StrategyFails, disk, Unmoved
  <2>2. Progress'
    BY <2>1 DEF DInv, Progress, Settled
  <2>3. SoundInv'
    BY <2>1 DEF DInv, SoundInv, InPlace, Fixed
  <2>4. QED
    BY <2>1, <2>2, <2>3, DiskUntouched DEF DInv
<1>10. CASE Refuse
  <2>1. /\ pc' = "failed" /\ current' = None /\ DOMAIN reason' = {}
        /\ UNCHANGED <<file, card, cfg>>
    BY <1>10 DEF Refuse, disk, NoReason
  <2>2. QED
    BY <2>1, DiskUntouched DEF DInv, SoundInv, Progress
<1>11. CASE Conclude
  <2>1. /\ pc = "merging" /\ current = None /\ DOMAIN reason = {}
        /\ pc' \in {"done", "failed"} /\ (pc' = "done" => lost = {})
        /\ UNCHANGED <<file, card, cfg, reason, current>>
    BY <1>11 DEF Conclude, disk
  <2>2. \A s \in cfg.selected : Settled(s)' <=> Settled(s)
    BY <2>1 DEF Settled
  <2>3. pc' = "done" => \A s \in cfg.selected : Settled(s)
    BY <2>1 DEF DInv, Progress
  <2>4. CardsInv'
    BY <2>1 DEF DInv, CardsInv, Backed
  <2>5. FilesInv'
    <3> SUFFICES ASSUME NEW o \in Outputs, card[o] # None, file[o] # None
                 PROVE  Vouched(o)' \/ (pc' # "done" /\ Promoted(o)')
      BY <2>1 DEF FilesInv
    <3>1. (Vouched(o)' <=> Vouched(o)) /\ (Promoted(o)' <=> Promoted(o))
      BY <2>1 DEF Vouched, Promoted
    <3>2. Vouched(o) \/ Promoted(o)
      BY DEF DInv, FilesInv
    <3>3. CASE pc' = "done" /\ Promoted(o)
      BY <2>3, <3>1, <3>3, SettledIsVouched DEF Promoted
    <3>4. QED
      BY <3>1, <3>2, <3>3
  <2>6. QED
    BY <2>1, <2>2, <2>3, <2>4, <2>5 DEF DInv, Blank, Own, SoundInv, Progress, Ended
<1>12. CASE UNCHANGED vars
  <2>1. UNCHANGED <<file, card, cfg, pc, reason, current, lost>>
    BY <1>12 DEF vars
  <2>2. SoundInv' /\ Progress'
    BY <2>1 DEF DInv, SoundInv, InPlace, Fixed, Progress, Settled
  <2>3. QED
    BY <2>1, <2>2, DiskUntouched DEF DInv
<1>13. QED
  BY <1>1, <1>2, <1>3, <1>4, <1>5, <1>6, <1>7, <1>8, <1>9, <1>10, <1>11, <1>12 DEF Next, Work

\* Every reachable state has it.
LEMMA Delivering ==
    ASSUME "repeated" \in Assumed
    PROVE  Spec => [](TInv /\ DInv)
<1>1. Init => TInv /\ DInv
  BY InitTInv, InitDInv
<1>2. TInv /\ DInv /\ [Next]_vars => (TInv /\ DInv)'
  BY StepTInv, StepDInv
<1>3. QED
  BY <1>1, <1>2, PTL DEF Spec

\* When what was killed or has failed is repeated before anything else, a run that
\* succeeds has delivered the concatenation of its own winners, for every strategy.
THEOREM DeliversCurrent ==
    ASSUME "repeated" \in Assumed
    PROVE  Spec => []DeliveredCurrent
<1>1. DInv => DeliveredCurrent
  BY DEF DInv, Ended, Settled, DeliveredCurrent
<1>2. QED
  BY Delivering, <1>1, PTL

\* And the sidecars of its outputs hold metrics of these very files, under its own
\* sampling, or none.
THEOREM MetricsAreTrue ==
    ASSUME "repeated" \in Assumed
    PROVE  Spec => []MetricsTrue
<1>1. TInv /\ DInv => MetricsTrue
  <2> SUFFICES ASSUME TInv, DInv, pc = "done", NEW s \in cfg.selected
               PROVE  LET o == Name(cfg, s)
                      IN  /\ card[o] # None
                          /\ card[o].metrics \in {None, [of |-> file[o], sampling |-> cfg.sampling]}
    BY DEF MetricsTrue
  <2> DEFINE o == Name(cfg, s)
  <2>1. s \in DOMAIN cfg.knob /\ o \in Outputs
    BY InPlan, Members DEF TInv, TypeOK
  <2>2. card[o] # None /\ card[o].identity = Identity(cfg, s) /\ file[o] = Made(cfg, s)
    BY DEF DInv, Ended, Settled
  <2>3. PICK k \in Configs : \E t \in DOMAIN k.knob :
           /\ Name(k, t) = o /\ card[o].identity = Identity(k, t)
           /\ card[o].metrics \in {None, [of |-> Made(k, t), sampling |-> k.sampling]}
    BY <2>1, <2>2 DEF DInv, CardsInv, Backed
  <2>4. PICK t \in DOMAIN k.knob :
           /\ Name(k, t) = o /\ card[o].identity = Identity(k, t)
           /\ card[o].metrics \in {None, [of |-> Made(k, t), sampling |-> k.sampling]}
    BY <2>3
  <2>5. Identity(k, t) = Identity(cfg, s)
    BY <2>2, <2>4
  <2>6. k.sampling = cfg.sampling
    BY <2>5 DEF Identity
  <2>7. Made(k, t) = Made(cfg, s)
    BY <2>1, <2>4, <2>5, <2>6, IdentityDecides
  <2>8. QED
    BY <2>2, <2>4, <2>6, <2>7
<1>2. QED
  BY Delivering, <1>1, PTL
--------------------------------------------------------------------------------
(* Deletion.                                                               *)

\* Only a run with the permission wipes.
WipeInv == pc = "wipe" => cfg.force

\* Every reachable state has it.
LEMMA Wiping == Spec => []WipeInv
<1>1. Init => WipeInv
  BY DEF Init, WipeInv
<1>2. WipeInv /\ [Next]_vars => WipeInv'
  <2> SUFFICES ASSUME WipeInv, [Next]_vars PROVE WipeInv'
    OBVIOUS
  <2>1. ASSUME NEW k \in Configs, Start(k) PROVE WipeInv'
    BY <2>1 DEF Start, WipeInv
  <2>2. CASE Kill
    BY <2>2 DEF Kill, WipeInv
  <2>3. CASE Scan
    BY <2>3 DEF Scan, Permitted, WipeInv
  <2>4. CASE Wipe
    BY <2>4 DEF Wipe, WipeInv
  <2>5. CASE Recover
    BY <2>5 DEF Recover, WipeInv
  <2>6. CASE Take \/ ConcatAndPromote \/ MeasureAndSave \/ StrategyFails
    BY <2>6 DEF Take, ConcatAndPromote, MeasureAndSave, StrategyFails, Unmoved, WipeInv
  <2>7. CASE Refuse \/ Conclude
    BY <2>7 DEF Refuse, Conclude, WipeInv
  <2>8. CASE UNCHANGED vars
    BY <2>8 DEF vars, WipeInv
  <2>9. QED
    BY <2>1, <2>2, <2>3, <2>4, <2>5, <2>6, <2>7, <2>8 DEF Next, Work
<1>3. QED
  BY <1>1, <1>2, PTL DEF Spec

\* A deliverable is deleted by no run but one with the permission to.
THEOREM KeepsDeliverables == Spec => DeliverablesKept
<1> DEFINE Kept == \A o \in Outputs : file[o] # None /\ file'[o] = None => cfg.force
<1>1. TInv /\ WipeInv /\ [Next]_vars => [Kept]_vars
  <2> SUFFICES ASSUME TInv, WipeInv, Next PROVE Kept
    OBVIOUS
  <2>1. CASE \E k \in Configs : Start(k)
    BY <2>1 DEF Start, disk
  <2>2. CASE Kill \/ Scan \/ Recover \/ Take \/ MeasureAndSave \/ StrategyFails \/ Refuse \/ Conclude
    BY <2>2 DEF Kill, Scan, Recover, Take, MeasureAndSave, StrategyFails, Refuse, Conclude, disk
  <2>3. CASE Wipe
    BY <2>3 DEF Wipe, WipeInv
  <2>4. CASE ConcatAndPromote
    <3>1. /\ current.strategy \in cfg.selected
          /\ file' = [file EXCEPT ![Name(cfg, current.strategy)] = Made(cfg, current.strategy)]
      BY <2>4 DEF ConcatAndPromote, At, Output, TInv, TypeOK
    <3>2. Made(cfg, current.strategy) # None
      BY <3>1, InPlan, Members, NoneAssumption DEF TInv, TypeOK
    <3>3. QED
      BY <3>1, <3>2 DEF TInv, TypeOK
  <2>5. QED
    BY <2>1, <2>2, <2>3, <2>4 DEF Next, Work
<1>2. QED
  BY Typed, Wiping, <1>1, PTL DEF Spec, DeliverablesKept
--------------------------------------------------------------------------------
(* Repetition.                                                             *)

\* Past the scan every sidecar is of the source of the run.
OneSource == pc \in {"recover", "merging", "done"} => Foreign = {}
\* What a run has dealt with and not lost is accepted, and at its end that is all.
Handled   == pc = "merging" => \A s \in cfg.selected :
                 \/ s \in DOMAIN reason \/ s \in lost
                 \/ current # None /\ current.strategy = s
                 \/ Pending(cfg, s) = None
Finished  == pc = "done" => \A s \in cfg.selected : Pending(cfg, s) = None
\* A run that repeats one finds everything accepted, and never enters the loop.
Repeating ==
    replay => /\ ~worked /\ pc \in {"scan", "recover", "done", "killed"}
              /\ pc \in {"scan", "recover"} =>
                     Foreign = {} /\ \A s \in cfg.selected : Pending(cfg, s) = None
RInv == OneSource /\ Handled /\ Finished /\ Repeating

\* While disk and configuration stay, so does what is accepted and what is foreign.
LEMMA SameDisk ==
    ASSUME UNCHANGED <<file, card, cfg>>
    PROVE  Foreign' = Foreign /\ \A s : Pending(cfg, s)' = Pending(cfg, s)
BY DEF Foreign, Pending, Mismatch, Contradicted

\* A saved sidecar accepts its output, and disturbs no other.
LEMMA SavedIsAccepted ==
    ASSUME TInv, MeasureAndSave, NEW t, t = current.strategy
    PROVE  /\ Foreign = {} => Foreign' = {}
           /\ Pending(cfg, t)' = None
           /\ \A s \in cfg.selected \ {t} : Pending(cfg, s)' = Pending(cfg, s)
<1>1. cfg \in Configs /\ current # None /\ t \in cfg.selected /\ t \in DOMAIN cfg.knob
  BY InPlan DEF MeasureAndSave, At, TInv, TypeOK
<1>2. file[Name(cfg, t)] # None /\ UNCHANGED <<file, cfg>>
  BY <1>1 DEF MeasureAndSave, At, TInv, Present, Unmoved
<1>3. PICK metrics \in Metrics(Name(cfg, t)) :
         card' = [card EXCEPT ![Name(cfg, t)] = Compose(cfg, t, metrics)]
  BY DEF MeasureAndSave, Output
<1>4. Compose(cfg, t, metrics) \in Cards /\ Compose(cfg, t, metrics) # None
  BY <1>1, <1>2, ComposeType, NoneAssumption DEF TInv
<1>5. Name(cfg, t) \in Outputs /\ card \in [Outputs -> Cards \cup {None}]
  BY <1>1, Members DEF TInv, TypeOK
<1>6. /\ card'[Name(cfg, t)] = Compose(cfg, t, metrics)
      /\ \A o \in Outputs \ {Name(cfg, t)} : card'[o] = card[o]
  BY <1>3, <1>5
<1>7. Compose(cfg, t, metrics).identity = Identity(cfg, t)
  BY DEF Compose
<1>8. Foreign = {} => Foreign' = {}
  <2>1. Identity(cfg, t).source = cfg.source
    BY DEF Identity
  <2> QED  BY <1>2, <1>6, <1>7, <2>1 DEF Foreign
<1>9. Pending(cfg, t)' = None
  <2>1. card'[Name(cfg, t)].identity = Identity(cfg, t) /\ card'[Name(cfg, t)] # None
    BY <1>4, <1>6, <1>7
  <2> QED  BY <1>2, <2>1 DEF Pending, Mismatch, Contradicted
<1>10. ASSUME NEW s \in cfg.selected \ {t}
       PROVE  Pending(cfg, s)' = Pending(cfg, s)
  <2>1. Name(cfg, s) # Name(cfg, t) /\ Name(cfg, s) \in Outputs
    BY <1>1, InPlan, Members, NamesApart
  <2>2. card'[Name(cfg, s)] = card[Name(cfg, s)]
    BY <1>6, <2>1
  <2> QED  BY <1>2, <2>2 DEF Pending, Mismatch, Contradicted
<1> QED  BY <1>8, <1>9, <1>10

LEMMA StepRInv == TInv /\ RInv /\ [Next]_vars => RInv'
<1> SUFFICES ASSUME TInv, RInv, [Next]_vars PROVE RInv'
  OBVIOUS
<1>1. ASSUME NEW k \in Configs, Start(k) PROVE RInv'
  <2>1. pc' = "scan" /\ cfg' = k /\ worked' = FALSE /\ replay' = (pc = "done" /\ k = cfg)
        /\ UNCHANGED <<file, card>>
    BY <1>1 DEF Start, disk
  <2>2. CASE replay'
    <3>1. pc = "done" /\ UNCHANGED <<file, card, cfg>>
      BY <2>1, <2>2
    <3>2. Foreign' = {} /\ \A s \in cfg.selected : Pending(cfg, s)' = None
      BY <3>1, SameDisk DEF RInv, OneSource, Finished
    <3> QED  BY <2>1, <3>1, <3>2 DEF RInv, OneSource, Handled, Finished, Repeating
  <2>3. CASE ~replay'
    BY <2>1, <2>3 DEF RInv, OneSource, Handled, Finished, Repeating
  <2> QED  BY <2>2, <2>3
<1>2. CASE Kill
  BY <1>2 DEF Kill, RInv, OneSource, Handled, Finished, Repeating
<1>3. CASE Scan
  <2>1. pc = "scan" /\ UNCHANGED <<file, card, cfg, worked, replay>>
        /\ pc' \in {"recover", "wipe", "failed"} /\ (pc' = "recover" <=> Foreign = {})
    BY <1>3 DEF Scan, disk
  <2>2. Foreign' = Foreign /\ \A s : Pending(cfg, s)' = Pending(cfg, s)
    BY <2>1, SameDisk
  <2> QED  BY <2>1, <2>2 DEF RInv, OneSource, Handled, Finished, Repeating
<1>4. CASE Wipe
  <2>1. pc = "wipe" /\ pc' \in {"wipe", "recover"} /\ UNCHANGED <<cfg, worked, replay>>
        /\ (pc' = "recover" => UNCHANGED card /\ \A o \in Outputs : card[o] = None)
    BY <1>4 DEF Wipe, disk
  <2>2. pc' = "recover" => Foreign' = {}
    BY <2>1 DEF Foreign
  <2> QED  BY <2>1, <2>2 DEF RInv, OneSource, Handled, Finished, Repeating
<1>5. CASE Recover
  <2>1. /\ pc = "recover" /\ UNCHANGED <<file, card, cfg, worked, replay>>
        /\ DOMAIN reason' = {s \in cfg.selected : Pending(cfg, s) # None}
        /\ pc' = IF DOMAIN reason' = {} THEN "done" ELSE "merging"
    BY <1>5 DEF Recover, disk, Wanted
  <2>2. Foreign' = Foreign /\ \A s : Pending(cfg, s)' = Pending(cfg, s)
    BY <2>1, SameDisk
  <2> QED  BY <2>1, <2>2 DEF RInv, OneSource, Handled, Finished, Repeating
<1>6. CASE Take
  <2>1. PICK s \in DOMAIN reason :
           /\ current' = [strategy |-> s, stage |-> IF InPlace(reason[s]) THEN "measure" ELSE "concat"]
           /\ reason' = [t \in DOMAIN reason \ {s} |-> reason[t]]
    BY <1>6 DEF Take
  <2>2. UNCHANGED <<file, card, cfg, pc, worked, replay, lost>> /\ current = None /\ pc = "merging"
    BY <1>6 DEF Take, disk, Unmoved
  <2>3. Foreign' = Foreign /\ \A t : Pending(cfg, t)' = Pending(cfg, t)
    BY <2>2, SameDisk
  <2>4. current'.strategy = s /\ current' # None
    <3>1. current' \in Taken
      <4>1. s \in UNION {DOMAIN k.knob : k \in Configs}
        BY InPlan DEF TInv, TypeOK
      <4> QED  BY <2>1, <4>1 DEF Taken, Stages
    <3> QED  BY <2>1, <3>1, NoneAssumption
  <2>5. \A t \in DOMAIN reason : t \in DOMAIN reason' \/ t = s
    BY <2>1
  <2> QED  BY <2>2, <2>3, <2>4, <2>5 DEF RInv, OneSource, Handled, Finished, Repeating
<1>7. CASE ConcatAndPromote
  <2>1. /\ pc = "merging" /\ current # None /\ UNCHANGED <<card, reason, lost, cfg, pc, replay>>
        /\ current' = [current EXCEPT !.stage = "measure"]
        /\ file' = [file EXCEPT ![Name(cfg, current.strategy)] = Made(cfg, current.strategy)]
    BY <1>7 DEF ConcatAndPromote, At, Unmoved, Stage, Output
  <2>2. current \in [strategy : cfg.selected, stage : Stages] /\ cfg \in Configs
    BY <2>1 DEF TInv, TypeOK
  <2>3. current'.strategy = current.strategy /\ current' # None
    <3>1. current' \in [strategy : cfg.selected, stage : Stages]
      BY <2>1, <2>2 DEF Stages
    <3>2. current' \in Taken
      BY <2>2, <3>1, InPlan DEF Taken
    <3> QED  BY <2>1, <2>2, <3>2, NoneAssumption
  <2>4. \A s \in cfg.selected \ {current.strategy} : Pending(cfg, s)' = Pending(cfg, s)
    <3> SUFFICES ASSUME NEW s \in cfg.selected \ {current.strategy}
                 PROVE  Pending(cfg, s)' = Pending(cfg, s)
      OBVIOUS
    <3>1. Name(cfg, s) # Name(cfg, current.strategy) /\ Name(cfg, s) \in Outputs
      BY <2>2, InPlan, Members, NamesApart
    <3>2. file'[Name(cfg, s)] = file[Name(cfg, s)]
      BY <2>1, <3>1 DEF TInv, TypeOK
    <3> QED  BY <2>1, <3>2 DEF Pending, Mismatch, Contradicted
  <2>5. Foreign' = Foreign
    BY <2>1 DEF Foreign
  <2> QED  BY <2>1, <2>3, <2>4, <2>5 DEF RInv, OneSource, Handled, Finished, Repeating
<1>8. CASE MeasureAndSave
  <2>1. pc = "merging" /\ current' = None /\ UNCHANGED <<reason, lost, cfg, pc, replay>>
    BY <1>8 DEF MeasureAndSave, At, Unmoved
  <2>2. PICK t : t = current.strategy
    OBVIOUS
  <2>3. /\ Foreign = {} => Foreign' = {}
        /\ Pending(cfg, t)' = None
        /\ \A s \in cfg.selected \ {t} : Pending(cfg, s)' = Pending(cfg, s)
    BY <1>8, <2>2, SavedIsAccepted
  <2> QED  BY <2>1, <2>2, <2>3 DEF RInv, OneSource, Handled, Finished, Repeating
<1>9. CASE StrategyFails
  <2>1. pc = "merging" /\ lost' = lost \cup {current.strategy} /\ current' = None
        /\ UNCHANGED <<file, card, reason, cfg, pc, replay>>
    BY <1>9 DEF StrategyFails, disk, Unmoved
  <2> QED  BY <2>1, SameDisk DEF RInv, OneSource, Handled, Finished, Repeating
<1>10. CASE Refuse
  BY <1>10 DEF Refuse, At, RInv, OneSource, Handled, Finished, Repeating
<1>11. CASE Conclude
  <2>1. /\ pc = "merging" /\ current = None /\ DOMAIN reason = {}
        /\ pc' = IF lost = {} THEN "done" ELSE "failed"
        /\ UNCHANGED <<file, card, cfg, replay>>
    BY <1>11 DEF Conclude, disk
  <2> QED  BY <2>1, SameDisk DEF RInv, OneSource, Handled, Finished, Repeating
<1>12. CASE UNCHANGED vars
  BY <1>12, SameDisk DEF vars, RInv, OneSource, Handled, Finished, Repeating
<1> QED
  BY <1>1, <1>2, <1>3, <1>4, <1>5, <1>6, <1>7, <1>8, <1>9, <1>10, <1>11, <1>12 DEF Next, Work

\* Whatever was killed, failed and reconfigured before, with or without the user's
\* repeating it: _recover accepts all that a concluded run of this configuration left.
THEOREM Repeats == Spec => []ReplayIsFree
<1>1. Init => RInv
  BY DEF Init, RInv, OneSource, Handled, Finished, Repeating
<1>2. RInv => ReplayIsFree
  BY DEF RInv, Repeating, ReplayIsFree
<1> QED  BY <1>1, <1>2, Typed, StepRInv, PTL DEF Spec
================================================================================
