--------------------------- MODULE PhaseRunner_proofs ---------------------------
(***************************************************************************)
(* The walk over the dependencies, for every graph of phases and every     *)
(* command: no phase is executed twice in a run, a failure fails all that  *)
(* was reached and needs it, what is reported complete stands until the    *)
(* run is over, and deep cleanup comes after all of it.  The graph may     *)
(* even have cycles, on which the walk would not end.                      *)
(***************************************************************************)
EXTENDS PhaseRunner, TLAPS

Frames == [phase : Phases, step : Steps, dep : Nat \ {0}, failed : BOOLEAN, pending : BOOLEAN]

WalkTypes ==
    /\ cmd \in Commands /\ next \in DOMAIN cmd.targets
    /\ stack \in Seq(Frames)
    /\ result \in [Phases -> Outcomes \cup {None}]
    /\ ran \in [Phases -> Nat]

\* A frame has read the results of the dependencies it has passed, has noted what failed
\* or is pending among them, and is at its hooks only when it has passed all and noted nothing.
Noticing ==
    \A i \in DOMAIN stack :
        LET f == stack[i] IN
        /\ \A k \in DOMAIN DependsOn[f.phase] : k < f.dep =>
              /\ result[DependsOn[f.phase][k]] # None
              /\ result[DependsOn[f.phase][k]] = "FAILED" => f.failed
              /\ result[DependsOn[f.phase][k]] = "PENDING" => f.pending
        /\ f.step # "deps" => f.dep > Len(DependsOn[f.phase]) /\ ~f.failed /\ ~f.pending

\* Below the top each frame waits for the dependency that is the next frame.
Calling ==
    \A i \in DOMAIN stack : i < Len(stack) =>
        /\ stack[i].dep \in DOMAIN DependsOn[stack[i].phase]
        /\ DependsOn[stack[i].phase][stack[i].dep] = stack[i + 1].phase

\* What is under way has no result, and what has one has those it needs.
Unfinished == \A i \in DOMAIN stack : result[stack[i].phase] = None
Settled    == \A p \in Phases : result[p] # None => \A d \in Deps(p) : result[d] # None

\* A phase is executed on the way to its result.
Once == \A p \in Phases : ran[p] <= 1 /\ (result[p] = None => ran[p] = 0)

\* A complete result rests on complete results.
Whole == \A p \in Phases : result[p] \in Complete => \A d \in Deps(p) : result[d] \in Complete

Inv == /\ WalkTypes
       /\ Noticing /\ Calling /\ Unfinished /\ Settled /\ Whole
       /\ Once /\ FailureCascades
walk == <<cmd, next, stack, result, ran>>
--------------------------------------------------------------------------------
LEMMA InitInv == Init => Inv
<1> SUFFICES ASSUME Init PROVE Inv
  OBVIOUS
<1>1. WalkTypes
  BY RunnerAssumption DEF Init, WalkTypes
<1>2. DOMAIN stack = {}
  BY DEF Init
<1>3. \A p \in Phases : result[p] = None /\ ran[p] = 0
  BY DEF Init
<1>4. Once /\ Settled /\ Whole /\ FailureCascades
  BY <1>3, NoneAssumption DEF Once, Settled, Whole, FailureCascades, Outcomes
<1> QED  BY <1>1, <1>2, <1>4 DEF Inv, Noticing, Calling, Unfinished

LEMMA StutterInv == Inv /\ UNCHANGED walk => Inv'
BY DEF Inv, walk, WalkTypes, Noticing, Calling, Unfinished, Settled, Whole, Once, FailureCascades

\* The walk is abandoned, or one has ended.
LEMMA EmptiedInv ==
    ASSUME Inv, stack' = <<>>, UNCHANGED <<cmd, result, ran>>, next' \in DOMAIN cmd.targets
    PROVE  Inv'
<1>1. DOMAIN stack' = {}
  OBVIOUS
<1>2. WalkTypes'
  BY DEF Inv, WalkTypes
<1> QED  BY <1>1, <1>2 DEF Inv, Noticing, Calling, Unfinished, Settled, Whole, Once, FailureCascades
--------------------------------------------------------------------------------
(* The steps of a call.                                                    *)

\* The hooks are reached, or the next of them.
Advances(step) ==
    /\ stack # <<>> /\ Top.dep > Len(DependsOn[Self]) /\ ~Top.failed /\ ~Top.pending
    /\ step \in Steps /\ Proceed(step)
    /\ UNCHANGED <<cmd, next, ran>>

\* The call returns, the phase perhaps executed, which a noted failure prevents.
Finishes(outcome) ==
    /\ stack # <<>> /\ Top.dep > Len(DependsOn[Self]) /\ outcome \in Outcomes
    /\ Conclude(outcome)
    /\ ran' \in {ran, [ran EXCEPT ![Self] = @ + 1]}
    /\ Top.failed => outcome = "FAILED" /\ ran' = ran
    /\ Top.pending => outcome \notin Complete
    /\ UNCHANGED <<cmd, next>>

LEMMA TopFrame ==
    ASSUME Inv, stack # <<>>
    PROVE  /\ Len(stack) \in DOMAIN stack /\ Len(stack) \in Nat \ {0}
           /\ DOMAIN stack = 1 .. Len(stack)
           /\ Top = stack[Len(stack)] /\ Top \in Frames
           /\ Self \in Phases /\ DependsOn[Self] \in Seq(Phases)
<1>1. stack \in Seq(Frames)
  BY DEF Inv, WalkTypes
<1>2. Len(stack) \in DOMAIN stack /\ DOMAIN stack = 1 .. Len(stack) /\ Len(stack) \in Nat \ {0}
  BY <1>1
<1>3. Top = stack[Len(stack)]
  BY DEF Top, Last
<1>4. Top \in Frames
  BY <1>1, <1>2, <1>3
<1> QED  BY <1>2, <1>3, <1>4, RunnerAssumption DEF Self, Frames

\* The top frame is replaced by one of the same phase that has noticed all it has passed.
LEMMA ReplacedInv ==
    ASSUME Inv, stack # <<>>, UNCHANGED <<cmd, next, result, ran>>,
           NEW f \in Frames, stack' = SetTop(f), f.phase = Self,
           \A k \in DOMAIN DependsOn[Self] : k < f.dep =>
              /\ result[DependsOn[Self][k]] # None
              /\ result[DependsOn[Self][k]] = "FAILED" => f.failed
              /\ result[DependsOn[Self][k]] = "PENDING" => f.pending,
           f.step # "deps" => f.dep > Len(DependsOn[Self]) /\ ~f.failed /\ ~f.pending
    PROVE  Inv'
<1>1. /\ stack' \in Seq(Frames) /\ Len(stack') = Len(stack) /\ DOMAIN stack' = DOMAIN stack
      /\ stack'[Len(stack)] = f
      /\ \A i \in DOMAIN stack : i # Len(stack) => stack'[i] = stack[i]
  BY TopFrame DEF Inv, WalkTypes, SetTop
<1>2. \A i \in DOMAIN stack : stack'[i].phase = stack[i].phase
  BY <1>1, TopFrame DEF Self
<1>3. WalkTypes'
  BY <1>1 DEF Inv, WalkTypes
<1>4. Noticing'
  BY <1>1, <1>2 DEF Inv, Noticing
<1>5. Calling'
  <2> SUFFICES ASSUME NEW i \in DOMAIN stack, i < Len(stack)
               PROVE  /\ stack'[i].dep \in DOMAIN DependsOn[stack'[i].phase]
                      /\ DependsOn[stack'[i].phase][stack'[i].dep] = stack'[i + 1].phase
    BY <1>1 DEF Calling
  <2>1. i + 1 \in DOMAIN stack /\ stack'[i] = stack[i]
    BY <1>1, TopFrame
  <2> QED  BY <2>1, <1>2 DEF Inv, Calling
<1>6. Unfinished'
  BY <1>1, <1>2 DEF Inv, Unfinished
<1>7. Settled' /\ Whole' /\ Once' /\ FailureCascades'
  BY DEF Inv, Settled, Whole, Once, FailureCascades
<1> QED  BY <1>3, <1>4, <1>5, <1>6, <1>7 DEF Inv

LEMMA AdvancesInv ==
    ASSUME Inv, NEW step, Advances(step)
    PROVE  Inv'
<1> DEFINE f == [Top EXCEPT !.step = step]
<1>1. Top \in Frames /\ Self \in Phases /\ Len(stack) \in DOMAIN stack /\ Top = stack[Len(stack)]
  BY TopFrame DEF Advances
<1>2. f \in Frames /\ f.phase = Self /\ f.dep = Top.dep /\ f.failed = Top.failed /\ f.step = step
      /\ f.pending = Top.pending
  BY <1>1 DEF Frames, Advances, Self
<1>3. stack' = SetTop(f) /\ UNCHANGED <<cmd, next, result, ran>> /\ stack # <<>>
  BY DEF Advances, Proceed
<1>4. \A k \in DOMAIN DependsOn[Self] : k < f.dep =>
              /\ result[DependsOn[Self][k]] # None
              /\ result[DependsOn[Self][k]] = "FAILED" => f.failed
              /\ result[DependsOn[Self][k]] = "PENDING" => f.pending
  BY <1>1, <1>2 DEF Inv, Noticing, Self
<1>5. f.dep > Len(DependsOn[Self]) /\ ~f.failed /\ ~f.pending
  BY <1>2 DEF Advances
<1> HIDE DEF f
<1> QED  BY <1>2, <1>3, <1>4, <1>5, ReplacedInv

\* When a call has passed all dependencies, no other call of its phase is under way.
LEMMA AloneOnStack ==
    ASSUME Inv, stack # <<>>, Top.dep > Len(DependsOn[Self])
    PROVE  /\ \A d \in Deps(Self) : /\ result[d] # None
                                    /\ result[d] = "FAILED" => Top.failed
                                    /\ result[d] = "PENDING" => Top.pending
           /\ \A i \in DOMAIN stack : i < Len(stack) => stack[i].phase # Self
           /\ Self \notin Deps(Self)
<1>1. /\ Top \in Frames /\ Self \in Phases /\ DOMAIN stack = 1 .. Len(stack) /\ Top = stack[Len(stack)]
      /\ DependsOn[Self] \in Seq(Phases) /\ Len(stack) \in Nat \ {0}
  BY TopFrame
<1>2. \A k \in DOMAIN DependsOn[Self] : k < Top.dep
  BY <1>1 DEF Frames
<1>3. \A d \in Deps(Self) : /\ result[d] # None
                            /\ result[d] = "FAILED" => Top.failed
                            /\ result[d] = "PENDING" => Top.pending
  BY <1>1, <1>2 DEF Deps, ToSet, Inv, Noticing, Self
<1>4. \A i \in DOMAIN stack : i < Len(stack) => stack[i].phase # Self
  <2> SUFFICES ASSUME NEW i \in DOMAIN stack, i < Len(stack), stack[i].phase = Self PROVE FALSE
    OBVIOUS
  <2>1. stack[i + 1].phase \in Deps(Self)
    BY DEF Inv, Calling, Deps, ToSet
  <2>2. i + 1 \in DOMAIN stack
    BY <1>1
  <2> QED  BY <2>1, <2>2, <1>3 DEF Inv, Unfinished
<1>5. result[Self] = None
  BY <1>1 DEF Inv, Unfinished, Self
<1> QED  BY <1>3, <1>4, <1>5

LEMMA FinishesInv ==
    ASSUME Inv, NEW outcome, Finishes(outcome)
    PROVE  Inv'
<1>1. /\ Top \in Frames /\ Self \in Phases /\ DOMAIN stack = 1 .. Len(stack) /\ Top = stack[Len(stack)]
      /\ DependsOn[Self] \in Seq(Phases) /\ Len(stack) \in Nat \ {0}
  BY TopFrame DEF Finishes
<1>2. /\ \A d \in Deps(Self) : /\ result[d] # None
                               /\ result[d] = "FAILED" => Top.failed
                               /\ result[d] = "PENDING" => Top.pending
      /\ \A i \in DOMAIN stack : i < Len(stack) => stack[i].phase # Self
      /\ Self \notin Deps(Self)
  BY AloneOnStack DEF Finishes
<1>3. /\ stack' \in Seq(Frames) /\ Len(stack') = Len(stack) - 1 /\ DOMAIN stack' = 1 .. Len(stack) - 1
      /\ \A i \in DOMAIN stack' : stack'[i] = stack[i]
  BY <1>1 DEF Finishes, Conclude, Front, Inv, WalkTypes
<1>4. /\ result[Self] = None /\ result'[Self] = outcome /\ outcome # None
      /\ \A p \in Phases : p # Self => result'[p] = result[p]
      /\ result' \in [Phases -> Outcomes \cup {None}]
  <2>1. result \in [Phases -> Outcomes \cup {None}] /\ result[Self] = None
    BY <1>1 DEF Inv, Unfinished, WalkTypes, Self
  <2>2. result' = [result EXCEPT ![Self] = outcome] /\ outcome \in Outcomes
    BY DEF Finishes, Conclude
  <2> QED  BY <1>1, <2>1, <2>2, NoneAssumption
<1>5. /\ ran'[Self] <= 1 /\ (Top.failed => ran'[Self] = 0)
      /\ \A p \in Phases : p # Self => ran'[p] = ran[p]
      /\ ran' \in [Phases -> Nat]
  <2>1. ran' \in {ran, [ran EXCEPT ![Self] = @ + 1]} /\ (Top.failed => ran' = ran)
    BY DEF Finishes
  <2>2. ran \in [Phases -> Nat] /\ ran[Self] = 0
    BY <1>1, <1>4 DEF Inv, Once, WalkTypes
  <2> QED  BY <1>1, <2>1, <2>2
<1>0. \A i \in DOMAIN stack : /\ stack[i] \in Frames /\ stack[i].phase \in Phases
                              /\ DependsOn[stack[i].phase] \in Seq(Phases)
  <2>1. \A i \in DOMAIN stack : stack[i] \in Frames
    BY DEF Inv, WalkTypes
  <2> QED  BY <2>1, RunnerAssumption DEF Frames
<1>6. WalkTypes'
  BY <1>3, <1>4, <1>5 DEF Inv, WalkTypes, Finishes
<1>7. Noticing'
  <2> SUFFICES ASSUME NEW i \in DOMAIN stack'
               PROVE  LET f == stack[i] IN
                      /\ \A k \in DOMAIN DependsOn[f.phase] : k < f.dep =>
                            /\ result'[DependsOn[f.phase][k]] # None
                            /\ result'[DependsOn[f.phase][k]] = "FAILED" => f.failed
                            /\ result'[DependsOn[f.phase][k]] = "PENDING" => f.pending
                      /\ f.step # "deps" => f.dep > Len(DependsOn[f.phase]) /\ ~f.failed /\ ~f.pending
    BY <1>3 DEF Noticing
  <2>1. i \in DOMAIN stack /\ stack[i] \in Frames /\ DependsOn[stack[i].phase] \in Seq(Phases)
    BY <1>0, <1>1, <1>3
  <2>2. \A k \in DOMAIN DependsOn[stack[i].phase] : DependsOn[stack[i].phase][k] \in Phases
    BY <2>1
  <2> QED  BY <2>1, <2>2, <1>4 DEF Inv, Noticing
<1>8. Calling'
  BY <1>1, <1>3 DEF Inv, Calling
<1>9. Unfinished'
  <2> SUFFICES ASSUME NEW i \in DOMAIN stack' PROVE result'[stack[i].phase] = None
    BY <1>3 DEF Unfinished
  <2>1. i \in DOMAIN stack /\ i < Len(stack) /\ stack[i].phase \in Phases
    BY <1>0, <1>1, <1>3
  <2> QED  BY <2>1, <1>2, <1>4 DEF Inv, Unfinished
<1>10. \A p \in Phases : Deps(p) \subseteq Phases
  BY RunnerAssumption DEF Deps, ToSet
<1>11. Settled'
  <2> SUFFICES ASSUME NEW p \in Phases, result'[p] # None, NEW d \in Deps(p)
               PROVE  result'[d] # None
    BY DEF Settled
  <2>1. d \in Phases
    BY <1>10
  <2> QED  BY <2>1, <1>2, <1>4 DEF Inv, Settled
<1>12. Once'
  BY <1>4, <1>5 DEF Inv, Once
<1>13. FailureCascades'
  <2> SUFFICES ASSUME NEW p \in Phases, result'[p] = "FAILED", NEW d \in Phases, p \in Deps(d)
               PROVE  result'[d] \in {None, "FAILED"} /\ ran'[d] = 0
    BY DEF FailureCascades, Dependents
  <2>1. CASE p = Self
    <3>1. d # Self /\ result[d] = None
      BY <2>1, <1>2, <1>4 DEF Inv, Settled
    <3> QED  BY <3>1, <1>4, <1>5 DEF Inv, Once
  <2>2. CASE p # Self /\ d = Self
    BY <2>2, <1>2, <1>4, <1>5 DEF Finishes
  <2>3. CASE p # Self /\ d # Self
    BY <2>3, <1>4, <1>5 DEF Inv, FailureCascades, Dependents
  <2> QED  BY <2>1, <2>2, <2>3
<1>14. Whole'
  <2>1. \A d \in Phases : result[d] \in Outcomes \cup {None}
    BY DEF Inv, WalkTypes
  <2> SUFFICES ASSUME NEW p \in Phases, result'[p] \in Complete, NEW d \in Deps(p)
               PROVE  result'[d] \in Complete
    BY DEF Whole
  <2>2. d \in Phases
    BY <1>10
  <2>3. None \notin Complete
    BY NoneAssumption DEF Outcomes
  <2>4. CASE p = Self
    <3>1. ~Top.failed /\ ~Top.pending
      BY <2>4, <1>4 DEF Finishes, Complete
    <3>2. result[d] \in Complete
      BY <3>1, <2>1, <2>2, <2>4, <1>2 DEF Outcomes
    <3> QED  BY <3>2, <2>2, <2>3, <1>4
  <2>5. CASE p # Self
    <3>1. result[d] \in Complete
      BY <2>5, <1>4 DEF Inv, Whole
    <3> QED  BY <3>1, <2>2, <2>3, <1>4
  <2> QED  BY <2>4, <2>5
<1> QED  BY <1>6, <1>7, <1>8, <1>9, <1>11, <1>12, <1>13, <1>14 DEF Inv
--------------------------------------------------------------------------------
(* The steps of the specification.                                         *)

\* A call begins: of a terminal, or of a dependency that has no result yet.
LEMMA CalledInv ==
    ASSUME Inv, NEW d \in Phases, result[d] = None, UNCHANGED <<cmd, next, result, ran>>,
           stack' = Append(stack, Frame(d)),
           stack # <<>> => Top.dep \in DOMAIN DependsOn[Self] /\ DependsOn[Self][Top.dep] = d
    PROVE  Inv'
<1>1. stack \in Seq(Frames) /\ Frame(d) \in Frames /\ Frame(d).phase = d
      /\ Frame(d).step = "deps" /\ Frame(d).dep = 1
  BY DEF Inv, WalkTypes, Frame, Frames, Steps
<1>2. /\ stack' \in Seq(Frames) /\ Len(stack') = Len(stack) + 1 /\ Len(stack) \in Nat
      /\ DOMAIN stack = 1 .. Len(stack) /\ DOMAIN stack' = 1 .. Len(stack) + 1
      /\ stack'[Len(stack) + 1] = Frame(d)
      /\ \A i \in DOMAIN stack : stack'[i] = stack[i]
  BY <1>1
<1>3. WalkTypes'
  BY <1>2 DEF Inv, WalkTypes
<1>4. DependsOn[d] \in Seq(Phases)
  BY RunnerAssumption
<1>5. Noticing'
  BY <1>1, <1>2, <1>4 DEF Inv, Noticing
<1>6. Calling'
  <2> SUFFICES ASSUME NEW i \in DOMAIN stack
               PROVE  /\ stack[i].dep \in DOMAIN DependsOn[stack[i].phase]
                      /\ DependsOn[stack[i].phase][stack[i].dep] = stack'[i + 1].phase
    BY <1>2 DEF Calling
  <2>1. CASE i < Len(stack)
    <3>1. i + 1 \in DOMAIN stack
      BY <1>2, <2>1
    <3> QED  BY <1>2, <2>1, <3>1 DEF Inv, Calling
  <2>2. CASE i = Len(stack)
    BY <1>1, <1>2, <2>2, TopFrame DEF Self
  <2> QED  BY <1>2, <2>1, <2>2
<1>7. Unfinished'
  BY <1>1, <1>2 DEF Inv, Unfinished
<1>8. Settled' /\ Whole' /\ Once' /\ FailureCascades'
  BY DEF Inv, Settled, Whole, Once, FailureCascades
<1> QED  BY <1>3, <1>5, <1>6, <1>7, <1>8 DEF Inv

LEMMA StartInv == Inv /\ Start => Inv'
<1> SUFFICES ASSUME Inv, Start PROVE Inv'
  OBVIOUS
<1>1. \A p \in Phases : result'[p] = None /\ ran'[p] = 0
  BY DEF Start
<1>2. WalkTypes'
  BY RunnerAssumption DEF Start, WalkTypes
<1>3. DOMAIN stack' = {}
  BY DEF Start
<1>4. Once' /\ Settled' /\ Whole' /\ FailureCascades'
  BY <1>1, NoneAssumption DEF Once, Settled, Whole, FailureCascades, Outcomes
<1> QED  BY <1>2, <1>3, <1>4 DEF Inv, Noticing, Calling, Unfinished

LEMMA DriveInv == Inv /\ Drive => Inv'
<1> SUFFICES ASSUME Inv, Drive PROVE Inv'
  OBVIOUS
<1>1. Target \in Phases
  BY RunnerAssumption DEF Inv, WalkTypes, Target
<1>2. stack' = Append(stack, Frame(Target)) /\ stack = <<>> /\ result[Target] = None
  BY DEF Drive
<1>3. UNCHANGED <<cmd, next, result, ran>>
  BY DEF Drive
<1> DEFINE d == Target
<1> HIDE DEF d
<1>4. d \in Phases /\ stack' = Append(stack, Frame(d)) /\ result[d] = None
  BY <1>1, <1>2 DEF d
<1>5. stack # <<>> => Top.dep \in DOMAIN DependsOn[Self] /\ DependsOn[Self][Top.dep] = d
  BY <1>2
<1> QED  BY <1>3, <1>4, <1>5, CalledInv

LEMMA JudgeInv == Inv /\ Judge => Inv'
<1> SUFFICES ASSUME Inv, Judge PROVE Inv'
  OBVIOUS
<1>1. cmd.targets \in Seq(Phases) /\ next \in DOMAIN cmd.targets
  BY RunnerAssumption DEF Inv, WalkTypes
<1>2. next' \in DOMAIN cmd.targets /\ stack' = <<>> /\ UNCHANGED <<cmd, result, ran>>
  BY <1>1 DEF Judge, GoesOn
<1> QED  BY <1>2, EmptiedInv

LEMMA EnsureInv == Inv /\ EnsureDependency => Inv'
<1> SUFFICES ASSUME Inv, EnsureDependency PROVE Inv'
  OBVIOUS
<1> DEFINE d == DependsOn[Self][Top.dep]
<1>1. /\ Top \in Frames /\ Self \in Phases /\ DependsOn[Self] \in Seq(Phases) /\ stack # <<>>
      /\ Top = stack[Len(stack)] /\ Len(stack) \in DOMAIN stack /\ Top.step = "deps"
  BY TopFrame DEF EnsureDependency, At
<1>2. Top.dep \in DOMAIN DependsOn[Self] /\ d \in Phases /\ Top.dep \in Nat
  BY <1>1 DEF EnsureDependency, Frames
<1>3. CASE Unresolved(d)
  <2>1. stack' = Append(stack, Frame(d)) /\ result[d] = None /\ UNCHANGED <<cmd, next, result, ran>>
    BY <1>3 DEF EnsureDependency, Unresolved
  <2> HIDE DEF d
  <2>2. DependsOn[Self][Top.dep] = d
    BY DEF d
  <2> QED  BY <1>2, <2>1, <2>2, CalledInv
<1>4. CASE ~Unresolved(d)
  <2> DEFINE f == Noted(Top, d)
  <2>1. /\ stack' = SetTop(f) /\ result[d] # None /\ UNCHANGED <<cmd, next, result, ran>>
    BY <1>4 DEF EnsureDependency, Unresolved
  <2>2. /\ f \in Frames /\ f.phase = Self /\ f.dep = Top.dep + 1 /\ f.step = "deps"
        /\ f.failed = (Top.failed \/ result[d] = "FAILED")
        /\ f.pending = (Top.pending \/ result[d] = "PENDING")
    <3> DEFINE fails == Top.failed \/ result[d] = "FAILED"
               waits == Top.pending \/ result[d] = "PENDING"
    <3>1. fails \in BOOLEAN /\ waits \in BOOLEAN /\ Top.dep + 1 \in Nat \ {0}
      BY <1>2
    <3>2. f = [Top EXCEPT !.dep = Top.dep + 1, !.failed = fails, !.pending = waits]
      BY <1>1 DEF Noted, Frames
    <3> HIDE DEF fails, waits
    <3>3. /\ f \in Frames /\ f.phase = Self /\ f.dep = Top.dep + 1 /\ f.step = "deps" /\ f.failed = fails
          /\ f.pending = waits
      BY <1>1, <3>1, <3>2 DEF Frames, Self
    <3> QED  BY <3>3 DEF fails, waits
  <2>3. \A k \in DOMAIN DependsOn[Self] : k < Top.dep =>
              /\ result[DependsOn[Self][k]] # None
              /\ result[DependsOn[Self][k]] = "FAILED" => Top.failed
              /\ result[DependsOn[Self][k]] = "PENDING" => Top.pending
    BY <1>1 DEF Inv, Noticing, Self
  <2>4. \A k \in DOMAIN DependsOn[Self] : k < f.dep => k < Top.dep \/ k = Top.dep
    BY <1>1, <1>2, <2>2
  <2> HIDE DEF f
  <2>5. \A k \in DOMAIN DependsOn[Self] : k < f.dep =>
              /\ result[DependsOn[Self][k]] # None
              /\ result[DependsOn[Self][k]] = "FAILED" => f.failed
              /\ result[DependsOn[Self][k]] = "PENDING" => f.pending
    BY <2>1, <2>2, <2>3, <2>4
  <2> QED  BY <1>1, <2>1, <2>2, <2>5, ReplacedInv
<1> QED  BY <1>3, <1>4

LEMMA ResolveInv == Inv /\ Resolve => Inv'
<1> SUFFICES ASSUME Inv, Resolve PROVE Inv'
  OBVIOUS
<1>1. /\ stack # <<>> /\ Top.dep > Len(DependsOn[Self]) /\ UNCHANGED <<cmd, next, ran>>
      /\ Top.failed \in BOOLEAN /\ Top.pending \in BOOLEAN
  BY TopFrame DEF Resolve, At, Frames
<1>2. CASE Top.failed
  <2>0. Conclude("FAILED")
    BY <1>1, <1>2 DEF Resolve, Conclude
  <2>1. Finishes("FAILED")
    <3>1. ran' = ran /\ "FAILED" \in Outcomes
      BY <1>1 DEF Outcomes
    <3> QED  BY <1>1, <1>2, <2>0, <3>1 DEF Finishes, Complete
  <2> QED  BY <2>1, FinishesInv
<1>3. CASE ~Top.failed /\ Top.pending
  <2>1. Finishes("PENDING")
    BY <1>1, <1>3 DEF Resolve, Finishes, Outcomes, Complete
  <2> QED  BY <2>1, FinishesInv
<1>4. CASE ~Top.failed /\ ~Top.pending
  <2>1. Advances("skip")
    BY <1>1, <1>4 DEF Resolve, Advances, Steps
  <2> QED  BY <2>1, AdvancesInv
<1> QED  BY <1>2, <1>3, <1>4

\* At a hook all dependencies have been passed, and none of them failed or is pending.
LEMMA AtHook ==
    ASSUME Inv, NEW step \in Steps, step # "deps", At(step)
    PROVE  stack # <<>> /\ Top.dep > Len(DependsOn[Self]) /\ ~Top.failed /\ ~Top.pending
BY TopFrame DEF At, Inv, Noticing, Self

LEMMA HookInv ==
    ASSUME Inv, NEW step \in Steps, step # "deps", At(step), UNCHANGED <<cmd, next>>,
           \/ \E s \in Steps : Proceed(s) /\ ran' = ran
           \/ \E o \in Outcomes : Conclude(o) /\ ran' \in {ran, [ran EXCEPT ![Self] = @ + 1]}
    PROVE  Inv'
<1>1. stack # <<>> /\ Top.dep > Len(DependsOn[Self]) /\ ~Top.failed /\ ~Top.pending
  BY AtHook
<1>2. ASSUME NEW s \in Steps, Proceed(s), ran' = ran PROVE Inv'
  <2>1. Advances(s)
    BY <1>1, <1>2 DEF Advances
  <2> QED  BY <2>1, AdvancesInv
<1>3. ASSUME NEW o \in Outcomes, Conclude(o), ran' \in {ran, [ran EXCEPT ![Self] = @ + 1]} PROVE Inv'
  <2>1. Finishes(o)
    BY <1>1, <1>3 DEF Finishes
  <2> QED  BY <2>1, FinishesInv
<1> QED  BY <1>2, <1>3

LEMMA NextInv == Inv /\ [Next]_vars => Inv'
<1> SUFFICES ASSUME Inv, [Next]_vars PROVE Inv'
  OBVIOUS
<1>1. CASE Start  BY <1>1, StartInv
<1>2. CASE Edit
  BY <1>2, StutterInv DEF Edit, walk
<1>3. CASE Kill \/ Escape
  <2>1. stack' = <<>> /\ UNCHANGED <<cmd, result, ran, next>>
    BY <1>3 DEF Kill, Escape
  <2> QED  BY <2>1, EmptiedInv DEF Inv, WalkTypes
<1>4. CASE Drive  BY <1>4, DriveInv
<1>5. CASE Judge  BY <1>5, JudgeInv
<1>6. CASE Close \/ Finalize
  BY <1>6, StutterInv DEF Close, Finalize, walk
<1>7. CASE EnsureDependency  BY <1>7, EnsureInv
<1>8. CASE Resolve  BY <1>8, ResolveInv
<1>9. CASE Skip
  <2>1. /\ At("skip") /\ UNCHANGED <<cmd, next, ran>>
        /\ Conclude("REUSED") \/ Proceed("invalidate")
    BY <1>9 DEF Skip
  <2> QED  BY <2>1, HookInv DEF Steps, Outcomes, Complete
<1>10. CASE Invalidate
  <2>1. /\ At("invalidate") /\ UNCHANGED <<cmd, next, ran>>
        /\ Conclude("FAILED") \/ Proceed("recover")
    BY <1>10 DEF Invalidate
  <2> QED  BY <2>1, HookInv DEF Steps, Outcomes
<1>11. CASE Recover
  <2>1. /\ At("recover") /\ UNCHANGED <<cmd, next, ran>>
        /\ Conclude("FAILED") \/ Conclude("REUSED") \/ Conclude("PENDING") \/ Proceed("execute")
    BY <1>11 DEF Recover
  <2> QED  BY <2>1, HookInv DEF Steps, Outcomes, Complete
<1>12. CASE Execute
  <2>1. /\ At("execute") /\ UNCHANGED <<cmd, next>>
        /\ Conclude("COMPLETED") /\ ran' = [ran EXCEPT ![Self] = @ + 1]
    BY <1>12 DEF Execute
  <2> QED  BY <2>1, HookInv DEF Steps, Outcomes, Complete
<1>13. CASE ExecuteFails
  <2>1. /\ At("execute") /\ UNCHANGED <<cmd, next>>
        /\ Conclude("FAILED") /\ ran' = [ran EXCEPT ![Self] = @ + 1]
    BY <1>13 DEF ExecuteFails
  <2> QED  BY <2>1, HookInv DEF Steps, Outcomes
<1>14. CASE UNCHANGED vars
  BY <1>14, StutterInv DEF vars, walk
<1> QED
  BY <1>1, <1>2, <1>3, <1>4, <1>5, <1>6, <1>7, <1>8, <1>9, <1>10, <1>11, <1>12, <1>13, <1>14
  DEF Next, Work

\* Whatever the graph of the phases and the command, Phase.run's cached result keeps
\* a phase that several dependents and terminals reach from being executed twice.
THEOREM ExecutesOnce == Spec => []ExecutedOnce
<1>1. Inv => ExecutedOnce  BY DEF Inv, Once, ExecutedOnce
<1> QED  BY <1>1, InitInv, NextInv, PTL DEF Spec

\* Whatever the graph of the phases and the command, _ensure_dependencies lets nothing
\* that needs a failed phase execute or count as anything but failed.
THEOREM FailsWhole == Spec => []FailureCascades
<1>1. Inv => FailureCascades  BY DEF Inv
<1> QED  BY <1>1, InitInv, NextInv, PTL DEF Spec
--------------------------------------------------------------------------------
(* What the results of a run say of the disk.                              *)

\* What is complete on disk has a recorded key.
DiskTypes ==
    /\ ctl \in {"idle", "drive", "close", "finalize"}
    /\ disk \in [Phases -> [done : BOOLEAN, key : Keys]]
    /\ \A p \in Phases : disk[p].done => disk[p].key # "absent"

\* A phase past its invalidation meets no difference, and one that executes in a
\* preview is a read-only one.
Compared ==
    /\ stack # <<>> => ctl = "drive"
    /\ stack # <<>> /\ Top.step \in {"recover", "execute"} => ~Differs(Self)
    /\ stack # <<>> /\ Top.step = "execute" /\ cmd.dry => Self \in Readonly

\* ResultsStand, until finalize is through.
Stands ==
    (ctl # "idle" /\ ~(cmd.dry /\ cmd.skip))
        => \A p \in Phases \ (IF cmd.dry THEN Readonly ELSE {}) :
              result[p] \in Complete => Backed(p)

\* The terminals that were driven in an execute run are complete.
Driven ==
    (ctl # "idle" /\ ~cmd.dry) => \A i \in 1 .. next - 1 : result[cmd.targets[i]] \in Complete

DiskInv == DiskTypes /\ Compared /\ Stands /\ Driven

LEMMA InitDisk == Init => DiskInv
<1> SUFFICES ASSUME Init PROVE DiskInv
  OBVIOUS
<1>1. DiskTypes
  <2>1. CASE disk = [p \in Phases |-> [done |-> FALSE, key |-> "absent"]]
    BY <2>1 DEF Init, DiskTypes, Keys
  <2>2. CASE disk = [p \in Phases |-> [done |-> TRUE, key |-> "current"]]
    BY <2>2 DEF Init, DiskTypes, Keys
  <2> QED  BY <2>1, <2>2 DEF Init
<1>2. stack = <<>> /\ ctl = "idle"
  BY DEF Init
<1> QED  BY <1>1, <1>2 DEF DiskInv, Compared, Stands, Driven

\* Only the top frame can be at a hook.
LEMMA BelowTop ==
    ASSUME Inv, NEW i \in DOMAIN stack, i < Len(stack)
    PROVE  stack[i].step = "deps"
<1>1. stack[i] \in Frames
  BY DEF Inv, WalkTypes
<1>2. DependsOn[stack[i].phase] \in Seq(Phases)
  BY <1>1, RunnerAssumption DEF Frames
<1>3. stack[i].dep <= Len(DependsOn[stack[i].phase])
  BY <1>1, <1>2 DEF Inv, Calling, Frames
<1> QED  BY <1>1, <1>2, <1>3 DEF Inv, Noticing, Frames

LEMMA Returned ==
    ASSUME Inv, stack # <<>>, NEW outcome, Conclude(outcome), stack' # <<>>
    PROVE  Top'.step = "deps"
<1>1. stack \in Seq(Frames) /\ Len(stack) \in Nat \ {0}
  BY TopFrame DEF Inv, WalkTypes
<1>2. stack' = [i \in 1 .. Len(stack) - 1 |-> stack[i]]
  BY DEF Conclude, Front
<1>3. Len(stack') = Len(stack) - 1 /\ Len(stack) - 1 \in DOMAIN stack /\ Len(stack) - 1 > 0
  BY <1>1, <1>2
<1>4. Top' = stack[Len(stack) - 1]
  BY <1>1, <1>2, <1>3 DEF Top, Last
<1> QED  BY <1>1, <1>3, <1>4, BelowTop

LEMMA Proceeded ==
    ASSUME Inv, stack # <<>>, NEW step, Proceed(step)
    PROVE  stack' # <<>> /\ Top'.step = step /\ Self' = Self
<1> DEFINE f == [Top EXCEPT !.step = step]
<1>1. stack \in Seq(Frames) /\ Len(stack) \in DOMAIN stack /\ Top \in Frames
  BY TopFrame DEF Inv, WalkTypes
<1>2. f.step = step /\ f.phase = Self
  BY <1>1 DEF Frames, Self
<1>3. stack' = SetTop(f)
  BY DEF Proceed
<1> HIDE DEF f
<1>4. Len(stack') = Len(stack) /\ stack'[Len(stack)] = f /\ stack' # <<>>
  BY <1>1, <1>3 DEF SetTop
<1>5. Top' = f
  BY <1>4 DEF Top, Last
<1> QED  BY <1>2, <1>4, <1>5 DEF Self

\* What a running phase does to the disk disturbs the results that stand only if it
\* reaches a phase that is neither itself, nor needs it, nor is spent.
LEMMA HookStands ==
    ASSUME Inv, DiskInv, NEW step \in Steps, step # "deps", At(step), UNCHANGED <<cmd, ctl, next>>,
           NEW p, p = Self,
           \A q \in Phases \ {p} : p \notin Deps(q) =>
                /\ disk'[q].key = disk[q].key
                /\ disk'[q].done = disk[q].done \/ Spent(q),
           \/ UNCHANGED result
           \/ \E o \in Outcomes : /\ Conclude(o)
                                  /\ \/ o \notin Complete
                                     \/ Backed(p)'
                                     \/ cmd.dry /\ (cmd.skip \/ p \in Readonly)
    PROVE  Stands' /\ Driven'
<1>1. stack # <<>> /\ Top.dep > Len(DependsOn[p]) /\ p \in Phases /\ p = Top.phase
  BY AtHook, TopFrame DEF Self
<1>2. result[p] = None /\ \A q \in Phases : p \in Deps(q) => result[q] = None
  BY <1>1, TopFrame DEF Inv, Unfinished, Settled, Self
<1>3. None \notin Complete /\ Complete \subseteq Outcomes
  BY NoneAssumption DEF Outcomes
<1>4. result \in [Phases -> Outcomes \cup {None}]
  BY DEF Inv, WalkTypes
<1>5. \A q \in Phases \ {p} : result'[q] = result[q]
  BY <1>4 DEF Conclude
<1>6. \A q \in Phases : Spent(q)' = Spent(q)
  BY DEF Spent
<1>7. \A q \in Phases \ {p} : result'[q] \in Complete => p \notin Deps(q)
  BY <1>2, <1>3, <1>5
<1>8. \A q \in Phases \ {p} : result'[q] \in Complete => (Backed(q) => Backed(q)')
  BY <1>6, <1>7 DEF Backed
<1>9. ctl = "drive"
  BY DEF At
<1>10. Stands'
  <2> SUFFICES ASSUME ~(cmd.dry /\ cmd.skip),
                      NEW q \in Phases \ (IF cmd.dry THEN Readonly ELSE {}), result'[q] \in Complete
               PROVE  Backed(q)'
    BY DEF Stands
  <2>1. CASE q # p
    BY <2>1, <1>5, <1>8, <1>9 DEF DiskInv, Stands
  <2>2. CASE q = p
    <3>1. PICK o \in Outcomes : /\ Conclude(o)
                                /\ \/ o \notin Complete
                                   \/ Backed(p)'
                                   \/ cmd.dry /\ (cmd.skip \/ p \in Readonly)
      BY <2>2, <1>2, <1>3
    <3>2. result'[p] = o
      BY <3>1, <1>1, <1>4 DEF Conclude
    <3>3. ~(cmd.dry /\ p \in Readonly) /\ o \in Complete
      BY <2>2, <3>2
    <3> QED  BY <2>2, <3>1, <3>3
  <2> QED  BY <2>1, <2>2
<1>11. Driven'
  <2> SUFFICES ASSUME ~cmd.dry, NEW i \in 1 .. next - 1
               PROVE  result'[cmd.targets[i]] \in Complete
    BY DEF Driven
  <2>1. result[cmd.targets[i]] \in Complete
    BY <1>9 DEF DiskInv, Driven
  <2>2. cmd.targets[i] \in Phases
    <3>1. cmd.targets \in Seq(Phases) /\ next \in DOMAIN cmd.targets
      BY RunnerAssumption DEF Inv, WalkTypes
    <3> QED  BY <3>1
  <2> QED  BY <2>1, <2>2, <1>2, <1>3, <1>5
<1> QED  BY <1>10, <1>11

\* A call returns, or goes on to its next hook, with what a hook may assume.
LEMMA HookCompares ==
    ASSUME Inv, DiskInv, NEW step \in Steps, step # "deps", At(step), UNCHANGED <<cmd, ctl>>,
           \/ \E o \in Outcomes : Conclude(o)
           \/ \E s \in Steps : /\ Proceed(s)
                               /\ s \in {"recover", "execute"} => ~Differs(Self)'
                               /\ s = "execute" /\ cmd.dry => Self \in Readonly
    PROVE  Compared'
<1>1. stack # <<>> /\ ctl = "drive"
  BY DEF At
<1>2. ASSUME NEW o \in Outcomes, Conclude(o) PROVE Compared'
  <2>1. stack' # <<>> => Top'.step = "deps"
    BY <1>1, <1>2, Returned
  <2> QED  BY <2>1, <1>1 DEF Compared
<1>3. ASSUME NEW s \in Steps, Proceed(s),
             s \in {"recover", "execute"} => ~Differs(Self)',
             s = "execute" /\ cmd.dry => Self \in Readonly
      PROVE  Compared'
  <2>1. Top'.step = s /\ Self' = Self
    BY <1>1, <1>3, Proceeded
  <2> QED  BY <2>1, <1>1, <1>3 DEF Compared
<1> QED  BY <1>2, <1>3

\* An invalidation leaves no difference, and touches nothing but dependents besides.
LEMMA InvalidationIs ==
    ASSUME DiskTypes, NEW p \in Phases
    PROVE  /\ Invalidated(p) \in [Phases -> [done : BOOLEAN, key : Keys]]
           /\ \A q \in Phases : Invalidated(p)[q].done => Invalidated(p)[q].key # "absent"
           /\ Invalidated(p)[p].key \notin {"rederive", "guarded"}
           /\ \A q \in Phases \ {p} : p \notin Deps(q) => Invalidated(p)[q] = disk[q]
<1>1. CASE ~Differs(p)
  BY <1>1 DEF Invalidated, Differs, DiskTypes
<1>2. CASE Differs(p)
  <2>1. /\ Invalidated(p)[p] = [done |-> p \in Rewriting, key |-> "current"]
        /\ \A q \in Wipes[p] \ {p} : q \in Phases => Invalidated(p)[q] = [disk[q] EXCEPT !.done = FALSE]
        /\ \A q \in Phases \ {p} : q \notin Wipes[p] => Invalidated(p)[q] = disk[q]
        /\ DOMAIN Invalidated(p) = Phases
        /\ Invalidated(p) = [q \in Phases |-> Invalidated(p)[q]]
    BY <1>2 DEF Invalidated
  <2>2. \A q \in Phases : disk[q] \in [done : BOOLEAN, key : Keys] /\ (disk[q].done => disk[q].key # "absent")
    BY DEF DiskTypes
  <2>3. [done |-> p \in Rewriting, key |-> "current"] \in [done : BOOLEAN, key : Keys]
    BY DEF Keys
  <2>4. \A q \in Phases : /\ Invalidated(p)[q] \in [done : BOOLEAN, key : Keys]
                          /\ Invalidated(p)[q].done => Invalidated(p)[q].key # "absent"
    <3> SUFFICES ASSUME NEW q \in Phases
                 PROVE  /\ Invalidated(p)[q] \in [done : BOOLEAN, key : Keys]
                        /\ Invalidated(p)[q].done => Invalidated(p)[q].key # "absent"
      OBVIOUS
    <3>1. CASE q = p
      BY <3>1, <2>1, <2>3
    <3>2. CASE q # p /\ q \in Wipes[p]
      <4>1. Invalidated(p)[q] = [disk[q] EXCEPT !.done = FALSE]
        BY <3>2, <2>1
      <4>2. disk[q] \in [done : BOOLEAN, key : Keys]
        BY <2>2
      <4> QED  BY <4>1, <4>2
    <3>3. CASE q # p /\ q \notin Wipes[p]
      BY <3>3, <2>1, <2>2
    <3> QED  BY <3>1, <3>2, <3>3
  <2>5. \A q \in Phases \ {p} : p \notin Deps(q) => q \notin Wipes[p]
    BY WipesAssumption
  <2> QED  BY <2>1, <2>4, <2>5
<1> QED  BY <1>1, <1>2

LEMMA SkipDisk == Inv /\ DiskInv /\ Skip => DiskInv'
<1> SUFFICES ASSUME Inv, DiskInv, Skip PROVE DiskInv'
  OBVIOUS
<1>1. At("skip") /\ "skip" \in Steps /\ UNCHANGED <<cmd, next, ctl>>
  BY DEF Skip, Steps
<1>2. PICK p \in Phases : p = Self
  BY <1>1, AtHook, TopFrame
<1>3. CASE Skips /\ ~cmd.dry
  <2>1. p \in Skippable /\ cmd.skip
    BY <1>2, <1>3 DEF Skips
  <2>2. /\ disk' = [Invalidated(p) EXCEPT ![p] = [done |-> FALSE, key |-> "current"]]
        /\ Conclude("REUSED")
    BY <1>2, <1>3 DEF Skip
  <2> DEFINE d == Invalidated(p)
  <2>3. /\ d \in [Phases -> [done : BOOLEAN, key : Keys]]
        /\ \A q \in Phases : d[q].done => d[q].key # "absent"
        /\ \A q \in Phases \ {p} : p \notin Deps(q) => d[q] = disk[q]
    BY InvalidationIs DEF DiskInv
  <2> HIDE DEF d
  <2>4. [done |-> FALSE, key |-> "current"] \in [done : BOOLEAN, key : Keys]
    BY DEF Keys
  <2>5. disk' = [d EXCEPT ![p] = [done |-> FALSE, key |-> "current"]]
    BY <2>2 DEF d
  <2>6. /\ disk' \in [Phases -> [done : BOOLEAN, key : Keys]]
        /\ disk'[p] = [done |-> FALSE, key |-> "current"]
        /\ \A q \in Phases \ {p} : disk'[q] = d[q]
    BY <2>3, <2>4, <2>5
  <2>7. DiskTypes'
    BY <1>1, <2>3, <2>6 DEF DiskInv, DiskTypes
  <2>8. Backed(p)'
    BY <1>1, <2>1, <2>6 DEF Backed, Spent
  <2>9. \A q \in Phases \ {p} : p \notin Deps(q) => /\ disk'[q].key = disk[q].key
                                                    /\ disk'[q].done = disk[q].done \/ Spent(q)
    BY <2>3, <2>6
  <2>10. "REUSED" \in Outcomes
    BY DEF Outcomes, Complete
  <2>11. Stands' /\ Driven'
    BY <1>1, <1>2, <2>2, <2>8, <2>9, <2>10, HookStands
  <2>12. Compared'
    BY <1>1, <2>2, <2>10, HookCompares
  <2> QED  BY <2>7, <2>11, <2>12 DEF DiskInv
<1>4. CASE ~(Skips /\ ~cmd.dry)
  <2>1. UNCHANGED disk /\ IF Skips THEN Conclude("REUSED") ELSE Proceed("invalidate")
    BY <1>4 DEF Skip
  <2>2. Skips => cmd.dry /\ cmd.skip
    BY <1>4 DEF Skips
  <2>3. "REUSED" \in Outcomes /\ "invalidate" \in Steps
    BY DEF Outcomes, Complete, Steps
  <2>4. Stands' /\ Driven'
    <3>1. CASE Skips
      BY <1>1, <1>2, <2>1, <2>2, <2>3, <3>1, HookStands
    <3>2. CASE ~Skips
      <4>1. UNCHANGED result
        BY <2>1, <3>2 DEF Proceed
      <4> QED  BY <1>1, <1>2, <2>1, <4>1, HookStands
    <3> QED  BY <3>1, <3>2
  <2>5. Compared'
    <3>1. CASE Skips
      BY <1>1, <2>1, <2>3, <3>1, HookCompares
    <3>2. CASE ~Skips
      BY <1>1, <2>1, <2>3, <3>2, HookCompares
    <3> QED  BY <3>1, <3>2
  <2>6. DiskTypes'
    BY <1>1, <2>1 DEF DiskInv, DiskTypes
  <2> QED  BY <2>4, <2>5, <2>6 DEF DiskInv
<1> QED  BY <1>3, <1>4

LEMMA InvalidateDisk == Inv /\ DiskInv /\ Invalidate => DiskInv'
<1> SUFFICES ASSUME Inv, DiskInv, Invalidate PROVE DiskInv'
  OBVIOUS
<1>1. At("invalidate") /\ "invalidate" \in Steps /\ UNCHANGED <<cmd, next, ctl>>
  BY DEF Invalidate, Steps
<1>2. PICK p \in Phases : p = Self
  BY <1>1, AtHook, TopFrame
<1>3. "FAILED" \in Outcomes \ Complete /\ "recover" \in Steps
  BY DEF Outcomes, Complete, Steps
<1>4. CASE Fatal(p)
  <2>1. UNCHANGED disk /\ Conclude("FAILED")
    BY <1>2, <1>4 DEF Invalidate
  <2>2. Stands' /\ Driven'
    BY <1>1, <1>2, <1>3, <2>1, HookStands
  <2>3. Compared'
    BY <1>1, <1>3, <2>1, HookCompares
  <2>4. DiskTypes'
    BY <1>1, <2>1 DEF DiskInv, DiskTypes
  <2> QED  BY <2>2, <2>3, <2>4 DEF DiskInv
<1>5. CASE ~Fatal(p)
  <2>1. disk' = Invalidated(p) /\ Proceed("recover")
    BY <1>2, <1>5 DEF Invalidate
  <2>2. /\ disk' \in [Phases -> [done : BOOLEAN, key : Keys]]
        /\ \A q \in Phases : disk'[q].done => disk'[q].key # "absent"
        /\ disk'[p].key \notin {"rederive", "guarded"}
        /\ \A q \in Phases \ {p} : p \notin Deps(q) => disk'[q] = disk[q]
    BY <2>1, InvalidationIs DEF DiskInv
  <2>3. DiskTypes'
    BY <1>1, <2>2 DEF DiskInv, DiskTypes
  <2>4. UNCHANGED result
    BY <2>1 DEF Proceed
  <2>5. Stands' /\ Driven'
    BY <1>1, <1>2, <2>2, <2>4, HookStands
  <2>6. Self' = p
    BY <1>1, <1>2, <1>3, <2>1, AtHook, Proceeded
  <2>7. ~Differs(Self)'
    BY <2>2, <2>6 DEF Differs
  <2>8. Compared'
    BY <1>1, <1>3, <2>1, <2>7, HookCompares
  <2> QED  BY <2>3, <2>5, <2>8 DEF DiskInv
<1> QED  BY <1>4, <1>5

LEMMA RecoverDisk == Inv /\ DiskInv /\ Recover => DiskInv'
<1> SUFFICES ASSUME Inv, DiskInv, Recover PROVE DiskInv'
  OBVIOUS
<1>1. At("recover") /\ "recover" \in Steps /\ UNCHANGED <<cmd, next, ctl>>
  BY DEF Recover, Steps
<1>2. PICK p \in Phases : p = Self
  BY <1>1, AtHook, TopFrame
<1>3. {"FAILED", "PENDING"} \subseteq Outcomes \ Complete /\ "REUSED" \in Outcomes /\ "execute" \in Steps
  BY DEF Outcomes, Complete, Steps
<1>4. CASE disk[p].key = "unusable"
  <2>1. UNCHANGED disk /\ Conclude("FAILED")
    BY <1>2, <1>4 DEF Recover
  <2>2. Stands' /\ Driven'
    BY <1>1, <1>2, <1>3, <2>1, HookStands
  <2>3. Compared'
    BY <1>1, <1>3, <2>1, HookCompares
  <2>4. DiskTypes'
    BY <1>1, <2>1 DEF DiskInv, DiskTypes
  <2> QED  BY <2>2, <2>3, <2>4 DEF DiskInv
<1>5. CASE disk[p].key # "unusable"
  <2>1. PICK gone \in SUBSET Prunes[p] :
              disk' = [q \in Phases |-> [disk[q] EXCEPT !.done = @ /\ q \notin gone]]
    BY <1>2, <1>5 DEF Recover
  <2>2. \A q \in Phases : disk[q] \in [done : BOOLEAN, key : Keys] /\ (disk[q].done => disk[q].key # "absent")
    BY DEF DiskInv, DiskTypes
  <2>3. \A q \in Phases : /\ disk'[q] \in [done : BOOLEAN, key : Keys]
                          /\ disk'[q].key = disk[q].key
                          /\ disk'[q].done = (disk[q].done /\ q \notin gone)
    <3> SUFFICES ASSUME NEW q \in Phases
                 PROVE  /\ disk'[q] \in [done : BOOLEAN, key : Keys]
                        /\ disk'[q].key = disk[q].key
                        /\ disk'[q].done = (disk[q].done /\ q \notin gone)
      OBVIOUS
    <3> DEFINE left == disk[q].done /\ q \notin gone
    <3>1. left \in BOOLEAN /\ disk[q] \in [done : BOOLEAN, key : Keys]
      BY <2>2
    <3>2. disk'[q] = [disk[q] EXCEPT !.done = left]
      BY <2>1
    <3>3. left = (disk[q].done /\ q \notin gone)
      OBVIOUS
    <3> HIDE DEF left
    <3>4. disk'[q] \in [done : BOOLEAN, key : Keys] /\ disk'[q].key = disk[q].key /\ disk'[q].done = left
      BY <3>1, <3>2
    <3> QED  BY <3>3, <3>4
  <2>4. DiskTypes'
    <3>1. disk' \in [Phases -> [done : BOOLEAN, key : Keys]]
      BY <2>1, <2>3
    <3>2. \A q \in Phases : disk'[q].done => disk'[q].key # "absent"
      BY <2>2, <2>3
    <3> QED  BY <1>1, <3>1, <3>2 DEF DiskInv, DiskTypes
  <2>5. \A q \in gone : Spent(q)
    BY DEF Spent
  <2>6. \A q \in Phases : disk'[q].done = disk[q].done \/ Spent(q)
    BY <2>2, <2>3, <2>5
  <2>7. \A q \in Phases \ {p} : p \notin Deps(q) => /\ disk'[q].key = disk[q].key
                                                    /\ disk'[q].done = disk[q].done \/ Spent(q)
    BY <2>3, <2>6
  <2>8. ~Differs(p)
    BY <1>1, <1>2, AtHook DEF At, DiskInv, Compared
  <2>9. CASE disk[p].done
    <3>1. Conclude("REUSED")
      BY <1>2, <1>5, <2>9 DEF Recover
    <3>2. disk[p].key = "current"
      BY <1>5, <2>2, <2>8, <2>9 DEF Differs, Keys
    <3>3. Spent(p)' = Spent(p)
      BY <1>1 DEF Spent
    <3>4. Backed(p)'
      BY <2>3, <2>6, <2>9, <3>2, <3>3 DEF Backed
    <3>5. Stands' /\ Driven'
      BY <1>1, <1>2, <1>3, <2>7, <3>1, <3>4, HookStands
    <3>6. Compared'
      BY <1>1, <1>3, <3>1, HookCompares
    <3> QED  BY <2>4, <3>5, <3>6 DEF DiskInv
  <2>10. CASE ~disk[p].done /\ Previews
    <3>1. Conclude("PENDING")
      BY <1>2, <1>5, <2>10 DEF Recover
    <3>2. Stands' /\ Driven'
      BY <1>1, <1>2, <1>3, <2>7, <3>1, HookStands
    <3>3. Compared'
      BY <1>1, <1>3, <3>1, HookCompares
    <3> QED  BY <2>4, <3>2, <3>3 DEF DiskInv
  <2>11. CASE ~disk[p].done /\ ~Previews
    <3>1. Proceed("execute")
      BY <1>2, <1>5, <2>11 DEF Recover
    <3>2. UNCHANGED result
      BY <3>1 DEF Proceed
    <3>3. Stands' /\ Driven'
      BY <1>1, <1>2, <2>7, <3>2, HookStands
    <3>4. Self' = p
      BY <1>1, <1>2, <1>3, <3>1, AtHook, Proceeded
    <3>5. ~Differs(Self)'
      BY <2>3, <2>8, <3>4 DEF Differs
    <3>6. cmd.dry => Self \in Readonly
      BY <2>11 DEF Previews
    <3>7. Compared'
      BY <1>1, <1>3, <3>1, <3>5, <3>6, HookCompares
    <3> QED  BY <2>4, <3>3, <3>7 DEF DiskInv
  <2> QED  BY <2>9, <2>10, <2>11
<1> QED  BY <1>4, <1>5

LEMMA ExecuteDisk == Inv /\ DiskInv /\ Execute => DiskInv'
<1> SUFFICES ASSUME Inv, DiskInv, Execute PROVE DiskInv'
  OBVIOUS
<1>1. At("execute") /\ "execute" \in Steps /\ UNCHANGED <<cmd, next, ctl>> /\ Conclude("COMPLETED")
  BY DEF Execute, Steps
<1>2. PICK p \in Phases : p = Self
  BY <1>1, AtHook, TopFrame
<1>3. "COMPLETED" \in Outcomes
  BY DEF Outcomes, Complete
<1>4. Compared'
  BY <1>1, <1>3, HookCompares
<1>5. CASE cmd.dry
  <2>1. UNCHANGED disk
    BY <1>5 DEF Execute
  <2>2. p \in Readonly
    BY <1>1, <1>2, <1>5, AtHook DEF At, DiskInv, Compared
  <2>3. Stands' /\ Driven'
    BY <1>1, <1>2, <1>3, <1>5, <2>1, <2>2, HookStands
  <2>4. DiskTypes'
    BY <1>1, <2>1 DEF DiskInv, DiskTypes
  <2> QED  BY <1>4, <2>3, <2>4 DEF DiskInv
<1>6. CASE ~cmd.dry
  <2>1. PICK key \in {"current", "rederive", "guarded"} :
              disk' = [q \in Phases |->
                         IF q = p THEN [done |-> TRUE, key |-> "current"]
                         ELSE IF q \in Dependents(p) /\ disk[q].key # "absent" /\ key # "current"
                         THEN [disk[q] EXCEPT !.key = key] ELSE disk[q]]
    BY <1>2, <1>6 DEF Execute
  <2>2. \A q \in Phases : disk[q] \in [done : BOOLEAN, key : Keys] /\ (disk[q].done => disk[q].key # "absent")
    BY DEF DiskInv, DiskTypes
  <2>3. \A q \in Phases : /\ disk'[q] \in [done : BOOLEAN, key : Keys]
                          /\ disk'[q].done => disk'[q].key # "absent"
    <3> SUFFICES ASSUME NEW q \in Phases
                 PROVE  disk'[q] \in [done : BOOLEAN, key : Keys] /\ (disk'[q].done => disk'[q].key # "absent")
      OBVIOUS
    <3>1. disk'[q] \in {[done |-> TRUE, key |-> "current"], [disk[q] EXCEPT !.key = key], disk[q]}
      BY <2>1
    <3>2. key \in Keys /\ key # "absent"
      BY DEF Keys
    <3>3. /\ [disk[q] EXCEPT !.key = key] \in [done : BOOLEAN, key : Keys]
          /\ [disk[q] EXCEPT !.key = key].key = key
      BY <2>2, <3>2
    <3>4. [done |-> TRUE, key |-> "current"] \in [done : BOOLEAN, key : Keys]
      BY DEF Keys
    <3>5. CASE disk'[q] = [disk[q] EXCEPT !.key = key]
      <4> DEFINE e == [disk[q] EXCEPT !.key = key]
      <4>1. e \in [done : BOOLEAN, key : Keys] /\ e.key # "absent" /\ disk'[q] = e
        BY <3>2, <3>3, <3>5
      <4> HIDE DEF e
      <4> QED  BY <4>1
    <3>6. CASE disk'[q] = [done |-> TRUE, key |-> "current"]
      BY <3>4, <3>6
    <3>7. CASE disk'[q] = disk[q]
      BY <2>2, <3>7
    <3> QED  BY <3>1, <3>5, <3>6, <3>7
  <2>4. DiskTypes'
    <3>1. disk' \in [Phases -> [done : BOOLEAN, key : Keys]]
      BY <2>1, <2>3
    <3> QED  BY <1>1, <2>3, <3>1 DEF DiskInv, DiskTypes
  <2>5. \A q \in Phases \ {p} : p \notin Deps(q) => disk'[q] = disk[q]
    BY <2>1 DEF Dependents
  <2>6. disk'[p] = [done |-> TRUE, key |-> "current"]
    BY <2>1
  <2>7. Backed(p)'
    BY <2>6 DEF Backed
  <2>8. Stands' /\ Driven'
    BY <1>1, <1>2, <1>3, <2>5, <2>7, HookStands
  <2> QED  BY <1>4, <2>4, <2>8 DEF DiskInv
<1> QED  BY <1>5, <1>6

LEMMA ExecuteFailsDisk == Inv /\ DiskInv /\ ExecuteFails => DiskInv'
<1> SUFFICES ASSUME Inv, DiskInv, ExecuteFails PROVE DiskInv'
  OBVIOUS
<1>1. At("execute") /\ "execute" \in Steps /\ UNCHANGED <<cmd, next, ctl, disk>> /\ Conclude("FAILED")
  BY DEF ExecuteFails, Steps
<1>2. PICK p \in Phases : p = Self
  BY <1>1, AtHook, TopFrame
<1>3. "FAILED" \in Outcomes \ Complete
  BY DEF Outcomes, Complete
<1>4. Stands' /\ Driven'
  BY <1>1, <1>2, <1>3, HookStands
<1>5. Compared'
  BY <1>1, <1>3, HookCompares
<1> QED  BY <1>1, <1>4, <1>5 DEF DiskInv, DiskTypes

\* The steps of a call before its hooks.
LEMMA CallDisk == Inv /\ DiskInv /\ (EnsureDependency \/ Resolve) => DiskInv'
<1> SUFFICES ASSUME Inv, DiskInv, EnsureDependency \/ Resolve PROVE DiskInv'
  OBVIOUS
<1>1. stack # <<>> /\ ctl = "drive" /\ Top.step = "deps" /\ UNCHANGED <<cmd, next, ctl, disk>>
  BY DEF EnsureDependency, Resolve, At
<1>2. DiskTypes'
  BY <1>1 DEF DiskInv, DiskTypes
<1>3. Self \in Phases /\ result \in [Phases -> Outcomes \cup {None}] /\ result[Self] = None
      /\ None \notin Complete
  BY <1>1, TopFrame, NoneAssumption DEF Inv, WalkTypes, Unfinished, Self, Outcomes
<1>4. cmd.targets \in Seq(Phases) /\ next \in DOMAIN cmd.targets
  BY RunnerAssumption DEF Inv, WalkTypes
<1>5. ASSUME NEW o, o \notin Complete, \/ UNCHANGED result
                                       \/ result' = [result EXCEPT ![Self] = o]
      PROVE  Stands' /\ Driven'
  <2>1. \A q \in Phases : /\ result'[q] \in Complete => result[q] \in Complete
                          /\ result[q] \in Complete => result'[q] = result[q]
    BY <1>3, <1>5
  <2>2. \A q \in Phases : Backed(q)' = Backed(q)
    BY <1>1 DEF Backed, Spent
  <2>3. Stands'
    BY <1>1, <2>1, <2>2 DEF DiskInv, Stands
  <2>4. \A i \in 1 .. next - 1 : cmd.targets[i] \in Phases
    BY <1>4
  <2>5. Driven'
    BY <1>1, <2>1, <2>4 DEF DiskInv, Driven
  <2> QED  BY <2>3, <2>5
<1>6. CASE Resolve
  <2>1. Conclude("FAILED") \/ Conclude("PENDING") \/ Proceed("skip")
    BY <1>6, TopFrame DEF Resolve, Frames
  <2>2. "FAILED" \notin Complete /\ "PENDING" \notin Complete
    BY DEF Complete
  <2>3. Stands' /\ Driven'
    BY <2>1, <2>2, <1>5 DEF Conclude, Proceed
  <2>4. stack' # <<>> => Top'.step \in {"deps", "skip"}
    BY <1>1, <2>1, Returned, Proceeded
  <2> QED  BY <1>1, <1>2, <2>3, <2>4 DEF DiskInv, Compared
<1>7. CASE EnsureDependency
  <2> DEFINE d == DependsOn[Self][Top.dep]
  <2>1. stack' = Append(stack, Frame(d)) \/ stack' = SetTop(Noted(Top, d))
    BY <1>7 DEF EnsureDependency
  <2>2. UNCHANGED result
    BY <1>7 DEF EnsureDependency
  <2>3. "FAILED" \notin Complete
    BY DEF Complete
  <2>4. Stands' /\ Driven'
    BY <2>2, <2>3, <1>5
  <2> HIDE DEF d
  <2>5. stack \in Seq(Frames) /\ Len(stack) \in DOMAIN stack /\ Top \in Frames
    BY <1>1, TopFrame DEF Inv, WalkTypes
  <2>6. Frame(d).step = "deps" /\ Noted(Top, d).step = "deps"
    BY <1>1, <2>5 DEF Frame, Noted, Frames
  <2>7. Top'.step = "deps"
    <3>1. CASE stack' = Append(stack, Frame(d))
      BY <3>1, <2>5, <2>6 DEF Top, Last
    <3>2. CASE stack' = SetTop(Noted(Top, d))
      <4> DEFINE f == Noted(Top, d)
      <4>1. f.step = "deps" /\ stack' = SetTop(f)
        BY <3>2, <2>6
      <4> HIDE DEF f
      <4> QED  BY <4>1, <2>5 DEF Top, Last, SetTop
    <3> QED  BY <2>1, <3>1, <3>2
  <2> QED  BY <1>1, <1>2, <2>4, <2>7 DEF DiskInv, Compared
<1> QED  BY <1>6, <1>7
--------------------------------------------------------------------------------
(* The steps of Runner.run, and those of the user and the system.          *)

LEMMA DriverDisk ==
    ASSUME Inv, DiskInv, Start \/ Edit \/ Kill \/ Escape \/ Drive \/ Close \/ UNCHANGED vars
    PROVE  DiskInv'
<1>1. CASE Start
  <2>1. /\ ctl' = "drive" /\ stack' = <<>> /\ next' = 1 /\ UNCHANGED disk
        /\ \A p \in Phases : result'[p] = None
    BY <1>1 DEF Start
  <2>2. None \notin Complete
    BY NoneAssumption DEF Outcomes
  <2> QED  BY <2>1, <2>2 DEF DiskInv, DiskTypes, Compared, Stands, Driven
<1>2. CASE Edit
  <2>1. ctl = "idle" /\ UNCHANGED <<cmd, stack, ctl>>
    BY <1>2 DEF Edit
  <2>2. PICK p \in Phases, key \in Keys \ {"absent"} : disk' = [disk EXCEPT ![p].key = key]
    BY <1>2 DEF Edit
  <2>3. \A q \in Phases : disk[q] \in [done : BOOLEAN, key : Keys] /\ (disk[q].done => disk[q].key # "absent")
    BY DEF DiskInv, DiskTypes
  <2> DEFINE e == [disk[p] EXCEPT !.key = key]
  <2>4. e \in [done : BOOLEAN, key : Keys] /\ e.key # "absent"
    BY <2>3
  <2>5. disk' = [disk EXCEPT ![p] = e]
    BY <2>2
  <2> HIDE DEF e
  <2>6. DiskTypes'
    BY <2>1, <2>4, <2>5 DEF DiskInv, DiskTypes
  <2>7. stack = <<>>
    BY <2>1 DEF DiskInv, Compared
  <2> QED  BY <2>1, <2>6, <2>7 DEF DiskInv, Compared, Stands, Driven
<1>3. CASE Kill \/ Escape
  <2>1. ctl' = "idle" /\ stack' = <<>> /\ UNCHANGED disk
    BY <1>3 DEF Kill, Escape
  <2> QED  BY <2>1 DEF DiskInv, DiskTypes, Compared, Stands, Driven
<1>4. CASE Drive
  <2>1. ctl = "drive" /\ stack' = <<Frame(Target)>> /\ UNCHANGED <<cmd, result, next, ctl, disk>>
    BY <1>4 DEF Drive
  <2>2. Top'.step = "deps"
    BY <2>1 DEF Top, Last, Frame
  <2> QED  BY <2>1, <2>2 DEF DiskInv, DiskTypes, Compared, Stands, Driven, Backed, Spent
<1>5. CASE Close
  <2>1. /\ ctl = "close" /\ ctl' \in {"finalize", "idle"}
        /\ UNCHANGED <<cmd, stack, result, next, disk>>
    BY <1>5 DEF Close
  <2>2. stack = <<>>
    BY <2>1 DEF DiskInv, Compared
  <2> QED  BY <2>1, <2>2 DEF DiskInv, DiskTypes, Compared, Stands, Driven, Backed, Spent
<1>6. CASE UNCHANGED vars
  BY <1>6 DEF vars, DiskInv, DiskTypes, Compared, Stands, Driven, Backed, Spent, Differs, Top, Self, Last
<1> QED  BY <1>1, <1>2, <1>3, <1>4, <1>5, <1>6

LEMMA JudgeDisk == Inv /\ DiskInv /\ Judge => DiskInv'
<1> SUFFICES ASSUME Inv, DiskInv, Judge PROVE DiskInv'
  OBVIOUS
<1>1. /\ ctl = "drive" /\ stack = <<>> /\ UNCHANGED <<cmd, stack, result, disk>>
      /\ ctl' \in {"drive", "close"}
      /\ next' = next \/ (TerminalOk /\ next' = next + 1)
  BY DEF Judge, GoesOn
<1>2. Driven'
  <2> SUFFICES ASSUME ~cmd.dry, NEW i \in 1 .. next' - 1 PROVE result[cmd.targets[i]] \in Complete
    BY <1>1 DEF Driven
  <2>1. next \in Nat \ {0}
    BY RunnerAssumption DEF Inv, WalkTypes
  <2>2. CASE i \in 1 .. next - 1
    BY <2>2, <1>1 DEF DiskInv, Driven
  <2>3. CASE i = next /\ TerminalOk
    BY <2>3 DEF TerminalOk, Target
  <2> QED  BY <1>1, <2>1, <2>2, <2>3
<1> QED  BY <1>1, <1>2 DEF DiskInv, DiskTypes, Compared, Stands, Backed, Spent

LEMMA FinalizeDisk == Inv /\ DiskInv /\ Finalize => DiskInv'
<1> SUFFICES ASSUME Inv, DiskInv, Finalize PROVE DiskInv'
  OBVIOUS
<1>1. /\ ctl = "finalize" /\ ctl' = "idle" /\ UNCHANGED <<cmd, stack>>
      /\ disk' = [p \in Phases |-> IF Deep /\ p \in Registry \cap Consumables
                                   THEN [disk[p] EXCEPT !.done = FALSE] ELSE disk[p]]
  BY DEF Finalize
<1>2. \A p \in Phases : disk[p] \in [done : BOOLEAN, key : Keys] /\ (disk[p].done => disk[p].key # "absent")
  BY DEF DiskInv, DiskTypes
<1>3. \A p \in Phases : disk'[p] \in [done : BOOLEAN, key : Keys] /\ (disk'[p].done => disk'[p].key # "absent")
  <2> SUFFICES ASSUME NEW p \in Phases
               PROVE  disk'[p] \in [done : BOOLEAN, key : Keys] /\ (disk'[p].done => disk'[p].key # "absent")
    OBVIOUS
  <2> DEFINE e == [disk[p] EXCEPT !.done = FALSE]
  <2>1. disk'[p] = e \/ disk'[p] = disk[p]
    BY <1>1
  <2>2. e \in [done : BOOLEAN, key : Keys] /\ ~e.done
    BY <1>2
  <2> HIDE DEF e
  <2> QED  BY <1>2, <2>1, <2>2
<1>4. DiskTypes'
  <2>1. disk' \in [Phases -> [done : BOOLEAN, key : Keys]]
    BY <1>1, <1>3
  <2> QED  BY <1>1, <1>3, <2>1 DEF DiskTypes
<1>5. stack = <<>>
  BY <1>1 DEF DiskInv, Compared
<1> QED  BY <1>1, <1>4, <1>5 DEF DiskInv, Compared, Stands, Driven

LEMMA NextDisk == Inv /\ DiskInv /\ [Next]_vars => DiskInv'
BY DriverDisk, JudgeDisk, FinalizeDisk, CallDisk, SkipDisk, InvalidateDisk, RecoverDisk,
   ExecuteDisk, ExecuteFailsDisk DEF Next, Work

LEMMA Standing == Spec => [](Inv /\ DiskInv)
BY InitInv, NextInv, InitDisk, NextDisk, PTL DEF Spec

\* Whatever the graph and the commands: until a run is over, no hook of a later phase, no
\* invalidation of another phase's artifacts and no curation takes away what an earlier
\* result reported complete, as long as invalidations delete artifacts of dependents only.
THEOREM ResultsAreBacked == Spec => []ResultsStand
<1>1. DiskInv => ResultsStand  BY DEF DiskInv, Stands, ResultsStand
<1> QED  BY <1>1, Standing, PTL

\* The results of a complete terminal and of those before it reach all of the registry.
LEMMA AllComplete ==
    ASSUME Inv, DiskInv, ctl # "idle", ~cmd.dry, RunOk
    PROVE  \A q \in Registry : result[q] \in Complete
<1> DEFINE set == {p \in Phases : result[p] \in Complete}
<1>1. cmd.targets \in Seq(Phases) /\ next \in DOMAIN cmd.targets
  BY RunnerAssumption DEF Inv, WalkTypes
<1>2. \A i \in DOMAIN cmd.targets : cmd.targets[i] \in Phases /\ result[cmd.targets[i]] \in Complete
  <2> SUFFICES ASSUME NEW i \in DOMAIN cmd.targets PROVE result[cmd.targets[i]] \in Complete
    BY <1>1
  <2>1. CASE i = next
    BY <2>1 DEF RunOk, TerminalOk, Target
  <2>2. CASE i # next
    <3>1. i \in 1 .. next - 1
      BY <1>1, <2>2 DEF RunOk
    <3> QED  BY <3>1 DEF DiskInv, Driven
  <2> QED  BY <2>1, <2>2
<1>3. ToSet(cmd.targets) \subseteq set
  BY <1>2 DEF ToSet
<1>4. \A p \in Phases : Deps(p) \subseteq Phases
  BY RunnerAssumption DEF Deps, ToSet
<1>5. \A p \in set : Deps(p) \subseteq set
  BY <1>4 DEF Inv, Whole
<1>6. Closed(set) /\ set \in SUBSET Phases
  BY <1>3, <1>5 DEF Closed
<1> HIDE DEF set
<1>7. Registry \subseteq set
  BY <1>6 DEF Registry, Closure
<1> QED  BY <1>7 DEF set

\* Whatever the graph and the commands: the deep cleanup of Runner.run deletes consumables
\* only when the terminal-most phase stands delivered and every phase of the run is complete.
THEOREM CleansUpLast == Spec => CleanupIsLast
<1> DEFINE Backs == \A p \in Consumables : (disk[p].done /\ ~disk'[p].done /\ ctl = "finalize")
                        => Backed(Terminal) /\ \A q \in Registry : result[q] \in Complete
<1>1. Inv /\ DiskInv /\ [Next]_vars => [Backs]_vars
  <2> SUFFICES ASSUME Inv, DiskInv, Next, ctl = "finalize",
                      NEW p \in Consumables, disk[p].done, ~disk'[p].done
               PROVE  Backed(Terminal) /\ \A q \in Registry : result[q] \in Complete
    OBVIOUS
  <2>1. stack = <<>>
    BY DEF DiskInv, Compared
  <2>2. CASE Start \/ Edit \/ Kill \/ Drive \/ Judge \/ Close
    BY <2>2 DEF Start, Edit, Kill, Drive, Judge, Close
  <2>3. CASE EnsureDependency \/ Resolve \/ Skip \/ Escape \/ Invalidate \/ Recover \/ Execute \/ ExecuteFails
    BY <2>3 DEF EnsureDependency, Resolve, Skip, Escape, Invalidate, Recover, Execute, ExecuteFails, At
  <2>4. CASE Finalize
    <3>1. p \in Phases /\ Terminal \in Phases
      BY RunnerAssumption
    <3>2. Deep
      BY <2>4, <3>1 DEF Finalize
    <3>3. RunOk /\ ~cmd.dry /\ cmd.targets[Len(cmd.targets)] = Terminal
      BY <3>2 DEF Deep, Last
    <3>4. result[Terminal] \in Complete
      BY <3>3 DEF RunOk, TerminalOk, Target
    <3>5. Backed(Terminal)
      BY <3>1, <3>3, <3>4 DEF DiskInv, Stands
    <3> QED  BY <3>3, <3>5, AllComplete
  <2> QED  BY <2>2, <2>3, <2>4 DEF Next, Work
<1> QED  BY <1>1, Standing, PTL DEF Spec, CleanupIsLast
================================================================================
