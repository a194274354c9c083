---------------------------- MODULE EncodePool_proofs ----------------------------
(***************************************************************************)
(* TLAPS proofs about EncodePool: the concurrency bound and the free-space *)
(* floor, for any number of pairs and workers and any sizes.               *)
(***************************************************************************)
EXTENDS EncodePool, FiniteSetTheorems, SequenceTheorems, TLAPS

\* The units the attempts in flight may still write.
Ahead == {u \in Encoding \X (1 .. Size) : u[2] > written[u[1]]}

\* Pairs are begun once, in queue order: what waits in the deque is untouched.
QueueInv ==
    /\ \A i \in 1 .. Len(pending) : job[pending[i]] = "queued"
    /\ \A i, j \in 1 .. Len(pending) : i # j => pending[i] # pending[j]

\* Every pair at work is the one some worker is bound to.
WorkerInv == \A p \in Active : \E w \in Workers : worker[w] = p

\* The ledger holds one reserve for every attempt being encoded.
LedgerInv == reserved = Need * Cardinality(Encoding)

\* What is free suffices for all that may still be written.
RoomInv == free - Cardinality(Ahead) >= MinFree - Bound * Overrun

IInv == TypeOK /\ QueueInv /\ WorkerInv /\ LedgerInv /\ RoomInv
--------------------------------------------------------------------------------
(* Finite sets.                                                            *)

LEMMA ConstantsType ==
    /\ IsFiniteSet(Pairs) /\ IsFiniteSet(Workers) /\ Cardinality(Workers) <= Bound
    /\ Idle \notin Pairs
    /\ Overrun \in Nat /\ Size <= Need + Overrun
    /\ IsFiniteSet(1 .. Size) /\ Cardinality(1 .. Size) = Size
<1> DEFINE n == IF Bound <= NumPairs THEN Bound ELSE NumPairs
<1>1. n \in Nat /\ n <= Bound
  BY PoolAssumption
<1>2. IsFiniteSet(1 .. n) /\ Cardinality(1 .. n) = n
  <2> HIDE DEF n
  <2> QED BY <1>1, FS_Interval
<1>3. IsFiniteSet(Workers) /\ Cardinality(Workers) <= Bound
  BY <1>1, <1>2 DEF Workers
<1>4. IsFiniteSet(Pairs) /\ Idle \notin Pairs
  BY PoolAssumption, FS_Interval DEF Pairs, Idle
<1>5. Overrun \in Nat /\ Size <= Need + Overrun
  BY PoolAssumption DEF Overrun
<1>6. IsFiniteSet(1 .. Size) /\ Cardinality(1 .. Size) = Size
  BY PoolAssumption, FS_Interval
<1>7. QED
  BY <1>3, <1>4, <1>5, <1>6

\* The pairs encoding, and what they may still write, are finite sets.
LEMMA FiniteInFlight ==
    /\ IsFiniteSet(Encoding) /\ Cardinality(Encoding) \in Nat
    /\ IsFiniteSet(Ahead) /\ Cardinality(Ahead) \in Nat
    /\ Cardinality(Ahead) <= Cardinality(Encoding) * Size
<1>1. IsFiniteSet(Encoding) /\ Cardinality(Encoding) \in Nat
  BY ConstantsType, FS_Subset, FS_CardinalityType DEF Encoding
<1>2. /\ IsFiniteSet(Encoding \X (1 .. Size))
      /\ Cardinality(Encoding \X (1 .. Size)) = Cardinality(Encoding) * Size
  BY <1>1, ConstantsType, FS_Product
<1>3. Ahead \in SUBSET (Encoding \X (1 .. Size))
  BY DEF Ahead
<1>4. IsFiniteSet(Ahead) /\ Cardinality(Ahead) <= Cardinality(Encoding \X (1 .. Size))
  BY <1>2, <1>3, FS_Subset
<1>5. QED
  BY <1>1, <1>2, <1>4, FS_CardinalityType

\* Every pair at work has a worker of its own, so there are at most Bound.
LEMMA ActiveBound ==
    ASSUME TypeOK, WorkerInv
    PROVE  BoundHeld /\ Cardinality(Active) \in Nat
<1> DEFINE Bound_to == {worker[w] : w \in Workers}
<1>1. worker \in Surjection(Workers, Bound_to)
  BY DEF TypeOK, Surjection
<1>2. IsFiniteSet(Bound_to) /\ Cardinality(Bound_to) <= Cardinality(Workers)
  <2> HIDE DEF Bound_to
  <2> QED BY <1>1, ConstantsType, FS_Surjection
<1>3. Active \in SUBSET Bound_to
  BY DEF WorkerInv
<1>4. IsFiniteSet(Active) /\ Cardinality(Active) <= Cardinality(Bound_to)
  <2> HIDE DEF Bound_to
  <2> QED BY <1>2, <1>3, FS_Subset
<1>5. /\ Cardinality(Active) \in Nat /\ Cardinality(Bound_to) \in Nat
      /\ Cardinality(Workers) \in Nat /\ Bound \in Nat
  <2> HIDE DEF Bound_to
  <2> QED BY <1>2, <1>4, ConstantsType, FS_CardinalityType, PoolAssumption
<1>6. QED
  <2> HIDE DEF Bound_to
  <2> QED BY <1>2, <1>4, <1>5, ConstantsType DEF BoundHeld
--------------------------------------------------------------------------------
(* The steps.                                                              *)

LEMMA InitIInv == Init => IInv
<1> SUFFICES ASSUME Init PROVE IInv
  OBVIOUS
<1>1. Encoding = {} /\ Active = {} /\ Ahead = {}
  BY DEF Init, Encoding, Active, Ahead, Over
<1>2. pending \in Seq(Pairs) /\ Len(pending) = NumPairs
  BY PoolAssumption DEF Init, Pairs
<1>3. TypeOK
  BY <1>2, PoolAssumption DEF Init, TypeOK, Outcomes, Over
<1>4. QueueInv
  BY <1>2 DEF Init, QueueInv, Pairs
<1>5. WorkerInv /\ LedgerInv
  BY <1>1, FS_EmptySet, PoolAssumption DEF WorkerInv, LedgerInv, Init
<1>6. RoomInv
  <2>1. Bound * Overrun \in Nat
    BY ConstantsType, PoolAssumption
  <2>2. free = Capacity /\ Cardinality(Ahead) = 0
    BY <1>1, FS_EmptySet DEF Init
  <2> DEFINE short == Bound * Overrun
  <2>3. free - Cardinality(Ahead) >= MinFree - short
    <3>1. short \in Nat
      BY <2>1
    <3> HIDE DEF short
    <3> QED BY <2>2, <3>1, PoolAssumption
  <2>4. QED
    BY <2>3 DEF RoomInv
<1>7. QED
  BY <1>3, <1>4, <1>5, <1>6 DEF IInv

\* The event loop neither touches the disk nor the attempts in flight.
LEMMA TurnIInv ==
    ASSUME IInv, NEW w \in Workers, Turn(w)
    PROVE  IInv'
<1>1. CASE pending = <<>>
  <2>1. /\ UNCHANGED <<pending, worker, job, written, reserved, free>>
    BY <1>1 DEF Turn
  <2>2. TypeOK'
    <3>1. recorded' \in [Pairs -> Outcomes]
      BY ConstantsType DEF Turn, Collected, Awaited, IInv, TypeOK, Outcomes
    <3>2. ended' \subseteq Workers /\ UNCHANGED <<loop, attempts, stored>>
      BY <1>1 DEF Turn, IInv, TypeOK
    <3>3. QED
      BY <2>1, <3>1, <3>2 DEF IInv, TypeOK
  <2>3. QED
    BY <2>1, <2>2 DEF IInv, QueueInv, WorkerInv, LedgerInv, RoomInv, Active, Encoding, Ahead
<1>2. CASE pending # <<>>
  <2> DEFINE h == Head(pending)
  <2>1. /\ pending' = Tail(pending)
        /\ worker' = [worker EXCEPT ![w] = h]
        /\ job' = [job EXCEPT ![h] = "searching"]
        /\ UNCHANGED <<ended, loop, attempts, written, stored, reserved, free>>
    BY <1>2 DEF Turn
  <2>2. /\ h \in Pairs /\ h = pending[1] /\ Tail(pending) \in Seq(Pairs)
        /\ Len(Tail(pending)) = Len(pending) - 1 /\ Len(pending) \in Nat \ {0}
        /\ \A i \in 1 .. Len(Tail(pending)) : Tail(pending)[i] = pending[i + 1]
    BY <1>2, HeadTailProperties DEF IInv, TypeOK
  <2>3. job[h] = "queued"
    BY <2>2 DEF IInv, QueueInv
  <2>4. TypeOK'
    <3>1. recorded' \in [Pairs -> Outcomes]
      BY <2>2, ConstantsType DEF Turn, Collected, Awaited, IInv, TypeOK, Outcomes
    <3>2. QED
      <4> HIDE DEF h
      <4> QED BY <2>1, <2>2, <3>1 DEF IInv, TypeOK
  <2>5. QueueInv'
    <3>1. \A i \in 1 .. Len(pending') : pending'[i] = pending[i + 1] /\ i + 1 \in 1 .. Len(pending)
      BY <2>1, <2>2
    <3>2. \A i \in 1 .. Len(pending') : pending'[i] # h /\ pending'[i] \in Pairs
      BY <2>1, <2>2, <3>1 DEF IInv, QueueInv
    <3>3. \A i \in 1 .. Len(pending') : job'[pending'[i]] = "queued"
      BY <2>1, <3>1, <3>2 DEF IInv, QueueInv, TypeOK
    <3>4. \A i, j \in 1 .. Len(pending') : i # j => pending'[i] # pending'[j]
      <4> SUFFICES ASSUME NEW i \in 1 .. Len(pending'), NEW j \in 1 .. Len(pending'), i # j
                   PROVE  pending[i + 1] # pending[j + 1]
        BY <3>1
      <4>1. i + 1 # j + 1
        OBVIOUS
      <4>2. QED
        BY <3>1, <4>1 DEF IInv, QueueInv
    <3>5. QED
      BY <3>3, <3>4 DEF QueueInv
  <2>6. WorkerInv'
    <3> SUFFICES ASSUME NEW p \in Active' PROVE \E v \in Workers : worker'[v] = p
      BY DEF WorkerInv
    <3>1. CASE p = h
      BY <2>1, <3>1 DEF IInv, TypeOK
    <3>2. CASE p # h
      <4>1. p \in Active
        <5> HIDE DEF h
        <5> QED BY <2>1, <3>2 DEF Active, IInv, TypeOK
      <4>2. PICK v \in Workers : worker[v] = p
        BY <4>1 DEF IInv, WorkerInv
      <4>3. v # w
        <5>1. worker[w] # Idle => job[worker[w]] \in {"success", "failed"}
          BY DEF Turn, Awaited
        <5>2. p # Idle /\ job[p] \notin Over
          BY <4>1, ConstantsType DEF Active
        <5>3. QED
          BY <4>2, <5>1, <5>2 DEF Over
      <4>4. QED
        <5> HIDE DEF h
        <5> QED BY <2>1, <4>2, <4>3 DEF IInv, TypeOK
    <3>3. QED
      BY <3>1, <3>2
  <2>7. Encoding' = Encoding
    <3> HIDE DEF h
    <3> QED BY <2>1, <2>2, <2>3 DEF Encoding, IInv, TypeOK
  <2>8. Ahead' = Ahead
    BY <2>1, <2>7 DEF Ahead
  <2>9. LedgerInv' /\ RoomInv'
    BY <2>1, <2>7, <2>8 DEF IInv, LedgerInv, RoomInv
  <2>10. QED
    BY <2>4, <2>5, <2>6, <2>9 DEF IInv
<1>3. QED
  BY <1>1, <1>2

\* Nothing but the result sets and the loop's own state changes.
LEMMA LoopIInv ==
    ASSUME IInv, UNCHANGED <<pending, worker, job, attempts, written, stored, reserved, free, recorded>>,
           loop' \in {"running", "unwinding", "returned"}, ended' \subseteq Workers
    PROVE  IInv'
BY DEF IInv, TypeOK, QueueInv, WorkerInv, LedgerInv, RoomInv, Active, Encoding, Ahead

\* A pair at work is not in the deque, so its steps leave the queue as it is; and
\* it keeps its worker.
LEMMA ThreadFrame ==
    ASSUME IInv, NEW p \in Active, NEW s, s # "queued",
           job' = [job EXCEPT ![p] = s], UNCHANGED <<pending, worker>>
    PROVE  QueueInv' /\ WorkerInv'
<1>1. \A i \in 1 .. Len(pending) : pending[i] # p /\ pending[i] \in Pairs
  BY DEF IInv, QueueInv, Active, TypeOK
<1>2. QueueInv'
  BY <1>1 DEF IInv, QueueInv, TypeOK
<1>3. Active' \subseteq Active
  BY DEF Active, IInv, TypeOK
<1>4. QED
  BY <1>2, <1>3 DEF IInv, WorkerInv

\* A step that neither begins nor ends an encode keeps the ledger and the room,
\* if it takes no space.
LEMMA NotEncoding ==
    ASSUME IInv, NEW p \in Pairs, NEW s, s # "encoding", job[p] # "encoding",
           job' = [job EXCEPT ![p] = s], UNCHANGED <<written, reserved>>,
           free' \in Nat, free' >= free
    PROVE  LedgerInv' /\ RoomInv'
<1>1. Encoding' = Encoding
  BY DEF Encoding, IInv, TypeOK
<1>2. Ahead' = Ahead
  BY <1>1 DEF Ahead
<1>3. Cardinality(Ahead) \in Nat /\ Bound * Overrun \in Nat
  BY FiniteInFlight, ConstantsType, PoolAssumption
<1>4. RoomInv'
  <2> DEFINE short == Bound * Overrun
  <2>1. free - Cardinality(Ahead) >= MinFree - short /\ short \in Nat
    BY <1>3 DEF IInv, RoomInv
  <2>2. free' - Cardinality(Ahead) >= MinFree - short
    <3> HIDE DEF short
    <3> QED BY <1>3, <2>1, PoolAssumption DEF IInv, TypeOK
  <2>3. QED
    BY <1>2, <2>2 DEF RoomInv
<1>5. QED
  BY <1>1, <1>4 DEF IInv, LedgerInv

\* An admitted attempt finds room for all it may write: the guard left the floor
\* and a reserve for each of the attempts in flight, and there are at most Bound.
LEMMA AdmitIInv ==
    ASSUME IInv, NEW p \in Pairs, Admit(p)
    PROVE  IInv'
<1> DEFINE n == Cardinality(Encoding)
           a == Cardinality(Ahead')
<1>1. p \in Active /\ p \notin Encoding
  BY DEF Admit, Active, Encoding, Over
<1>2. TypeOK'
  BY PoolAssumption DEF Admit, threadVars, IInv, TypeOK
<1>3. QueueInv' /\ WorkerInv'
  BY <1>1, ThreadFrame DEF Admit, threadVars
<1>4. Encoding' = Encoding \cup {p} /\ Active' = Active
  BY <1>1 DEF Admit, Encoding, Active, IInv, TypeOK, Over
<1>5. n \in Nat /\ Cardinality(Encoding') = n + 1
  BY <1>1, <1>4, FiniteInFlight, FS_AddElement
<1>6. n + 1 <= Bound
  <2>1. Encoding' \subseteq Active
    BY <1>4, <1>1 DEF Encoding, Active, Over
  <2>2. IsFiniteSet(Active) /\ Cardinality(Active) <= Bound /\ Cardinality(Active) \in Nat
    BY ActiveBound, ConstantsType, FS_Subset DEF BoundHeld, IInv, Active
  <2>3. QED
    BY <1>5, <2>1, <2>2, FS_Subset, PoolAssumption
<1>7. LedgerInv'
  <2>1. reserved' = Need * n + Need
    BY DEF Admit, IInv, LedgerInv
  <2>2. Need * (n + 1) = Need * n + Need
    BY <1>5, PoolAssumption
  <2>3. QED
    BY <1>5, <2>1, <2>2 DEF LedgerInv
<1>8. RoomInv'
  <2>1. a \in Nat /\ a <= (n + 1) * Size
    <3>1. Ahead' \in SUBSET (Encoding' \X (1 .. Size))
      BY DEF Ahead
    <3>2. IsFiniteSet(Encoding')
      BY <1>4, FiniteInFlight, FS_AddElement
    <3>3. /\ IsFiniteSet(Encoding' \X (1 .. Size))
          /\ Cardinality(Encoding' \X (1 .. Size)) = (n + 1) * Size
      BY <3>2, <1>5, ConstantsType, FS_Product
    <3>4. QED
      BY <3>1, <3>3, FS_Subset, FS_CardinalityType
  <2>2. (n + 1) * Size <= (n + 1) * Need + (n + 1) * Overrun
    <3>1. \A k \in Nat, x \in Nat, y \in Nat : x <= y => k * x <= k * y
      OBVIOUS
    <3>2. (n + 1) * Size <= (n + 1) * (Need + Overrun)
      BY <3>1, <1>5, ConstantsType, PoolAssumption
    <3>3. (n + 1) * (Need + Overrun) = (n + 1) * Need + (n + 1) * Overrun
      BY <1>5, ConstantsType, PoolAssumption
    <3>4. QED
      BY <3>2, <3>3
  <2>3. (n + 1) * Overrun <= Bound * Overrun
    <3>1. \A k \in Nat, x \in Nat, y \in Nat : x <= y => x * k <= y * k
      OBVIOUS
    <3>2. QED
      BY <3>1, <1>5, <1>6, ConstantsType, PoolAssumption
  <2>4. free - (n + 1) * Need >= MinFree
    <3>1. free - Need * n - Need >= MinFree
      BY DEF Admit, Fits, IInv, LedgerInv
    <3>2. (n + 1) * Need = Need * n + Need /\ Need * n \in Nat
      BY <1>5, PoolAssumption
    <3>3. QED
      BY <3>1, <3>2, PoolAssumption DEF IInv, TypeOK
  <2>5. free' = free
    BY DEF Admit
  <2>6. /\ (n + 1) * Size \in Nat /\ (n + 1) * Need \in Nat
        /\ (n + 1) * Overrun \in Nat /\ Bound * Overrun \in Nat
    BY <1>5, ConstantsType, PoolAssumption
  <2> DEFINE size == (n + 1) * Size
             need == (n + 1) * Need
             over == (n + 1) * Overrun
             short == Bound * Overrun
  <2>7. free - a >= MinFree - short
    <3>1. /\ size \in Nat /\ need \in Nat /\ over \in Nat /\ short \in Nat
          /\ a <= size /\ size <= need + over /\ over <= short /\ free - need >= MinFree
      BY <2>1, <2>2, <2>3, <2>4, <2>6
    <3> HIDE DEF size, need, over, short, a
    <3>2. a \in Nat /\ free \in Nat
      BY <2>1 DEF a, IInv, TypeOK
    <3> QED BY <3>1, <3>2, PoolAssumption
  <2>8. QED
    BY <2>5, <2>7 DEF RoomInv
<1>9. QED
  BY <1>2, <1>3, <1>7, <1>8 DEF IInv

\* Writing a unit takes it from the free space and from what is still to come.
LEMMA WriteIInv ==
    ASSUME IInv, NEW p \in Pairs, Write(p)
    PROVE  IInv'
<1> DEFINE u == <<p, written[p] + 1>>
<1>1. TypeOK'
  BY PoolAssumption DEF Write, threadVars, IInv, TypeOK
<1>2. QueueInv' /\ WorkerInv' /\ LedgerInv' /\ Encoding' = Encoding
  BY DEF Write, threadVars, IInv, QueueInv, WorkerInv, LedgerInv, Active, Encoding
<1>3. u \in Ahead
  BY PoolAssumption DEF Write, Ahead, Encoding, IInv, TypeOK
<1>4. Ahead' = Ahead \ {u}
  <2>1. ASSUME NEW q \in Encoding, NEW i \in 1 .. Size
        PROVE  (i > written'[q]) <=> (i > written[q] /\ <<q, i>> # u)
    BY DEF Write, Encoding, IInv, TypeOK
  <2>2. QED
    BY <1>2, <2>1 DEF Ahead
<1>5. Cardinality(Ahead') = Cardinality(Ahead) - 1
  BY <1>3, <1>4, FiniteInFlight, FS_RemoveElement
<1>6. RoomInv'
  <2> DEFINE short == Bound * Overrun
  <2>1. free - Cardinality(Ahead) >= MinFree - short /\ short \in Nat
    BY ConstantsType, PoolAssumption DEF IInv, RoomInv
  <2>2. free' = free - 1 /\ free \in Nat /\ Cardinality(Ahead) \in Nat
    BY FiniteInFlight DEF Write, IInv, TypeOK
  <2>3. free' - Cardinality(Ahead') >= MinFree - short
    <3> HIDE DEF short
    <3> QED BY <1>5, <2>1, <2>2, PoolAssumption
  <2>4. QED
    BY <2>3 DEF RoomInv
<1>7. QED
  BY <1>1, <1>2, <1>6 DEF IInv

\* An encode that ends gives its reserve back, and takes no more space.
LEMMA EndEncode ==
    ASSUME IInv, NEW p \in Encoding, NEW s, s # "encoding",
           job' = [job EXCEPT ![p] = s], reserved' = reserved - Need,
           written' = written, free' \in Nat, free' >= free
    PROVE  LedgerInv' /\ RoomInv'
<1> DEFINE n == Cardinality(Encoding)
<1>1. Encoding' = Encoding \ {p}
  BY DEF Encoding, IInv, TypeOK
<1>2. Cardinality(Encoding') = n - 1 /\ n \in Nat
  BY <1>1, FiniteInFlight, FS_RemoveElement
<1>3. LedgerInv'
  <2>1. Need * (n - 1) = Need * n - Need
    BY <1>2, PoolAssumption
  <2>2. QED
    BY <1>2, <2>1 DEF IInv, LedgerInv
<1>4. Cardinality(Ahead') \in Nat /\ Cardinality(Ahead') <= Cardinality(Ahead)
  <2>1. Ahead' \in SUBSET Ahead
    BY <1>1 DEF Ahead
  <2>2. QED
    BY <2>1, FiniteInFlight, FS_Subset, FS_CardinalityType
<1>5. RoomInv'
  <2> DEFINE short == Bound * Overrun
  <2>1. free - Cardinality(Ahead) >= MinFree - short /\ short \in Nat
    BY ConstantsType, PoolAssumption DEF IInv, RoomInv
  <2>2. free' - Cardinality(Ahead') >= MinFree - short
    <3> HIDE DEF short
    <3> QED BY <1>4, <2>1, FiniteInFlight, PoolAssumption DEF IInv, TypeOK
  <2>3. QED
    BY <2>2 DEF RoomInv
<1>6. QED
  BY <1>3, <1>5

\* Every step of a thread preserves the invariant.
LEMMA StepIInv ==
    ASSUME IInv, NEW p \in Pairs, Step(p)
    PROVE  IInv'
<1> USE DEF threadVars
<1>1. CASE Reuse(p) \/ Refuse(p) \/ Continue(p)
  <2>1. TypeOK'
    <3>1. CASE Reuse(p)
      BY <3>1 DEF Reuse, IInv, TypeOK, Over
    <3>2. CASE Refuse(p)
      BY <3>2 DEF Refuse, IInv, TypeOK, Over
    <3>3. CASE Continue(p)
      BY <3>3 DEF Continue, IInv, TypeOK, Over
    <3>4. QED
      BY <1>1, <3>1, <3>2, <3>3
  <2>2. p \in Active /\ job[p] # "encoding"
    BY <1>1 DEF Reuse, Refuse, Continue, Active, Over
  <2>3. PICK s : s \notin {"queued", "encoding"} /\ job' = [job EXCEPT ![p] = s]
    BY <1>1 DEF Reuse, Refuse, Continue
  <2>4. UNCHANGED <<pending, worker, written, reserved>> /\ free' \in Nat /\ free' >= free
    BY <1>1 DEF Reuse, Refuse, Continue, IInv, TypeOK
  <2>5. QueueInv' /\ WorkerInv'
    BY <2>2, <2>3, <2>4, ThreadFrame
  <2>6. LedgerInv' /\ RoomInv'
    BY <2>2, <2>3, <2>4, NotEncoding
  <2>7. QED
    BY <2>1, <2>5, <2>6 DEF IInv
<1>2. CASE Admit(p)
  BY <1>2, AdmitIInv
<1>3. CASE Write(p)
  BY <1>3, WriteIInv
<1>4. CASE Encoded(p) \/ EncodeFails(p)
  <2>1. TypeOK'
    <3>1. CASE Encoded(p)
      BY <3>1, PoolAssumption DEF Encoded, IInv, TypeOK, Over
    <3>2. CASE EncodeFails(p)
      BY <3>2, PoolAssumption DEF EncodeFails, IInv, TypeOK, Over
    <3>3. QED
      BY <1>4, <3>1, <3>2
  <2>2. p \in Active /\ p \in Encoding
    BY <1>4 DEF Encoded, EncodeFails, Active, Encoding, Over
  <2>3. PICK s : s \notin {"queued", "encoding"} /\ job' = [job EXCEPT ![p] = s]
    BY <1>4 DEF Encoded, EncodeFails
  <2>4. /\ UNCHANGED <<pending, worker, written>> /\ reserved' = reserved - Need
        /\ free' \in Nat /\ free' >= free
    BY <1>4 DEF Encoded, EncodeFails, IInv, TypeOK
  <2>5. QueueInv' /\ WorkerInv'
    BY <2>2, <2>3, <2>4, ThreadFrame
  <2>6. LedgerInv' /\ RoomInv'
    BY <2>2, <2>3, <2>4, EndEncode
  <2>7. QED
    BY <2>1, <2>5, <2>6 DEF IInv
<1>5. ASSUME NEW freed \in 0 .. stored[p], Converge(p, freed)
      PROVE  IInv'
  <2>1. stored[p] \in Nat /\ freed \in Nat /\ stored[p] - freed \in Nat
    BY <1>5 DEF IInv, TypeOK
  <2>2. TypeOK'
    BY <1>5, <2>1 DEF Converge, IInv, TypeOK, Over
  <2>3. p \in Active /\ job[p] # "encoding"
    BY <1>5 DEF Converge, Active, Over
  <2>4. /\ UNCHANGED <<pending, worker, written, reserved>>
        /\ job' = [job EXCEPT ![p] = "success"]
        /\ free' \in Nat /\ free' >= free
    BY <1>5, <2>1 DEF Converge, IInv, TypeOK
  <2>5. QueueInv' /\ WorkerInv'
    BY <2>3, <2>4, ThreadFrame
  <2>6. LedgerInv' /\ RoomInv'
    BY <2>3, <2>4, NotEncoding
  <2>7. QED
    BY <2>2, <2>5, <2>6 DEF IInv
<1>6. QED
  BY <1>1, <1>2, <1>3, <1>4, <1>5 DEF Step

\* The invariant holds throughout.
LEMMA Invariance == Spec => []IInv
<1>1. IInv /\ [Next]_vars => IInv'
  <2> SUFFICES ASSUME IInv, [Next]_vars PROVE IInv'
    OBVIOUS
  <2>1. CASE \E w \in Workers : Turn(w)
    BY <2>1, TurnIInv
  <2>2. ASSUME NEW w \in Workers, Raise(w) PROVE IInv'
    BY <2>2, LoopIInv DEF Raise, IInv, TypeOK
  <2>3. CASE Unwind \/ Return
    BY <2>3, LoopIInv DEF Unwind, Return, IInv, TypeOK
  <2>4. CASE \E p \in Pairs : Step(p)
    BY <2>4, StepIInv
  <2>5. CASE UNCHANGED vars
    BY <2>5, LoopIInv DEF vars, IInv, TypeOK
  <2>6. QED
    BY <2>1, <2>2, <2>3, <2>4, <2>5 DEF Next
<1>2. QED
  BY InitIInv, <1>1, PTL DEF Spec

\* The pool keeps its types.
THEOREM TypeCorrect == Spec => []TypeOK
<1>1. IInv => TypeOK
  BY DEF IInv
<1>2. QED
  BY Invariance, <1>1, PTL

\* The free-space floor is never broken by more than the attempts in flight may
\* outrun their reserves by; attempts within the reserve never break it.
THEOREM FloorKept == Spec => []FloorHeld
<1>1. IInv => FloorHeld
  <2> SUFFICES ASSUME IInv PROVE FloorHeld
    OBVIOUS
  <2> DEFINE short == Bound * Overrun
  <2>1. free - Cardinality(Ahead) >= MinFree - short /\ short \in Nat
    BY ConstantsType, PoolAssumption DEF IInv, RoomInv
  <2>2. Cardinality(Ahead) \in Nat /\ free \in Nat
    BY FiniteInFlight DEF IInv, TypeOK
  <2>3. free >= MinFree - short
    <3> HIDE DEF short
    <3> QED BY <2>1, <2>2, PoolAssumption
  <2>4. QED
    BY <2>3 DEF FloorHeld
<1>2. QED
  BY Invariance, <1>1, PTL

\* No more attempts are in flight than the concurrency allows.
THEOREM BoundKept == Spec => []BoundHeld
<1>1. IInv => BoundHeld
  BY ActiveBound DEF IInv
<1>2. QED
  BY Invariance, <1>1, PTL
--------------------------------------------------------------------------------
(* The promise of run_bounded.                                             *)

\* What waits are the last pairs, in order.
OrderInv ==
    /\ Len(pending) <= NumPairs
    /\ \A i \in 1 .. Len(pending) : pending[i] = NumPairs - Len(pending) + i
    /\ \A p \in Pairs : job[p] = "queued" <=> p > NumPairs - Len(pending)

\* Every result is collected, or a worker still holds it; a worker ends when the
\* queue is empty and its last result is collected, or by a refusal.
Kept(p) == job[p] \in {"success", "failed"} /\ recorded[p] = job[p]
CollectInv ==
    /\ \A p \in Pairs : job[p] # "queued" => Kept(p) \/ \E w \in Workers : worker[w] = p
    /\ \A w \in ended :
          \/ pending = <<>> /\ \A p \in Pairs : worker[w] = p => Kept(p)
          \/ \E p \in Pairs : worker[w] = p /\ job[p] = "refused"

EndInv ==
    /\ loop = "unwinding" => Raised
    /\ loop = "returned" =>
          /\ Active = {}
          /\ Raised \/ recorded = job

PInv == IInv /\ OrderInv /\ CollectInv /\ EndInv

LEMMA InitPInv == Init => PInv
<1> SUFFICES ASSUME Init PROVE PInv
  OBVIOUS
<1>1. pending \in Seq(Pairs) /\ Len(pending) = NumPairs
  BY PoolAssumption DEF Init, Pairs
<1>2. OrderInv
  BY <1>1, PoolAssumption DEF Init, OrderInv, Pairs
<1>3. CollectInv /\ EndInv
  BY DEF Init, CollectInv, EndInv
<1>4. QED
  BY <1>2, <1>3, InitIInv DEF PInv

\* A turn of a worker keeps the promise's invariant.
LEMMA TurnPInv ==
    ASSUME PInv, NEW w \in Workers, Turn(w)
    PROVE  PInv'
<1> USE DEF PInv
<1>1. IInv'
  BY TurnIInv
<1>2. /\ recorded' = [p \in Pairs |-> IF p = worker[w] THEN job[p] ELSE recorded[p]]
      /\ w \notin ended /\ loop = "running" /\ loop' = loop
      /\ worker[w] # Idle => job[worker[w]] \in {"success", "failed"}
  BY DEF Turn, Collected, Awaited
<1>3. worker[w] \in Pairs \cup {Idle} /\ Idle \notin Pairs
  BY ConstantsType DEF IInv, TypeOK
<1>4. ASSUME NEW p \in Pairs, Kept(p), job'[p] = job[p] PROVE Kept(p)'
  BY <1>2, <1>4 DEF Kept
<1>5. ASSUME NEW p \in Pairs, p = worker[w], job'[p] = job[p] PROVE Kept(p)'
  BY <1>2, <1>3, <1>5 DEF Kept
<1>6. EndInv'
  BY <1>2 DEF EndInv
<1>7. CASE pending = <<>>
  <2>1. UNCHANGED <<pending, worker, job>> /\ ended' = ended \cup {w}
    BY <1>7 DEF Turn
  <2>2. OrderInv'
    BY <2>1 DEF OrderInv
  <2>3. ASSUME NEW p \in Pairs, Kept(p) \/ p = worker[w] PROVE Kept(p)'
    BY <1>4, <1>5, <2>1, <2>3
  <2>4. ASSUME NEW p \in Pairs, job'[p] # "queued"
        PROVE  Kept(p)' \/ \E v \in Workers : worker'[v] = p
    BY <2>1, <2>3, <2>4 DEF CollectInv
  <2>5. ASSUME NEW v \in ended'
        PROVE  \/ \A p \in Pairs : worker'[v] = p => Kept(p)'
               \/ \E p \in Pairs : worker'[v] = p /\ job'[p] = "refused"
    <3>1. CASE v \in ended
      BY <2>1, <2>3, <3>1 DEF CollectInv
    <3>2. CASE v = w
      BY <2>1, <2>3, <3>2
    <3>3. QED
      BY <2>1, <2>5, <3>1, <3>2
  <2>6. CollectInv'
    BY <1>7, <2>1, <2>4, <2>5 DEF CollectInv
  <2>7. QED
    BY <1>1, <1>6, <2>2, <2>6
<1>8. CASE pending # <<>>
  <2>1. PICK h : h = Head(pending)
    OBVIOUS
  <2>2. /\ pending' = Tail(pending)
        /\ worker' = [worker EXCEPT ![w] = h]
        /\ job' = [job EXCEPT ![h] = "searching"]
        /\ ended' = ended
    BY <1>8, <2>1 DEF Turn
  <2>3. /\ h \in Pairs /\ h = NumPairs - Len(pending) + 1 /\ pending' \in Seq(Pairs)
        /\ Len(pending') = Len(pending) - 1 /\ Len(pending) \in Nat \ {0}
        /\ \A i \in 1 .. Len(pending') : pending'[i] = pending[i + 1] /\ i + 1 \in 1 .. Len(pending)
    BY <1>8, <2>1, <2>2, HeadTailProperties DEF IInv, TypeOK, OrderInv
  <2>4. job[h] = "queued"
    BY <2>3, PoolAssumption DEF OrderInv, Pairs
  <2>5. OrderInv'
    <3>1. \A i \in 1 .. Len(pending') : pending'[i] = NumPairs - Len(pending') + i
      BY <2>3, PoolAssumption DEF OrderInv
    <3>2. ASSUME NEW p \in Pairs PROVE job'[p] = "queued" <=> p > NumPairs - Len(pending')
      <4>1. p \in Nat
        BY DEF Pairs
      <4>2. job'[p] = IF p = h THEN "searching" ELSE job[p]
        BY <2>2, <2>3 DEF IInv, TypeOK
      <4>3. job[p] = "queued" <=> p > NumPairs - Len(pending)
        BY DEF OrderInv
      <4>4. Len(pending) \in Nat /\ Len(pending') = Len(pending) - 1 /\ h = NumPairs - Len(pending) + 1
        BY <2>3
      <4>5. CASE p = h
        <5>1. ~(p > NumPairs - Len(pending'))
          BY <4>1, <4>4, <4>5, PoolAssumption
        <5>2. QED
          BY <4>2, <4>5, <5>1
      <4>6. CASE p # h
        <5>1. p > NumPairs - Len(pending') <=> p > NumPairs - Len(pending)
          BY <4>1, <4>4, <4>6, PoolAssumption
        <5>2. QED
          BY <4>2, <4>3, <4>6, <5>1
      <4>7. QED
        BY <4>5, <4>6
    <3>3. QED
      BY <2>3, <3>1, <3>2, PoolAssumption DEF OrderInv
  <2>6. ASSUME NEW p \in Pairs, p # h, Kept(p) \/ p = worker[w] PROVE Kept(p)'
    <3>1. job'[p] = job[p]
      BY <2>2, <2>6 DEF IInv, TypeOK
    <3>2. QED
      BY <1>4, <1>5, <2>6, <3>1
  <2>7. ASSUME NEW p \in Pairs, job'[p] # "queued"
        PROVE  Kept(p)' \/ \E v \in Workers : worker'[v] = p
    <3>1. CASE p = h
      BY <2>2, <3>1 DEF IInv, TypeOK
    <3>2. CASE p # h
      <4>1. job[p] # "queued"
        BY <2>2, <2>7, <3>2 DEF IInv, TypeOK
      <4>2. CASE Kept(p) \/ p = worker[w]
        BY <2>6, <3>2, <4>2
      <4>3. CASE ~Kept(p) /\ p # worker[w]
        <5>1. PICK v \in Workers : worker[v] = p
          BY <4>1, <4>3 DEF CollectInv
        <5>2. worker'[v] = p
          BY <2>2, <4>3, <5>1 DEF IInv, TypeOK
        <5>3. QED
          BY <5>2
      <4>4. QED
        BY <4>2, <4>3
    <3>3. QED
      BY <3>1, <3>2
  <2>8. ASSUME NEW v \in ended' PROVE \E p \in Pairs : worker'[v] = p /\ job'[p] = "refused"
    <3>1. PICK p \in Pairs : worker[v] = p /\ job[p] = "refused"
      BY <1>8, <2>2, <2>8 DEF CollectInv
    <3>2. v # w /\ v \in Workers /\ p # h
      BY <1>2, <2>2, <2>4, <2>8, <3>1 DEF IInv, TypeOK
    <3>3. worker'[v] = p /\ job'[p] = "refused"
      BY <2>2, <3>1, <3>2 DEF IInv, TypeOK
    <3>4. QED
      BY <3>3
  <2>9. CollectInv'
    BY <2>7, <2>8 DEF CollectInv
  <2>10. QED
    BY <1>1, <1>6, <2>5, <2>9
<1>9. QED
  BY <1>7, <1>8

\* Only the event loop changes: a worker ends, or the call does.
LEMMA LoopPInv ==
    ASSUME PInv, (\E w \in Workers : Raise(w)) \/ Unwind \/ Return \/ UNCHANGED vars
    PROVE  PInv'
<1> USE DEF PInv
<1>1. UNCHANGED <<pending, worker, job, attempts, written, stored, reserved, free, recorded>>
  BY DEF Raise, Unwind, Return, vars
<1>2. loop' \in {"running", "unwinding", "returned"} /\ ended' \subseteq Workers
  BY DEF Raise, Unwind, Return, vars, IInv, TypeOK
<1>3. IInv' /\ OrderInv'
  BY <1>1, <1>2, LoopIInv DEF OrderInv
<1>4. CollectInv'
  <2>1. \A p \in Pairs : Kept(p) <=> Kept(p)'
    BY <1>1 DEF Kept
  <2>2. ASSUME NEW v \in ended'
        PROVE  v \in ended \/ \E p \in Pairs : worker[v] = p /\ job[p] = "refused"
    BY <2>2 DEF Raise, Unwind, Return, vars, IInv, TypeOK
  <2>3. QED
    BY <1>1, <2>1, <2>2 DEF CollectInv
<1>5. EndInv'
  <2>1. CASE (\E w \in Workers : Raise(w)) \/ UNCHANGED vars
    BY <1>1, <2>1 DEF EndInv, Raise, vars, Raised, Active
  <2>2. CASE Unwind
    <3>1. Raised
      BY <2>2 DEF Unwind, Raised, IInv, TypeOK
    <3>2. QED
      BY <1>1, <2>2, <3>1 DEF EndInv, Unwind, Raised
  <2>3. CASE Return
    <3>1. CASE loop = "unwinding" /\ Active = {}
      BY <1>1, <2>3, <3>1 DEF EndInv, Return, Raised, Active
    <3>2. CASE /\ loop = "running" /\ ended = Workers
               /\ \A v \in Workers : worker[v] # Idle => job[worker[v]] # "refused"
      <4>1. ASSUME NEW p \in Pairs PROVE Kept(p)
        <5>1. Workers # {}
          BY PoolAssumption DEF Workers, Pairs
        <5>2. pending = <<>>
          <6>1. PICK v \in Workers : TRUE
            BY <5>1
          <6>2. \A q \in Pairs : ~(worker[v] = q /\ job[q] = "refused")
            BY <3>2, ConstantsType
          <6>3. QED
            BY <3>2, <6>1, <6>2 DEF CollectInv
        <5>3. job[p] # "queued"
          BY <5>2, PoolAssumption DEF OrderInv, Pairs
        <5>4. QED
          BY <3>2, <5>3, ConstantsType DEF CollectInv
      <4>2. Active = {} /\ recorded = job
        BY <4>1 DEF Kept, Active, Over, IInv, TypeOK
      <4>3. QED
        BY <1>1, <2>3, <4>2 DEF EndInv, Return, Raised, Active
    <3>3. QED
      BY <2>3, <3>1, <3>2 DEF Return
  <2>4. QED
    BY <2>1, <2>2, <2>3
<1>6. QED
  BY <1>3, <1>4, <1>5

\* What a thread may do to its pair.
LEMMA ThreadStep ==
    ASSUME IInv, NEW p \in Pairs, Step(p)
    PROVE  /\ p \in Active
           /\ \E s \in {"searching", "encoding", "judging"} \cup Over : job' = [job EXCEPT ![p] = s]
           /\ UNCHANGED <<pending, worker, ended, loop, recorded>>
<1> USE DEF threadVars, Active, Over, IInv, TypeOK
<1>1. CASE Reuse(p) \/ Admit(p) \/ Refuse(p)
  BY <1>1 DEF Reuse, Admit, Refuse
<1>2. CASE Encoded(p) \/ EncodeFails(p) \/ Continue(p)
  BY <1>2 DEF Encoded, EncodeFails, Continue
<1>3. CASE Write(p)
  <2>1. job' = [job EXCEPT ![p] = "encoding"]
    BY <1>3 DEF Write
  <2>2. QED
    BY <1>3, <2>1 DEF Write
<1>4. CASE \E freed \in 0 .. stored[p] : Converge(p, freed)
  BY <1>4 DEF Converge
<1>5. QED
  BY <1>1, <1>2, <1>3, <1>4 DEF Step

\* A thread's step keeps the promise's invariant.
LEMMA StepPInv ==
    ASSUME PInv, NEW p \in Pairs, Step(p)
    PROVE  PInv'
<1> USE DEF PInv
<1>1. IInv'
  BY StepIInv
<1>2. /\ p \in Active
      /\ UNCHANGED <<pending, worker, ended, loop, recorded>>
  BY ThreadStep
<1>3. PICK s : s # "queued" /\ job' = [job EXCEPT ![p] = s]
  BY ThreadStep DEF Over
<1>4. job[p] \notin Over \cup {"queued"} /\ ~Kept(p)
  BY <1>2 DEF Active, Kept, Over
<1>5. ASSUME NEW q \in Pairs, q # p PROVE job'[q] = job[q] /\ (Kept(q) => Kept(q)')
  BY <1>2, <1>3, <1>5 DEF Kept, IInv, TypeOK
<1>6. OrderInv'
  <2>1. job'[p] # "queued"
    BY <1>3 DEF IInv, TypeOK
  <2>2. \A q \in Pairs : job'[q] = "queued" <=> job[q] = "queued"
    BY <1>4, <1>5, <2>1
  <2>3. QED
    BY <1>2, <2>2 DEF OrderInv
<1>7. CollectInv'
  <2>1. ASSUME NEW q \in Pairs, job'[q] # "queued"
        PROVE  Kept(q)' \/ \E w \in Workers : worker'[w] = q
    BY <1>2, <1>4, <1>5, <2>1 DEF CollectInv
  <2>2. ASSUME NEW v \in ended'
        PROVE  \/ pending' = <<>> /\ \A q \in Pairs : worker'[v] = q => Kept(q)'
               \/ \E q \in Pairs : worker'[v] = q /\ job'[q] = "refused"
    <3>1. v \in ended
      BY <1>2, <2>2
    <3>2. CASE pending = <<>> /\ \A q \in Pairs : worker[v] = q => Kept(q)
      <4>1. ASSUME NEW q \in Pairs, worker'[v] = q PROVE Kept(q)'
        BY <1>2, <1>4, <1>5, <3>2, <4>1
      <4>2. QED
        BY <1>2, <3>2, <4>1
    <3>3. CASE \E q \in Pairs : worker[v] = q /\ job[q] = "refused"
      <4>1. PICK q \in Pairs : worker[v] = q /\ job[q] = "refused"
        BY <3>3
      <4>2. q # p
        BY <1>4, <4>1 DEF Over
      <4>3. QED
        BY <1>2, <1>5, <4>1, <4>2
    <3>4. QED
      BY <3>1, <3>2, <3>3 DEF CollectInv
  <2>3. QED
    BY <2>1, <2>2 DEF CollectInv
<1>8. EndInv'
  <2>1. loop # "returned"
    BY <1>2 DEF EndInv
  <2>2. Raised => Raised'
    <3> SUFFICES ASSUME NEW q \in Pairs, job[q] = "refused" PROVE job'[q] = "refused"
      BY DEF Raised
    <3>1. q # p
      BY <1>4 DEF Over
    <3>2. QED
      BY <1>5, <3>1
  <2>3. QED
    BY <1>2, <2>1, <2>2 DEF EndInv
<1>9. QED
  BY <1>1, <1>6, <1>7, <1>8

\* The invariant of the promise holds throughout.
LEMMA PromiseKept == Spec => []PInv
<1>1. PInv /\ [Next]_vars => PInv'
  <2> SUFFICES ASSUME PInv, [Next]_vars PROVE PInv'
    OBVIOUS
  <2>1. CASE \E w \in Workers : Turn(w)
    BY <2>1, TurnPInv
  <2>2. CASE \E w \in Workers : Raise(w)
    BY <2>2, LoopPInv
  <2>3. CASE Unwind \/ Return \/ UNCHANGED vars
    BY <2>3, LoopPInv
  <2>4. CASE \E p \in Pairs : Step(p)
    BY <2>4, StepPInv
  <2>5. QED
    BY <2>1, <2>2, <2>3, <2>4 DEF Next
<1>2. QED
  BY InitPInv, <1>1, PTL DEF Spec

\* Once the phase returns no thread is at work, and nothing is reserved any more.
THEOREM ComesToRest == Spec => []Quiesced
<1>1. PInv => Quiesced
  <2> SUFFICES ASSUME PInv, loop = "returned" PROVE Active = {} /\ reserved = 0
    BY DEF Quiesced
  <2>1. Active = {}
    BY DEF PInv, EndInv
  <2>2. Encoding = {}
    BY <2>1 DEF Active, Encoding, Over
  <2>3. reserved = Need * 0
    BY <2>2, FS_EmptySet DEF PInv, IInv, LedgerInv
  <2>4. QED
    BY <2>1, <2>3, PoolAssumption
<1>2. QED
  BY PromiseKept, <1>1, PTL

\* What the threads do to their pairs is what BoundedMap allows, or nothing of it.
LEMMA StepMaps ==
    ASSUME PInv, NEW p \in Pairs, Step(p)
    PROVE  [Promise!Next]_Promise!vars
<1> DEFINE done == [q \in Pairs |-> IF job[q] \in Over THEN job[q] ELSE "none"]
<1> USE DEF PInv
<1>1. /\ p \in Active
      /\ UNCHANGED <<pending, worker, ended, loop, recorded>>
  BY ThreadStep
<1>2. PICK s \in {"searching", "encoding", "judging"} \cup Over : job' = [job EXCEPT ![p] = s]
  BY ThreadStep
<1>3. loop # "returned" /\ job[p] \notin Over
  BY <1>1 DEF EndInv, Active
<1>4. CASE s \in Over
  <2>1. Active' = Active \ {p}
    BY <1>2, <1>4 DEF Active, Over, IInv, TypeOK
  <2>2. done' = [done EXCEPT ![p] = s]
    BY <1>2, <1>4 DEF IInv, TypeOK
  <2>3. Promise!End(p, s)
    BY <1>1, <1>3, <1>4, <2>1, <2>2 DEF Promise!End, Over
  <2>4. QED
    BY <1>4, <2>3 DEF Promise!Next, Promise!Items, Pairs, Over
<1>5. CASE s \notin Over
  <2>1. Active' = Active /\ done' = done
    BY <1>1, <1>2, <1>3, <1>5 DEF Active, Over, IInv, TypeOK
  <2>2. QED
    BY <1>1, <1>3, <2>1 DEF Promise!vars
<1>6. QED
  BY <1>4, <1>5

\* Taking the next pair begins it, and there is room for it.
LEMMA TurnMaps ==
    ASSUME PInv, NEW w \in Workers, Turn(w)
    PROVE  [Promise!Next]_Promise!vars
<1> DEFINE done == [q \in Pairs |-> IF job[q] \in Over THEN job[q] ELSE "none"]
<1> USE DEF PInv
<1>1. loop = "running" /\ loop' = loop
  BY DEF Turn
<1>2. CASE pending = <<>>
  <2>1. UNCHANGED <<pending, job>>
    BY <1>2 DEF Turn
  <2>2. Active' = Active /\ done' = done
    BY <2>1 DEF Active
  <2>3. QED
    BY <1>1, <2>1, <2>2 DEF Promise!vars
<1>3. CASE pending # <<>>
  <2>1. PICK h : h = Head(pending)
    OBVIOUS
  <2>2. pending' = Tail(pending) /\ job' = [job EXCEPT ![h] = "searching"]
    BY <1>3, <2>1 DEF Turn
  <2>3. /\ h \in Pairs /\ h = NumPairs - Len(pending) + 1
        /\ Len(pending') = Len(pending) - 1 /\ Len(pending) \in Nat \ {0}
    BY <1>3, <2>1, <2>2, HeadTailProperties DEF IInv, TypeOK, OrderInv
  <2>4. job[h] = "queued"
    BY <2>3, PoolAssumption DEF OrderInv, Pairs
  <2>5. Active' = Active \cup {h} /\ h \notin Active
    BY <2>2, <2>3, <2>4 DEF Active, Over, IInv, TypeOK
  <2>6. done' = done
    BY <2>2, <2>3, <2>4 DEF Over, IInv, TypeOK
  <2>7. Cardinality(Active) < Bound
    <3>1. IsFiniteSet(Active) /\ Cardinality(Active) \in Nat
      BY ConstantsType, FS_Subset, FS_CardinalityType DEF Active
    <3>2. Cardinality(Active') = Cardinality(Active) + 1
      BY <2>5, <3>1, FS_AddElement
    <3>3. BoundHeld'
      <4>1. TypeOK' /\ WorkerInv'
        BY TurnIInv DEF IInv
      <4>2. QED
        BY <4>1, ActiveBound, PTL
    <3>4. QED
      BY <3>1, <3>2, <3>3, PoolAssumption DEF BoundHeld
  <2>8. Promise!Begin
    <3>1. /\ NumPairs - Len(pending) < NumPairs
          /\ NumPairs - Len(pending') = NumPairs - Len(pending) + 1
      BY <2>3, PoolAssumption
    <3>2. Active' = Active \cup {NumPairs - Len(pending) + 1}
      BY <2>3, <2>5
    <3>3. loop # "returned" /\ loop' # "returned"
      BY <1>1
    <3>4. Promise!Cardinality(Active) = Cardinality(Active)
      BY DEF Promise!Cardinality, Cardinality
    <3>5. QED
      BY <2>6, <2>7, <3>1, <3>2, <3>3, <3>4 DEF Promise!Begin, done
  <2>9. QED
    BY <2>8 DEF Promise!Next
<1>4. QED
  BY <1>2, <1>3

\* The phase returns, or raises, when BoundedMap does.
LEMMA LoopMaps ==
    ASSUME PInv, PInv', (\E w \in Workers : Raise(w)) \/ Unwind \/ Return \/ UNCHANGED vars
    PROVE  [Promise!Next]_Promise!vars
<1> DEFINE done == [q \in Pairs |-> IF job[q] \in Over THEN job[q] ELSE "none"]
<1> USE DEF PInv
<1>1. UNCHANGED <<pending, job, recorded>>
  BY DEF Raise, Unwind, Return, vars
<1>2. Active' = Active /\ done' = done /\ Raised' = Raised
  BY <1>1 DEF Active, Raised
<1>3. CASE ~Return
  <2>1. loop' = loop \/ (loop # "returned" /\ loop' # "returned")
    BY <1>3 DEF Raise, Unwind, vars
  <2>2. QED
    BY <1>1, <1>2, <2>1 DEF Promise!vars
<1>4. CASE Return
  <2>1. loop # "returned" /\ loop' = "returned" /\ Active = {}
    BY <1>2, <1>4 DEF Return, EndInv
  <2>2. CASE Raised
    <3>1. \E p \in Pairs : done[p] = "refused"
      BY <2>2 DEF Raised, Over
    <3>2. Promise!Raise
      BY <1>1, <1>2, <2>1, <2>2, <3>1 DEF Promise!Raise, Promise!Items, Pairs
    <3>3. QED
      BY <3>2 DEF Promise!Next
  <2>3. CASE ~Raised
    <3>1. recorded = job
      BY <1>1, <1>2, <2>1, <2>3 DEF EndInv
    <3>2. \A p \in Pairs : job[p] \in {"success", "failed"}
      BY <2>3, <3>1 DEF Raised, IInv, TypeOK, Outcomes, Over
    <3>3. recorded = done
      BY <3>1, <3>2 DEF IInv, TypeOK, Over
    <3>4. Promise!Return
      BY <1>1, <1>2, <2>1, <2>3, <3>2, <3>3 DEF Promise!Return, Promise!Items, Pairs, Over
    <3>5. QED
      BY <3>4 DEF Promise!Next
  <2>4. QED
    BY <2>2, <2>3
<1>5. QED
  BY <1>3, <1>4

\* The pool of the encode phase implements the promise of run_bounded: pairs begin
\* in their order and within the bound, and the caller gets the outcome of each of
\* them, or the refusal, once no thread is at work.
THEOREM ImplementsPromise == Spec => Implements
<1>1. Init => Promise!Init
  <2> SUFFICES ASSUME Init PROVE Promise!Init
    OBVIOUS
  <2>1. Len(pending) = NumPairs
    BY PoolAssumption DEF Init, Pairs
  <2>2. NumPairs - Len(pending) = 0 /\ Active = {}
    BY <2>1, PoolAssumption DEF Init, Active
  <2>3. QED
    BY <2>2 DEF Init, Promise!Init, Promise!Items, Pairs, Over
<1>2. PInv /\ PInv' /\ [Next]_vars => [Promise!Next]_Promise!vars
  <2> SUFFICES ASSUME PInv, PInv', [Next]_vars PROVE [Promise!Next]_Promise!vars
    OBVIOUS
  <2>1. CASE \E w \in Workers : Turn(w)
    BY <2>1, TurnMaps
  <2>2. CASE (\E w \in Workers : Raise(w)) \/ Unwind \/ Return \/ UNCHANGED vars
    BY <2>2, LoopMaps
  <2>3. CASE \E p \in Pairs : Step(p)
    BY <2>3, StepMaps
  <2>4. QED
    BY <2>1, <2>2, <2>3 DEF Next
<1>3. QED
  BY PromiseKept, <1>1, <1>2, PTL DEF Spec, Implements, Promise!Spec
================================================================================
