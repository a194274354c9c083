------------------------------- MODULE EncodePool -------------------------------
(***************************************************************************)
(* The bounded encoding of one phase run: run_bounded (utils/concurrency)  *)
(* hands the pending (chunk, strategy) pairs to workers, every pair's      *)
(* quality search runs in an executor thread, and each fresh attempt is    *)
(* admitted by the SpaceGuard (utils/disk_space).  A refusal ends the      *)
(* event loop while the other threads are still at work                    *)
(* (_encode_chunk_async, _encode_pairs, EncodingPhase._execute).           *)
(*                                                                         *)
(* Sizes are counted in units of disk.  All pairs write to one filesystem, *)
(* and nothing but the pool writes to it.                                  *)
(***************************************************************************)
EXTENDS Integers, Sequences, FiniteSets

CONSTANTS
    NumPairs,     \* the pairs 1..NumPairs that need work, in input order
    Bound,        \* encoding.concurrency
    MaxAttempts,  \* bound on the attempts of one pair's search
    Capacity,     \* free units when the phase starts
    MinFree,      \* min_free_space
    Need,         \* ATTEMPT_RESERVE_BYTES
    Size          \* the most an attempt may write; it may outrun the reserve

ASSUME PoolAssumption ==
    /\ NumPairs \in Nat /\ Bound \in Nat \ {0} /\ MaxAttempts \in Nat \ {0}
    /\ Capacity \in Nat /\ MinFree \in Nat /\ Need \in Nat /\ Size \in Nat \ {0}
    /\ Capacity >= MinFree

Pairs   == 1 .. NumPairs
\* Mutant: a worker for every pair.
WorkerPerPair == Pairs
Workers == 1 .. (IF Bound <= NumPairs THEN Bound ELSE NumPairs)
Idle    == 0              \* a worker that has no pair yet
Overrun == IF Size > Need THEN Size - Need ELSE 0

VARIABLES
    pending,    \* run_bounded's deque of pairs
    worker,     \* the pair each worker awaits; Idle before its first turn
    ended,      \* the workers whose coroutine is over
    loop,       \* the event loop: "running", "unwinding" on a raise, "returned"
    job,        \* where the pair's encode_chunk thread is
    attempts,   \* attempts the pair's search has concluded
    written,    \* what the attempt being encoded has written so far
    stored,     \* what the pair's finished attempts occupy
    reserved,   \* SpaceGuard._reserved of the filesystem
    free,       \* free space of the filesystem
    recorded    \* the results the phase has collected: pair -> outcome
vars == <<pending, worker, ended, loop, job, attempts, written, stored, reserved, free, recorded>>
threadVars == <<pending, worker, ended, loop, recorded>>

Over     == {"success", "failed", "refused"}
Encoding == {p \in Pairs : job[p] = "encoding"}
Active   == {p \in Pairs : job[p] \notin Over \cup {"queued"}}
--------------------------------------------------------------------------------
(* The event loop.                                                         *)

\* Mutants: the worker does not wait; it waits for a success only.
NotAwaited(w) == TRUE
Succeeded(w)  == worker[w] # Idle => job[worker[w]] = "success"

\* The process(item) call a worker awaits has returned.
Awaited(w) == worker[w] # Idle => job[worker[w]] \in {"success", "failed"}

\* Mutant: only a worker that goes on collects what it awaited.
CollectedWithNext(w) ==
    [p \in Pairs |-> IF p = worker[w] /\ pending # <<>> THEN job[p] ELSE recorded[p]]

Collected(w) == [p \in Pairs |-> IF p = worker[w] THEN job[p] ELSE recorded[p]]

\* One turn of a worker coroutine: collect the result of the awaited pair, then
\* take the next one and submit its thread.  The two happen with no await between.
Turn(w) ==
    /\ loop = "running" /\ w \notin ended
    /\ Awaited(w)
    /\ recorded' = Collected(w)
    /\ IF pending # <<>>
       THEN /\ pending' = Tail(pending)
            /\ worker' = [worker EXCEPT ![w] = Head(pending)]
            /\ job' = [job EXCEPT ![Head(pending)] = "searching"]
            /\ UNCHANGED ended
       ELSE /\ ended' = ended \cup {w}
            /\ UNCHANGED <<pending, worker, job>>
    /\ UNCHANGED <<loop, attempts, written, stored, reserved, free>>

\* The await of a refused pair raises InsufficientSpaceError in its worker.
Raise(w) ==
    /\ loop = "running" /\ w \notin ended
    /\ worker[w] # Idle /\ job[worker[w]] = "refused"
    /\ ended' = ended \cup {w}
    /\ UNCHANGED <<pending, worker, loop, job, attempts, written, stored, reserved, free, recorded>>

\* gather hands the exception on and asyncio.run cancels the remaining coroutines.
\* Their threads cannot be cancelled.
Unwind ==
    /\ loop = "running"
    /\ \E w \in ended : worker[w] # Idle /\ job[worker[w]] = "refused"
    /\ loop' = "unwinding"
    /\ UNCHANGED <<pending, worker, ended, job, attempts, written, stored, reserved, free, recorded>>

\* gather has every result; or asyncio.run has shut the executor down, which waits
\* for its threads.
Return ==
    /\ \/ loop = "running" /\ ended = Workers
          /\ \A w \in Workers : worker[w] # Idle => job[worker[w]] # "refused"
       \/ loop = "unwinding" /\ Active = {}
    /\ loop' = "returned"
    /\ UNCHANGED <<pending, worker, ended, job, attempts, written, stored, reserved, free, recorded>>
--------------------------------------------------------------------------------
(* A pair's thread: encode_chunk.                                          *)

\* The proposed attempt exists on disk: nothing to encode.
Reuse(p) ==
    /\ job[p] = "searching"
    /\ job' = [job EXCEPT ![p] = "judging"]
    /\ UNCHANGED threadVars /\ UNCHANGED <<attempts, written, stored, reserved, free>>

\* Mutant: what other attempts have reserved is not counted.
FitsAlone == free - Need >= MinFree

Fits == free - reserved - Need >= MinFree

\* SpaceGuard.ensure admits a fresh attempt.
Admit(p) ==
    /\ job[p] = "searching"
    /\ Fits
    /\ reserved' = reserved + Need
    /\ job' = [job EXCEPT ![p] = "encoding"]
    /\ written' = [written EXCEPT ![p] = 0]
    /\ UNCHANGED threadVars /\ UNCHANGED <<attempts, stored, free>>

\* SpaceGuard.ensure refuses it: the thread ends with InsufficientSpaceError.
Refuse(p) ==
    /\ job[p] = "searching"
    /\ ~Fits
    /\ job' = [job EXCEPT ![p] = "refused"]
    /\ UNCHANGED threadVars /\ UNCHANGED <<attempts, written, stored, reserved, free>>

\* ffmpeg writes on.
Write(p) ==
    /\ job[p] = "encoding" /\ written[p] < Size /\ free > 0
    /\ written' = [written EXCEPT ![p] = @ + 1]
    /\ free' = free - 1
    /\ UNCHANGED threadVars /\ UNCHANGED <<job, attempts, stored, reserved>>

\* ffmpeg is done and the attempt is in place: the reserve is given back.
Encoded(p) ==
    /\ job[p] = "encoding" /\ written[p] > 0
    /\ job' = [job EXCEPT ![p] = "judging"]
    /\ stored' = [stored EXCEPT ![p] = @ + written[p]]
    /\ reserved' = reserved - Need
    /\ UNCHANGED threadVars /\ UNCHANGED <<attempts, written, free>>

\* Mutant: the reserve is given back on the way of success only.
EncodeFailsKeeping(p) ==
    /\ job[p] = "encoding"
    /\ job' = [job EXCEPT ![p] = "failed"]
    /\ free' = free + written[p]
    /\ UNCHANGED threadVars /\ UNCHANGED <<attempts, written, stored, reserved>>

\* ffmpeg failed: its temporary file is deleted and the pair's search is over.
EncodeFails(p) ==
    /\ job[p] = "encoding"
    /\ job' = [job EXCEPT ![p] = "failed"]
    /\ free' = free + written[p]
    /\ reserved' = reserved - Need
    /\ UNCHANGED threadVars /\ UNCHANGED <<attempts, written, stored>>

\* The measured attempt is recorded and the search proposes another quality.
Continue(p) ==
    /\ job[p] = "judging" /\ attempts[p] + 1 < MaxAttempts
    /\ attempts' = [attempts EXCEPT ![p] = @ + 1]
    /\ job' = [job EXCEPT ![p] = "searching"]
    /\ UNCHANGED threadVars /\ UNCHANGED <<written, stored, reserved, free>>

\* The search ends: the winner is promoted by a hard link and, from the
\* intermediate cleanup level on, some of the pair's attempts are deleted.
Converge(p, freed) ==
    /\ job[p] = "judging"
    /\ freed \in 0 .. stored[p]
    /\ job' = [job EXCEPT ![p] = "success"]
    /\ stored' = [stored EXCEPT ![p] = @ - freed]
    /\ free' = free + freed
    /\ UNCHANGED threadVars /\ UNCHANGED <<attempts, written, reserved>>
--------------------------------------------------------------------------------
Init ==
    /\ pending = [i \in Pairs |-> i]
    /\ worker = [w \in Workers |-> Idle]
    /\ ended = {}
    /\ loop = "running"
    /\ job = [p \in Pairs |-> "queued"]
    /\ attempts = [p \in Pairs |-> 0]
    /\ written = [p \in Pairs |-> 0]
    /\ stored = [p \in Pairs |-> 0]
    /\ reserved = 0
    /\ free = Capacity
    /\ recorded = [p \in Pairs |-> "none"]

Step(p) == \/ Reuse(p) \/ Admit(p) \/ Refuse(p)
           \/ Write(p) \/ Encoded(p) \/ EncodeFails(p)
           \/ Continue(p) \/ \E freed \in 0 .. stored[p] : Converge(p, freed)

Next == \/ \E w \in Workers : Turn(w) \/ Raise(w)
        \/ Unwind \/ Return
        \/ \E p \in Pairs : Step(p)

Spec == Init /\ [][Next]_vars

\* The event loop runs its ready coroutines, and every thread runs on.
FairSpec == /\ Spec
            /\ \A w \in Workers : WF_vars(Turn(w) \/ Raise(w))
            /\ WF_vars(Unwind \/ Return)
            /\ \A p \in Pairs : WF_vars(Step(p))
--------------------------------------------------------------------------------
Outcomes == {"none", "success", "failed"}

TypeOK ==
    /\ pending \in Seq(Pairs)
    /\ worker \in [Workers -> Pairs \cup {Idle}]
    /\ ended \subseteq Workers
    /\ loop \in {"running", "unwinding", "returned"}
    /\ job \in [Pairs -> {"queued", "searching", "encoding", "judging"} \cup Over]
    /\ attempts \in [Pairs -> Nat]
    /\ written \in [Pairs -> 0 .. Size] /\ stored \in [Pairs -> Nat]
    /\ reserved \in Int /\ free \in Nat
    /\ recorded \in [Pairs -> Outcomes]

\* The workers cannot overshoot together what the guard let each of them start:
\* the floor holds at every moment, short only of what the attempts in flight may
\* outrun their reserves by.
FloorHeld == free >= MinFree - Bound * Overrun

\* Never more attempts in flight than the concurrency allows, also while the loop
\* unwinds.
BoundHeld == Cardinality(Active) <= Bound

\* Everything admitted is given back: once the phase returns no thread is still
\* writing and the ledger is empty.
Quiesced == loop = "returned" => Active = {} /\ reserved = 0

\* The promise of run_bounded: see BoundedMap.  The pairs begin in their order, and
\* the caller gets the outcome of every one of them, or the refusal, and either not
\* before the last thread is done.
Raised == \E p \in Pairs : job[p] = "refused"
Promise == INSTANCE BoundedMap WITH
    Length <- NumPairs, Values <- {"success", "failed"}, Refused <- "refused", None <- "none",
    begun <- NumPairs - Len(pending), running <- Active,
    outcome <- [p \in Pairs |-> IF job[p] \in Over THEN job[p] ELSE "none"],
    call <- IF loop # "returned" THEN "pending" ELSE IF Raised THEN "raised" ELSE "returned",
    list <- IF loop # "returned" \/ Raised THEN [p \in Pairs |-> "none"] ELSE recorded
Implements == Promise!Spec

\* The phase returns: no pair and no refusal leaves it waiting.
Returns == <>(loop = "returned")
================================================================================
