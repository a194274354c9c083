---------------------------- MODULE MC_EncodingStore ----------------------------
(* Instances of the encoding store for TLC. *)
EXTENDS EncodingStore

Plans == {"s1", "s2"}
Trails == [low  |-> [wide |-> <<10>>],
           high |-> [wide |-> <<10, 20>>, narrow |-> <<20, 30>>]]
Costs == [s \in Strategies |-> IF s = "s1" THEN 10 ELSE 12]

\* The first chunk is the test basis.
FirstChunk(chunks) == {CHOOSE c \in chunks : \A d \in chunks : c <= d}
Everything(chunks) == chunks

Base == [work |-> "one", pixels |-> "p", plan |-> Plans, args |-> [s \in Plans |-> "a"], goal |-> "high",
         range |-> "wide", sampling |-> 1, chunks |-> {1}, optimize |-> TRUE, concurrency |-> 2,
         force |-> FALSE, cleanup |-> "none"]
Force(k) == [k EXCEPT !.force = TRUE]

\* One chunk, with any of the changes.
One == {Base,
        Force([Base EXCEPT !.pixels = "P"]),
        Force([Base EXCEPT !.args["s1"] = "A"]),
        [Base EXCEPT !.goal = "low"],
        [Base EXCEPT !.sampling = 2],
        [Base EXCEPT !.optimize = FALSE],
        [Base EXCEPT !.pixels = "P"],
        [Base EXCEPT !.plan = {"s2"}],
        Force(Base)}

\* Two chunks, the first of them the test basis.
Both == [Base EXCEPT !.work = "two", !.chunks = {1, 2}, !.concurrency = 1]
Two  == {Both,
         [Both EXCEPT !.goal = "low"],
         [Both EXCEPT !.chunks = {1}],
         [Both EXCEPT !.optimize = FALSE],
         Force([Both EXCEPT !.args["s1"] = "A"])}

\* One chunk, whose attempts are cleaned up among changes of what they were made from.
Clean == [Base EXCEPT !.work = "swept", !.cleanup = "intermediate"]
Swept == {Clean,
          [Clean EXCEPT !.goal = "low"],
          [Clean EXCEPT !.cleanup = "all"],
          [Clean EXCEPT !.optimize = FALSE],
          [Clean EXCEPT !.cleanup = "none"],
          [Clean EXCEPT !.plan = {"s2"}],
          Force([Clean EXCEPT !.pixels = "P"]),
          Force([Clean EXCEPT !.args["s1"] = "A"])}

Works == One \cup Two \cup Swept
Bounds == [one   |-> [runs |-> 3, kills |-> 2, failures |-> 0],
           two   |-> [runs |-> 2, kills |-> 1, failures |-> 1],
           swept |-> [runs |-> 3, kills |-> 1, failures |-> 0]]

\* One strategy's arguments and the targets change together.
Combined == {Base, Force([Base EXCEPT !.args["s2"] = "A", !.goal = "low"])}
\* A wipe of attempts; a strategy that leaves the plan, and returns changed.
Plain == [Base EXCEPT !.optimize = FALSE]
Alone == [Plain EXCEPT !.plan = {"s1"}]
Unvouched == {Alone, Force([Alone EXCEPT !.pixels = "P"]),
              [Plain EXCEPT !.plan = {"s2"}], [Plain EXCEPT !.args["s2"] = "A"]}
================================================================================
