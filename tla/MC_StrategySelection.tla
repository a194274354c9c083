-------------------------- MODULE MC_StrategySelection --------------------------
(* Instances of the strategy selection for TLC. *)
EXTENDS StrategySelection, TLC

Measured(size, low, mid) == [size |-> size, stats |-> "low" :> low @@ "mid" :> mid]

\* What a strategy may make of the two chunks.  "lean" and "twin" weigh the same; "rich"
\* and "heavy" lie within 20 percent of one of them but not of both; the verdict over one
\* chunk differs from the verdict over the other.
Profiles ==
    [lean  |-> <<Measured(20, 5, 7), Measured(20, 5, 7)>>,
     twin  |-> <<Measured(20, 6, 8), Measured(18, 3, 6)>>,
     rich  |-> <<Measured(23, 7, 7), Measured(24, 6, 9)>>,
     heavy |-> <<Measured(27, 8, 9), Measured(19, 7, 9)>>]

\* The fixed goal is met with files twice as large as the searched ones.
For(g, take) == IF g = "fixed" THEN [take EXCEPT !.size = 2 * @] ELSE take
WorldOf(assigned) ==
    [g \in Goals |-> [s \in Strategies |-> [c \in Chunks |-> For(g, Profiles[assigned[s]][c])]]]
\* Every choice for the first two strategies; the third is one no other weighs alike.
AllWorlds == {WorldOf(<<p, q, "heavy">>) : p, q \in DOMAIN Profiles}
OneWorld  == {WorldOf(<<"lean", "heavy">>)}

Deltas == [t \in Stats |-> 1]

Basic == [goal |-> "fixed", plan |-> Strategies, tolerance |-> 20, optimize |-> TRUE]
Edits == {Basic,
          [Basic EXCEPT !.goal = "search"],
          [Basic EXCEPT !.tolerance = 0],
          [Basic EXCEPT !.plan = {1, 2}],
          [Basic EXCEPT !.optimize = FALSE]}
Just  == {Basic}
================================================================================
