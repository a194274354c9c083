----------------------------- MODULE MC_PhaseRunner -----------------------------
(* The phases of pyqenc and the commands of its API, for TLC. *)
EXTENDS PhaseRunner

AllPhases == {"job", "extraction", "probe", "chunking", "optimization", "encoding", "audio", "merge"}

\* DEPENDS_ON of each phase.
Declared ==
    [job          |-> <<>>,
     extraction   |-> <<"job">>,
     probe        |-> <<"job", "extraction">>,
     chunking     |-> <<"job", "probe">>,
     optimization |-> <<"job", "probe", "chunking">>,
     encoding     |-> <<"job", "probe", "chunking", "optimization">>,
     audio        |-> <<"job", "extraction">>,
     merge        |-> <<"job", "extraction", "probe", "optimization", "encoding">>]

\* The winners and attempts are deleted by the optimization phase.
Owned == [p \in AllPhases |-> IF p = "optimization" THEN {"encoding"} ELSE {}]

\* The winners of eliminated strategies, which the tests left, are deleted by encoding.
Curated == [p \in AllPhases |-> IF p = "encoding" THEN {"optimization"} ELSE {}]

Command == [targets |-> <<"audio", "merge">>, dry |-> FALSE, force |-> FALSE,
            skip |-> FALSE, all |-> FALSE]
Forced  == [Command EXCEPT !.force = TRUE]
Preview == [Command EXCEPT !.dry = TRUE]
Skipped == [Command EXCEPT !.skip = TRUE]
Cleaned == [Command EXCEPT !.all = TRUE]
Partial == [Command EXCEPT !.targets = <<"encoding">>, !.all = TRUE]

Several  == {Command, Forced, Skipped, Cleaned, Partial, Preview}
================================================================================
