--------------------------- MODULE MC_MergeAcceptance ---------------------------
(* Instances of the merge acceptance for TLC. *)
EXTENDS MergeAcceptance

\* A search, and runs at fixed qualities, one for each strategy.
Base == [source |-> "f", selected |-> {"s1", "s2"}, args |-> [s1 |-> "a", s2 |-> "a"],
         knob |-> [s1 |-> Range, s2 |-> Range], probe |-> "p", targets |-> "t", sampling |-> 1,
         chunks |-> "c", measure |-> TRUE, force |-> FALSE]
Fix(k, q) == [k EXCEPT !.knob = [s1 |-> q, s2 |-> "18"]]

Edits == {Base,
          Fix(Base, "18"),
          Fix(Base, "20"),
          [Fix(Base, "18") EXCEPT !.sampling = 2, !.measure = FALSE],
          [Fix(Base, "18") EXCEPT !.sampling = 2, !.args["s1"] = "A"],
          [Base EXCEPT !.sampling = 2],
          [Base EXCEPT !.targets = "T", !.selected = {"s1"}],
          [Base EXCEPT !.probe = "P", !.measure = FALSE],
          [Base EXCEPT !.chunks = "C"],
          [Base EXCEPT !.source = "F"],
          [Base EXCEPT !.source = "F", !.force = TRUE],
          [Base EXCEPT !.force = TRUE]}

\* The arguments of one strategy, and back.
Arguments == {[k EXCEPT !.selected = {"s1"}] : k \in {Base, [Base EXCEPT !.args["s1"] = "A"]}}
================================================================================
