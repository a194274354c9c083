--------------------------- MODULE MC_QualitySearch ---------------------------
(* Instances of the quality search for TLC. *)
EXTENDS QualitySearch

OneTarget    == {1}
TwoTargets   == {1, 2}
UnitWeight   == [t \in Targets |-> 1]
MixedWeight  == [t \in Targets |-> IF t = 1 THEN 1 ELSE 2]
NoDelta      == [t \in Targets |-> 0]
Wide         == -4..4
Falling      == -7..7
================================================================================
