------------------------------- MODULE BoundedMap -------------------------------
(***************************************************************************)
(* What run_bounded promises its callers: every item is processed once, in *)
(* input order and with at most Bound at a time, and the call ends either  *)
(* with the list of what each of them came to, or with the refusal of one  *)
(* of them once nothing is at work any more.                               *)
(***************************************************************************)
EXTENDS Integers, FiniteSets

CONSTANTS
    Length,      \* of the list of items
    Bound,       \* the items that may be in flight
    Values,      \* what processing an item may come to
    Refused,     \* processing it raises
    None         \* not processed yet
Items == 1 .. Length

VARIABLES
    begun,       \* the items handed out
    running,     \* the items in flight
    outcome,     \* item -> what it came to
    call,        \* "pending", "returned", or "raised" to the caller
    list         \* what is returned: item -> what it came to
vars == <<begun, running, outcome, call, list>>
--------------------------------------------------------------------------------
Init ==
    /\ begun = 0 /\ running = {}
    /\ outcome = [i \in Items |-> None]
    /\ call = "pending" /\ list = outcome

Begin ==
    /\ call = "pending"
    /\ begun < Length /\ Cardinality(running) < Bound
    /\ begun' = begun + 1 /\ running' = running \cup {begun + 1}
    /\ UNCHANGED <<outcome, call, list>>

End(i, value) ==
    /\ i \in running /\ value \in Values \cup {Refused}
    /\ running' = running \ {i}
    /\ outcome' = [outcome EXCEPT ![i] = value]
    /\ UNCHANGED <<begun, call, list>>

Return ==
    /\ call = "pending"
    /\ running = {} /\ \A i \in Items : outcome[i] \in Values
    /\ call' = "returned" /\ list' = outcome
    /\ UNCHANGED <<begun, running, outcome>>

Raise ==
    /\ call = "pending"
    /\ running = {} /\ \E i \in Items : outcome[i] = Refused
    /\ call' = "raised"
    /\ UNCHANGED <<begun, running, outcome, list>>

Next == Begin \/ Return \/ Raise \/ \E i \in Items, v \in Values \cup {Refused} : End(i, v)
Spec == Init /\ [][Next]_vars
================================================================================
