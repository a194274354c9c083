------------------------------- MODULE KeyedStore -------------------------------
(***************************************************************************)
(* What a phase promises of the files it keeps beside a sidecar: a file is *)
(* there only when the sidecar says what it was made from.  The record     *)
(* comes before the files it vouches for, goes after them, and is replaced *)
(* only by one that vouches for every file that stays.                     *)
(***************************************************************************)
CONSTANTS
    Slots,            \* the names of the files
    Keys,             \* what a sidecar may say
    Content(_, _),    \* what a file holds, for the key it was made under
    None              \* no sidecar, no file

VARIABLES key, held
vars == <<key, held>>
--------------------------------------------------------------------------------
Vouches(k) == \A s \in Slots : held[s] \in {None, Content(k, s)}

Init == key = None /\ held = [s \in Slots |-> None]

\* A record is made, or replaced.
Commit == /\ key' \in Keys /\ Vouches(key')
          /\ UNCHANGED held

\* A file is made from what the record says.
Fill(s) == /\ key # None
           /\ held' = [held EXCEPT ![s] = Content(key, s)]
           /\ UNCHANGED key

Drop(s) == /\ held' = [held EXCEPT ![s] = None]
           /\ UNCHANGED key

\* The record goes when nothing is left that it vouches for.
Forget == /\ \A s \in Slots : held[s] = None
          /\ key' = None
          /\ UNCHANGED held

Next == Commit \/ Forget \/ \E s \in Slots : Fill(s) \/ Drop(s)
Spec == Init /\ [][Next]_vars

\* Nothing is on disk that nothing on disk explains.
Explained == \A s \in Slots : held[s] # None => key # None /\ held[s] = Content(key, s)
================================================================================
