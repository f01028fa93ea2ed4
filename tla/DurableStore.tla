---------------------------- MODULE DurableStore -----------------------------
(***************************************************************************)
(* What the users of the backend are promised of its database, wherever it   *)
(* runs: each committed write is there once and for all.                     *)
(***************************************************************************)
CONSTANT Writes

VARIABLE data  \* the writes that a reader of the API can find

Init == data = {}

Commit(w) ==
    /\ w \notin data
    /\ data' = data \cup {w}

Next == \E w \in Writes : Commit(w)

Spec == Init /\ [][Next]_data
=============================================================================
