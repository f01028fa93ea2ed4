------------------------------ MODULE MCSafety ------------------------------
(* Small instances of Safety for TLC. *)
EXTENDS Safety, TLC

CONSTANTS c1, c2, k1, MaxCallsBeside

Interchangeable == Permutations({c1, c2})

\* Bound: views, hiding and reports are explored with MaxCallsBeside calls of send at
\* most, and MaxCalls calls of send only without them.
Explored ==
    \/ clock <= MaxCallsBeside
    \/ /\ viewed \cup hidden \cup reports = {}
       /\ filing = [u \in Users |-> "none"]
=============================================================================
