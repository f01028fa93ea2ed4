------------------------- MODULE MCValidationQueue --------------------------
(* A small instance of ValidationQueue for TLC. *)
EXTENDS ValidationQueue

CONSTANTS p1, p2, u1, u2, w1, w2

\* Two photos of two owners, who can be matched with each other.
TwoOwners == [p \in Photos |-> IF p = p1 THEN u1 ELSE u2]

SameDay == [p \in Photos |-> 1]

\* The second photo is there to be matched: only the first one meets the workers.
FirstIsChecked == [p \in Photos |-> IF p = p1 THEN {TRUE, FALSE} ELSE {TRUE}]
=============================================================================
