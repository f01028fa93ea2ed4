------------------------------ MODULE MCSessions ----------------------------
(* Small instances of Sessions for TLC. *)
EXTENDS Sessions, TLC

CONSTANTS t1, t2, t3, t4, l1, l2, d1, d2

Interchangeable ==
    Permutations({t1, t2, t3, t4}) \cup Permutations({l1, l2}) \cup Permutations({d1, d2})
=============================================================================
