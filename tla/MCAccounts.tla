------------------------------ MODULE MCAccounts ----------------------------
(* Small instances of Accounts for TLC. *)
EXTENDS Accounts, TLC

CONSTANTS t1, t2, t3, t4, l1, l2, d1, d2, n1, n2, e1, e2

Interchangeable ==
    Permutations({t1, t2, t3, t4}) \cup Permutations({l1, l2}) \cup Permutations({d1, d2})
      \cup Permutations({n1, n2}) \cup Permutations({e1, e2})
=============================================================================
