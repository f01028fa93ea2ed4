----------------------------- MODULE MCMatching -----------------------------
(* Small instances of Matching for TLC. *)
EXTENDS Matching, TLC

CONSTANTS u1, u2, u3, r1, r2, s1, s2, w1

\* Three photos of three owners.
Strangers == [p \in Photos |-> CASE p = 1 -> u1 [] p = 2 -> u2 [] p = 3 -> u3]

\* Photo ids are random: the order of registration is another one.
LastFirst == [p \in Photos |-> 10 - p]

\* Every pair is similar, with its own score.
AllSimilar == [m \in {{p, q} : p, q \in Photos} |->
                  IF Cardinality(m) = 1 THEN 9 ELSE IF m = {1, 3} THEN 2 ELSE 1]

OneWay == {<<u2, u1>>}

\* Two photos expire, and two may be deleted, one of them the same.
Search ==
    ({"expiration", "stopped scheduler"} \X {1, 2})
      \cup ({"deletion"} \X {2, 3})
      \cup {<<"failed extraction", 2>>}

\* Every photo expires, the worker of the second one is in trouble.
Ends ==
    ({"expiration", "crash"} \X Photos)
      \cup {"slow worker", "lost claim", "restart", "failed extraction"} \X {2}

Crashes == {"crash"} \X Photos

Interchangeable == Permutations({r1, r2}) \cup Permutations({s1, s2})
=============================================================================
