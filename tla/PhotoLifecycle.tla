--------------------------- MODULE PhotoLifecycle ---------------------------
(***************************************************************************)
(* What the photo pipeline promises the owner of a photo, whatever the     *)
(* queues, workers, retries and races behind it do: which status changes a *)
(* photo can make, and which notification goes out with each of them.      *)
(* ValidationQueue and Matching are shown to implement this specification. *)
(***************************************************************************)
EXTENDS Naturals, Sequences

CONSTANT Photos

VARIABLES
    status,   \* photos.status, "ABSENT" while the row does not exist
    told      \* the notifications about the photo, in the order they were stored

vars == <<status, told>>

\* A status change of one photo that is stored together with a notification.
MovesWithNotice(p, from, to, type) ==
    /\ status[p] = from
    /\ status' = [status EXCEPT ![p] = to]
    /\ told' = [told EXCEPT ![p] = Append(@, type)]

\* A status change of a set of photos that nobody is notified of.
MovesSilently(S, from, to) ==
    /\ S # {}
    /\ \A p \in S : status[p] \in from
    /\ status' = [p \in Photos |-> IF p \in S THEN to ELSE status[p]]
    /\ UNCHANGED told

Init ==
    /\ status = [p \in Photos |-> "ABSENT"]
    /\ told = [p \in Photos |-> <<>>]

\* The upload of a photo. Stale uploads of the same owner may be closed by it.
Register(p, closed) ==
    /\ status[p] = "ABSENT"
    /\ p \notin closed
    /\ \A q \in closed : status[q] = "VALIDATING"
    /\ \/ /\ status' = [q \in Photos |-> IF q = p THEN "VALIDATING"
                                         ELSE IF q \in closed THEN "REJECTED"
                                         ELSE status[q]]
          /\ UNCHANGED told
       \/ /\ status' = [q \in Photos |-> IF q = p THEN "SEARCHING"
                                         ELSE IF q \in closed THEN "REJECTED"
                                         ELSE status[q]]
          /\ told' = [told EXCEPT ![p] = Append(@, "VALIDATION_PASSED")]

Pass(p) == MovesWithNotice(p, "VALIDATING", "SEARCHING", "VALIDATION_PASSED")

Reject(p) == MovesWithNotice(p, "VALIDATING", "REJECTED", "PHOTO_REJECTED")

TimeOut(S) == MovesSilently(S, {"VALIDATING"}, "REJECTED")

Delete(p) ==
    MovesSilently({p}, {"VALIDATING", "REJECTED", "SEARCHING", "EXPIRED"}, "DELETED")

\* Both photos of a pair leave the search in one step, and both owners hear of it.
Pair(p, q) ==
    /\ p # q
    /\ status[p] = "SEARCHING"
    /\ status[q] = "SEARCHING"
    /\ status' = [status EXCEPT ![p] = "MATCHED", ![q] = "MATCHED"]
    /\ told' = [told EXCEPT ![p] = Append(@, "MATCHED"), ![q] = Append(@, "MATCHED")]

\* The end of the search for every photo of S.
Expire(S) ==
    /\ S # {}
    /\ \A p \in S : status[p] = "SEARCHING"
    /\ status' = [p \in Photos |-> IF p \in S THEN "EXPIRED" ELSE status[p]]
    /\ told' = [p \in Photos |-> IF p \in S THEN Append(told[p], "SEARCH_EXPIRED")
                                 ELSE told[p]]

Next ==
    \/ \E p \in Photos, closed \in SUBSET Photos : Register(p, closed)
    \/ \E p \in Photos : Pass(p) \/ Reject(p) \/ Delete(p)
    \/ \E p, q \in Photos : Pair(p, q)
    \/ \E S \in SUBSET Photos : TimeOut(S) \/ Expire(S)

Spec == Init /\ [][Next]_vars

=============================================================================
