----------------------------- MODULE PhotoUpload -----------------------------
(***************************************************************************)
(* Concurrent uploads of one user: the object storage and the transaction of *)
(* each upload, one statement at a time, while photos are validated, matched, *)
(* expired or deleted and days begin between two statements.                  *)
(*                                                                           *)
(* The photo of an upload has the id of the upload. PostgreSQL runs in READ   *)
(* COMMITTED: a statement sees what is committed when it begins and what its  *)
(* own transaction has written. The image stands for its checksum.            *)
(***************************************************************************)
EXTENDS Naturals

CONSTANTS
    Uploads,     \* POST /v1/photos requests, each made once
    Images,
    NoImage,     \* checksum IS NULL
    LastDay      \* bound: the days 0..LastDay

ASSUME ConstantsAssumption ==
    /\ NoImage \notin Images
    /\ LastDay \in Nat

VARIABLES
    account,   \* whether users.status is ACTIVE and the onboarding is completed
    today,     \* the date in Seoul
    photo,     \* photos of the user
    objects,   \* the uploads whose object is in the storage
    upload,    \* the requests
    faults     \* the uploads that met a fault of a process, the storage or a connection (history)

vars == <<account, today, photo, objects, upload, faults>>

-----------------------------------------------------------------------------
(* Rows and requests *)

PhotoStatus == {"ABSENT", "VALIDATING", "REJECTED", "SEARCHING", "MATCHED", "EXPIRED", "DELETED"}

\* overdue: registered at least 15 minutes ago, read only while VALIDATING.
PhotoRow == [status : PhotoStatus, checksum : Images \cup {NoImage},
             registered_date : 0..LastDay, overdue : BOOLEAN]

Step == {"none",      \* not made yet
         "stored",    \* the object is stored
         "allowed",   \* the account may upload, stale validations are rejected
         "free",      \* no active photo was found on the day
         "released",  \* old rows have given up the checksum, not committed
         "unique",    \* no other photo was found with the checksum
         "inserted",  \* the row is committed
         "refused",   \* an error of any kind: the object is about to be deleted
         "over"}

\* released: the rows this transaction has updated and holds locks on.
Upload == [step : Step, image : Images \cup {NoImage}, day : 0..LastDay,
           released : SUBSET Uploads]

TypeOK ==
    /\ account \in BOOLEAN
    /\ today \in 0..LastDay
    /\ photo \in [Uploads -> PhotoRow]
    /\ objects \subseteq Uploads
    /\ upload \in [Uploads -> Upload]
    /\ faults \subseteq Uploads

Init ==
    /\ account = TRUE
    /\ today = 0
    /\ photo = [p \in Uploads |-> [status |-> "ABSENT", checksum |-> NoImage,
                                   registered_date |-> 0, overdue |-> FALSE]]
    /\ objects = {}
    /\ upload = [u \in Uploads |-> [step |-> "none", image |-> NoImage, day |-> 0,
                                    released |-> {}]]
    /\ faults = {}

Active(p) == photo[p].status \in {"VALIDATING", "SEARCHING", "MATCHED", "EXPIRED"}

Released(p) == photo[p].status \in {"REJECTED", "DELETED"}

Locked(p) == \E u \in Uploads : p \in upload[u].released

\* The request goes on to a step.
Goes(u, step) == upload' = [upload EXCEPT ![u].step = step]

\* The transaction ends: it holds no lock, and its day is forgotten.
Ends(u, step) == upload' = [upload EXCEPT ![u].step = step, ![u].day = 0, ![u].released = {}]

-----------------------------------------------------------------------------
(* The upload *)

\* The image is processed and its object stored under a new key.
store(u, image) ==
    /\ upload[u].step = "none"
    /\ objects' = objects \cup {u}
    /\ upload' = [upload EXCEPT ![u].step = "stored", ![u].image = image]
    /\ UNCHANGED <<account, today, photo, faults>>

\* The storage gives an error, and may have stored the object all the same.
store_fails(u, stored) ==
    /\ upload[u].step = "none"
    /\ objects' = IF stored THEN objects \cup {u} ELSE objects
    /\ Goes(u, "over")
    /\ faults' = faults \cup {u}
    /\ UNCHANGED <<account, today, photo>>

\* What expire_stale_validations rejects.
Stale == {p \in Uploads : photo[p].status = "VALIDATING" /\ photo[p].overdue}

\* The account is checked, then expire_stale_validations commits its UPDATE. The
\* day is the one on which the call begins.
begin_create(u) ==
    /\ upload[u].step = "stored"
    /\ account
    /\ photo' = [p \in Uploads |-> IF p \in Stale THEN [photo[p] EXCEPT !.status = "REJECTED"]
                                   ELSE photo[p]]
    /\ upload' = [upload EXCEPT ![u].step = "allowed", ![u].day = today]
    /\ UNCHANGED <<account, today, objects, faults>>

\* 403 or 409: the account is withdrawn or not onboarded.
begin_refused(u) ==
    /\ upload[u].step = "stored"
    /\ ~account
    /\ Ends(u, "refused")
    /\ UNCHANGED <<account, today, photo, objects, faults>>

ActiveOn(day) == \E p \in Uploads : Active(p) /\ photo[p].registered_date = day

find_active(u) ==
    /\ upload[u].step = "allowed"
    /\ IF ActiveOn(upload[u].day) THEN Ends(u, "refused") ELSE Goes(u, "free")
    /\ UNCHANGED <<account, today, photo, objects, faults>>

\* Mutant of Old: every row with the checksum.
Old_any_status(image) == {p \in Uploads : photo[p].checksum = image}

Old(image) == {p \in Uploads : photo[p].checksum = image /\ Released(p)}

\* The UPDATE that clears the checksum of rejected and deleted photos. It waits
\* for a transaction that holds one of their rows.
release_checksum(u) ==
    LET old == Old(upload[u].image)
    IN  /\ upload[u].step = "free"
        /\ \A p \in old : ~Locked(p)
        /\ upload' = [upload EXCEPT ![u].step = "released", ![u].released = old]
        /\ UNCHANGED <<account, today, photo, objects, faults>>

\* The rows with the checksum as the transaction of u sees them.
Same(u) == {p \in Uploads \ upload[u].released : photo[p].checksum = upload[u].image}

find_duplicate(u) ==
    /\ upload[u].step = "released"
    /\ IF \E p \in Same(u) : ~Released(p) THEN Ends(u, "refused") ELSE Goes(u, "unique")
    /\ UNCHANGED <<account, today, photo, objects, faults>>

\* Mutant of Conflict: the index on the active photo of a day is missing.
Conflict_checksum(u) == Same(u) # {}

\* The unique constraint on the checksum and the unique index on the active photo
\* of a day, which look at every committed row.
Conflict(u) == Same(u) # {} \/ ActiveOn(upload[u].day)

\* The row, its validation job and the cleared checksums are committed.
create_photo(u, status) ==
    /\ upload[u].step = "unique"
    /\ ~Conflict(u)
    /\ photo' = [p \in Uploads |->
                   IF p = u THEN [status |-> status, checksum |-> upload[u].image,
                                  registered_date |-> upload[u].day, overdue |-> FALSE]
                   ELSE IF p \in upload[u].released THEN [photo[p] EXCEPT !.checksum = NoImage]
                   ELSE photo[p]]
    /\ Ends(u, "inserted")
    /\ UNCHANGED <<account, today, objects, faults>>

\* 409 PHOTO_CONFLICT: the transaction is rolled back.
create_refused(u) ==
    /\ upload[u].step = "unique"
    /\ Conflict(u)
    /\ Ends(u, "refused")
    /\ UNCHANGED <<account, today, photo, objects, faults>>

\* The committed row is read again and the request answered.
refresh(u) ==
    /\ upload[u].step = "inserted"
    /\ Ends(u, "over")
    /\ UNCHANGED <<account, today, photo, objects, faults>>

\* A statement fails for a reason of its own, the one after the commit included.
database_fails(u) ==
    /\ upload[u].step \in {"stored", "allowed", "free", "released", "unique", "inserted"}
    /\ Ends(u, "refused")
    /\ faults' = faults \cup {u}
    /\ UNCHANGED <<account, today, photo, objects>>

\* Mutant of clean_up: the object is left behind.
clean_up_nothing(u) ==
    /\ upload[u].step = "refused"
    /\ Ends(u, "over")
    /\ UNCHANGED <<account, today, photo, objects, faults>>

\* The object of an upload that failed is deleted.
clean_up(u) ==
    /\ upload[u].step = "refused"
    /\ objects' = objects \ {u}
    /\ Ends(u, "over")
    /\ UNCHANGED <<account, today, photo, faults>>

\* The error of the deletion is suppressed.
clean_up_fails(u) ==
    /\ upload[u].step = "refused"
    /\ Ends(u, "over")
    /\ faults' = faults \cup {u}
    /\ UNCHANGED <<account, today, photo, objects>>

crash(u) ==
    /\ upload[u].step \notin {"none", "over"}
    /\ Ends(u, "over")
    /\ faults' = faults \cup {u}
    /\ UNCHANGED <<account, today, photo, objects>>

-----------------------------------------------------------------------------
(* What else happens to the photos and the account *)

SetStatus(p, status) ==
    /\ photo' = [photo EXCEPT ![p].status = status]
    /\ UNCHANGED <<account, today, objects, upload, faults>>

\* A pass, a rejection or a timeout; a match; the end of the search.
Pipeline(p, status) ==
    /\ <<photo[p].status, status>> \in {<<"VALIDATING", "SEARCHING">>, <<"VALIDATING", "REJECTED">>,
                                        <<"SEARCHING", "MATCHED">>, <<"SEARCHING", "EXPIRED">>}
    /\ SetStatus(p, status)

\* Mutant of delete_photo: a status the schema does not know.
delete_photo_cancelled(p) ==
    /\ photo[p].status \in {"VALIDATING", "REJECTED", "SEARCHING", "EXPIRED"}
    /\ ~Locked(p)
    /\ SetStatus(p, "CANCELLED")

\* It waits for the row lock of a transaction that releases the checksum.
delete_photo(p) ==
    /\ photo[p].status \in {"VALIDATING", "REJECTED", "SEARCHING", "EXPIRED"}
    /\ ~Locked(p)
    /\ SetStatus(p, "DELETED")

ValidationOverdue(p) ==
    /\ photo[p].status = "VALIDATING"
    /\ ~photo[p].overdue
    /\ photo' = [photo EXCEPT ![p].overdue = TRUE]
    /\ UNCHANGED <<account, today, objects, upload, faults>>

withdraw ==
    /\ account
    /\ account' = FALSE
    /\ UNCHANGED <<today, photo, objects, upload, faults>>

NextDay ==
    /\ today < LastDay
    /\ today' = today + 1
    /\ UNCHANGED <<account, photo, objects, upload, faults>>

Next ==
    \/ \E u \in Uploads, image \in Images : store(u, image)
    \/ \E u \in Uploads, stored \in BOOLEAN : store_fails(u, stored)
    \/ \E u \in Uploads : begin_create(u)
    \/ \E u \in Uploads : begin_refused(u)
    \/ \E u \in Uploads : find_active(u)
    \/ \E u \in Uploads : release_checksum(u)
    \/ \E u \in Uploads : find_duplicate(u)
    \/ \E u \in Uploads, status \in {"VALIDATING", "SEARCHING"} : create_photo(u, status)
    \/ \E u \in Uploads : create_refused(u)
    \/ \E u \in Uploads : refresh(u)
    \/ \E u \in Uploads : database_fails(u)
    \/ \E u \in Uploads : clean_up(u)
    \/ \E u \in Uploads : clean_up_fails(u)
    \/ \E u \in Uploads : crash(u)
    \/ \E p \in Uploads, status \in PhotoStatus : Pipeline(p, status)
    \/ \E p \in Uploads : delete_photo(p)
    \/ \E p \in Uploads : ValidationOverdue(p)
    \/ withdraw
    \/ NextDay

Spec == Init /\ [][Next]_vars

-----------------------------------------------------------------------------
(* Properties *)

\* Two photos that are neither rejected nor deleted never show the same image or
\* share a day, however the statements of their uploads interleave: the checksum
\* that an upload takes from an old photo was given up by it for good.
NoDoubleUpload ==
    \A p, q \in Uploads :
      /\ p # q
      /\ Active(p)
      /\ Active(q)
      => /\ upload[p].image # upload[q].image
         /\ photo[p].registered_date # photo[q].registered_date

\* An upload that is over and met no fault has its object exactly when it has its
\* row: a refusal leaves no object behind, and no row lacks its object.
ObjectAgrees ==
    \A u \in Uploads \ faults :
      upload[u].step = "over" => (u \in objects <=> photo[u].status # "ABSENT")

\* A photo that is not rejected or deleted keeps the checksum of its image, so no
\* later upload misses it.
ChecksumKept == \A p \in Uploads : Active(p) => photo[p].checksum = upload[p].image

=============================================================================
