-------------------------- MODULE PhotoUploadProofs --------------------------
(***************************************************************************)
(* What holds of concurrent uploads for any number of them, any images and *)
(* any number of days. An image is active once because an active photo     *)
(* always shows its checksum to the unique constraint: the rows whose      *)
(* checksum a transaction takes away are rejected or deleted, and its      *)
(* locks keep them so until it ends.                                       *)
(***************************************************************************)
EXTENDS PhotoUpload, TLAPS

Born(p) == photo[p].status # "ABSENT"

\* A transaction holds the locks of rejected and deleted photos only.
LocksHeld == \A u \in Uploads : \A p \in upload[u].released : Released(p)

\* The row of an upload does not exist before the step that inserts it.
RowsOnTime ==
    \A u \in Uploads :
      upload[u].step \in {"none", "stored", "allowed", "free", "released", "unique"} => ~Born(u)

\* How the object and the row of an upload stand that has met no fault yet.
ObjectsOnTime ==
    \A u \in Uploads \ faults :
      /\ upload[u].step = "none" => u \notin objects
      /\ upload[u].step \in {"stored", "allowed", "free", "released", "unique"} => u \in objects
      /\ upload[u].step = "inserted" => u \in objects /\ Born(u)
      /\ upload[u].step = "refused" => ~Born(u)
      /\ upload[u].step = "over" => (u \in objects <=> Born(u))

UInv ==
    /\ TypeOK
    /\ NoDoubleUpload
    /\ ChecksumKept
    /\ LocksHeld
    /\ RowsOnTime
    /\ ObjectsOnTime

\* There are no rows and no requests at first.
LEMMA InitInv == Init => UInv
<1> SUFFICES ASSUME Init PROVE UInv
  OBVIOUS
<1>1. TypeOK
  BY ConstantsAssumption
  DEF Init, TypeOK, PhotoRow, PhotoStatus, Upload, Step
<1>2. \A p \in Uploads : ~Active(p) /\ ~Born(p) /\ upload[p].released = {}
                         /\ upload[p].step = "none" /\ p \notin objects
  BY DEF Init, Active, Born
<1> QED
  BY <1>1, <1>2
  DEF UInv, NoDoubleUpload, ChecksumKept, LocksHeld, RowsOnTime, ObjectsOnTime

\* As long as no photo becomes active and the active ones stay as they are, no
\* image and no day is used twice.
LEMMA ActiveKept ==
  ASSUME UInv,
         \A p \in Uploads :
           Active(p)' => /\ Active(p)
                         /\ photo'[p].checksum = photo[p].checksum
                         /\ photo'[p].registered_date = photo[p].registered_date
                         /\ upload'[p].image = upload[p].image
  PROVE  NoDoubleUpload' /\ ChecksumKept'
<1>1. NoDoubleUpload'
  BY DEF UInv, NoDoubleUpload
<1>2. ChecksumKept'
  BY DEF UInv, ChecksumKept
<1> QED
  BY <1>1, <1>2

-----------------------------------------------------------------------------
(* Steps of one request that leave the rows alone *)

\* Every step of a request but its commit and the one that rejects stale photos.
RequestStep(u) ==
    \/ \E image \in Images : store(u, image)
    \/ \E stored \in BOOLEAN : store_fails(u, stored)
    \/ begin_refused(u)
    \/ find_active(u)
    \/ release_checksum(u)
    \/ find_duplicate(u)
    \/ create_refused(u)
    \/ refresh(u)
    \/ database_fails(u)
    \/ clean_up(u)
    \/ clean_up_fails(u)
    \/ crash(u)

\* What all of these steps have in common.
LEMMA RequestStepShape ==
  ASSUME UInv, NEW u \in Uploads, RequestStep(u)
  PROVE  /\ TypeOK'
         /\ photo' = photo
         /\ \A v \in Uploads \ {u} : /\ upload'[v] = upload[v]
                                     /\ v \in objects' <=> v \in objects
                                     /\ v \in faults' <=> v \in faults
         /\ u \in faults => u \in faults'
         /\ Born(u) => upload'[u].image = upload[u].image
         /\ upload'[u].released \subseteq Uploads
         /\ \A p \in upload'[u].released : Released(p)
<1>1. upload \in [Uploads -> Upload] /\ objects \subseteq Uploads /\ faults \subseteq Uploads
      /\ account \in BOOLEAN /\ today \in 0..LastDay /\ photo \in [Uploads -> PhotoRow]
  BY DEF UInv, TypeOK
<1>2. 0 \in 0..LastDay
  BY ConstantsAssumption
<1>3. upload[u].step \in {"none", "stored", "allowed", "free"} => ~Born(u)
  BY DEF UInv, RowsOnTime
<1>4. \A p \in upload[u].released : Released(p)
  BY DEF UInv, LocksHeld
<1>5. CASE \E image \in Images : store(u, image)
  <2> PICK image \in Images : store(u, image)
    BY <1>5
  <2> QED
    BY <1>1, <1>3, <1>4 DEF store, TypeOK, Upload, Step
<1>6. CASE release_checksum(u)
  BY <1>1, <1>4, <1>6 DEF release_checksum, TypeOK, Upload, Step, Old
<1>7. CASE find_active(u) \/ find_duplicate(u)
  BY <1>1, <1>2, <1>4, <1>7
  DEF find_active, find_duplicate, Goes, Ends, TypeOK, Upload, Step
<1>8. CASE \E stored \in BOOLEAN : store_fails(u, stored)
  BY <1>1, <1>4, <1>8 DEF store_fails, Goes, TypeOK, Upload, Step
<1>9. CASE begin_refused(u) \/ create_refused(u) \/ refresh(u) \/ database_fails(u)
  BY <1>1, <1>2, <1>9
  DEF begin_refused, create_refused, refresh, database_fails, Ends, TypeOK, Upload, Step
<1>10. CASE clean_up(u) \/ clean_up_fails(u) \/ crash(u)
  BY <1>1, <1>2, <1>10 DEF clean_up, clean_up_fails, crash, Ends, TypeOK, Upload, Step
<1> QED
  BY <1>5, <1>6, <1>7, <1>8, <1>9, <1>10 DEF RequestStep

\* How a step of a request moves it, its object and its faults.
LEMMA RequestStepObject ==
  ASSUME UInv, NEW u \in Uploads, RequestStep(u)
  PROVE  /\ upload'[u].step \in {"none", "stored", "allowed", "free", "released", "unique"}
              => upload[u].step \in {"none", "stored", "allowed", "free", "released", "unique"}
         /\ u \notin faults' =>
              /\ upload'[u].step # "none"
              /\ upload'[u].step \in {"stored", "allowed", "free", "released", "unique"} =>
                   u \in objects'
              /\ upload'[u].step # "inserted"
              /\ upload'[u].step = "refused" => ~Born(u)
              /\ upload'[u].step = "over" => (u \in objects' <=> Born(u))
<1>1. upload \in [Uploads -> Upload]
  BY DEF UInv, TypeOK
<1>2. upload[u].step \in {"stored", "allowed", "free", "released", "unique"} => ~Born(u)
  BY DEF UInv, RowsOnTime
<1>3. u \notin faults =>
        /\ upload[u].step \in {"stored", "allowed", "free", "released", "unique"} => u \in objects
        /\ upload[u].step = "inserted" => u \in objects /\ Born(u)
        /\ upload[u].step = "refused" => ~Born(u)
  BY DEF UInv, ObjectsOnTime
<1>4. CASE \E image \in Images : store(u, image)
  BY <1>1, <1>4 DEF store, Upload
<1>5. CASE release_checksum(u)
  BY <1>1, <1>3, <1>5 DEF release_checksum, Upload
<1>6. CASE find_active(u) \/ find_duplicate(u)
  BY <1>1, <1>2, <1>3, <1>6 DEF find_active, find_duplicate, Goes, Ends, Upload
<1>7. CASE \E stored \in BOOLEAN : store_fails(u, stored)
  BY <1>1, <1>7 DEF store_fails, Goes, Upload
<1>8. CASE begin_refused(u) \/ create_refused(u) \/ refresh(u) \/ database_fails(u)
  BY <1>1, <1>2, <1>3, <1>8
  DEF begin_refused, create_refused, refresh, database_fails, Ends, Upload
<1>9. CASE clean_up(u) \/ clean_up_fails(u) \/ crash(u)
  BY <1>1, <1>3, <1>9 DEF clean_up, clean_up_fails, crash, Ends, Upload
<1> QED
  BY <1>4, <1>5, <1>6, <1>7, <1>8, <1>9 DEF RequestStep

LEMMA RequestStepInv ==
  ASSUME UInv, NEW u \in Uploads, RequestStep(u)
  PROVE  UInv'
<1>1. /\ TypeOK'
      /\ photo' = photo
      /\ \A v \in Uploads \ {u} : /\ upload'[v] = upload[v]
                                  /\ v \in objects' <=> v \in objects
                                  /\ v \in faults' <=> v \in faults
      /\ Born(u) => upload'[u].image = upload[u].image
      /\ \A p \in upload'[u].released : Released(p)
  BY RequestStepShape
<1>2. NoDoubleUpload' /\ ChecksumKept'
  <2>1. \A p \in Uploads : Active(p)' => Active(p) /\ upload'[p].image = upload[p].image
    BY <1>1 DEF Active, Born
  <2> QED
    BY <1>1, <2>1, ActiveKept
<1>3. LocksHeld'
  BY <1>1 DEF LocksHeld, UInv, Released
<1>4. RowsOnTime'
  BY <1>1, RequestStepObject DEF RowsOnTime, UInv, Born
<1>5. ObjectsOnTime'
  <2> SUFFICES ASSUME NEW v \in Uploads, v \notin faults'
               PROVE  /\ upload'[v].step = "none" => v \notin objects'
                      /\ upload'[v].step \in {"stored", "allowed", "free", "released", "unique"} =>
                           v \in objects'
                      /\ upload'[v].step = "inserted" => v \in objects' /\ Born(v)'
                      /\ upload'[v].step = "refused" => ~Born(v)'
                      /\ upload'[v].step = "over" => (v \in objects' <=> Born(v)')
    BY DEF ObjectsOnTime
  <2>1. Born(v)' <=> Born(v)
    BY <1>1 DEF Born
  <2>2. CASE v = u
    BY <2>1, <2>2, RequestStepObject
  <2>3. CASE v # u
    BY <1>1, <2>1, <2>3 DEF UInv, ObjectsOnTime
  <2> QED
    BY <2>2, <2>3
<1> QED
  BY <1>1, <1>2, <1>3, <1>4, <1>5 DEF UInv

-----------------------------------------------------------------------------
(* Steps that change rows *)

\* A step that changes nothing but statuses, dates past and the requests' own
\* progress keeps the invariant if it revives no photo and removes no row.
LEMMA StatusStepInv ==
  ASSUME UInv, TypeOK',
         objects' = objects, faults' = faults,
         \A p \in Uploads :
           /\ photo'[p].checksum = photo[p].checksum
           /\ photo'[p].registered_date = photo[p].registered_date
           /\ Active(p)' => Active(p)
           /\ Born(p)' <=> Born(p)
           /\ Released(p) => Released(p)'
           /\ upload'[p].image = upload[p].image
           /\ upload'[p].released = upload[p].released
           /\ \/ upload'[p].step = upload[p].step
              \/ upload[p].step = "stored" /\ upload'[p].step = "allowed"
  PROVE  UInv'
<1>1. NoDoubleUpload' /\ ChecksumKept'
  BY ActiveKept
<1>2. LocksHeld'
  <2>1. \A u \in Uploads : upload[u].released \subseteq Uploads
    BY DEF UInv, TypeOK, Upload
  <2> QED
    BY <2>1 DEF UInv, LocksHeld
<1>3. RowsOnTime'
  BY DEF UInv, RowsOnTime
<1>4. ObjectsOnTime'
  BY DEF UInv, ObjectsOnTime
<1> QED
  BY <1>1, <1>2, <1>3, <1>4 DEF UInv

\* What becomes of a row that is given a status, or is overdue.
LEMMA RowUpdate ==
  ASSUME NEW row \in PhotoRow, NEW status \in PhotoStatus
  PROVE  /\ [row EXCEPT !.status = status] \in PhotoRow
         /\ [row EXCEPT !.status = status].status = status
         /\ [row EXCEPT !.status = status].checksum = row.checksum
         /\ [row EXCEPT !.status = status].registered_date = row.registered_date
         /\ [row EXCEPT !.overdue = TRUE] \in PhotoRow
         /\ [row EXCEPT !.overdue = TRUE].status = row.status
         /\ [row EXCEPT !.overdue = TRUE].checksum = row.checksum
         /\ [row EXCEPT !.overdue = TRUE].registered_date = row.registered_date
  BY DEF PhotoRow

\* What becomes of a request that moves on with a day, or ends its transaction.
LEMMA RequestUpdate ==
  ASSUME NEW request \in Upload, NEW step \in Step, NEW day \in 0..LastDay
  PROVE  /\ [request EXCEPT !.step = step, !.day = day] \in Upload
         /\ [request EXCEPT !.step = step, !.day = day, !.released = {}] \in Upload
  BY DEF Upload

\* The rejection of stale validations.
LEMMA BeginInv ==
  ASSUME UInv, NEW u \in Uploads, begin_create(u)
  PROVE  UInv'
<1>1. /\ photo \in [Uploads -> PhotoRow] /\ upload \in [Uploads -> Upload]
      /\ account \in BOOLEAN /\ today \in 0..LastDay /\ objects \subseteq Uploads
      /\ faults \subseteq Uploads
  BY DEF UInv, TypeOK
<1>2. TypeOK'
  <2>1. photo' \in [Uploads -> PhotoRow]
    <3>1. "REJECTED" \in PhotoStatus
      BY DEF PhotoStatus
    <3> QED
      <4>1. \A p \in Uploads : [photo[p] EXCEPT !.status = "REJECTED"] \in PhotoRow
        BY <1>1, <3>1, RowUpdate
      <4> QED
        BY <1>1, <4>1 DEF begin_create
  <2>2. upload' \in [Uploads -> Upload]
    <3> DEFINE next == [upload[u] EXCEPT !.step = "allowed", !.day = today]
    <3>1. upload' = [upload EXCEPT ![u] = next]
      BY <1>1 DEF begin_create
    <3>2. next \in Upload
      BY <1>1, RequestUpdate DEF Step
    <3> HIDE DEF next
    <3> QED
      BY <1>1, <3>1, <3>2
  <2> QED
    BY <1>1, <2>1, <2>2 DEF begin_create, TypeOK
<1>3. \A p \in Uploads : \/ photo'[p] = photo[p]
                         \/ /\ photo[p].status = "VALIDATING"
                            /\ photo'[p].status = "REJECTED"
                            /\ photo'[p].checksum = photo[p].checksum
                            /\ photo'[p].registered_date = photo[p].registered_date
  BY <1>1 DEF begin_create, Stale, PhotoRow
<1>4. \A p \in Uploads : /\ Active(p)' => Active(p)
                         /\ Born(p)' <=> Born(p)
                         /\ Released(p) => Released(p)'
  BY <1>3 DEF Active, Born, Released
<1>5. \A p \in Uploads : /\ upload'[p].image = upload[p].image
                         /\ upload'[p].released = upload[p].released
                         /\ \/ upload'[p].step = upload[p].step
                            \/ upload[p].step = "stored" /\ upload'[p].step = "allowed"
  BY <1>1 DEF begin_create, Upload
<1> QED
  BY <1>2, <1>3, <1>4, <1>5, StatusStepInv DEF begin_create

\* The rest of the pipeline, deletions, and the passing of time.
LEMMA SurroundingsInv ==
  ASSUME UInv,
         \/ \E p \in Uploads, status \in PhotoStatus : Pipeline(p, status)
         \/ \E p \in Uploads : delete_photo(p)
         \/ \E p \in Uploads : ValidationOverdue(p)
         \/ withdraw
         \/ NextDay
         \/ UNCHANGED vars
  PROVE  UInv'
<1>1. /\ photo \in [Uploads -> PhotoRow] /\ upload \in [Uploads -> Upload]
      /\ account \in BOOLEAN /\ today \in 0..LastDay /\ objects \subseteq Uploads
      /\ faults \subseteq Uploads
  BY DEF UInv, TypeOK
<1>2. /\ UNCHANGED <<objects, upload, faults>>
      /\ account' \in BOOLEAN /\ today' \in 0..LastDay
  <2>1. CASE \/ \E p \in Uploads, status \in PhotoStatus : Pipeline(p, status)
             \/ \E p \in Uploads : delete_photo(p)
             \/ \E p \in Uploads : ValidationOverdue(p)
             \/ UNCHANGED vars
    BY <1>1, <2>1 DEF Pipeline, delete_photo, SetStatus, ValidationOverdue, vars
  <2>2. CASE withdraw
    BY <1>1, <2>2 DEF withdraw
  <2>3. CASE NextDay
    BY <1>1, <2>3, ConstantsAssumption DEF NextDay
  <2> QED
    BY <2>1, <2>2, <2>3
<1>3. /\ photo' \in [Uploads -> PhotoRow]
      /\ \A p \in Uploads :
           /\ photo'[p].checksum = photo[p].checksum
           /\ photo'[p].registered_date = photo[p].registered_date
           /\ \/ photo'[p].status = photo[p].status
              \/ /\ photo[p].status \in {"VALIDATING", "SEARCHING"}
                 /\ photo'[p].status \in {"SEARCHING", "REJECTED", "MATCHED", "EXPIRED"}
              \/ /\ photo[p].status \in {"VALIDATING", "REJECTED", "SEARCHING", "EXPIRED"}
                 /\ photo'[p].status = "DELETED"
  <2>1. CASE \E p \in Uploads, status \in PhotoStatus : Pipeline(p, status)
    BY <1>1, <2>1 DEF Pipeline, SetStatus, PhotoRow, PhotoStatus
  <2>2. CASE \E p \in Uploads : delete_photo(p)
    BY <1>1, <2>2 DEF delete_photo, SetStatus, PhotoRow, PhotoStatus
  <2>3. CASE \E p \in Uploads : ValidationOverdue(p)
    <3> PICK p \in Uploads : ValidationOverdue(p)
      BY <2>3
    <3> DEFINE row == [photo[p] EXCEPT !.overdue = TRUE]
    <3>1. photo' = [photo EXCEPT ![p] = row]
      BY DEF ValidationOverdue
    <3>2. /\ row \in PhotoRow
          /\ row.status = photo[p].status
          /\ row.checksum = photo[p].checksum
          /\ row.registered_date = photo[p].registered_date
      BY <1>1, RowUpdate DEF PhotoStatus
    <3> HIDE DEF row
    <3> QED
      BY <1>1, <3>1, <3>2
  <2>4. CASE withdraw \/ NextDay \/ UNCHANGED vars
    BY <1>1, <2>4 DEF withdraw, NextDay, vars
  <2> QED
    BY <2>1, <2>2, <2>3, <2>4
<1>4. TypeOK'
  BY <1>1, <1>2, <1>3 DEF TypeOK
<1>5. \A p \in Uploads : /\ Active(p)' => Active(p)
                         /\ Born(p)' <=> Born(p)
                         /\ Released(p) => Released(p)'
  BY <1>3 DEF Active, Born, Released
<1> QED
  BY <1>2, <1>3, <1>4, <1>5, StatusStepInv

\* The commit of an upload: no committed row has its checksum or its day, but for
\* those that give up their checksum with this commit.
LEMMA CreateInv ==
  ASSUME UInv, NEW u \in Uploads, NEW status \in {"VALIDATING", "SEARCHING"},
         create_photo(u, status)
  PROVE  UInv'
<1> DEFINE new == [status |-> status, checksum |-> upload[u].image,
                   registered_date |-> upload[u].day, overdue |-> FALSE]
<1>1. /\ photo \in [Uploads -> PhotoRow] /\ upload \in [Uploads -> Upload]
      /\ account \in BOOLEAN /\ today \in 0..LastDay /\ objects \subseteq Uploads
      /\ faults \subseteq Uploads
  BY DEF UInv, TypeOK
<1>2. ~Born(u)
  BY DEF UInv, RowsOnTime, create_photo
<1>3. \A v \in Uploads : \A p \in upload[v].released : Released(p)
  BY DEF UInv, LocksHeld
<1>4. photo' = [p \in Uploads |->
                  IF p = u THEN new
                  ELSE IF p \in upload[u].released THEN [photo[p] EXCEPT !.checksum = NoImage]
                  ELSE photo[p]]
  BY DEF create_photo
<1>5. upload' = [upload EXCEPT ![u].step = "inserted", ![u].day = 0, ![u].released = {}]
  BY DEF create_photo, Ends
<1>6. /\ upload'[u].step = "inserted" /\ upload'[u].released = {}
      /\ \A v \in Uploads : upload'[v].image = upload[v].image
      /\ \A v \in Uploads \ {u} : upload'[v] = upload[v]
  BY <1>1, <1>5 DEF Upload
<1>7. /\ photo'[u].checksum = upload[u].image
      /\ photo'[u].registered_date = upload[u].day
      /\ photo'[u].status = status
      /\ \A p \in Uploads \ {u} :
           /\ photo'[p].status = photo[p].status
           /\ photo'[p].registered_date = photo[p].registered_date
           /\ photo'[p].checksum = photo[p].checksum \/ Released(p)
  BY <1>1, <1>3, <1>4 DEF PhotoRow
<1>8. \A p \in Uploads \ {u} : /\ Active(p)' <=> Active(p)
                               /\ Born(p)' <=> Born(p)
                               /\ Released(p)' <=> Released(p)
                               /\ ~(Active(p) /\ Released(p))
  BY <1>7 DEF Active, Born, Released
<1>9. Born(u)'
  BY <1>7 DEF Born
<1>10. TypeOK'
  <2>1. photo' \in [Uploads -> PhotoRow]
    <3>1. new \in PhotoRow
      BY <1>1 DEF PhotoRow, PhotoStatus, Upload
    <3>2. \A p \in Uploads : [photo[p] EXCEPT !.checksum = NoImage] \in PhotoRow
      BY <1>1 DEF PhotoRow
    <3> HIDE DEF new
    <3> QED
      BY <1>1, <1>4, <3>1, <3>2
  <2>2. upload' \in [Uploads -> Upload]
    <3> DEFINE next == [upload[u] EXCEPT !.step = "inserted", !.day = 0, !.released = {}]
    <3>1. upload' = [upload EXCEPT ![u] = next]
      BY <1>1, <1>5
    <3>2. next \in Upload
      <4>1. upload[u] \in Upload /\ "inserted" \in Step
        BY <1>1 DEF Step
      <4>2. 0 \in 0..LastDay
        BY ConstantsAssumption
      <4> QED
        BY <4>1, <4>2, RequestUpdate
    <3> HIDE DEF next
    <3> QED
      BY <1>1, <3>1, <3>2
  <2> QED
    BY <1>1, <2>1, <2>2 DEF create_photo, TypeOK
<1>11. \A p \in Uploads \ {u} : Active(p) => /\ photo[p].checksum # upload[u].image
                                             /\ photo[p].registered_date # upload[u].day
  <2> SUFFICES ASSUME NEW p \in Uploads \ {u}, Active(p)
               PROVE  /\ photo[p].checksum # upload[u].image
                      /\ photo[p].registered_date # upload[u].day
    OBVIOUS
  <2>1. p \notin upload[u].released
    BY <1>3, <1>8
  <2>2. Same(u) = {} /\ ~ActiveOn(upload[u].day)
    BY DEF create_photo, Conflict
  <2> QED
    BY <2>1, <2>2 DEF Same, ActiveOn
<1>12. ChecksumKept'
  BY <1>6, <1>7, <1>8 DEF UInv, ChecksumKept
<1>13. NoDoubleUpload'
  <2> SUFFICES ASSUME NEW p \in Uploads, NEW q \in Uploads, p # q, Active(p)', Active(q)'
               PROVE  /\ upload'[p].image # upload'[q].image
                      /\ photo'[p].registered_date # photo'[q].registered_date
    BY DEF NoDoubleUpload
  <2>1. \A x \in Uploads \ {u} : Active(x) => photo[x].checksum = upload[x].image
    BY DEF UInv, ChecksumKept
  <2>2. CASE p = u
    BY <1>6, <1>7, <1>8, <1>11, <2>1, <2>2
  <2>3. CASE q = u
    BY <1>6, <1>7, <1>8, <1>11, <2>1, <2>3
  <2>4. CASE p # u /\ q # u
    BY <1>6, <1>7, <1>8, <2>4 DEF UInv, NoDoubleUpload
  <2> QED
    BY <2>2, <2>3, <2>4
<1>14. LocksHeld'
  <2> SUFFICES ASSUME NEW v \in Uploads, NEW p \in upload'[v].released PROVE Released(p)'
    BY DEF LocksHeld
  <2>1. v # u /\ p \in upload[v].released /\ p \in Uploads
    BY <1>1, <1>6 DEF Upload
  <2>2. p # u
    BY <1>2, <1>3, <2>1 DEF Born, Released
  <2> QED
    BY <1>3, <1>8, <2>1, <2>2
<1>15. RowsOnTime'
  BY <1>6, <1>8 DEF UInv, RowsOnTime
<1>16. ObjectsOnTime'
  <2>1. objects' = objects /\ faults' = faults /\ upload[u].step = "unique"
    BY DEF create_photo
  <2> QED
    BY <1>6, <1>8, <1>9, <2>1 DEF UInv, ObjectsOnTime
<1> QED
  BY <1>10, <1>12, <1>13, <1>14, <1>15, <1>16 DEF UInv

-----------------------------------------------------------------------------
(* The theorems *)

LEMMA NextInv == UInv /\ [Next]_vars => UInv'
<1> SUFFICES ASSUME UInv, [Next]_vars PROVE UInv'
  OBVIOUS
<1>1. CASE \E u \in Uploads : RequestStep(u)
  BY <1>1, RequestStepInv
<1>2. CASE \E u \in Uploads : begin_create(u)
  BY <1>2, BeginInv
<1>3. CASE \E u \in Uploads, status \in {"VALIDATING", "SEARCHING"} : create_photo(u, status)
  BY <1>3, CreateInv
<1>4. CASE \/ \E p \in Uploads, status \in PhotoStatus : Pipeline(p, status)
           \/ \E p \in Uploads : delete_photo(p)
           \/ \E p \in Uploads : ValidationOverdue(p)
           \/ withdraw
           \/ NextDay
           \/ UNCHANGED vars
  BY <1>4, SurroundingsInv
<1> QED
  BY <1>1, <1>2, <1>3, <1>4 DEF Next, RequestStep

\* The inductive invariant holds in every reachable state.
THEOREM Invariant == Spec => []UInv
  BY InitInv, NextInv, PTL DEF Spec

\* Every variable of the uploads keeps its type.
THEOREM TypeCorrect == Spec => []TypeOK
<1>1. UInv => TypeOK
  BY DEF UInv
<1> QED
  BY <1>1, Invariant, PTL

\* No image and no day has two photos that are neither rejected nor deleted,
\* for any number of concurrent uploads.
THEOREM UploadedOnce == Spec => []NoDoubleUpload
<1>1. UInv => NoDoubleUpload
  BY DEF UInv
<1> QED
  BY <1>1, Invariant, PTL

\* An active photo never loses its checksum.
THEOREM ChecksumsKept == Spec => []ChecksumKept
<1>1. UInv => ChecksumKept
  BY DEF UInv
<1> QED
  BY <1>1, Invariant, PTL

\* Object and row agree once an upload without a fault is over.
THEOREM ObjectsAgree == Spec => []ObjectAgrees
<1>1. UInv => ObjectAgrees
  BY DEF UInv, ObjectsOnTime, ObjectAgrees, Born
<1> QED
  BY <1>1, Invariant, PTL
=============================================================================
