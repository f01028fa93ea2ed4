------------------------ MODULE ValidationQueueProofs -----------------------
(***************************************************************************)
(* Proofs about ValidationQueue for any number of photos, owners, workers, *)
(* attempts and reports in flight.                                         *)
(***************************************************************************)
EXTENDS ValidationQueue, SequenceTheorems, TLAPS

-----------------------------------------------------------------------------
(* The inductive invariant *)

\* What the rows of one photo say together. Beside the parts of the three
\* invariants it records that no rejection code is stored before a verdict, and
\* that a leased job has been counted as an attempt.
RowOK(p) ==
    LET s == photo[p].status
        v == validation[p].status
        c == photo[p].rejection_code
        passed == <<"VALIDATION_PASSED">>
        expired == <<"VALIDATION_PASSED", "SEARCH_EXPIRED">>
        rejected == <<"PHOTO_REJECTED">>
    IN  /\ s = "ABSENT" <=> v = "ABSENT"
        /\ s = "VALIDATING" => v \in {"PENDING", "PROCESSING"}
        /\ s \in {"SEARCHING", "MATCHED", "EXPIRED"} => v = "PASSED"
        /\ s = "REJECTED" => v # "PASSED"
        /\ v = "PASSED" <=> p \in embeddingJob
        /\ v \in {"PENDING", "PROCESSING", "ABSENT"} => told[p] = <<>>
        /\ v = "REJECTED" => told[p] = rejected
        /\ v = "FAILED" => told[p] \in {<<>>, rejected}
        /\ c = "VALIDATION_TIMEOUT" => told[p] = <<>>
        /\ c = "VALIDATION_FAILED" => told[p] = rejected
        /\ v = "PASSED" =>
             \/ s = "SEARCHING" /\ told[p] = passed
             \/ s = "EXPIRED" /\ told[p] = expired
             \/ s = "MATCHED" /\ told[p] = <<"VALIDATION_PASSED", "MATCHED">>
             \/ s = "DELETED" /\ told[p] \in {passed, expired}
        /\ v = "PENDING" => validation[p].attempt_count < MaxAttempts
        /\ v = "PROCESSING" => validation[p].attempt_count > 0
        /\ s \in {"ABSENT", "VALIDATING"} => c = "NONE"

IInv == TypeOK /\ \A p \in Photos : RowOK(p)

-----------------------------------------------------------------------------
(* Lemmas *)

\* A second notification goes behind the first one.
LEMMA AppendToOne == \A x, y : Append(<<x>>, y) = <<x, y>>
<1> TAKE x, y
<1> DEFINE S == {x, y}
           a == Append(<<x>>, y)
           b == <<x, y>>
<1>1. a \in Seq(S) /\ b \in Seq(S) OBVIOUS
<1>2. Len(a) = 2 /\ Len(b) = 2 OBVIOUS
<1>3. a[1] = x /\ a[2] = y /\ b[1] = x /\ b[2] = y OBVIOUS
<1>4. \A i \in 1..Len(a) : a[i] = b[i] BY <1>2, <1>3
<1> QED BY <1>1, <1>2, <1>4, SeqEqual

\* A capped counter stays in its range.
LEMMA LowerRange ==
  ASSUME NEW cap \in Nat, NEW n \in Nat
  PROVE  Lower(n, cap) \in 0..cap
BY DEF Lower

\* The rows of a photo that a step leaves alone stay consistent.
LEMMA RowUntouched ==
  ASSUME NEW q \in Photos, RowOK(q),
         photo'[q] = photo[q], validation'[q] = validation[q], told'[q] = told[q],
         q \in embeddingJob <=> q \in embeddingJob'
  PROVE  RowOK(q)'
BY DEF RowOK

\* The same when only the timers of the rows have moved.
LEMMA RowOnlyTimers ==
  ASSUME NEW q \in Photos, RowOK(q),
         photo'[q].status = photo[q].status,
         photo'[q].rejection_code = photo[q].rejection_code,
         validation'[q].status = validation[q].status,
         validation'[q].attempt_count = validation[q].attempt_count,
         told'[q] = told[q],
         q \in embeddingJob <=> q \in embeddingJob'
  PROVE  RowOK(q)'
BY DEF RowOK

\* The stale uploads of an owner that expire_stale_validations closes.
LEMMA WithoutStaleRows ==
  ASSUME NEW u, TypeOK
  PROVE  /\ WithoutStale(u) \in [Photos -> PhotoRow]
         /\ \A q \in Photos :
              \/ WithoutStale(u)[q] = photo[q]
              \/ /\ photo[q].status = "VALIDATING"
                 /\ WithoutStale(u)[q].status = "REJECTED"
                 /\ WithoutStale(u)[q].rejection_code = "VALIDATION_TIMEOUT"
BY DEF WithoutStale, Stale, Rejected, TypeOK, PhotoRow, PhotoStatus, RejectionCode

\* The updates the handlers make keep a validation row a validation row.
LEMMA ValidationRowUpdate ==
  ASSUME NEW r \in ValidationRow, NEW s \in ValidationStatus, NEW w \in Workers \cup {NoWorker},
         NEW n \in 0..AttemptCap, NEW d \in Nat
  PROVE  /\ [r EXCEPT !.status = s, !.lease_age = 0] \in ValidationRow
         /\ [r EXCEPT !.status = s, !.attempt_count = n] \in ValidationRow
         /\ [r EXCEPT !.status = s, !.worker_id = w, !.lease_age = 0, !.retry_in = d]
              \in ValidationRow
         /\ [r EXCEPT !.status = s, !.worker_id = w, !.attempt_count = n, !.lease_age = 0,
                      !.retry_in = d] \in ValidationRow
<1>1. 0 \in 0..(LeaseSeconds + 1) BY ConstantsAssumption
<1> QED BY <1>1 DEF ValidationRow

LEMMA ClosedRow ==
  ASSUME NEW r \in ValidationRow, NEW s \in ValidationStatus
  PROVE  Closed(r, s) \in ValidationRow /\ Closed(r, s).status = s
<1>1. 0 \in Nat OBVIOUS
<1>2. 0 \in 0..AttemptCap BY ConstantsAssumption DEF AttemptCap
<1>3. Closed(r, s) \in ValidationRow BY <1>1, <1>2, ValidationRowUpdate DEF Closed
<1> QED BY <1>3 DEF Closed, ValidationRow

LEMMA RejectedRow ==
  ASSUME NEW r \in PhotoRow, NEW c \in RejectionCode
  PROVE  /\ Rejected(r, c) \in PhotoRow
         /\ Rejected(r, c).status = "REJECTED"
         /\ Rejected(r, c).rejection_code = c
BY DEF Rejected, PhotoRow, PhotoStatus

\* Closing a stale upload leaves its rows consistent.
LEMMA RowTimedOut ==
  ASSUME NEW q \in Photos, RowOK(q), photo[q].status = "VALIDATING",
         photo'[q].status = "REJECTED",
         photo'[q].rejection_code = "VALIDATION_TIMEOUT",
         validation'[q] = validation[q], told'[q] = told[q],
         q \in embeddingJob <=> q \in embeddingJob'
  PROVE  RowOK(q)'
BY DEF RowOK
-----------------------------------------------------------------------------
(* Each handler keeps the invariant *)

LEMMA InitInv == Init => IInv
BY ConstantsAssumption
   DEF Init, IInv, TypeOK, RowOK, NoPhoto, NoValidation, PhotoRow, PhotoStatus, RejectionCode,
       ValidationRow, ValidationStatus, AttemptCap, Report, NotificationType

LEMMA ExpireStaleInv ==
  ASSUME IInv, NEW u \in Users, expire_stale_validations(u)
  PROVE  IInv'
<1>1. TypeOK'
  BY WithoutStaleRows DEF IInv, TypeOK, expire_stale_validations
<1>2. ASSUME NEW q \in Photos PROVE RowOK(q)'
  <2>1. RowOK(q) BY DEF IInv
  <2>2. \/ photo'[q] = photo[q]
        \/ /\ photo[q].status = "VALIDATING"
           /\ photo'[q].status = "REJECTED"
           /\ photo'[q].rejection_code = "VALIDATION_TIMEOUT"
    BY WithoutStaleRows DEF IInv, expire_stale_validations
  <2>3. validation'[q] = validation[q] /\ told'[q] = told[q] /\ embeddingJob' = embeddingJob
    BY DEF expire_stale_validations
  <2> QED BY <2>1, <2>2, <2>3, RowUntouched, RowTimedOut
<1> QED BY <1>1, <1>2 DEF IInv

LEMMA CreateInv ==
  ASSUME IInv, NEW p \in Photos, NEW mock \in MockModes[p], create_photo(p, mock)
  PROVE  IInv'
<1> DEFINE rows == WithoutStale(Owner[p])
<1>1. mock \in BOOLEAN BY ConstantsAssumption
<1>2. /\ rows \in [Photos -> PhotoRow]
      /\ \A q \in Photos :
           \/ rows[q] = photo[q]
           \/ /\ photo[q].status = "VALIDATING"
              /\ rows[q].status = "REJECTED"
              /\ rows[q].rejection_code = "VALIDATION_TIMEOUT"
  BY WithoutStaleRows DEF IInv
<1>3. photo' = [rows EXCEPT ![p].status = IF mock THEN "SEARCHING" ELSE "VALIDATING"]
  BY DEF create_photo
<1> HIDE DEF rows
<1>4. RowOK(p) /\ photo[p].status = "ABSENT" BY DEF IInv, create_photo
<1>5. told[p] = <<>> BY <1>4 DEF RowOK
<1>6. TypeOK'
  <2>1. photo' \in [Photos -> PhotoRow] BY <1>1, <1>2, <1>3 DEF PhotoRow, PhotoStatus
  <2>2. validation' \in [Photos -> ValidationRow]
    <3> DEFINE s == IF mock THEN "PASSED" ELSE "PENDING"
               n == IF mock THEN 1 ELSE 0
    <3>1. s \in ValidationStatus /\ n \in 0..AttemptCap
      BY ConstantsAssumption DEF ValidationStatus, AttemptCap
    <3>2. validation' = [validation EXCEPT ![p] = [@ EXCEPT !.status = s, !.attempt_count = n]]
      BY DEF create_photo
    <3>3. 0 \in Nat OBVIOUS
    <3> HIDE DEF s, n
    <3> QED BY <3>1, <3>2, <3>3, ValidationRowUpdate DEF IInv, TypeOK
  <2>3. told' \in [Photos -> Seq(NotificationType)]
    BY <1>1 DEF IInv, TypeOK, create_photo, NotificationType
  <2> QED BY <1>1, <2>1, <2>2, <2>3 DEF IInv, TypeOK, create_photo
<1>7. RowOK(p)'
  <2>1. rows[p] = photo[p] BY <1>2, <1>4
  <2>2. /\ photo'[p].status = IF mock THEN "SEARCHING" ELSE "VALIDATING"
        /\ photo'[p].rejection_code = "NONE"
    BY <1>2, <1>3, <1>4, <2>1 DEF PhotoRow, RowOK
  <2>3. /\ validation'[p].status = IF mock THEN "PASSED" ELSE "PENDING"
        /\ validation'[p].attempt_count = IF mock THEN 1 ELSE 0
    BY DEF IInv, TypeOK, create_photo, ValidationRow
  <2>4. told'[p] = IF mock THEN <<"VALIDATION_PASSED">> ELSE <<>>
    BY <1>1, <1>5 DEF IInv, TypeOK, create_photo
  <2>5. p \in embeddingJob' <=> mock
    BY <1>1, <1>4 DEF create_photo, RowOK
  <2> QED BY <1>1, <2>2, <2>3, <2>4, <2>5, ConstantsAssumption DEF RowOK
<1>8. ASSUME NEW q \in Photos, q # p PROVE RowOK(q)'
  <2>1. RowOK(q) BY DEF IInv
  <2>2. photo'[q] = rows[q] BY <1>2, <1>3, <1>8
  <2>3. /\ validation'[q] = validation[q]
        /\ told'[q] = told[q]
        /\ q \in embeddingJob <=> q \in embeddingJob'
    BY <1>1, <1>8 DEF IInv, TypeOK, create_photo
  <2> QED BY <1>2, <2>1, <2>2, <2>3, RowUntouched, RowTimedOut
<1> QED BY <1>6, <1>7, <1>8 DEF IInv

LEMMA DeleteInv ==
  ASSUME IInv, NEW p \in Photos, delete_photo(p)
  PROVE  IInv'
<1>1. TypeOK'
  BY DEF IInv, TypeOK, delete_photo, PhotoRow, PhotoStatus
<1>2. RowOK(p)'
  <2>1. RowOK(p) /\ photo[p].status \in {"VALIDATING", "REJECTED", "SEARCHING", "EXPIRED"}
    BY DEF IInv, delete_photo
  <2>2. /\ photo'[p].status = "DELETED"
        /\ photo'[p].rejection_code = photo[p].rejection_code
    BY DEF IInv, TypeOK, delete_photo, PhotoRow
  <2>3. UNCHANGED <<validation, told, embeddingJob>> BY DEF delete_photo
  <2> QED BY <2>1, <2>2, <2>3 DEF RowOK
<1>3. ASSUME NEW q \in Photos, q # p PROVE RowOK(q)'
  BY <1>3, RowUntouched DEF IInv, TypeOK, delete_photo
<1> QED BY <1>1, <1>2, <1>3 DEF IInv

\* A handler that changes the rows of one photo, given its effect on that photo.
LEMMA OneRowInv ==
  ASSUME IInv, NEW p \in Photos, TypeOK', RowOK(p)',
         \A q \in Photos \ {p} : /\ photo'[q] = photo[q]
                                 /\ validation'[q] = validation[q]
                                 /\ told'[q] = told[q]
                                 /\ q \in embeddingJob <=> q \in embeddingJob'
  PROVE  IInv'
<1>1. ASSUME NEW q \in Photos, q # p PROVE RowOK(q)'
  BY <1>1, RowUntouched DEF IInv
<1> QED BY <1>1 DEF IInv

LEMMA ClaimInv ==
  ASSUME IInv, NEW w \in Workers, NEW p \in Photos, NEW received \in BOOLEAN,
         claim_next(w, p, received)
  PROVE  IInv'
<1> DEFINE n == Lower(validation[p].attempt_count + 1, AttemptCap)
<1>1. validation[p].attempt_count \in Nat /\ AttemptCap \in Nat
  BY ConstantsAssumption DEF IInv, TypeOK, ValidationRow, AttemptCap
<1>2. n \in 0..AttemptCap /\ n > 0
  BY <1>1, ConstantsAssumption DEF Lower, AttemptCap
<1>3. validation' = [validation EXCEPT
                       ![p] = [@ EXCEPT !.status = "PROCESSING", !.worker_id = w,
                                        !.attempt_count = n, !.lease_age = 0, !.retry_in = 0]]
  BY DEF claim_next
<1> HIDE DEF n
<1>4. TypeOK'
  <2>1. validation' \in [Photos -> ValidationRow]
    BY <1>2, <1>3, ValidationRowUpdate DEF IInv, TypeOK, ValidationStatus
  <2>2. running' \in [Workers -> Photos \cup {NoJob}] BY DEF IInv, TypeOK, claim_next
  <2> QED BY <2>1, <2>2 DEF IInv, TypeOK, claim_next
<1>5. RowOK(p)'
  <2>1. RowOK(p) /\ photo[p].status = "VALIDATING" BY DEF IInv, claim_next
  <2>2. validation[p].status \in {"PENDING", "PROCESSING"} BY <2>1 DEF RowOK
  <2>3. validation'[p].status = "PROCESSING" /\ validation'[p].attempt_count = n
    BY <1>3 DEF IInv, TypeOK, ValidationRow
  <2>4. UNCHANGED <<photo, embeddingJob, told>> BY DEF claim_next
  <2> QED BY <1>2, <2>1, <2>2, <2>3, <2>4 DEF RowOK
<1> QED BY <1>3, <1>4, <1>5, OneRowInv DEF IInv, TypeOK, claim_next

LEMMA ClaimUnavailableInv ==
  ASSUME IInv, NEW p \in Photos, claim_next_unavailable(p)
  PROVE  IInv'
<1>1. TypeOK'
  <2>1. 0 \in Nat /\ 0 \in 0..AttemptCap BY ConstantsAssumption DEF AttemptCap
  <2>2. validation' \in [Photos -> ValidationRow]
    BY <2>1, ValidationRowUpdate DEF IInv, TypeOK, claim_next_unavailable, ValidationStatus
  <2> QED BY <2>2 DEF IInv, TypeOK, claim_next_unavailable
<1>2. RowOK(p)'
  <2>1. RowOK(p) /\ photo[p].status # "VALIDATING" BY DEF IInv, claim_next_unavailable
  <2>2. validation[p].status \in {"PENDING", "PROCESSING"}
    BY DEF claim_next_unavailable, Claimable
  <2>3. validation'[p].status = "FAILED"
    BY DEF IInv, TypeOK, ValidationRow, claim_next_unavailable
  <2>4. UNCHANGED <<photo, embeddingJob, told>> BY DEF claim_next_unavailable
  <2> QED BY <2>1, <2>2, <2>3, <2>4 DEF RowOK
<1> QED BY <1>1, <1>2, OneRowInv DEF IInv, TypeOK, claim_next_unavailable

LEMMA ApplyInv ==
  ASSUME IInv, NEW m \in reports, apply_result(m)
  PROVE  IInv'
<1> DEFINE p == m.photo
<1>1. m \in Report /\ p \in Photos BY DEF IInv, TypeOK, Report
<1>2. /\ photo[p].status = "VALIDATING"
      /\ m.outcome \in {"PASSED", "REJECTED"}
      /\ validation[p].status \in {"PENDING", "PROCESSING"}
  BY DEF apply_result, TakesResult
<1>3. validation' = [validation EXCEPT ![p] = Closed(@, m.outcome)]
  BY DEF apply_result
<1>4. RowOK(p) BY <1>1 DEF IInv
<1>5. told[p] = <<>> /\ p \notin embeddingJob BY <1>2, <1>4 DEF RowOK
<1>6. validation' \in [Photos -> ValidationRow] /\ validation'[p].status = m.outcome
  BY <1>1, <1>2, <1>3, ClosedRow DEF IInv, TypeOK, ValidationStatus
<1>7. CASE m.outcome = "PASSED"
  <2>1. /\ photo' = [photo EXCEPT ![p] = [@ EXCEPT !.status = "SEARCHING",
                                                   !.rejection_code = "NONE"]]
        /\ embeddingJob' = embeddingJob \cup {p}
        /\ told' = [told EXCEPT ![p] = Append(@, "VALIDATION_PASSED")]
        /\ UNCHANGED <<running, reports>>
    BY <1>7 DEF apply_result
  <2>2. TypeOK'
    <3>1. photo' \in [Photos -> PhotoRow]
      BY <1>1, <2>1 DEF IInv, TypeOK, PhotoRow, PhotoStatus, RejectionCode
    <3>2. told' \in [Photos -> Seq(NotificationType)]
      BY <1>1, <2>1 DEF IInv, TypeOK, NotificationType
    <3> QED BY <1>1, <1>6, <2>1, <3>1, <3>2 DEF IInv, TypeOK
  <2>3. /\ photo'[p].status = "SEARCHING"
        /\ photo'[p].rejection_code = "NONE"
        /\ told'[p] = <<"VALIDATION_PASSED">>
    BY <1>1, <1>5, <2>1 DEF IInv, TypeOK, PhotoRow
  <2>4. RowOK(p)' BY <1>6, <1>7, <2>1, <2>3 DEF RowOK
  <2> QED BY <1>1, <1>3, <2>1, <2>2, <2>4, OneRowInv DEF IInv, TypeOK
<1>8. CASE m.outcome = "REJECTED"
  <2>1. /\ photo' = [photo EXCEPT ![p] = Rejected(@, "POLICY")]
        /\ told' = [told EXCEPT ![p] = Append(@, "PHOTO_REJECTED")]
        /\ UNCHANGED <<running, reports, embeddingJob>>
    BY <1>8 DEF apply_result
  <2>2. TypeOK'
    <3>1. photo' \in [Photos -> PhotoRow]
      BY <1>1, <2>1, RejectedRow DEF IInv, TypeOK, RejectionCode
    <3>2. told' \in [Photos -> Seq(NotificationType)]
      BY <1>1, <2>1 DEF IInv, TypeOK, NotificationType
    <3> QED BY <1>1, <1>6, <2>1, <3>1, <3>2 DEF IInv, TypeOK
  <2>3. /\ photo'[p].status = "REJECTED"
        /\ photo'[p].rejection_code = "POLICY"
        /\ told'[p] = <<"PHOTO_REJECTED">>
    BY <1>1, <1>5, <2>1, RejectedRow DEF IInv, TypeOK, RejectionCode
  <2>4. RowOK(p)' BY <1>5, <1>6, <1>8, <2>1, <2>3 DEF RowOK
  <2> QED BY <1>1, <1>3, <2>1, <2>2, <2>4, OneRowInv DEF IInv, TypeOK
<1> QED BY <1>2, <1>7, <1>8

LEMMA RetryInv ==
  ASSUME IInv, NEW m \in reports, record_failure_retry(m)
  PROVE  IInv'
<1> DEFINE p == m.photo
           n == validation[p].attempt_count
           d == RetryDelay(n)
<1>1. m \in Report /\ p \in Photos BY DEF IInv, TypeOK, Report
<1>2. RowOK(p) BY <1>1 DEF IInv
<1>3. validation[p].status = "PROCESSING" /\ n < MaxAttempts
  BY DEF record_failure_retry, TakesFailure, Retries
<1>4. n \in Nat BY <1>1 DEF IInv, TypeOK, ValidationRow
<1>5. n > 0 BY <1>2, <1>3 DEF RowOK
<1>6. d \in Nat
  <2>1. n \in 1..MaxAttempts BY <1>3, <1>4, <1>5, ConstantsAssumption
  <2> QED BY <2>1, BackoffAssumption
<1>7. /\ validation' = [validation EXCEPT
                          ![p] = [@ EXCEPT !.status = "PENDING", !.worker_id = NoWorker,
                                           !.lease_age = 0, !.retry_in = d]]
      /\ UNCHANGED <<photo, embeddingJob, told, running, reports>>
  BY DEF record_failure_retry
<1> HIDE DEF d
<1>8. TypeOK'
  <2>1. 0 \in 0..AttemptCap BY ConstantsAssumption DEF AttemptCap
  <2>2. validation' \in [Photos -> ValidationRow]
    BY <1>1, <1>6, <1>7, <2>1, ValidationRowUpdate DEF IInv, TypeOK, ValidationStatus
  <2> QED BY <1>7, <2>2 DEF IInv, TypeOK
<1>9. RowOK(p)'
  <2>1. validation'[p].status = "PENDING" /\ validation'[p].attempt_count = n
    BY <1>1, <1>7 DEF IInv, TypeOK, ValidationRow
  <2> QED BY <1>2, <1>3, <1>7, <2>1 DEF RowOK
<1> HIDE DEF p
<1> QED BY <1>1, <1>7, <1>8, <1>9, OneRowInv DEF IInv, TypeOK

LEMMA FinalFailureInv ==
  ASSUME IInv, NEW m \in reports, record_failure_final(m)
  PROVE  IInv'
<1> DEFINE p == m.photo
<1>1. m \in Report /\ p \in Photos BY DEF IInv, TypeOK, Report
<1>2. RowOK(p) BY <1>1 DEF IInv
<1>3. /\ validation[p].status = "PROCESSING"
      /\ validation' = [validation EXCEPT ![p] = Closed(@, "FAILED")]
      /\ UNCHANGED <<embeddingJob, running, reports>>
  BY DEF record_failure_final, TakesFailure
<1>4. told[p] = <<>> BY <1>2, <1>3 DEF RowOK
<1>5. validation' \in [Photos -> ValidationRow] /\ validation'[p].status = "FAILED"
  BY <1>1, <1>3, ClosedRow DEF IInv, TypeOK, ValidationStatus
<1>6. CASE photo[p].status = "VALIDATING"
  <2>1. /\ photo' = [photo EXCEPT ![p] = Rejected(@, "VALIDATION_FAILED")]
        /\ told' = [told EXCEPT ![p] = Append(@, "PHOTO_REJECTED")]
    BY <1>6 DEF record_failure_final
  <2>2. TypeOK'
    <3>1. photo' \in [Photos -> PhotoRow]
      BY <1>1, <2>1, RejectedRow DEF IInv, TypeOK, RejectionCode
    <3>2. told' \in [Photos -> Seq(NotificationType)]
      BY <1>1, <2>1 DEF IInv, TypeOK, NotificationType
    <3> QED BY <1>3, <1>5, <3>1, <3>2 DEF IInv, TypeOK
  <2>3. /\ photo'[p].status = "REJECTED"
        /\ photo'[p].rejection_code = "VALIDATION_FAILED"
        /\ told'[p] = <<"PHOTO_REJECTED">>
    BY <1>1, <1>4, <2>1, RejectedRow DEF IInv, TypeOK, RejectionCode
  <2>4. RowOK(p)' BY <1>2, <1>3, <1>5, <2>3 DEF RowOK
  <2> HIDE DEF p
  <2> QED BY <1>1, <1>3, <2>1, <2>2, <2>4, OneRowInv DEF IInv, TypeOK
<1>7. CASE photo[p].status # "VALIDATING"
  <2>1. UNCHANGED <<photo, told>> BY <1>7 DEF record_failure_final
  <2>2. TypeOK' BY <1>3, <1>5, <2>1 DEF IInv, TypeOK
  <2>3. RowOK(p)' BY <1>2, <1>3, <1>4, <1>5, <1>7, <2>1 DEF RowOK
  <2> HIDE DEF p
  <2> QED BY <1>1, <1>3, <2>1, <2>2, <2>3, OneRowInv DEF IInv, TypeOK
<1> QED BY <1>6, <1>7

\* The workers and the network do not touch the rows.
LEMMA NoRowInv ==
  ASSUME IInv, TypeOK', UNCHANGED <<photo, validation, embeddingJob, told>>
  PROVE  IInv'
BY RowUntouched DEF IInv

LEMMA WorkerInv ==
  ASSUME IInv, NEW w \in Workers,
         NEW outcome \in {"PASSED", "REJECTED", "RETRYABLE", "FATAL"},
         run_validation_once(w, outcome) \/ Restart(w)
  PROVE  IInv'
<1>1. UNCHANGED <<photo, validation, embeddingJob, told>>
  BY DEF run_validation_once, Restart
<1>2. running' \in [Workers -> Photos \cup {NoJob}]
  BY DEF IInv, TypeOK, run_validation_once, Restart
<1>3. reports' \in SUBSET Report
  <2>1. CASE run_validation_once(w, outcome)
    <3>1. running[w] \in Photos BY <2>1 DEF IInv, TypeOK, run_validation_once
    <3> QED BY <2>1, <3>1 DEF IInv, TypeOK, run_validation_once, Report
  <2>2. CASE Restart(w) BY <2>2 DEF IInv, TypeOK, Restart
  <2> QED BY <2>1, <2>2
<1> QED BY <1>1, <1>2, <1>3, NoRowInv DEF IInv, TypeOK

LEMMA DropInv ==
  ASSUME IInv, NEW m \in reports, Drop(m)
  PROVE  IInv'
BY NoRowInv DEF IInv, TypeOK, Drop

LEMMA PairedInv ==
  ASSUME IInv, NEW p \in Photos, NEW q \in Photos, Paired(p, q)
  PROVE  IInv'
<1>1. p # q BY DEF Paired
<1>2. RowOK(p) /\ RowOK(q) BY DEF IInv
<1>3. told[p] = <<"VALIDATION_PASSED">> /\ told[q] = <<"VALIDATION_PASSED">>
  BY <1>2 DEF RowOK, Paired
<1>4. TypeOK'
  <2>1. photo' \in [Photos -> PhotoRow]
    BY <1>1 DEF IInv, TypeOK, Paired, PhotoRow, PhotoStatus
  <2>2. told' \in [Photos -> Seq(NotificationType)]
    <3>1. \A r \in Photos : Append(told[r], "MATCHED") \in Seq(NotificationType)
      BY DEF IInv, TypeOK, NotificationType
    <3>2. told' = [told EXCEPT ![p] = Append(told[p], "MATCHED"),
                               ![q] = Append(told[q], "MATCHED")]
      BY <1>1 DEF IInv, TypeOK, Paired
    <3> QED BY <3>1, <3>2 DEF IInv, TypeOK
  <2> QED BY <2>1, <2>2 DEF IInv, TypeOK, Paired
<1>5. ASSUME NEW r \in {p, q} PROVE RowOK(r)'
  <2>1. RowOK(r) /\ photo[r].status = "SEARCHING" BY <1>2 DEF Paired
  <2>2. photo'[r].status = "MATCHED" /\ photo'[r].rejection_code = photo[r].rejection_code
    BY <1>1 DEF IInv, TypeOK, Paired, PhotoRow
  <2>3. told'[r] = <<"VALIDATION_PASSED", "MATCHED">>
    BY <1>1, <1>3, AppendToOne DEF IInv, TypeOK, Paired
  <2>4. UNCHANGED <<validation, embeddingJob>> BY DEF Paired
  <2>5. told[r] = <<"VALIDATION_PASSED">> BY <1>3
  <2>6. validation[r].status = "PASSED" BY <2>1 DEF RowOK
  <2> QED BY <2>1, <2>2, <2>3, <2>4, <2>5, <2>6 DEF RowOK
<1>6. ASSUME NEW r \in Photos, r \notin {p, q} PROVE RowOK(r)'
  BY <1>6, RowUntouched DEF IInv, TypeOK, Paired
<1> QED BY <1>4, <1>5, <1>6 DEF IInv

LEMMA SearchExpiredInv ==
  ASSUME IInv, NEW p \in Photos, SearchExpired(p)
  PROVE  IInv'
<1>1. RowOK(p) /\ photo[p].status = "SEARCHING" BY DEF IInv, SearchExpired
<1>2. validation[p].status = "PASSED" /\ told[p] = <<"VALIDATION_PASSED">>
  BY <1>1 DEF RowOK
<1>3. TypeOK'
  <2>1. photo' \in [Photos -> PhotoRow]
    BY DEF IInv, TypeOK, SearchExpired, PhotoRow, PhotoStatus
  <2>2. told' \in [Photos -> Seq(NotificationType)]
    BY DEF IInv, TypeOK, SearchExpired, NotificationType
  <2> QED BY <2>1, <2>2 DEF IInv, TypeOK, SearchExpired
<1>4. RowOK(p)'
  <2>1. photo'[p].status = "EXPIRED" /\ photo'[p].rejection_code = photo[p].rejection_code
    BY DEF IInv, TypeOK, SearchExpired, PhotoRow
  <2>2. told'[p] = <<"VALIDATION_PASSED", "SEARCH_EXPIRED">>
    BY <1>2, AppendToOne DEF IInv, TypeOK, SearchExpired
  <2>3. UNCHANGED <<validation, embeddingJob>> BY DEF SearchExpired
  <2> QED BY <1>1, <1>2, <2>1, <2>2, <2>3 DEF RowOK
<1> QED BY <1>3, <1>4, OneRowInv DEF IInv, TypeOK, SearchExpired

LEMMA TickInv == IInv /\ Tick => IInv'
<1> SUFFICES ASSUME IInv, Tick PROVE IInv' OBVIOUS
<1>1. ASSUME NEW r \in PhotoRow
      PROVE  /\ Older(r) \in PhotoRow
             /\ Older(r).status = r.status
             /\ Older(r).rejection_code = r.rejection_code
  <2>1. r.age + 1 \in Nat BY <1>1, ConstantsAssumption DEF PhotoRow
  <2>2. Lower(r.age + 1, TimeoutSeconds) \in 0..TimeoutSeconds
    BY <2>1, ConstantsAssumption, LowerRange
  <2> QED BY <1>1, <2>2 DEF Older, PhotoRow
<1>2. ASSUME NEW r \in ValidationRow
      PROVE  /\ CloserToRetry(r) \in ValidationRow
             /\ CloserToRetry(r).status = r.status
             /\ CloserToRetry(r).attempt_count = r.attempt_count
  <2> DEFINE l == IF r.status = "PROCESSING"
                  THEN Lower(r.lease_age + 1, LeaseSeconds + 1) ELSE r.lease_age
             d == IF r.retry_in = 0 THEN 0 ELSE r.retry_in - 1
  <2>1. r.lease_age + 1 \in Nat /\ LeaseSeconds + 1 \in Nat
    BY <1>2, ConstantsAssumption DEF ValidationRow
  <2>2. l \in 0..(LeaseSeconds + 1)
    BY <1>2, <2>1, LowerRange DEF ValidationRow
  <2>3. d \in Nat BY <1>2 DEF ValidationRow
  <2>4. CloserToRetry(r) = [r EXCEPT !.lease_age = l, !.retry_in = d] BY DEF CloserToRetry
  <2> HIDE DEF l, d
  <2> QED BY <1>2, <2>2, <2>3, <2>4 DEF ValidationRow
<1>3. /\ \A q \in Photos : photo'[q] = Older(photo[q])
      /\ \A q \in Photos : validation'[q] = CloserToRetry(validation[q])
      /\ UNCHANGED <<embeddingJob, told, running, reports>>
  BY DEF Tick
<1>4. TypeOK' BY <1>1, <1>2 DEF IInv, TypeOK, Tick
<1>5. ASSUME NEW q \in Photos PROVE RowOK(q)'
  <2>1. photo[q] \in PhotoRow /\ validation[q] \in ValidationRow BY DEF IInv, TypeOK
  <2>2. RowOK(q) BY DEF IInv
  <2> QED BY <1>1, <1>2, <1>3, <2>1, <2>2, RowOnlyTimers
<1> QED BY <1>4, <1>5 DEF IInv

LEMMA NextInv == IInv /\ [Next]_vars => IInv'
<1> SUFFICES ASSUME IInv, [Next]_vars PROVE IInv' OBVIOUS
<1>1. CASE UNCHANGED vars BY <1>1, NoRowInv DEF IInv, TypeOK, vars
<1>2. CASE Next
  BY <1>2, ExpireStaleInv, CreateInv, DeleteInv, ClaimInv, ClaimUnavailableInv, ApplyInv,
     RetryInv, FinalFailureInv, WorkerInv, DropInv, PairedInv, SearchExpiredInv, TickInv
     DEF Next
<1> QED BY <1>1, <1>2

-----------------------------------------------------------------------------
(* The theorems *)

\* The rows, the workers and the reports keep their types, and the inductive
\* invariant holds in every reachable state.
THEOREM Invariant == Spec => []IInv
BY InitInv, NextInv, PTL DEF Spec

\* TypeOK: no handler writes a row of another shape, however calls interleave.
THEOREM TypeCorrect == Spec => []TypeOK
<1>1. IInv => TypeOK BY DEF IInv
<1> QED BY <1>1, Invariant, PTL

\* JobAgreesWithPhoto: the photo and its job never contradict each other; above
\* all, a photo that is still validating always has a job that can finish it
\* (claim_next, apply_result, record_failure, delete_photo and the timeout race
\* for the two rows).
THEOREM RowsAgree == Spec => []JobAgreesWithPhoto
<1>1. IInv => JobAgreesWithPhoto BY DEF IInv, RowOK, JobAgreesWithPhoto, Live
<1> QED BY <1>1, Invariant, PTL

\* OneVerdict: the owner is told one verdict at most, and the right one.
THEOREM VerdictOnce == Spec => []OneVerdict
<1>1. IInv => OneVerdict BY DEF IInv, RowOK, OneVerdict, Live
<1> QED BY <1>1, Invariant, PTL

\* QueuedWithinBudget: record_failure never schedules an attempt too many.
THEOREM RetriesBounded == Spec => []QueuedWithinBudget
<1>1. IInv => QueuedWithinBudget BY DEF IInv, RowOK, QueuedWithinBudget
<1> QED BY <1>1, Invariant, PTL

\* LeaseRespected: a running lease is only ended by a report of its holder.
THEOREM LeaseKept == Spec => LeaseRespected
<1> DEFINE HolderReported(p) == \E m \in reports : /\ m.photo = p
                                                  /\ m.worker = validation[p].worker_id
<1>1. ASSUME IInv, Next, NEW p \in Photos, LosesLease(p) PROVE HolderReported(p)
  <2>1. validation'[p] # validation[p] BY <1>1 DEF LosesLease
  <2>2. validation[p].lease_age \in Nat /\ LeaseSeconds \in Nat /\ RowOK(p)
    BY <1>1, ConstantsAssumption DEF IInv, TypeOK, ValidationRow
  <2>3. ~Claimable(p) BY <1>1, <2>2 DEF Claimable, LosesLease
  <2>4. photo[p].status # "ABSENT" BY <1>1, <2>2 DEF RowOK, LosesLease
  <2>5. ASSUME NEW q \in Photos, NEW mock \in MockModes[q], create_photo(q, mock) PROVE FALSE
    BY <1>1, <2>1, <2>4, <2>5 DEF create_photo, IInv, TypeOK
  <2>6. ASSUME NEW w \in Workers, NEW q \in Photos, NEW r \in BOOLEAN, claim_next(w, q, r)
        PROVE FALSE
    BY <1>1, <2>1, <2>3, <2>6 DEF claim_next, IInv, TypeOK
  <2>7. ASSUME NEW q \in Photos, claim_next_unavailable(q) PROVE FALSE
    BY <1>1, <2>1, <2>3, <2>7 DEF claim_next_unavailable, IInv, TypeOK
  <2>8. ASSUME NEW m \in reports, apply_result(m)
        PROVE  m.photo = p /\ m.worker = validation[p].worker_id
    <3>1. m.photo = p BY <1>1, <2>1, <2>8 DEF apply_result, IInv, TypeOK
    <3> QED BY <1>1, <2>8, <3>1 DEF LosesLease, apply_result, TakesResult, HoldsLease
  <2>9. ASSUME NEW m \in reports, record_failure_retry(m) \/ record_failure_final(m)
        PROVE  m.photo = p /\ m.worker = validation[p].worker_id
    <3>1. m.photo = p
      BY <1>1, <2>1, <2>9 DEF record_failure_retry, record_failure_final, IInv, TypeOK
    <3> QED BY <2>9, <3>1
        DEF record_failure_retry, record_failure_final, TakesFailure, HoldsLease
  <2>10. ~Tick
    <3>1. ASSUME Tick PROVE FALSE
      <4>1. validation'[p] = CloserToRetry(validation[p]) BY <3>1 DEF Tick
      <4>2. validation[p] \in ValidationRow BY <1>1 DEF IInv, TypeOK
      <4>3. /\ validation'[p].status = validation[p].status
            /\ validation'[p].worker_id = validation[p].worker_id
            /\ validation'[p].attempt_count = validation[p].attempt_count
        BY <4>1, <4>2 DEF CloserToRetry, ValidationRow
      <4> QED BY <1>1, <4>3 DEF LosesLease
    <3> QED BY <3>1
  <2>11. \/ validation' = validation
         \/ \E q \in Photos : \E mock \in MockModes[q] : create_photo(q, mock)
         \/ \E w \in Workers, q \in Photos, r \in BOOLEAN : claim_next(w, q, r)
         \/ \E q \in Photos : claim_next_unavailable(q)
         \/ \E m \in reports : apply_result(m)
         \/ \E m \in reports : record_failure_retry(m) \/ record_failure_final(m)
         \/ Tick
    BY <1>1 DEF Next, expire_stale_validations, delete_photo, run_validation_once, Drop,
                Restart, Paired, SearchExpired
  <2> QED BY <2>1, <2>5, <2>6, <2>7, <2>8, <2>9, <2>10, <2>11
<1>2. IInv /\ [Next]_vars => [\A p \in Photos : LosesLease(p) => HolderReported(p)]_vars
  BY <1>1
<1> QED BY <1>2, Invariant, PTL DEF Spec, LeaseRespected

-----------------------------------------------------------------------------
(* The refinement *)

\* The state function Lifecycle!status stands for.
StatusOf == [p \in Photos |-> photo[p].status]

\* Every step of the queue is a step of PhotoLifecycle, or leaves the status and
\* the notifications of every photo as they are: one lemma per action.
LEMMA ExpireStaleRefines ==
  ASSUME IInv, NEW u \in Users, expire_stale_validations(u)
  PROVE  Lifecycle!Next
<1> PICK S \in SUBSET Photos : S = Stale(u) BY DEF Stale
<1>1. \A p \in Photos : photo[p] \in PhotoRow BY DEF IInv, TypeOK
<1>2. StatusOf' = [p \in Photos |-> IF p \in S THEN "REJECTED" ELSE StatusOf[p]]
  BY <1>1, RejectedRow DEF StatusOf, expire_stale_validations, WithoutStale, RejectionCode
<1>3. S # {} /\ \A p \in S : StatusOf[p] = "VALIDATING"
  BY DEF expire_stale_validations, Stale, StatusOf
<1>4. UNCHANGED told BY DEF expire_stale_validations
<1>5. Lifecycle!TimeOut(S)
  BY <1>2, <1>3, <1>4 DEF StatusOf, Lifecycle!TimeOut, Lifecycle!MovesSilently
<1> QED BY <1>5 DEF Lifecycle!Next

LEMMA CreateRefines ==
  ASSUME IInv, NEW p \in Photos, NEW mock \in MockModes[p], create_photo(p, mock)
  PROVE  Lifecycle!Next
<1> PICK S \in SUBSET Photos : S = Stale(Owner[p]) BY DEF Stale
<1> DEFINE status == IF mock THEN "SEARCHING" ELSE "VALIDATING"
<1>1. \A q \in Photos : photo[q] \in PhotoRow BY DEF IInv, TypeOK
<1>2. StatusOf[p] = "ABSENT" BY DEF create_photo, StatusOf
<1>3. p \notin S /\ \A q \in S : StatusOf[q] = "VALIDATING"
  BY <1>2 DEF Stale, StatusOf
<1>4. \A q \in Photos : /\ WithoutStale(Owner[p])[q] \in PhotoRow
                        /\ WithoutStale(Owner[p])[q].status
                             = IF q \in S THEN "REJECTED" ELSE StatusOf[q]
  BY <1>1, RejectedRow DEF WithoutStale, RejectionCode, StatusOf
<1>5. StatusOf' = [q \in Photos |-> IF q = p THEN status
                                    ELSE IF q \in S THEN "REJECTED" ELSE StatusOf[q]]
  <2>1. photo' = [WithoutStale(Owner[p]) EXCEPT ![p].status = status] BY DEF create_photo
  <2>2. WithoutStale(Owner[p]) = [q \in Photos |-> WithoutStale(Owner[p])[q]]
    BY DEF WithoutStale
  <2> HIDE DEF status
  <2> QED BY <1>4, <2>1, <2>2 DEF StatusOf, PhotoRow
<1>6. told' = IF mock THEN [told EXCEPT ![p] = Append(@, "VALIDATION_PASSED")] ELSE told
  BY DEF create_photo
<1>7. Lifecycle!Register(p, S)
  BY <1>2, <1>3, <1>5, <1>6 DEF Lifecycle!Register, StatusOf
<1> QED BY <1>7 DEF Lifecycle!Next

LEMMA DeleteRefines ==
  ASSUME IInv, NEW p \in Photos, delete_photo(p)
  PROVE  Lifecycle!Next
<1>1. StatusOf[p] \in {"VALIDATING", "REJECTED", "SEARCHING", "EXPIRED"}
  BY DEF delete_photo, StatusOf
<1>2. StatusOf' = [q \in Photos |-> IF q \in {p} THEN "DELETED" ELSE StatusOf[q]]
  BY DEF IInv, TypeOK, delete_photo, StatusOf, PhotoRow
<1>3. UNCHANGED told BY DEF delete_photo
<1>4. Lifecycle!Delete(p)
  BY <1>1, <1>2, <1>3 DEF StatusOf, Lifecycle!Delete, Lifecycle!MovesSilently
<1> QED BY <1>4 DEF Lifecycle!Next

LEMMA ApplyRefines ==
  ASSUME IInv, NEW m \in reports, apply_result(m)
  PROVE  Lifecycle!Next
<1> DEFINE p == m.photo
<1>1. p \in Photos BY DEF IInv, TypeOK, Report
<1>2. StatusOf[p] = "VALIDATING" BY <1>1 DEF apply_result, StatusOf
<1>3. CASE m.outcome = "PASSED"
  <2>1. /\ photo' = [photo EXCEPT ![p] = [@ EXCEPT !.status = "SEARCHING",
                                                   !.rejection_code = "NONE"]]
        /\ told' = [told EXCEPT ![p] = Append(@, "VALIDATION_PASSED")]
    BY <1>3 DEF apply_result
  <2>2. StatusOf' = [StatusOf EXCEPT ![p] = "SEARCHING"]
    BY <1>1, <2>1 DEF IInv, TypeOK, StatusOf, PhotoRow
  <2>3. Lifecycle!Pass(p)
    BY <1>2, <2>1, <2>2 DEF StatusOf, Lifecycle!Pass, Lifecycle!MovesWithNotice
  <2> QED BY <1>1, <2>3 DEF Lifecycle!Next
<1>4. CASE m.outcome # "PASSED"
  <2>1. /\ photo' = [photo EXCEPT ![p] = Rejected(@, "POLICY")]
        /\ told' = [told EXCEPT ![p] = Append(@, "PHOTO_REJECTED")]
    BY <1>4 DEF apply_result
  <2>2. StatusOf' = [StatusOf EXCEPT ![p] = "REJECTED"]
    BY <1>1, <2>1, RejectedRow DEF IInv, TypeOK, StatusOf, RejectionCode
  <2>3. Lifecycle!Reject(p)
    BY <1>2, <2>1, <2>2 DEF StatusOf, Lifecycle!Reject, Lifecycle!MovesWithNotice
  <2> QED BY <1>1, <2>3 DEF Lifecycle!Next
<1> QED BY <1>3, <1>4

LEMMA FinalFailureRefines ==
  ASSUME IInv, NEW m \in reports, record_failure_final(m)
  PROVE  Lifecycle!Next \/ UNCHANGED <<StatusOf, told>>
<1> DEFINE p == m.photo
<1>1. p \in Photos BY DEF IInv, TypeOK, Report
<1>2. CASE photo[p].status # "VALIDATING"
  BY <1>2 DEF record_failure_final, StatusOf
<1>3. CASE photo[p].status = "VALIDATING"
  <2>1. /\ photo' = [photo EXCEPT ![p] = Rejected(@, "VALIDATION_FAILED")]
        /\ told' = [told EXCEPT ![p] = Append(@, "PHOTO_REJECTED")]
    BY <1>3 DEF record_failure_final
  <2>2. StatusOf' = [StatusOf EXCEPT ![p] = "REJECTED"] /\ StatusOf[p] = "VALIDATING"
    BY <1>1, <1>3, <2>1, RejectedRow DEF IInv, TypeOK, StatusOf, RejectionCode
  <2>3. Lifecycle!Reject(p)
    BY <2>1, <2>2 DEF StatusOf, Lifecycle!Reject, Lifecycle!MovesWithNotice
  <2> QED BY <1>1, <2>3 DEF Lifecycle!Next
<1> QED BY <1>2, <1>3

LEMMA PairedRefines ==
  ASSUME IInv, NEW p \in Photos, NEW q \in Photos, Paired(p, q)
  PROVE  Lifecycle!Next
<1>1. p # q BY DEF Paired
<1>2. StatusOf[p] = "SEARCHING" /\ StatusOf[q] = "SEARCHING" BY DEF Paired, StatusOf
<1>3. StatusOf' = [StatusOf EXCEPT ![p] = "MATCHED", ![q] = "MATCHED"]
  BY <1>1 DEF IInv, TypeOK, Paired, StatusOf, PhotoRow
<1>4. told' = [told EXCEPT ![p] = Append(@, "MATCHED"), ![q] = Append(@, "MATCHED")]
  BY DEF Paired
<1>5. Lifecycle!Pair(p, q) BY <1>1, <1>2, <1>3, <1>4 DEF StatusOf, Lifecycle!Pair
<1> QED BY <1>5 DEF Lifecycle!Next

LEMMA SearchExpiredRefines ==
  ASSUME IInv, NEW p \in Photos, SearchExpired(p)
  PROVE  Lifecycle!Next
<1>1. \A q \in {p} : StatusOf[q] = "SEARCHING" BY DEF SearchExpired, StatusOf
<1>2. StatusOf' = [q \in Photos |-> IF q \in {p} THEN "EXPIRED" ELSE StatusOf[q]]
  BY DEF IInv, TypeOK, SearchExpired, StatusOf, PhotoRow
<1>3. told' = [q \in Photos |-> IF q \in {p} THEN Append(told[q], "SEARCH_EXPIRED")
                                ELSE told[q]]
  BY DEF IInv, TypeOK, SearchExpired
<1>4. Lifecycle!Expire({p}) BY <1>1, <1>2, <1>3 DEF StatusOf, Lifecycle!Expire
<1>5. {p} \in SUBSET Photos OBVIOUS
<1> QED BY <1>4, <1>5 DEF Lifecycle!Next

LEMMA TickKeepsStatus ==
  ASSUME IInv, Tick
  PROVE  UNCHANGED <<StatusOf, told>>
<1>1. ASSUME NEW p \in Photos PROVE photo'[p].status = photo[p].status
  <2>1. photo[p] \in PhotoRow /\ photo'[p] = Older(photo[p]) BY DEF IInv, TypeOK, Tick
  <2> QED BY <2>1 DEF Older, PhotoRow
<1> QED BY <1>1 DEF Tick, StatusOf

LEMMA StepRefines == IInv /\ [Next]_vars => Lifecycle!Next \/ UNCHANGED <<StatusOf, told>>
<1> SUFFICES ASSUME IInv, [Next]_vars PROVE Lifecycle!Next \/ UNCHANGED <<StatusOf, told>>
  OBVIOUS
<1>1. CASE UNCHANGED <<photo, told>> BY <1>1 DEF StatusOf
<1>2. CASE Next /\ ~UNCHANGED <<photo, told>>
  <2>1. \/ \E u \in Users : expire_stale_validations(u)
        \/ \E p \in Photos : \E mock \in MockModes[p] : create_photo(p, mock)
        \/ \E p \in Photos : delete_photo(p)
        \/ \E m \in reports : apply_result(m)
        \/ \E m \in reports : record_failure_final(m)
        \/ \E p, q \in Photos : Paired(p, q)
        \/ \E p \in Photos : SearchExpired(p)
        \/ Tick
    BY <1>2 DEF Next, claim_next, claim_next_unavailable, record_failure_retry,
                run_validation_once, Drop, Restart
  <2> QED BY <2>1, ExpireStaleRefines, CreateRefines, DeleteRefines, ApplyRefines,
             FinalFailureRefines, PairedRefines, SearchExpiredRefines, TickKeepsStatus
<1> QED BY <1>1, <1>2 DEF vars

\* LifecycleSpec: the queue, with its retries, leases, lost reports and restarts,
\* implements the lifecycle the owner of a photo is promised.
THEOREM Refines == Spec => LifecycleSpec
<1>1. Init => Lifecycle!Init BY DEF Init, Lifecycle!Init, NoPhoto
<1>2. IInv /\ [Next]_vars => [Lifecycle!Next]_(Lifecycle!vars)
  BY StepRefines DEF Lifecycle!vars, StatusOf
<1> QED BY <1>1, <1>2, Invariant, PTL DEF Spec, LifecycleSpec, Lifecycle!Spec

=============================================================================
