--------------------------- MODULE ValidationQueue --------------------------
(***************************************************************************)
(* The photo validation queue: the rows of photos and photo_validations,   *)
(* the API handlers that claim a job, apply a result and record a failure, *)
(* the workers that poll the API, the reports they send, and the handlers  *)
(* of the owner that race with them (upload, delete, the 15 minute         *)
(* timeout).                                                               *)
(*                                                                         *)
(* Every handler below is one transaction that locks each row it decides   *)
(* on (SELECT ... FOR UPDATE, or a conditional UPDATE), so it is one       *)
(* action. Times are kept relative to now: an age grows, a delay shrinks,  *)
(* and both stop where no comparison of the code can tell them apart.      *)
(***************************************************************************)
EXTENDS Naturals, Sequences, FiniteSets

CONSTANTS
    Photos,            \* photo ids (each upload request has its own)
    Users,
    Owner,             \* photos.user_id
    RegisteredDate,    \* photos.registered_date, the day of the upload request
    Workers,           \* worker_id values of the polling workers
    NoWorker,          \* worker_id IS NULL
    NoJob,             \* a worker that runs no job
    MaxAttempts,       \* validation_max_attempts
    RetryBaseSeconds,  \* validation_retry_base_seconds
    LeaseSeconds,      \* validation_lease_seconds
    TimeoutSeconds,    \* the 15 minutes of expire_stale_validations
    MockModes,         \* the values of mock_validation_on_upload at the upload of each photo
    MaxInFlight        \* bound: reports on their way at the same time

ASSUME ConstantsAssumption ==
    /\ Owner \in [Photos -> Users]
    /\ NoWorker \notin Workers
    /\ NoJob \notin Photos
    /\ MaxAttempts \in Nat \ {0}
    /\ RetryBaseSeconds \in Nat
    /\ LeaseSeconds \in Nat
    /\ TimeoutSeconds \in Nat
    /\ MockModes \in [Photos -> SUBSET BOOLEAN]

\* The exponential backoff before the attempt after attempt number n.
RetryDelay(n) == RetryBaseSeconds * 2^(n - 1)

ASSUME BackoffAssumption == \A n \in 1..MaxAttempts : RetryDelay(n) \in Nat

VARIABLES
    photo,        \* photos
    validation,   \* photo_validations, keyed by its unique photo_id
    embeddingJob, \* the photos that have a photo_embedding_jobs row
    told,         \* notifications whose target is the photo (or its match)
    running,      \* the job each worker process is working on
    reports       \* requests on their way; one may arrive late, twice or never

vars == <<photo, validation, embeddingJob, told, running, reports>>

-----------------------------------------------------------------------------
(* Rows and messages *)

PhotoStatus ==
    {"ABSENT", "VALIDATING", "REJECTED", "SEARCHING", "MATCHED", "EXPIRED", "DELETED"}

\* What the rejection_code column tells apart: a policy code of the model, or
\* one of the two codes the server itself writes.
RejectionCode == {"NONE", "POLICY", "VALIDATION_FAILED", "VALIDATION_TIMEOUT"}

PhotoRow == [status : PhotoStatus, age : 0..TimeoutSeconds, rejection_code : RejectionCode]

ValidationStatus == {"ABSENT", "PENDING", "PROCESSING", "PASSED", "REJECTED", "FAILED"}

\* No comparison of the code tells attempt counts above max_attempts apart.
AttemptCap == MaxAttempts + 1

\* lease_age is the time since started_at, read only while PROCESSING;
\* retry_in is the time until next_attempt_at, 0 when it is null or past.
ValidationRow == [status : ValidationStatus,
                  worker_id : Workers \cup {NoWorker},
                  attempt_count : 0..AttemptCap,
                  lease_age : 0..(LeaseSeconds + 1),
                  retry_in : Nat]

\* PASSED and REJECTED are posted to .../result, the other two to .../failure.
Report == [photo : Photos, worker : Workers,
           outcome : {"PASSED", "REJECTED", "RETRYABLE", "FATAL"}]

NotificationType == {"VALIDATION_PASSED", "PHOTO_REJECTED", "MATCHED", "SEARCH_EXPIRED"}

Lower(a, b) == IF a < b THEN a ELSE b

TypeOK ==
    /\ photo \in [Photos -> PhotoRow]
    /\ validation \in [Photos -> ValidationRow]
    /\ embeddingJob \in SUBSET Photos
    /\ told \in [Photos -> Seq(NotificationType)]
    /\ running \in [Workers -> Photos \cup {NoJob}]
    /\ reports \in SUBSET Report

NoPhoto == [status |-> "ABSENT", age |-> 0, rejection_code |-> "NONE"]

NoValidation == [status |-> "ABSENT", worker_id |-> NoWorker, attempt_count |-> 0,
                 lease_age |-> 0, retry_in |-> 0]

Init ==
    /\ photo = [p \in Photos |-> NoPhoto]
    /\ validation = [p \in Photos |-> NoValidation]
    /\ embeddingJob = {}
    /\ told = [p \in Photos |-> <<>>]
    /\ running = [w \in Workers |-> NoJob]
    /\ reports = {}

-----------------------------------------------------------------------------
(* The owner's requests *)

Active == {"VALIDATING", "SEARCHING", "MATCHED", "EXPIRED"}

\* Mutant of Stale: the UPDATE without its test of the status.
Stale_any_status(u) == {p \in Photos : Owner[p] = u /\ photo[p].age >= TimeoutSeconds}

\* Mutant of Stale: only uploads that no worker is checking.
Stale_unclaimed(u) == {p \in Photos : /\ Owner[p] = u
                                      /\ photo[p].status = "VALIDATING"
                                      /\ photo[p].age >= TimeoutSeconds
                                      /\ validation[p].status = "PENDING"}

\* The rows the conditional UPDATE of expire_stale_validations selects.
Stale(u) == {p \in Photos : /\ Owner[p] = u
                            /\ photo[p].status = "VALIDATING"
                            /\ photo[p].age >= TimeoutSeconds}

\* Mutant of Rejected: the two columns are swapped.
Rejected_swapped(row, code) == [row EXCEPT !.status = code, !.rejection_code = "REJECTED"]

Rejected(row, code) == [row EXCEPT !.status = "REJECTED", !.rejection_code = code]

\* The rows as expire_stale_validations leaves them: no notification is stored
\* and the validation row is not touched.
WithoutStale(u) == [p \in Photos |-> IF p \in Stale(u)
                                 THEN Rejected(photo[p], "VALIDATION_TIMEOUT")
                                 ELSE photo[p]]

\* Every read of the home screen and of today's photo begins with it.
expire_stale_validations(u) ==
    /\ Stale(u) # {}
    /\ photo' = WithoutStale(u)
    /\ UNCHANGED <<validation, embeddingJob, told, running, reports>>

TodayIsFree(p) ==
    \A q \in Photos : /\ Owner[q] = Owner[p]
                      /\ RegisteredDate[q] = RegisteredDate[p]
                      => WithoutStale(Owner[p])[q].status \notin Active

\* The upload: stale uploads are closed first, then the row is inserted with
\* its validation job, or, with mock validation, as already passed.
create_photo(p, mock) ==
    /\ photo[p].status = "ABSENT"
    /\ TodayIsFree(p)
    /\ photo' = [WithoutStale(Owner[p]) EXCEPT
                     ![p].status = IF mock THEN "SEARCHING" ELSE "VALIDATING"]
    /\ validation' = [validation EXCEPT
                          ![p] = [@ EXCEPT !.status = IF mock THEN "PASSED" ELSE "PENDING",
                                           !.attempt_count = IF mock THEN 1 ELSE 0]]
    /\ embeddingJob' = IF mock THEN embeddingJob \cup {p} ELSE embeddingJob
    /\ told' = IF mock THEN [told EXCEPT ![p] = Append(@, "VALIDATION_PASSED")] ELSE told
    /\ UNCHANGED <<running, reports>>

\* Mutant of delete_photo: a matched photo can be deleted, too.
delete_photo_matched(p) ==
    /\ photo[p].status \notin {"ABSENT", "DELETED"}
    /\ photo' = [photo EXCEPT ![p].status = "DELETED"]
    /\ UNCHANGED <<validation, embeddingJob, told, running, reports>>

delete_photo(p) ==
    /\ photo[p].status \in {"VALIDATING", "REJECTED", "SEARCHING", "EXPIRED"}
    /\ photo' = [photo EXCEPT ![p].status = "DELETED"]
    /\ UNCHANGED <<validation, embeddingJob, told, running, reports>>

-----------------------------------------------------------------------------
(* The internal API of the queue *)

\* Mutant of Claimable: an expired lease is never taken over.
Claimable_pending(p) == validation[p].status = "PENDING" /\ validation[p].retry_in = 0

Claimable(p) ==
    \/ validation[p].status = "PENDING" /\ validation[p].retry_in = 0
    \/ validation[p].status = "PROCESSING" /\ validation[p].lease_age > LeaseSeconds

\* Leases a job to worker w. SKIP LOCKED passes over a row that a report holds
\* locked, so any claimable row can be the one returned. The lease is committed
\* before the signed URL is made and the response sent: the worker may never
\* hear of it (received = FALSE).
claim_next(w, p, received) ==
    /\ running[w] = NoJob
    /\ Claimable(p)
    /\ photo[p].status = "VALIDATING"
    /\ validation' = [validation EXCEPT
                          ![p] = [@ EXCEPT
                                    !.status = "PROCESSING",
                                    !.worker_id = w,
                                    !.attempt_count = Lower(validation[p].attempt_count + 1,
                                                            AttemptCap),
                                    !.lease_age = 0,
                                    !.retry_in = 0]]
    /\ running' = IF received THEN [running EXCEPT ![w] = p] ELSE running
    /\ UNCHANGED <<photo, embeddingJob, told, reports>>

\* Mutant of claim_next_unavailable: the job is closed whatever the photo's status.
claim_next_unavailable_always(p) ==
    /\ \E w \in Workers : running[w] = NoJob
    /\ Claimable(p)
    /\ validation' = [validation EXCEPT
                          ![p] = [@ EXCEPT !.status = "FAILED", !.lease_age = 0]]
    /\ UNCHANGED <<photo, embeddingJob, told, running, reports>>

\* The same claim when the photo has left VALIDATING: the job is closed and the
\* worker is told that there is none.
claim_next_unavailable(p) ==
    /\ \E w \in Workers : running[w] = NoJob
    /\ Claimable(p)
    /\ photo[p].status # "VALIDATING"
    /\ validation' = [validation EXCEPT
                          ![p] = [@ EXCEPT !.status = "FAILED", !.lease_age = 0]]
    /\ UNCHANGED <<photo, embeddingJob, told, running, reports>>

\* Mutant of HoldsLease: the worker of a report is not compared.
HoldsLease_anyone(m) == m.worker \in Workers

\* The lease check of a report on a job that is being processed.
HoldsLease(m) == validation[m.photo].worker_id = m.worker

\* A result is taken from the lease holder, or from anyone while the job waits
\* for its next attempt. Other results change nothing (409, or the stored row
\* when the job already has the same outcome).
TakesResult(m) ==
    \/ validation[m.photo].status = "PENDING"
    \/ validation[m.photo].status = "PROCESSING" /\ HoldsLease(m)

\* A validation row with its final status.
Closed(row, status) ==
    [row EXCEPT !.status = status, !.worker_id = NoWorker, !.lease_age = 0, !.retry_in = 0]

apply_result(m) ==
    LET p == m.photo
    IN  /\ m \in reports
        /\ m.outcome \in {"PASSED", "REJECTED"}
        /\ TakesResult(m)
        /\ photo[p].status = "VALIDATING"
        /\ validation' = [validation EXCEPT ![p] = Closed(@, m.outcome)]
        /\ IF m.outcome = "PASSED"
           THEN /\ photo' = [photo EXCEPT ![p] = [@ EXCEPT !.status = "SEARCHING",
                                                            !.rejection_code = "NONE"]]
                /\ embeddingJob' = embeddingJob \cup {p}
                /\ told' = [told EXCEPT ![p] = Append(@, "VALIDATION_PASSED")]
           ELSE /\ photo' = [photo EXCEPT ![p] = Rejected(@, "POLICY")]
                /\ told' = [told EXCEPT ![p] = Append(@, "PHOTO_REJECTED")]
                /\ UNCHANGED embeddingJob
        /\ UNCHANGED <<running, reports>>

\* A failure is taken from the lease holder only.
TakesFailure(m) ==
    /\ m \in reports
    /\ m.outcome \in {"RETRYABLE", "FATAL"}
    /\ validation[m.photo].status = "PROCESSING"
    /\ HoldsLease(m)

Retries(m) ==
    m.outcome = "RETRYABLE" /\ validation[m.photo].attempt_count < MaxAttempts

record_failure_retry(m) ==
    /\ TakesFailure(m)
    /\ Retries(m)
    /\ validation' = [validation EXCEPT
                          ![m.photo] = [@ EXCEPT
                                          !.status = "PENDING",
                                          !.worker_id = NoWorker,
                                          !.lease_age = 0,
                                          !.retry_in = RetryDelay(validation[m.photo].attempt_count)]]
    /\ UNCHANGED <<photo, embeddingJob, told, running, reports>>

\* The last failure closes the job; the photo and its owner are only touched
\* when the photo is still waiting for the answer.
record_failure_final(m) ==
    LET p == m.photo
    IN  /\ TakesFailure(m)
        /\ ~Retries(m)
        /\ validation' = [validation EXCEPT ![p] = Closed(@, "FAILED")]
        /\ IF photo[p].status = "VALIDATING"
           THEN /\ photo' = [photo EXCEPT ![p] = Rejected(@, "VALIDATION_FAILED")]
                /\ told' = [told EXCEPT ![p] = Append(@, "PHOTO_REJECTED")]
           ELSE UNCHANGED <<photo, told>>
        /\ UNCHANGED <<embeddingJob, running, reports>>

-----------------------------------------------------------------------------
(* The workers *)

\* run_validation_once after the claim: the download and the provider end in a
\* decision or an error, one request reports it, and the worker polls again
\* whether or not that request is answered.
run_validation_once(w, outcome) ==
    /\ running[w] # NoJob
    /\ Cardinality(reports) < MaxInFlight
    /\ reports' = reports \cup {[photo |-> running[w], worker |-> w, outcome |-> outcome]}
    /\ running' = [running EXCEPT ![w] = NoJob]
    /\ UNCHANGED <<photo, validation, embeddingJob, told>>

\* A report leaves the network: it was answered, or it is lost.
Drop(m) ==
    /\ reports' = reports \ {m}
    /\ UNCHANGED <<photo, validation, embeddingJob, told, running>>

\* The worker process dies and is started again under the same worker_id.
Restart(w) ==
    /\ running[w] # NoJob
    /\ running' = [running EXCEPT ![w] = NoJob]
    /\ UNCHANGED <<photo, validation, embeddingJob, told, reports>>

-----------------------------------------------------------------------------
(* The rest of the pipeline, and time *)

\* What finalize and expire_due do to a photo (modelled in full in Matching).
Paired(p, q) ==
    /\ Owner[p] # Owner[q]
    /\ photo[p].status = "SEARCHING"
    /\ photo[q].status = "SEARCHING"
    /\ photo' = [photo EXCEPT ![p].status = "MATCHED", ![q].status = "MATCHED"]
    /\ told' = [told EXCEPT ![p] = Append(@, "MATCHED"), ![q] = Append(@, "MATCHED")]
    /\ UNCHANGED <<validation, embeddingJob, running, reports>>

SearchExpired(p) ==
    /\ photo[p].status = "SEARCHING"
    /\ photo' = [photo EXCEPT ![p].status = "EXPIRED"]
    /\ told' = [told EXCEPT ![p] = Append(@, "SEARCH_EXPIRED")]
    /\ UNCHANGED <<validation, embeddingJob, running, reports>>

\* One second passes. Only the ages that some comparison reads are kept.
Older(row) ==
    IF row.status = "VALIDATING"
    THEN [row EXCEPT !.age = Lower(row.age + 1, TimeoutSeconds)]
    ELSE row

CloserToRetry(row) ==
    [row EXCEPT !.lease_age = IF row.status = "PROCESSING"
                              THEN Lower(row.lease_age + 1, LeaseSeconds + 1)
                              ELSE row.lease_age,
                !.retry_in = IF row.retry_in = 0 THEN 0 ELSE row.retry_in - 1]

Tick ==
    /\ photo' = [p \in Photos |-> Older(photo[p])]
    /\ validation' = [p \in Photos |-> CloserToRetry(validation[p])]
    /\ UNCHANGED <<embeddingJob, told, running, reports>>

Next ==
    \/ \E u \in Users : expire_stale_validations(u)
    \/ \E p \in Photos : \E mock \in MockModes[p] : create_photo(p, mock)
    \/ \E p \in Photos : delete_photo(p)
    \/ \E w \in Workers, p \in Photos, received \in BOOLEAN : claim_next(w, p, received)
    \/ \E p \in Photos : claim_next_unavailable(p)
    \/ \E m \in reports : apply_result(m)
    \/ \E m \in reports : record_failure_retry(m)
    \/ \E m \in reports : record_failure_final(m)
    \/ \E w \in Workers, outcome \in {"PASSED", "REJECTED", "RETRYABLE", "FATAL"} :
          run_validation_once(w, outcome)
    \/ \E m \in reports : Drop(m)
    \/ \E w \in Workers : Restart(w)
    \/ \E p, q \in Photos : Paired(p, q)
    \/ \E p \in Photos : SearchExpired(p)
    \/ Tick

Spec == Init /\ [][Next]_vars

-----------------------------------------------------------------------------
(* Fairness *)

\* Time passes, whatever else stops.
FairSpec == Spec /\ WF_vars(Tick)

\* The owner keeps opening the app. Nothing is asked of the workers, who may be
\* down for good.
OwnerReturns == \A u \in Users : WF_vars(expire_stale_validations(u))

\* Some worker keeps polling, takes every job (oldest first) and, however often
\* it is restarted, at times gets through a job and its report within the lease.
\* No worker hangs in a job, and no request on its way: HTTP calls time out.
WorkersReturn ==
    /\ WF_vars(\E m \in reports : Drop(m))
    /\ \A w \in Workers :
         WF_vars(\/ Restart(w)
                 \/ \E outcome \in {"PASSED", "REJECTED", "RETRYABLE", "FATAL"} :
                       run_validation_once(w, outcome))
    /\ \A p \in Photos :
         /\ SF_vars(claim_next_unavailable(p) \/ \E w \in Workers : claim_next(w, p, TRUE))
         /\ SF_vars(\E w \in Workers, outcome \in {"PASSED", "REJECTED", "RETRYABLE", "FATAL"} :
                      /\ running[w] = p
                      /\ validation[p].status = "PROCESSING"
                      /\ validation[p].worker_id = w
                      /\ run_validation_once(w, outcome))
         /\ SF_vars(\E m \in reports : /\ m.photo = p
                                       /\ \/ apply_result(m)
                                          \/ record_failure_retry(m)
                                          \/ record_failure_final(m))

-----------------------------------------------------------------------------
(* Properties *)

Live == {"PENDING", "PROCESSING"}

Decided == {"PASSED", "REJECTED", "FAILED"}

\* A photo and its job never contradict each other, whatever order results,
\* failures, timeouts, deletions and reclaims commit in: a photo the owner sees
\* as validating has a job a worker can still finish, a photo in or past the
\* search was passed and has its embedding job, and a passed job never belongs to
\* a photo that was turned down.
JobAgreesWithPhoto ==
    \A p \in Photos :
      LET s == photo[p].status
          v == validation[p].status
      IN  /\ s = "ABSENT" <=> v = "ABSENT"
          /\ s = "VALIDATING" => v \in Live
          /\ s \in {"SEARCHING", "MATCHED", "EXPIRED"} => v = "PASSED"
          /\ s = "REJECTED" => v # "PASSED"
          /\ v = "PASSED" <=> p \in embeddingJob

\* The owner hears one verdict on a photo at most, it is the one the job ended
\* with, and news of the search only follows a pass, however many workers ran the
\* job and however often their reports arrive. A timeout is silent.
OneVerdict ==
    \A p \in Photos :
      LET s == photo[p].status
          v == validation[p].status
          passed == <<"VALIDATION_PASSED">>
          expired == <<"VALIDATION_PASSED", "SEARCH_EXPIRED">>
          rejected == <<"PHOTO_REJECTED">>
      IN  /\ v \in Live \cup {"ABSENT"} => told[p] = <<>>
          /\ v = "REJECTED" => told[p] = rejected
          /\ v = "FAILED" => told[p] \in {<<>>, rejected}
          /\ photo[p].rejection_code = "VALIDATION_TIMEOUT" => told[p] = <<>>
          /\ photo[p].rejection_code = "VALIDATION_FAILED" => told[p] = rejected
          /\ v = "PASSED" =>
               \/ s = "SEARCHING" /\ told[p] = passed
               \/ s = "EXPIRED" /\ told[p] = expired
               \/ s = "MATCHED" /\ told[p] = <<"VALIDATION_PASSED", "MATCHED">>
               \/ s = "DELETED" /\ told[p] \in {passed, expired}

\* A job is put back in the queue only while it has attempts left: record_failure
\* never schedules an attempt beyond max_attempts, also for a job whose attempts
\* were used up by lease expiries.
QueuedWithinBudget ==
    \A p \in Photos : validation[p].status = "PENDING" => validation[p].attempt_count < MaxAttempts

\* A step that ends or hands over a lease that still runs.
LosesLease(p) ==
    /\ validation[p].status = "PROCESSING"
    /\ validation[p].lease_age <= LeaseSeconds
    /\ \/ validation'[p].status # "PROCESSING"
       \/ validation'[p].worker_id # validation[p].worker_id
       \/ validation'[p].attempt_count # validation[p].attempt_count

\* While a lease runs, the row it protects moves only on a report of the worker
\* that holds it: no other worker's claim or late report, no timeout and no
\* deletion takes the job away from it.
LeaseRespected ==
    [][\A p \in Photos :
         LosesLease(p) => \E m \in reports : /\ m.photo = p
                                            /\ m.worker = validation[p].worker_id]_vars

\* The pipeline of the photo implements the lifecycle its owner is promised: a
\* late result never revives a rejected or deleted photo, a matched photo never
\* changes again, and every change but a timeout and a deletion is notified once.
Lifecycle == INSTANCE PhotoLifecycle
               WITH status <- [p \in Photos |-> photo[p].status], told <- told

LifecycleSpec == Lifecycle!Spec

\* A photo never stays in VALIDATING for good, even if no worker ever runs again,
\* as long as its owner keeps coming back.
ValidationEnds ==
    OwnerReturns =>
      \A p \in Photos : photo[p].status = "VALIDATING" ~> photo[p].status # "VALIDATING"

\* Every job reaches a final status, also the jobs of photos that were deleted or
\* timed out meanwhile, as long as workers keep polling.
JobEnds ==
    WorkersReturn => \A p \in Photos : validation[p].status \in Live ~> validation[p].status \in Decided

=============================================================================
